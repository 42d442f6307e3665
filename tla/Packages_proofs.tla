---------------------------- MODULE Packages_proofs ----------------------------
(***************************************************************************)
(* Proofs about the packages: the UUID generators, for a pool of any size  *)
(* and any number of fills; the cookie scanner, for a header of any bytes  *)
(* and any length; and the WebSocket frame parser, for frames of any       *)
(* length and any cut of their bytes into chunks.                          *)
(***************************************************************************)
EXTENDS UuidPool, CookieScanner, WsFrame, FiniteSetTheorems, WellFoundedInduction, TLAPS

\* The offset and the loop counter stay in step: between two identifiers the
\* offset is a multiple of sixteen, in a call it has moved with i, and there
\* are sixteen bytes for every call that began.
PoolInv ==
    /\ call \in {"idle", "text", "raw"}
    /\ fills \in Nat
    /\ poolOffset \in 0..POOL_SIZE
    /\ i \in 0..16
    /\ call = "idle" => \E q \in 0..PoolIds : poolOffset = 16 * q
    /\ call # "idle" => \E q \in 0..(PoolIds - 1) : poolOffset = 16 * q + i
    /\ lastRead[1] \in 0..fills /\ lastRead[2] \in Nat
    /\ lastRead[1] = fills => lastRead[2] < poolOffset

LEMMA PoolSize == POOL_SIZE \in Nat /\ POOL_SIZE = 16 * PoolIds /\ PoolIds \in Nat /\ PoolIds > 0
  BY PoolAssumption DEF POOL_SIZE

LEMMA RefillLeavesRoom ==
  ASSUME PoolInv, call = "idle", Refill
  PROVE  /\ fills' \in Nat /\ fills' >= fills
         /\ \E q \in 0..(PoolIds - 1) : poolOffset' = 16 * q
         /\ lastRead[1] = fills' => lastRead[2] < poolOffset'
<1>1. CASE Exhausted
  BY <1>1, PoolSize DEF Refill, PoolInv
<1>2. CASE ~Exhausted
  <2>1. PICK q \in 0..PoolIds : poolOffset = 16 * q
    BY DEF PoolInv
  <2>2. poolOffset' = poolOffset /\ fills' = fills
    BY <1>2 DEF Refill
  <2>3. q \in 0..(PoolIds - 1)
    BY <1>2, <2>1, PoolSize DEF Exhausted
  <2> QED
    BY <2>1, <2>2, <2>3 DEF PoolInv
<1> QED
  BY <1>1, <1>2

\* A byte is in the pool, and later than every one that was read before.
LEMMA TakeByteInPool ==
  ASSUME PoolInv, call # "idle", TakeByte, fills' = fills, call' = call
  PROVE  /\ PoolInv'
         /\ Later(lastRead', lastRead) /\ lastRead'[2] \in 0 .. POOL_SIZE - 1
<1>1. PICK q \in 0..(PoolIds - 1) : poolOffset = 16 * q + i
  BY DEF PoolInv
<1>2. /\ i \in 0..15 /\ i' = i + 1 /\ poolOffset' = poolOffset + 1
      /\ lastRead' = <<fills, poolOffset>>
  BY DEF TakeByte, PoolInv
<1>3. lastRead'[1] = fills /\ lastRead'[2] = poolOffset
  BY <1>2
<1>4. poolOffset' = 16 * q + i' /\ poolOffset' \in 0..POOL_SIZE /\ poolOffset \in 0..(POOL_SIZE - 1)
  BY <1>1, <1>2, PoolSize
<1>5. PoolInv'
  BY <1>2, <1>3, <1>4 DEF PoolInv, POOL_SIZE
<1>6. Later(lastRead', lastRead)
  BY <1>3 DEF PoolInv, Later
<1> QED
  BY <1>3, <1>4, <1>5, <1>6

LEMMA PoolStep ==
  ASSUME PoolInv, [UuidNext]_uuidVars
  PROVE  /\ PoolInv'
         /\ lastRead' # lastRead => Later(lastRead', lastRead) /\ lastRead'[2] \in 0 .. POOL_SIZE - 1
<1>1. CASE FillEntropy
  <2>1. call' = call /\ call = "idle" /\ i' = i /\ lastRead' = lastRead /\ Refill
    BY <1>1 DEF FillEntropy
  <2> QED
    BY <2>1, RefillLeavesRoom, PoolSize DEF PoolInv, POOL_SIZE
<1>2. ASSUME NEW generator \in {"text", "raw"}, Begin(generator)
      PROVE  PoolInv' /\ lastRead' = lastRead
  <2>1. call' = generator /\ call = "idle" /\ i' = 0 /\ lastRead' = lastRead /\ Refill
    BY <1>2 DEF Begin
  <2>2. PICK q \in 0..(PoolIds - 1) : poolOffset' = 16 * q
    BY <2>1, RefillLeavesRoom
  <2>3. poolOffset' = 16 * q + i' /\ poolOffset' \in 0..POOL_SIZE
    BY <2>1, <2>2, PoolSize
  <2> QED
    BY <2>1, <2>3, RefillLeavesRoom, PoolSize DEF PoolInv, POOL_SIZE
<1>3. CASE TextByte \/ RawByte
  BY <1>3, TakeByteInPool DEF TextByte, RawByte
<1>4. CASE Return
  <2>1. /\ call # "idle" /\ i = 16 /\ call' = "idle"
        /\ UNCHANGED <<poolOffset, fills, i, lastRead>>
    BY <1>4 DEF Return
  <2>2. PICK q \in 0..(PoolIds - 1) : poolOffset = 16 * q + i
    BY <2>1 DEF PoolInv
  <2>3. q + 1 \in 0..PoolIds /\ poolOffset' = 16 * (q + 1)
    BY <2>1, <2>2, PoolSize
  <2> QED
    BY <2>1, <2>3 DEF PoolInv, POOL_SIZE
<1>5. CASE UNCHANGED uuidVars
  BY <1>5 DEF uuidVars, PoolInv, POOL_SIZE
<1> QED
  BY <1>1, <1>2, <1>3, <1>4, <1>5 DEF UuidNext

LEMMA PoolInvHolds == UuidSpec => []PoolInv
<1>1. UuidInit => PoolInv
  <2> SUFFICES ASSUME UuidInit PROVE PoolInv
    OBVIOUS
  <2>1. /\ call = "idle" /\ fills = 0 /\ i = 0 /\ poolOffset = 16 * PoolIds
        /\ lastRead[1] = 0 /\ lastRead[2] = 0
    BY PoolSize DEF UuidInit, Never
  <2> QED
    BY <2>1, PoolSize DEF PoolInv
<1>2. PoolInv /\ [UuidNext]_uuidVars => PoolInv'
  BY PoolStep
<1> QED
  BY <1>1, <1>2, PTL DEF UuidSpec

\* No byte of entropy is used twice and none is read beyond the pool, however
\* large it is and however calls of the two generators follow each other.
THEOREM EntropyIsReadOnce == UuidSpec => EntropyReadOnce
<1>1. PoolInv /\ [UuidNext]_uuidVars =>
        [lastRead' # lastRead => Later(lastRead', lastRead) /\ lastRead'[2] \in 0 .. POOL_SIZE - 1]_uuidVars
  BY PoolStep
<1> QED
  BY <1>1, PoolInvHolds, PTL DEF UuidSpec, EntropyReadOnce

-----------------------------------------------------------------------------
(* The shared results *)

\* Where the writer of the text form stands before byte k.
NextIndex(k) == IF k = 0 THEN 0 ELSE TextPlace(k - 1) + 2

\* The first m bytes of a result stem from byte b of fill f onwards.
TextHolds(m, f, b) ==
    \A k \in 0..(m - 1) :
        /\ outBuffer[TextPlace(k)] = [ch |-> HighNibble(k), from |-> <<f, b + k>>]
        /\ outBuffer[TextPlace(k) + 1] = [ch |-> "hex", from |-> <<f, b + k>>]
RawHolds(m, f, b) ==
    \A k \in 0..(m - 1) : rawBuffer[k] = [ch |-> HighNibble(k), from |-> <<f, b + k>>]

TextInv ==
    /\ DOMAIN outBuffer = 0..35
    /\ \A p \in Hyphens : outBuffer[p] = Hyphen
    /\ call = "text" => outIndex = NextIndex(i) /\ TextHolds(i, fills, poolOffset - i)
    /\ call # "text" => outBuffer[0] = Blank \/ \E f, b \in Nat : TextHolds(16, f, b)

RawInv ==
    /\ DOMAIN rawBuffer = 0..15
    /\ call = "raw" => RawHolds(i, fills, poolOffset - i)
    /\ call # "raw" => rawBuffer[0] = Blank \/ \E f, b \in Nat : RawHolds(16, f, b)

ResultInv == PoolInv /\ TextInv /\ RawInv

\* The writer skips a hyphen exactly where the format has one.
LEMMA SkipsToPlace ==
  ASSUME NEW k \in 0..15
  PROVE  /\ SkipHyphen(NextIndex(k)) = TextPlace(k)
         /\ NextIndex(k + 1) = TextPlace(k) + 2
<1>1. NextIndex(k + 1) = TextPlace(k) + 2
  BY DEF NextIndex
<1>2. k \in {0, 1, 2, 3, 4, 5, 6, 7, 8, 9, 10, 11, 12, 13, 14, 15}
  OBVIOUS
<1>3. SkipHyphen(NextIndex(k)) = TextPlace(k)
  BY <1>2 DEF SkipHyphen, NextIndex, TextPlace, Hyphens
<1> QED
  BY <1>1, <1>3

\* No two bytes share a place, none lies on a hyphen, and every other place
\* belongs to a byte.
LEMMA PlacesApart ==
  ASSUME NEW k \in 0..15
  PROVE  /\ TextPlace(k) \in (0..34) \ Hyphens /\ TextPlace(k) + 1 \in (0..35) \ Hyphens
         /\ \A m \in 0..(k - 1) : TextPlace(m) \in 0..35 /\ TextPlace(m) + 1 < TextPlace(k)
<1>1. k \in {0, 1, 2, 3, 4, 5, 6, 7, 8, 9, 10, 11, 12, 13, 14, 15}
  OBVIOUS
<1>2. TextPlace(k) \in (0..34) \ Hyphens /\ TextPlace(k) + 1 \in (0..35) \ Hyphens
  BY <1>1 DEF TextPlace, Hyphens
<1>3. \A m \in 0..(k - 1) : TextPlace(m) \in 0..35 /\ TextPlace(m) + 1 < TextPlace(k)
  BY DEF TextPlace
<1> QED
  BY <1>2, <1>3

LEMMA PlacesCover ==
  ASSUME NEW p \in 0..35, p \notin Hyphens
  PROVE  \E k \in 0..15 : p = TextPlace(k) \/ p = TextPlace(k) + 1
<1> DEFINE s == IF p < 8 THEN 0 ELSE IF p < 13 THEN 1 ELSE IF p < 18 THEN 2 ELSE IF p < 23 THEN 3 ELSE 4
           k == (p - s) \div 2
<1>1. k \in 0..15 /\ (p - s = 2 * k \/ p - s = 2 * k + 1)
  OBVIOUS
<1>2. p = TextPlace(k) \/ p = TextPlace(k) + 1
  BY <1>1 DEF TextPlace, Hyphens
<1> QED
  BY <1>1, <1>2

LEMMA TextByteKeeps ==
  ASSUME ResultInv, TextByte
  PROVE  TextInv'
<1>1. /\ call = "text" /\ call' = "text" /\ i \in 0..15 /\ i' = i + 1
      /\ fills' = fills /\ fills \in Nat /\ poolOffset' = poolOffset + 1 /\ poolOffset \in Nat
  BY PoolSize DEF TextByte, TakeByte, ResultInv, PoolInv
<1> DEFINE P == TextPlace(i)
           hi == [ch |-> HighNibble(i), from |-> <<fills, poolOffset>>]
           lo == [ch |-> "hex", from |-> <<fills, poolOffset>>]
<1>2. SkipHyphen(outIndex) = P /\ NextIndex(i + 1) = P + 2
  BY <1>1, SkipsToPlace DEF ResultInv, TextInv
<1>3. /\ outBuffer' = [outBuffer EXCEPT ![P] = hi, ![P + 1] = lo]
      /\ outIndex' = P + 2
  BY <1>2 DEF TextByte, Digit
<1>4. /\ P \in (0..34) \ Hyphens /\ P + 1 \in (0..35) \ Hyphens
      /\ \A m \in 0..(i - 1) : TextPlace(m) \in 0..35 /\ TextPlace(m) + 1 < P
  BY <1>1, PlacesApart
<1>5. DOMAIN outBuffer = 0..35 /\ TextHolds(i, fills, poolOffset - i)
      /\ \A p \in Hyphens : outBuffer[p] = Hyphen
  BY <1>1 DEF ResultInv, TextInv
<1> HIDE DEF P, hi, lo
<1>6. /\ DOMAIN outBuffer' = 0..35
      /\ outBuffer'[P] = hi /\ outBuffer'[P + 1] = lo
      /\ \A p \in 0..35 : p # P /\ p # P + 1 => outBuffer'[p] = outBuffer[p]
  BY <1>3, <1>4, <1>5
<1>7. \A p \in Hyphens : outBuffer'[p] = Hyphen
  BY <1>4, <1>5, <1>6 DEF Hyphens
<1>8. ASSUME NEW k \in 0..i
      PROVE  /\ outBuffer'[TextPlace(k)] = [ch |-> HighNibble(k), from |-> <<fills, (poolOffset - i) + k>>]
             /\ outBuffer'[TextPlace(k) + 1] = [ch |-> "hex", from |-> <<fills, (poolOffset - i) + k>>]
  <2>1. CASE k = i
    <3>1. (poolOffset - i) + k = poolOffset
      BY <2>1, <1>1
    <3> QED
      BY <2>1, <3>1, <1>6 DEF P, hi, lo
  <2>2. CASE k # i
    <3>1. k \in 0..(i - 1)
      BY <2>2, <1>1
    <3>2. /\ TextPlace(k) \in 0..35 /\ TextPlace(k) + 1 \in 0..35
          /\ TextPlace(k) < P /\ TextPlace(k) + 1 < P
      BY <3>1, <1>4
    <3>3. /\ outBuffer'[TextPlace(k)] = outBuffer[TextPlace(k)]
          /\ outBuffer'[TextPlace(k) + 1] = outBuffer[TextPlace(k) + 1]
      BY <3>2, <1>4, <1>6
    <3> QED
      BY <3>1, <3>3, <1>5 DEF TextHolds
  <2> QED
    BY <2>1, <2>2
<1>9. poolOffset' - i' = poolOffset - i /\ 0..(i' - 1) = 0..i
  BY <1>1
<1>10. TextHolds(i, fills, poolOffset - i)'
  <2>1. \A k : TextPlace(k)' = TextPlace(k) /\ HighNibble(k)' = HighNibble(k)
    BY DEF TextPlace, HighNibble
  <2> QED
    BY ONLY <1>8, <1>9, <1>1, <2>1 DEF TextHolds
<1>11. outIndex' = NextIndex(i)'
  BY <1>1, <1>2, <1>3 DEF NextIndex, TextPlace
<1> QED
  BY <1>1, <1>6, <1>7, <1>10, <1>11 DEF TextInv, Hyphens, Hyphen, Never

LEMMA RawByteKeeps ==
  ASSUME ResultInv, RawByte
  PROVE  RawInv'
<1>1. /\ call = "raw" /\ call' = "raw" /\ i \in 0..15 /\ i' = i + 1
      /\ fills' = fills /\ fills \in Nat /\ poolOffset' = poolOffset + 1 /\ poolOffset \in Nat
      /\ rawBuffer' = [rawBuffer EXCEPT ![i] = Digit(HighNibble(i))]
  BY PoolSize DEF RawByte, TakeByte, ResultInv, PoolInv
<1>2. DOMAIN rawBuffer = 0..15 /\ RawHolds(i, fills, poolOffset - i)
  BY <1>1 DEF ResultInv, RawInv
<1>3. DOMAIN rawBuffer' = 0..15 /\ rawBuffer'[i] = Digit(HighNibble(i))
      /\ \A k \in 0..(i - 1) : rawBuffer'[k] = rawBuffer[k]
  BY <1>1, <1>2
<1>4. poolOffset' - i' = poolOffset - i /\ 0..(i' - 1) = (0..(i - 1)) \cup {i}
      /\ (poolOffset - i) + i = poolOffset
  BY <1>1
<1>5. RawHolds(i, fills, poolOffset - i)'
  BY <1>1, <1>2, <1>3, <1>4 DEF RawHolds, Digit, HighNibble
<1> QED
  BY <1>1, <1>3, <1>5 DEF RawInv

\* A step that leaves a result alone keeps what is known of it, if the call
\* that writes it neither runs before nor after, or has come to its end.
LEMMA TextKept ==
  ASSUME TextInv, UNCHANGED <<outBuffer>>, call' # "text",
         call # "text" \/ (i = 16 /\ fills \in Nat /\ poolOffset - i \in Nat)
  PROVE  TextInv'
<1>1. call # "text" => outBuffer[0] = Blank \/ \E f, b \in Nat : TextHolds(16, f, b)
  BY DEF TextInv
<1>2. outBuffer[0] = Blank \/ \E f, b \in Nat : TextHolds(16, f, b)
  BY <1>1 DEF TextInv
<1>3. outBuffer' = outBuffer /\ DOMAIN outBuffer = 0..35 /\ \A p \in Hyphens : outBuffer[p] = Hyphen
  BY DEF TextInv
<1>4. \A f, b : TextHolds(16, f, b) => TextHolds(16, f, b)'
  <2>1. \A k : TextPlace(k)' = TextPlace(k) /\ HighNibble(k)' = HighNibble(k)
    BY DEF TextPlace, HighNibble
  <2> QED
    BY ONLY <1>3, <2>1 DEF TextHolds
<1>5. Blank' = Blank /\ Hyphen' = Hyphen /\ Hyphens' = Hyphens
  BY DEF Blank, Hyphen, Hyphens, Never
<1>6. (outBuffer[0] = Blank)' \/ \E f, b \in Nat : TextHolds(16, f, b)'
  BY <1>2, <1>3, <1>4, <1>5
<1>7. (DOMAIN outBuffer)' = 0..35 /\ \A p \in Hyphens : (outBuffer[p] = Hyphen)'
  BY <1>3, <1>5
<1> QED
  BY <1>5, <1>6, <1>7 DEF TextInv

LEMMA RawKept ==
  ASSUME RawInv, UNCHANGED <<rawBuffer>>, call' # "raw",
         call # "raw" \/ (i = 16 /\ fills \in Nat /\ poolOffset - i \in Nat)
  PROVE  RawInv'
<1>1. call # "raw" => rawBuffer[0] = Blank \/ \E f, b \in Nat : RawHolds(16, f, b)
  BY DEF RawInv
<1>2. rawBuffer[0] = Blank \/ \E f, b \in Nat : RawHolds(16, f, b)
  BY <1>1 DEF RawInv
<1> QED
  BY <1>2 DEF RawInv, RawHolds, Blank, Never, HighNibble

LEMMA ResultInvHolds == UuidSpec => []ResultInv
<1>1. UuidInit => TextInv /\ RawInv
  BY DEF UuidInit, TextInv, RawInv, Hyphens, Hyphen, Blank, Never
<1>2. ResultInv /\ [UuidNext]_uuidVars => TextInv' /\ RawInv'
  <2> SUFFICES ASSUME ResultInv, [UuidNext]_uuidVars PROVE TextInv' /\ RawInv'
    OBVIOUS
  <2> USE DEF ResultInv
  <2>1. CASE FillEntropy
    BY <2>1, TextKept, RawKept DEF FillEntropy
  <2>2. ASSUME Begin("text") PROVE TextInv' /\ RawInv'
    <3>1. /\ call = "idle" /\ call' = "text" /\ i' = 0 /\ outIndex' = 0
          /\ UNCHANGED <<outBuffer, rawBuffer>>
      BY <2>2 DEF Begin
    <3>2. TextInv'
      <4>1. outIndex' = NextIndex(i)'
        BY <3>1 DEF NextIndex
      <4>2. TextHolds(i, fills, poolOffset - i)'
        BY <3>1 DEF TextHolds
      <4>3. Hyphen' = Hyphen /\ Hyphens' = Hyphens
        BY DEF Hyphen, Hyphens, Never
      <4> QED
        BY <3>1, <4>1, <4>2, <4>3 DEF TextInv
    <3> QED
      BY <3>1, <3>2, RawKept
  <2>3. ASSUME Begin("raw") PROVE TextInv' /\ RawInv'
    <3>1. /\ call = "idle" /\ call' = "raw" /\ i' = 0
          /\ UNCHANGED <<outBuffer, rawBuffer>>
      BY <2>3 DEF Begin
    <3>2. RawInv'
      BY <3>1 DEF RawInv, RawHolds
    <3> QED
      BY <3>1, <3>2, TextKept
  <2>4. CASE TextByte
    <3>1. call # "raw" /\ call' # "raw" /\ UNCHANGED <<rawBuffer>>
      BY <2>4 DEF TextByte
    <3> QED
      BY <2>4, <3>1, TextByteKeeps, RawKept
  <2>5. CASE RawByte
    <3>1. call # "text" /\ call' # "text" /\ UNCHANGED <<outBuffer>>
      BY <2>5 DEF RawByte
    <3> QED
      BY <2>5, <3>1, RawByteKeeps, TextKept
  <2>6. CASE Return
    <3>1. /\ call # "idle" /\ i = 16 /\ call' = "idle" /\ fills \in Nat
          /\ UNCHANGED <<outBuffer, rawBuffer>>
      BY <2>6 DEF Return, PoolInv
    <3>2. poolOffset - i \in Nat
      BY <3>1, PoolSize DEF PoolInv
    <3> QED
      BY <3>1, <3>2, TextKept, RawKept
  <2>7. CASE UNCHANGED uuidVars
    BY <2>7 DEF uuidVars, TextInv, RawInv, TextHolds, RawHolds, NextIndex, TextPlace, Hyphens,
                Hyphen, Blank, Never, HighNibble
  <2> QED
    BY <2>1, <2>2, <2>3, <2>4, <2>5, <2>6, <2>7 DEF UuidNext
<1> QED
  BY <1>1, <1>2, PoolInvHolds, PTL DEF UuidSpec, ResultInv

\* What a caller is given is one whole identifier, whatever the shared buffers
\* held before and wherever in the pool the sixteen bytes come from.
THEOREM ResultsAreWhole == UuidSpec => []UuidWhole
<1>1. ASSUME TextInv PROVE TextWhole
  <2> SUFFICES ASSUME call # "text", outBuffer[0] # Blank
               PROVE  /\ \A p \in 0..35 : CASE p \in Hyphens -> outBuffer[p] = Hyphen
                                            [] p = 14        -> outBuffer[p].ch = "4"
                                            [] p = 19        -> outBuffer[p].ch = "8..b"
                                            [] OTHER         -> outBuffer[p].ch = "hex"
                      /\ \A k \in 0..15 : outBuffer[TextPlace(k)].from = outBuffer[TextPlace(k) + 1].from
                      /\ OneDraw([k \in 0..15 |-> outBuffer[TextPlace(k)].from])
    BY DEF TextWhole
  <2>1. PICK f, b \in Nat : TextHolds(16, f, b)
    BY <1>1 DEF TextInv
  <2>2. \A k \in 0..15 :
          /\ outBuffer[TextPlace(k)].ch = HighNibble(k) /\ outBuffer[TextPlace(k) + 1].ch = "hex"
          /\ outBuffer[TextPlace(k)].from = <<f, b + k>>
          /\ outBuffer[TextPlace(k) + 1].from = <<f, b + k>>
    <3> TAKE k \in 0..15
    <3>1. k \in 0..(16 - 1)
      OBVIOUS
    <3>2. /\ outBuffer[TextPlace(k)] = [ch |-> HighNibble(k), from |-> <<f, b + k>>]
          /\ outBuffer[TextPlace(k) + 1] = [ch |-> "hex", from |-> <<f, b + k>>]
      BY ONLY <2>1, <3>1 DEF TextHolds
    <3> QED
      BY ONLY <3>2
  <2>3. OneDraw([k \in 0..15 |-> outBuffer[TextPlace(k)].from])
    BY <2>2 DEF OneDraw
  <2>4. ASSUME NEW p \in 0..35, p \notin Hyphens
        PROVE  outBuffer[p].ch = IF p = 14 THEN "4" ELSE IF p = 19 THEN "8..b" ELSE "hex"
    <3>1. PICK k \in 0..15 : p = TextPlace(k) \/ p = TextPlace(k) + 1
      BY <2>4, PlacesCover
    <3>2. CASE p = TextPlace(k)
      <4>1. (p = 14 <=> k = 6) /\ (p = 19 <=> k = 8)
        BY <3>2 DEF TextPlace
      <4> QED
        BY <4>1, <3>2, <2>2 DEF HighNibble
    <3>3. CASE p = TextPlace(k) + 1
      <4>1. p # 14 /\ p # 19
        BY <3>3 DEF TextPlace
      <4> QED
        BY <4>1, <3>3, <2>2
    <3> QED
      BY <3>1, <3>2, <3>3
  <2>5. \A p \in Hyphens : outBuffer[p] = Hyphen
    BY <1>1 DEF TextInv
  <2>6. 14 \notin Hyphens /\ 19 \notin Hyphens
    BY DEF Hyphens
  <2>7. ASSUME NEW p \in 0..35
        PROVE  CASE p \in Hyphens -> outBuffer[p] = Hyphen
                 [] p = 14        -> outBuffer[p].ch = "4"
                 [] p = 19        -> outBuffer[p].ch = "8..b"
                 [] OTHER         -> outBuffer[p].ch = "hex"
    <3>1. CASE p \in Hyphens
      <4>1. p # 14 /\ p # 19 /\ outBuffer[p] = Hyphen
        BY <3>1, <2>5, <2>6
      <4> QED
        BY ONLY <3>1, <4>1
    <3>2. CASE p \notin Hyphens
      BY ONLY <3>2, <2>4, <2>7
    <3> QED
      BY <3>1, <3>2
  <2>8. \A k \in 0..15 : outBuffer[TextPlace(k)].from = outBuffer[TextPlace(k) + 1].from
    BY ONLY <2>2
  <2> QED
    BY ONLY <2>3, <2>7, <2>8
<1>2. ASSUME RawInv PROVE RawWhole
  <2> SUFFICES ASSUME call # "raw", rawBuffer[0] # Blank
               PROVE  /\ \A k \in 0..15 : rawBuffer[k].ch = HighNibble(k)
                      /\ OneDraw([k \in 0..15 |-> rawBuffer[k].from])
    BY DEF RawWhole
  <2>1. PICK f, b \in Nat : RawHolds(16, f, b)
    BY <1>2 DEF RawInv
  <2>2. \A k \in 0..15 : rawBuffer[k].ch = HighNibble(k) /\ rawBuffer[k].from = <<f, b + k>>
    <3>1. 0..(16 - 1) = 0..15
      OBVIOUS
    <3>2. \A k \in 0..15 : rawBuffer[k] = [ch |-> HighNibble(k), from |-> <<f, b + k>>]
      BY ONLY <2>1, <3>1 DEF RawHolds
    <3> QED
      BY ONLY <3>2
  <2> DEFINE source == [k \in 0..15 |-> rawBuffer[k].from]
  <2>3. \A k \in 0..15 : source[k] = <<f, b + k>> /\ source[k][1] = f /\ source[k][2] = b + k
    BY <2>2
  <2>4. source[0][1] = f /\ source[0][2] = b
    BY <2>3
  <2> HIDE DEF source
  <2>5. OneDraw(source)
    BY <2>3, <2>4 DEF OneDraw
  <2> QED
    BY <2>2, <2>5 DEF source
<1> QED
  BY <1>1, <1>2, ResultInvHolds, PTL DEF UuidWhole, ResultInv

-----------------------------------------------------------------------------
(***************************************************************************)
(* The cookie scanner, for headers of any length.  The argument: between   *)
(* two passes of the outer loop the scan stands at the start of a segment, *)
(* the pointers found so far are those of the segments before it, as many  *)
(* and in the same order, and one pass turns the next segment into one     *)
(* pointer.                                                                *)
(***************************************************************************)

\* A set of naturals has a least element.
LEMMA LeastExists ==
  ASSUME NEW S, S \subseteq Nat, S # {}
  PROVE  LET x == CHOOSE s \in S : \A r \in S : s <= r
         IN  x \in S /\ \A r \in S : x <= r
<1>1. PICK x \in S : \A y \in S : ~(<<y, x>> \in OpToRel(<, Nat))
  BY NatLessThanWellFounded, WFMin
<1>2. ASSUME NEW y \in S PROVE x <= y
  <2>1. x \in Nat /\ y \in Nat
    OBVIOUS
  <2>2. ~(y < x)
    BY <1>1, <2>1 DEF OpToRel
  <2> QED
    BY <2>1, <2>2
<1> QED
  BY <1>2

\* A header is a sequence of bytes.
HeaderOK == header \in Seq(Bytes)

LEMMA HeaderTypes ==
  ASSUME HeaderOK
  PROVE  /\ len \in Nat
         /\ \A k \in 0..(len - 1) : At(k) \in Bytes
  BY DEF HeaderOK, len, At

LEMMA FirstFromFinds ==
  ASSUME HeaderOK, NEW k \in 0..len, NEW stop
  PROVE  /\ FirstFrom(k, stop) \in k..len
         /\ FirstFrom(k, stop) = len \/ At(FirstFrom(k, stop)) \in stop
         /\ \A m \in k..(FirstFrom(k, stop) - 1) : At(m) \notin stop
<1> DEFINE S == {j \in k..len : j = len \/ At(j) \in stop}
<1>1. len \in Nat /\ k \in Nat
  BY HeaderTypes
<1>2. S \subseteq Nat /\ len \in S
  BY <1>1
<1> HIDE DEF S
<1>3. PICK j \in S : \A r \in S : j <= r
  BY <1>2, LeastExists
<1>4. /\ j \in k..len
      /\ j = len \/ At(j) \in stop
      /\ \A m \in k..(j - 1) : At(m) \notin stop
  <2>1. j \in k..len /\ (j = len \/ At(j) \in stop)
    BY DEF S
  <2>2. ASSUME NEW m \in k..(j - 1), At(m) \in stop PROVE FALSE
    <3>1. m \in S /\ ~(j <= m)
      BY <1>1, <2>1, <2>2 DEF S
    <3> QED
      BY <1>3, <3>1
  <2> QED
    BY <2>1, <2>2
<1> QED
  BY <1>4, Zenon DEF FirstFrom

LEMMA TrimEndFinds ==
  ASSUME HeaderOK, NEW start \in Nat, NEW end \in Nat, start <= end, end <= len
  PROVE  /\ TrimEnd(start, end) \in start..end
         /\ TrimEnd(start, end) = start \/ At(TrimEnd(start, end) - 1) # SPACE
         /\ \A m \in TrimEnd(start, end)..(end - 1) : At(m) = SPACE
<1> DEFINE S == {j \in start..end : \A m \in j..(end - 1) : At(m) = SPACE}
<1>1. len \in Nat /\ start \in Nat /\ end \in Nat
  BY HeaderTypes
<1>2. S \subseteq Nat /\ end \in S
  BY <1>1
<1> HIDE DEF S
<1>3. PICK j \in S : \A r \in S : j <= r
  BY <1>2, LeastExists
<1>4. /\ j \in start..end
      /\ j = start \/ At(j - 1) # SPACE
      /\ \A m \in j..(end - 1) : At(m) = SPACE
  <2>1. j \in start..end /\ \A m \in j..(end - 1) : At(m) = SPACE
    BY DEF S
  <2>2. ASSUME j # start, At(j - 1) = SPACE PROVE FALSE
    <3>1. j - 1 \in start..end /\ ~(j <= j - 1)
      BY <1>1, <2>1, <2>2
    <3>2. \A m \in (j - 1)..(end - 1) : m = j - 1 \/ m \in j..(end - 1)
      BY <1>1, <2>1
    <3>3. j - 1 \in S
      BY <2>1, <2>2, <3>1, <3>2 DEF S
    <3> QED
      BY <1>3, <3>1, <3>3
  <2> QED
    BY <2>1, <2>2
<1> QED
  BY <1>4, Zenon DEF TrimEnd

LEMMA TextOf ==
  ASSUME HeaderOK, NEW from \in Nat, NEW to \in Nat, from <= to, to <= len
  PROVE  Len(Text(from, to)) = to - from /\ (from = to => Text(from, to) = <<>>)
  BY HeaderTypes DEF HeaderOK, Text, len

\* What lies between two places without the spaces around it, by where it
\* begins and ends.
LEMMA TrimmedText ==
  ASSUME HeaderOK, NEW from \in Nat, NEW a \in Nat, NEW b \in Nat, NEW to \in Nat,
         from <= a, a <= b, b <= to, to <= len,
         a = to \/ At(a) # SPACE, \A m \in from..(a - 1) : At(m) = SPACE,
         b = a \/ At(b - 1) # SPACE, \A m \in b..(to - 1) : At(m) = SPACE
  PROVE  Trimmed(from, to) = Text(a, b)
<1> DEFINE solid == {m \in from..(to - 1) : At(m) # SPACE}
<1>1. len \in Nat
  BY HeaderTypes
<1>2. ASSUME NEW m \in solid
      PROVE  m \in from..(to - 1) /\ m \in Nat /\ a <= m /\ m <= b - 1
  <2>1. m \in from..(to - 1) /\ At(m) # SPACE /\ m \in Int
    OBVIOUS
  <2>2. m \notin from..(a - 1) /\ m \notin b..(to - 1)
    BY <2>1
  <2> QED
    BY <1>1, <2>1, <2>2
<1>3. CASE a = b
  <2>1. solid = {}
    BY <1>1, <1>2, <1>3
  <2> QED
    BY <1>1, <1>3, <2>1, TextOf DEF Trimmed
<1>4. CASE a # b
  <2>1. a \in solid /\ b - 1 \in solid
    BY <1>1, <1>4
  <2> HIDE DEF solid
  <2>2. a = CHOOSE m \in solid : \A k \in solid : m <= k
    <3>1. solid \subseteq Nat /\ solid # {}
      BY <1>2, <2>1
    <3>2. PICK x \in solid : x = (CHOOSE m \in solid : \A k \in solid : m <= k) /\ \A k \in solid : x <= k
      BY <3>1, LeastExists
    <3>3. x <= a /\ a <= x
      BY <1>2, <2>1, <3>2
    <3> QED
      BY <1>1, <1>2, <3>2, <3>3
  <2>3. b - 1 = CHOOSE m \in solid : \A k \in solid : m >= k
    <3>1. \A k \in solid : b - 1 >= k
      BY <1>1, <1>2
    <3>2. ASSUME NEW x \in solid, \A k \in solid : x >= k PROVE x = b - 1
      <4>1. x >= b - 1 /\ x <= b - 1 /\ x \in Nat
        BY <1>2, <2>1, <3>2
      <4> QED
        BY <1>1, <4>1
    <3> QED
      BY <2>1, <3>1, <3>2
  <2>4. Trimmed(from, to) = Text(CHOOSE m \in solid : \A k \in solid : m <= k,
                                 1 + CHOOSE m \in solid : \A k \in solid : m >= k)
    BY <2>1 DEF Trimmed, solid
  <2>5. 1 + (b - 1) = b
    BY <1>1
  <2> QED
    BY <2>2, <2>3, <2>4, <2>5
<1> QED
  BY <1>3, <1>4

-----------------------------------------------------------------------------
(* One cookie *)

LEMMA FirstSolid ==
  ASSUME HeaderOK, NEW k \in 0..len
  PROVE  /\ FirstFrom(k, NoSpace) \in Nat
         /\ k <= FirstFrom(k, NoSpace) /\ FirstFrom(k, NoSpace) <= len
         /\ FirstFrom(k, NoSpace) = len \/ At(FirstFrom(k, NoSpace)) # SPACE
         /\ \A m \in k..(FirstFrom(k, NoSpace) - 1) : At(m) = SPACE
<1> DEFINE f == FirstFrom(k, NoSpace)
<1>1. /\ f \in k..len
      /\ f = len \/ At(f) \in NoSpace
      /\ \A m \in k..(f - 1) : At(m) \notin NoSpace
  BY FirstFromFinds
<1>2. len \in Nat /\ k \in Nat /\ \A m \in 0..(len - 1) : At(m) \in Bytes
  BY HeaderTypes
<1> HIDE DEF f
<1>3. ASSUME NEW m \in k..(f - 1) PROVE At(m) = SPACE
  <2>1. m \in 0..(len - 1)
    BY <1>1, <1>2
  <2> QED
    BY <1>1, <1>2, <2>1 DEF NoSpace
<1>4. f = len \/ At(f) # SPACE
  BY <1>1 DEF NoSpace
<1>5. f \in Nat /\ k <= f /\ f <= len
  BY <1>1, <1>2
<1> QED
  BY <1>3, <1>4, <1>5 DEF f

\* A pass of the outer loop that starts at p reads the segment from p to the
\* next semicolon: what it finds is that segment, split and trimmed.
SegmentEnd(p) == FirstFrom(p, {SEMICOLON})

LEMMA ScanReadsSegment ==
  ASSUME HeaderOK, NEW p \in Nat, p <= len,
         NEW s, s = FirstFrom(p, NoSpace), s < len,
         NEW e, e = SegmentEnd(p),
         NEW c, c = ScanCookie(s)
  PROVE  /\ e \in Nat /\ p <= e /\ e <= len /\ c.stop = e
         /\ c.keyStart = s /\ p <= s
         /\ c.keyEnd \in Nat /\ s <= c.keyEnd
         /\ c.valStart \in Nat /\ c.keyEnd <= c.valStart
         /\ c.valEnd \in Nat /\ c.valStart <= c.valEnd /\ c.valEnd <= e
         /\ SplitAt(<<p, e>>) = [key |-> Text(c.keyStart, c.keyEnd), value |-> Text(c.valStart, c.valEnd)]
<1>1. len \in Nat /\ p \in 0..len
  BY HeaderTypes
<1>2. /\ s \in Nat /\ p <= s /\ At(s) # SPACE
      /\ \A m \in p..(s - 1) : At(m) = SPACE
  BY <1>1, FirstSolid
<1>3. /\ e \in Nat /\ p <= e /\ e <= len
      /\ e = len \/ At(e) = SEMICOLON
      /\ \A m \in p..(e - 1) : At(m) # SEMICOLON
  <2>1. /\ e \in p..len
        /\ e = len \/ At(e) \in {SEMICOLON}
        /\ \A m \in p..(e - 1) : At(m) \notin {SEMICOLON}
    BY <1>1, FirstFromFinds DEF SegmentEnd
  <2> QED
    BY <1>1, <2>1
<1>4. s <= e
  <2>1. ASSUME e < s PROVE FALSE
    <3>1. e \in p..(s - 1) /\ At(e) = SPACE /\ At(e) = SEMICOLON
      BY <1>1, <1>2, <1>3, <2>1
    <3> QED
      BY <3>1 DEF SPACE, SEMICOLON
  <2> QED
    BY <1>2, <1>3, <2>1
<1> DEFINE stop == FirstFrom(s, {EQUALS, SEMICOLON})
           keyEnd == TrimEnd(s, stop)
           valStart == FirstFrom(stop + 1, NoSpace)
           valStop == FirstFrom(valStart, {SEMICOLON})
           valEnd == TrimEnd(valStart, valStop)
<1>5. /\ stop \in Nat /\ s <= stop /\ stop <= e
      /\ stop = len \/ At(stop) = EQUALS \/ At(stop) = SEMICOLON
      /\ \A m \in s..(stop - 1) : At(m) # EQUALS /\ At(m) # SEMICOLON
  <2>1. /\ stop \in s..len
        /\ stop = len \/ At(stop) \in {EQUALS, SEMICOLON}
        /\ \A m \in s..(stop - 1) : At(m) \notin {EQUALS, SEMICOLON}
    BY <1>1, <1>2, FirstFromFinds
  <2> HIDE DEF stop
  <2>2. ~(e < stop)
    BY <1>1, <1>2, <1>3, <1>4, <2>1
  <2> QED
    BY <1>1, <1>2, <1>3, <2>1, <2>2
<1>6. /\ keyEnd \in Nat /\ s <= keyEnd /\ keyEnd <= stop
      /\ keyEnd = s \/ At(keyEnd - 1) # SPACE
      /\ \A m \in keyEnd..(stop - 1) : At(m) = SPACE
  <2> HIDE DEF stop
  <2>1. stop <= len
    BY <1>1, <1>3, <1>5
  <2>2. /\ keyEnd \in s..stop
        /\ keyEnd = s \/ At(keyEnd - 1) # SPACE
        /\ \A m \in keyEnd..(stop - 1) : At(m) = SPACE
    BY <1>2, <1>5, <2>1, TrimEndFinds
  <2> QED
    BY <1>2, <1>5, <2>2
<1> HIDE DEF stop, keyEnd
<1>7. Trimmed(p, stop) = Text(s, keyEnd)
  <2>1. s = stop \/ At(s) # SPACE
    BY <1>2
  <2>2. stop <= len
    BY <1>1, <1>3, <1>5
  <2> QED
    BY <1>2, <1>5, <1>6, <2>1, <2>2, TrimmedText
<1>8. \A m \in p..(stop - 1) : At(m) # EQUALS
  <2> TAKE m \in p..(stop - 1)
  <2>1. m \in p..(s - 1) \/ m \in s..(stop - 1)
    BY <1>2, <1>5
  <2>2. SPACE # EQUALS
    BY DEF SPACE, EQUALS
  <2> QED
    BY <1>2, <1>5, <2>1, <2>2
<1> DEFINE equals == {m \in p..(e - 1) : At(m) = EQUALS}
<1>9. SplitAt(<<p, e>>) =
         IF equals = {} THEN [key |-> Trimmed(p, e), value |-> <<>>]
         ELSE LET first == CHOOSE m \in equals : \A k \in equals : m <= k
              IN  [key |-> Trimmed(p, first), value |-> Trimmed(first + 1, e)]
  BY DEF SplitAt
<1>10. CASE stop < len /\ At(stop) = EQUALS
  <2>1. stop < e /\ stop \in equals
    <3>1. stop # e
      <4>1. EQUALS # SEMICOLON
        BY DEF EQUALS, SEMICOLON
      <4> QED
        BY <1>3, <1>10, <4>1
    <3> QED
      BY <1>2, <1>3, <1>5, <1>10, <3>1
  <2>2. \A m \in equals : m \in Nat /\ stop <= m
    <3> TAKE m \in equals
    <3>1. m \in p..(e - 1) /\ At(m) = EQUALS
      OBVIOUS
    <3>2. m \notin p..(stop - 1)
      BY <1>8, <3>1
    <3> QED
      BY <1>5, <3>1, <3>2
  <2>3. stop = CHOOSE m \in equals : \A k \in equals : m <= k
    <3> HIDE DEF equals
    <3>1. ASSUME NEW x \in equals, \A k \in equals : x <= k PROVE x = stop
      BY <1>5, <2>1, <2>2, <3>1
    <3> QED
      BY <2>1, <2>2, <3>1
  <2>4. SplitAt(<<p, e>>) = [key |-> Trimmed(p, stop), value |-> Trimmed(stop + 1, e)]
    <3>1. equals # {}
      BY <2>1
    <3> HIDE DEF equals
    <3> QED
      BY <1>9, <2>3, <3>1
  <2> HIDE DEF equals
  <2>5. /\ valStart \in Nat /\ stop + 1 <= valStart /\ valStart <= e
        /\ valStart = e \/ At(valStart) # SPACE
        /\ \A m \in (stop + 1)..(valStart - 1) : At(m) = SPACE
    <3>1. stop + 1 \in 0..len
      BY <1>1, <1>3, <1>5, <2>1
    <3>2. /\ valStart \in Nat /\ stop + 1 <= valStart /\ valStart <= len
          /\ valStart = len \/ At(valStart) # SPACE
          /\ \A m \in (stop + 1)..(valStart - 1) : At(m) = SPACE
      BY <3>1, FirstSolid
    <3> HIDE DEF valStart
    <3>3. ASSUME e < valStart PROVE FALSE
      <4>1. e \in (stop + 1)..(valStart - 1) /\ e # len
        BY <1>1, <1>3, <1>5, <2>1, <3>2, <3>3
      <4> QED
        BY <1>3, <3>2, <4>1 DEF SPACE, SEMICOLON
    <3> QED
      BY <1>1, <1>3, <3>2, <3>3
  <2> HIDE DEF valStart
  <2>6. valStop = e
    <3>1. valStart \in 0..len
      BY <1>1, <1>3, <2>5
    <3>2. /\ valStop \in valStart..len
          /\ valStop = len \/ At(valStop) \in {SEMICOLON}
          /\ \A m \in valStart..(valStop - 1) : At(m) \notin {SEMICOLON}
      BY <3>1, FirstFromFinds
    <3> HIDE DEF valStop
    <3>3. ~(e < valStop)
      BY <1>1, <1>3, <2>5, <3>2
    <3>4. ASSUME valStop < e PROVE FALSE
      <4>1. valStop \in p..(e - 1) /\ valStop # len
        BY <1>1, <1>2, <1>3, <1>5, <2>5, <3>2, <3>4
      <4> QED
        BY <1>3, <3>2, <4>1
    <3> QED
      BY <1>1, <1>3, <2>5, <3>2, <3>3, <3>4
  <2> HIDE DEF valStop
  <2>7. /\ valEnd \in Nat /\ valStart <= valEnd /\ valEnd <= e
        /\ valEnd = valStart \/ At(valEnd - 1) # SPACE
        /\ \A m \in valEnd..(e - 1) : At(m) = SPACE
    <3>1. /\ TrimEnd(valStart, e) \in valStart..e
          /\ TrimEnd(valStart, e) = valStart \/ At(TrimEnd(valStart, e) - 1) # SPACE
          /\ \A m \in TrimEnd(valStart, e)..(e - 1) : At(m) = SPACE
      BY <1>3, <2>5, TrimEndFinds
    <3>2. valEnd = TrimEnd(valStart, e)
      BY <2>6
    <3> HIDE DEF valEnd
    <3> QED
      BY <1>3, <2>5, <3>1, <3>2
  <2> HIDE DEF valEnd
  <2>8. Trimmed(stop + 1, e) = Text(valStart, valEnd)
    <3>1. stop + 1 \in Nat
      BY <1>5
    <3> QED
      BY ONLY HeaderOK, <1>3, <2>5, <2>7, <3>1, TrimmedText
  <2>9. c = [keyStart |-> s, keyEnd |-> keyEnd, valStart |-> valStart, valEnd |-> valEnd, stop |-> valStop]
    BY <1>10 DEF ScanCookie, stop, keyEnd, valStart, valEnd, valStop
  <2>10. keyEnd <= valStart
    BY <1>5, <1>6, <2>5
  <2> QED
    BY <1>2, <1>3, <1>6, <1>7, <2>4, <2>5, <2>6, <2>7, <2>8, <2>9, <2>10
<1>11. CASE ~(stop < len /\ At(stop) = EQUALS)
  <2>1. stop = e
    <3>1. ASSUME stop < e PROVE FALSE
      <4>1. stop \in p..(e - 1) /\ stop < len
        BY <1>1, <1>2, <1>3, <1>5, <3>1
      <4> QED
        BY <1>3, <1>5, <1>11, <4>1
    <3> QED
      BY <1>3, <1>5, <3>1
  <2>2. equals = {}
    BY <1>8, <2>1
  <2> HIDE DEF equals
  <2>3. c = [keyStart |-> s, keyEnd |-> keyEnd, valStart |-> keyEnd, valEnd |-> keyEnd, stop |-> stop]
    BY <1>11 DEF ScanCookie, stop, keyEnd
  <2>4. Text(keyEnd, keyEnd) = <<>>
    <3>1. keyEnd <= len
      BY <1>1, <1>3, <1>5, <1>6
    <3> QED
      BY <1>6, <3>1, TextOf
  <2>5. SplitAt(<<p, e>>) = [key |-> Text(s, keyEnd), value |-> Text(keyEnd, keyEnd)]
    BY <1>7, <1>9, <2>1, <2>2, <2>4
  <2> QED
    BY <1>2, <1>3, <1>6, <2>1, <2>3, <2>5
<1> QED
  BY <1>10, <1>11

-----------------------------------------------------------------------------
(* All segments *)

SegmentsBefore(p) == {t \in Segments : t[1] < p}

LEMMA SegmentTypes ==
  ASSUME HeaderOK, NEW s \in Segments
  PROVE  /\ s = <<s[1], s[2]>> /\ s[1] \in Nat /\ s[2] \in Nat /\ s[1] <= s[2] /\ s[2] <= len
         /\ s[1] = 0 \/ At(s[1] - 1) = SEMICOLON
         /\ s[2] = len \/ At(s[2]) = SEMICOLON
         /\ \A m \in s[1]..(s[2] - 1) : At(m) # SEMICOLON
         /\ s[2] = len => \E m \in s[1]..(s[2] - 1) : At(m) # SPACE
<1>1. len \in Nat
  BY HeaderTypes
<1> QED
  BY <1>1 DEF Segments

LEMMA SegmentsAreFinite ==
  ASSUME HeaderOK
  PROVE  /\ IsFiniteSet(Segments)
         /\ \A p : IsFiniteSet(SegmentsBefore(p)) /\ SegmentsBefore(p) \subseteq Segments
         /\ \A p : Cardinality(SegmentsBefore(p)) \in Nat
<1>1. len \in Nat /\ IsFiniteSet(0..len)
  BY HeaderTypes, FS_Interval
<1>2. IsFiniteSet((0..len) \X (0..len))
  BY <1>1, FS_Product
<1>3. Segments \in SUBSET ((0..len) \X (0..len))
  BY DEF Segments
<1>4. IsFiniteSet(Segments)
  BY <1>2, <1>3, FS_Subset
<1>5. ASSUME NEW p
      PROVE  IsFiniteSet(SegmentsBefore(p)) /\ SegmentsBefore(p) \subseteq Segments
  <2>1. SegmentsBefore(p) \in SUBSET Segments
    BY DEF SegmentsBefore
  <2> QED
    BY <1>4, <2>1, FS_Subset
<1> QED
  BY <1>4, <1>5, FS_CardinalityType

\* Segments are in the order of the number of segments before them.
LEMMA SegmentOrder ==
  ASSUME HeaderOK, NEW s \in Segments, NEW t \in Segments
  PROVE  /\ Cardinality(Before(s)) \in Nat
         /\ s[1] < t[1] => Cardinality(Before(s)) < Cardinality(Before(t))
         /\ s[1] = t[1] => Cardinality(Before(s)) = Cardinality(Before(t))
<1>1. Before(s) = SegmentsBefore(s[1]) /\ Before(t) = SegmentsBefore(t[1])
  BY DEF Before, SegmentsBefore
<1>2. /\ Cardinality(SegmentsBefore(s[1])) \in Nat /\ Cardinality(SegmentsBefore(t[1])) \in Nat
      /\ IsFiniteSet(SegmentsBefore(t[1]))
  BY SegmentsAreFinite
<1>3. ASSUME s[1] < t[1]
      PROVE  Cardinality(SegmentsBefore(s[1])) < Cardinality(SegmentsBefore(t[1]))
  <2>1. s[1] \in Nat /\ t[1] \in Nat /\ \A r \in Segments : r[1] \in Nat
    BY SegmentTypes
  <2>2. SegmentsBefore(s[1]) \in SUBSET SegmentsBefore(t[1])
    BY <1>3, <2>1 DEF SegmentsBefore
  <2>3. s \in SegmentsBefore(t[1]) /\ s \notin SegmentsBefore(s[1])
    BY <1>3, <2>1 DEF SegmentsBefore
  <2>4. /\ Cardinality(SegmentsBefore(s[1])) <= Cardinality(SegmentsBefore(t[1]))
        /\ Cardinality(SegmentsBefore(s[1])) # Cardinality(SegmentsBefore(t[1]))
    BY <1>2, <2>2, <2>3, FS_Subset
  <2> QED
    BY <1>2, <2>4
<1> QED
  BY <1>1, <1>2, <1>3

\* The scan goes from the start of one segment to the start of the next.
LEMMA NextSegment ==
  ASSUME HeaderOK, NEW p \in Nat, p < len, p = 0 \/ At(p - 1) = SEMICOLON,
         FirstFrom(p, NoSpace) < len,
         NEW e, e = SegmentEnd(p), NEW q, q = IF e < len THEN e + 1 ELSE e
  PROVE  /\ q \in Nat /\ e <= q /\ p < q /\ q <= len /\ (q < len => e < q /\ At(q - 1) = SEMICOLON)
         /\ <<p, e>> \in Segments /\ <<p, e>> \notin SegmentsBefore(p)
         /\ SegmentsBefore(q) = SegmentsBefore(p) \cup {<<p, e>>}
<1>1. len \in Nat /\ p \in 0..len
  BY HeaderTypes
<1>2. /\ e \in Nat /\ p <= e /\ e <= len
      /\ e = len \/ At(e) = SEMICOLON
      /\ \A m \in p..(e - 1) : At(m) # SEMICOLON
  <2>1. /\ e \in p..len
        /\ e = len \/ At(e) \in {SEMICOLON}
        /\ \A m \in p..(e - 1) : At(m) \notin {SEMICOLON}
    BY <1>1, FirstFromFinds DEF SegmentEnd
  <2> QED
    BY <1>1, <2>1
<1>3. /\ q \in Nat /\ e <= q /\ p < q /\ q <= len
      /\ q < len => e < q /\ q - 1 = e /\ e # len
  BY <1>1, <1>2
<1>4. <<p, e>> \in Segments
  <2>1. e = len => \E m \in p..(e - 1) : At(m) # SPACE
    <3>1. /\ FirstFrom(p, NoSpace) \in Nat /\ p <= FirstFrom(p, NoSpace)
          /\ At(FirstFrom(p, NoSpace)) # SPACE
      BY <1>1, FirstSolid
    <3>2. e = len => FirstFrom(p, NoSpace) \in p..(e - 1)
      BY <1>1, <1>2, <3>1
    <3> QED
      BY <3>1, <3>2
  <2>2. <<p, e>> \in (0..len) \X (0..len)
    BY <1>1, <1>2
  <2> QED
    BY <1>2, <2>1, <2>2 DEF Segments
<1>5. ASSUME NEW t \in Segments, p <= t[1], t[1] < q PROVE t = <<p, e>>
  <2>1. /\ t = <<t[1], t[2]>> /\ t[1] \in Nat /\ t[2] \in Nat /\ t[1] <= t[2] /\ t[2] <= len
        /\ t[1] = 0 \/ At(t[1] - 1) = SEMICOLON
        /\ t[2] = len \/ At(t[2]) = SEMICOLON
        /\ \A m \in t[1]..(t[2] - 1) : At(m) # SEMICOLON
    BY SegmentTypes
  <2>2. t[1] = p
    <3>1. ASSUME p < t[1] PROVE FALSE
      <4>1. t[1] - 1 \in p..(e - 1) /\ t[1] # 0
        BY <1>1, <1>2, <1>3, <1>5, <2>1, <3>1
      <4> QED
        BY <1>2, <2>1, <4>1
    <3> QED
      BY <1>5, <2>1, <3>1
  <2>3. t[2] = e
    <3>1. ASSUME t[2] < e PROVE FALSE
      <4>1. t[2] \in p..(e - 1) /\ t[2] # len
        BY <1>1, <1>2, <2>1, <2>2, <3>1
      <4> QED
        BY <1>2, <2>1, <4>1
    <3>2. ASSUME e < t[2] PROVE FALSE
      <4>1. e \in t[1]..(t[2] - 1) /\ e # len
        BY <1>1, <1>2, <2>1, <2>2, <3>2
      <4> QED
        BY <1>2, <2>1, <4>1
    <3> QED
      BY <1>2, <2>1, <3>1, <3>2
  <2> QED
    BY <2>1, <2>2, <2>3
<1>6. \A t \in Segments : t[1] \in Nat
  BY SegmentTypes
<1>7. SegmentsBefore(q) = SegmentsBefore(p) \cup {<<p, e>>}
  <2>1. ASSUME NEW t \in SegmentsBefore(q) PROVE t \in SegmentsBefore(p) \cup {<<p, e>>}
    <3>1. t \in Segments /\ t[1] < q /\ t[1] \in Nat
      BY <1>6 DEF SegmentsBefore
    <3>2. t[1] < p \/ t = <<p, e>>
      BY <1>5, <3>1
    <3> QED
      BY <3>1, <3>2 DEF SegmentsBefore
  <2>2. ASSUME NEW t \in SegmentsBefore(p) PROVE t \in SegmentsBefore(q)
    BY <1>3, <1>6 DEF SegmentsBefore
  <2>3. <<p, e>> \in SegmentsBefore(q)
    BY <1>3, <1>4 DEF SegmentsBefore
  <2> QED
    BY <2>1, <2>2, <2>3
<1>8. <<p, e>> \notin SegmentsBefore(p)
  BY DEF SegmentsBefore
<1> QED
  BY <1>2, <1>3, <1>4, <1>7, <1>8

\* Nothing but spaces is no segment, and where the header ends none begins.
LEMMA NoMoreSegments ==
  ASSUME HeaderOK, NEW p \in Nat, p <= len, FirstFrom(p, NoSpace) = len
  PROVE  SegmentsBefore(p) = Segments
<1>1. len \in Nat /\ p \in 0..len
  BY HeaderTypes
<1>2. \A m \in p..(len - 1) : At(m) = SPACE
  BY <1>1, FirstSolid
<1>3. ASSUME NEW t \in Segments PROVE t[1] < p
  <2>1. /\ t[1] \in Nat /\ t[2] \in Nat /\ t[1] <= t[2] /\ t[2] <= len
        /\ t[2] = len \/ At(t[2]) = SEMICOLON
        /\ t[2] = len => \E m \in t[1]..(t[2] - 1) : At(m) # SPACE
    BY SegmentTypes
  <2>2. ASSUME p <= t[1] PROVE FALSE
    <3>1. CASE t[2] = len
      <4>1. PICK m \in t[1]..(t[2] - 1) : At(m) # SPACE
        BY <2>1, <3>1
      <4>2. m \in p..(len - 1)
        BY <1>1, <2>1, <2>2, <3>1
      <4> QED
        BY <1>2, <4>1, <4>2
    <3>2. CASE t[2] # len
      <4>1. t[2] \in p..(len - 1) /\ At(t[2]) = SEMICOLON
        BY <1>1, <2>1, <2>2, <3>2
      <4> QED
        BY <1>2, <4>1 DEF SPACE, SEMICOLON
    <3> QED
      BY <3>1, <3>2
  <2> QED
    BY <2>1, <2>2
<1> QED
  BY <1>3 DEF SegmentsBefore

-----------------------------------------------------------------------------
(* What the scan has found, as an inductive invariant *)

Pointers == [keyStart : Nat, keyEnd : Nat, valStart : Nat, valEnd : Nat]

\* A cookie as a user cuts it out of the buffer, and its place in the list.
Cut(p) == [key |-> Text(p.keyStart, p.keyEnd), value |-> Text(p.valStart, p.valEnd)]
IndexOf(s) == Cardinality(Before(s)) + 1

\* The list holds the segments of S, each at its place, and no more.
Holds(S) ==
    /\ Len(results) = Cardinality(S)
    /\ \A s \in S : IndexOf(s) \in DOMAIN results /\ SplitAt(s) = Cut(results[IndexOf(s)])
    /\ \A n \in DOMAIN results : \E s \in S : n = IndexOf(s)

\* The loop stands at the start of a segment, behind all it has found.
AtSegment ==
    pos < len => /\ pos = 0 \/ At(pos - 1) = SEMICOLON
                 /\ \A n \in DOMAIN results : results[n].valEnd < pos

CookieInv ==
    /\ HeaderOK
    /\ results \in Seq(Pointers)
    /\ cookiePhase \in {"scan", "scanned", "answered"}
    /\ PointersInOrder
    /\ cookiePhase = "scan" => AtSegment /\ Holds(SegmentsBefore(pos))
    /\ cookiePhase # "scan" => Holds(Segments)
    /\ cookiePhase = "answered" => answer = FirstOf(wanted)

LEMMA CookieStart == CookieInit => CookieInv
<1> SUFFICES ASSUME CookieInit PROVE CookieInv
  OBVIOUS
<1>1. HeaderOK
  <2>1. PICK n \in 0..MaxLen : header \in [1..n -> Bytes]
    BY DEF CookieInit, Headers
  <2>2. n \in Nat
    BY <2>1, CookieAssumption
  <2> QED
    BY <2>1, <2>2 DEF HeaderOK
<1>2. len \in Nat
  BY <1>1, HeaderTypes
<1>3. results = <<>> /\ pos = 0 /\ cookiePhase = "scan" /\ Len(results) = 0 /\ DOMAIN results = {}
  BY DEF CookieInit
<1>4. SegmentsBefore(0) = {}
  BY <1>1, SegmentTypes DEF SegmentsBefore
<1>5. Holds(SegmentsBefore(0))
  BY <1>3, <1>4, FS_EmptySet DEF Holds
<1>6. PointersInOrder
  BY <1>2, <1>3 DEF PointersInOrder
<1>7. AtSegment
  BY <1>3 DEF AtSegment
<1>8. results \in Seq(Pointers)
  BY <1>3
<1> QED
  BY <1>1, <1>3, <1>5, <1>6, <1>7, <1>8 DEF CookieInv

\* What is said of the header alone stays.
LEMMA HeaderStays ==
  ASSUME header' = header
  PROVE  /\ len' = len /\ (HeaderOK => HeaderOK') /\ Segments' = Segments
         /\ \A k : At(k)' = At(k)
         /\ \A from, to : Text(from, to)' = Text(from, to)
         /\ \A s : SplitAt(s)' = SplitAt(s)
         /\ \A s : IndexOf(s)' = IndexOf(s)
         /\ \A p : SegmentsBefore(p)' = SegmentsBefore(p)
         /\ \A p : Cut(p)' = Cut(p)
<1>1. len' = len /\ (HeaderOK => HeaderOK')
  BY DEF len, HeaderOK
<1>2. \A k : At(k)' = At(k)
  BY DEF At
<1>3. \A from, to : Text(from, to)' = Text(from, to)
  BY DEF Text
<1>4. Segments' = Segments
  BY <1>1, <1>2 DEF Segments
<1>5. \A from, to : Trimmed(from, to)' = Trimmed(from, to)
  <2> TAKE from, to
  <2> DEFINE solid == {m \in from..(to - 1) : At(m) # SPACE}
             low(S) == CHOOSE m \in S : \A k \in S : m <= k
             high(S) == CHOOSE m \in S : \A k \in S : m >= k
  <2>1. solid' = solid
    BY <1>2
  <2>2. Trimmed(from, to) = IF solid = {} THEN <<>> ELSE SubSeq(header, low(solid) + 1, 1 + high(solid))
    BY DEF Trimmed, Text
  <2>3. Trimmed(from, to)' = IF solid' = {} THEN <<>> ELSE SubSeq(header', low(solid') + 1, 1 + high(solid'))
    BY DEF Trimmed, Text
  <2> HIDE DEF solid
  <2> QED
    BY <2>1, <2>2, <2>3
<1>6. \A s : SplitAt(s)' = SplitAt(s)
  BY <1>2, <1>5 DEF SplitAt
<1>7. \A s : IndexOf(s)' = IndexOf(s)
  BY <1>4 DEF IndexOf, Before
<1>8. \A p : SegmentsBefore(p)' = SegmentsBefore(p)
  BY <1>4 DEF SegmentsBefore
<1>9. \A p : Cut(p)' = Cut(p)
  BY <1>3 DEF Cut
<1> QED
  BY <1>1, <1>2, <1>3, <1>4, <1>6, <1>7, <1>8, <1>9

\* A list that holds S, with the segment at s put behind it.
LEMMA HoldsOneMore ==
  ASSUME NEW c \in Pointers, NEW S, IsFiniteSet(S), NEW s, s \notin S,
         header' = header, results \in Seq(Pointers), results' = Append(results, c),
         Holds(S), IndexOf(s) = Cardinality(S) + 1, SplitAt(s) = Cut(c)
  PROVE  Holds(S \cup {s})'
<1>1. Cardinality(S \cup {s}) = Cardinality(S) + 1 /\ Cardinality(S) \in Nat
  BY FS_AddElement, FS_CardinalityType
<1>2. /\ Len(results) = Cardinality(S)
      /\ \A t \in S : IndexOf(t) \in DOMAIN results /\ SplitAt(t) = Cut(results[IndexOf(t)])
      /\ \A n \in DOMAIN results : \E t \in S : n = IndexOf(t)
  BY DEF Holds
<1>3. /\ Len(results') = Len(results) + 1 /\ Len(results) \in Nat
      /\ DOMAIN results = 1..Len(results) /\ DOMAIN results' = 1..(Len(results) + 1)
      /\ \A n \in DOMAIN results : results'[n] = results[n]
      /\ results'[Len(results) + 1] = c
  OBVIOUS
<1>4. /\ \A t : SplitAt(t)' = SplitAt(t) /\ IndexOf(t)' = IndexOf(t)
      /\ \A q : Cut(q)' = Cut(q)
  BY HeaderStays
<1>5. ASSUME NEW t \in S \cup {s}
      PROVE  IndexOf(t) \in DOMAIN results' /\ SplitAt(t) = Cut(results'[IndexOf(t)])
  <2>1. CASE t \in S
    <3>1. IndexOf(t) \in DOMAIN results /\ SplitAt(t) = Cut(results[IndexOf(t)])
      BY <1>2, <2>1
    <3>2. results'[IndexOf(t)] = results[IndexOf(t)] /\ IndexOf(t) \in DOMAIN results'
      BY <1>3, <3>1
    <3> QED
      BY <3>1, <3>2
  <2>2. CASE t = s
    <3>1. IndexOf(t) = Len(results) + 1
      BY <1>2, <2>2
    <3>2. results'[IndexOf(t)] = c /\ IndexOf(t) \in DOMAIN results'
      BY <1>3, <3>1
    <3> QED
      BY <2>2, <3>2
  <2> QED
    BY <2>1, <2>2
<1>6. ASSUME NEW n \in DOMAIN results' PROVE \E t \in S \cup {s} : n = IndexOf(t)
  <2>1. n \in DOMAIN results \/ n = Len(results) + 1
    BY <1>3
  <2> QED
    BY <1>2, <2>1
<1>7. /\ Len(results') = Cardinality(S \cup {s})
      /\ \A t \in S \cup {s} : IndexOf(t)' \in DOMAIN results'
      /\ \A n \in DOMAIN results' : \E t \in S \cup {s} : n = IndexOf(t)'
  BY <1>1, <1>2, <1>3, <1>4, <1>5, <1>6
<1>8. \A t \in S \cup {s} : SplitAt(t)' = Cut(results[IndexOf(t)])'
  <2> TAKE t \in S \cup {s}
  <2>1. SplitAt(t)' = SplitAt(t) /\ IndexOf(t)' = IndexOf(t)
    BY <1>4
  <2>2. Cut(results[IndexOf(t)])' = Cut(results'[IndexOf(t)])
    BY <2>1 DEF Cut, Text
  <2> QED
    BY <1>5, <2>1, <2>2
<1> QED
  BY <1>7, <1>8 DEF Holds

LEMMA FindCookieKeeps == CookieInv /\ FindCookie => CookieInv'
<1> SUFFICES ASSUME CookieInv, FindCookie PROVE CookieInv'
  OBVIOUS
<1>1. HeaderOK /\ header' = header /\ HeaderOK' /\ len' = len /\ len \in Nat
  BY HeaderStays, HeaderTypes DEF CookieInv, FindCookie
<1>2. /\ cookiePhase = "scan" /\ cookiePhase' = "scan" /\ pos < len /\ pos \in Nat /\ pos \in 0..len
      /\ AtSegment /\ Holds(SegmentsBefore(pos)) /\ results \in Seq(Pointers)
  BY <1>1 DEF CookieInv, FindCookie, PointersInOrder
<1>3. PICK s : s = FirstFrom(pos, NoSpace)
  OBVIOUS
<1>4. PICK c : c = ScanCookie(s)
  OBVIOUS
<1>5. PICK e : e = SegmentEnd(pos)
  OBVIOUS
<1>6. /\ s < len /\ results' = Append(results, Pointer(c))
      /\ pos' = IF c.stop < len THEN c.stop + 1 ELSE c.stop
  BY <1>3, <1>4 DEF FindCookie
<1>7. /\ s \in Nat /\ e \in Nat /\ pos <= e /\ e <= len /\ c.stop = e
      /\ c.keyStart = s /\ pos <= s
      /\ c.keyEnd \in Nat /\ s <= c.keyEnd
      /\ c.valStart \in Nat /\ c.keyEnd <= c.valStart
      /\ c.valEnd \in Nat /\ c.valStart <= c.valEnd /\ c.valEnd <= e
      /\ SplitAt(<<pos, e>>) = [key |-> Text(c.keyStart, c.keyEnd), value |-> Text(c.valStart, c.valEnd)]
  <2>1. s \in Nat
    BY <1>1, <1>2, <1>3, FirstSolid
  <2>2. pos \in Nat /\ pos <= len
    BY <1>1, <1>2
  <2> QED
    BY <1>1, <1>3, <1>4, <1>5, <1>6, <2>1, <2>2, ScanReadsSegment
<1>8. PICK q : q = (IF e < len THEN e + 1 ELSE e) /\ q = pos'
  BY <1>6, <1>7
<1>9. /\ q \in Nat /\ e <= q /\ pos < q /\ q <= len /\ (q < len => e < q /\ At(q - 1) = SEMICOLON)
      /\ <<pos, e>> \in Segments /\ <<pos, e>> \notin SegmentsBefore(pos)
      /\ SegmentsBefore(q) = SegmentsBefore(pos) \cup {<<pos, e>>}
  <2>1. pos = 0 \/ At(pos - 1) = SEMICOLON
    BY <1>2 DEF AtSegment
  <2>2. FirstFrom(pos, NoSpace) < len
    BY <1>3, <1>6
  <2>3. q = IF e < len THEN e + 1 ELSE e
    BY <1>8
  <2> QED
    BY ONLY <1>1, <1>2, <1>5, <2>1, <2>2, <2>3, NextSegment
<1> DEFINE p == Pointer(c)
<1>10. /\ p \in Pointers
       /\ p.keyStart = s /\ p.keyEnd = c.keyEnd /\ p.valStart = c.valStart /\ p.valEnd = c.valEnd
       /\ SplitAt(<<pos, e>>) = Cut(p)
  BY <1>7 DEF Pointer, Pointers, Cut
<1> HIDE DEF p
<1>11. /\ Len(results') = Len(results) + 1 /\ Len(results) \in Nat
       /\ results' \in Seq(Pointers)
       /\ DOMAIN results = 1..Len(results) /\ DOMAIN results' = 1..(Len(results) + 1)
       /\ \A n \in DOMAIN results : results'[n] = results[n] /\ results[n] \in Pointers
       /\ results'[Len(results) + 1] = p
  <2>1. results' = Append(results, p)
    BY <1>6 DEF p
  <2> QED
    BY <1>2, <1>10, <2>1
<1>12. \A n \in DOMAIN results : results[n].valEnd < pos /\ results[n].valEnd \in Nat
  BY <1>2, <1>11 DEF AtSegment, Pointers
<1>13. PointersInOrder'
  <2>1. pos' \in 0..len'
    BY <1>1, <1>8, <1>9
  <2>2. ASSUME NEW n \in DOMAIN results'
        PROVE  /\ 0 <= results'[n].keyStart /\ results'[n].keyStart <= results'[n].keyEnd
               /\ results'[n].keyEnd <= results'[n].valStart /\ results'[n].valStart <= results'[n].valEnd
               /\ results'[n].valEnd <= pos'
    <3>1. CASE n \in DOMAIN results
      <4>1. results'[n] = results[n] /\ results[n].valEnd < pos /\ results[n].valEnd \in Nat
        BY <1>11, <1>12, <3>1
      <4>2. /\ 0 <= results[n].keyStart /\ results[n].keyStart <= results[n].keyEnd
            /\ results[n].keyEnd <= results[n].valStart /\ results[n].valStart <= results[n].valEnd
        BY <3>1 DEF CookieInv, PointersInOrder
      <4> QED
        BY <1>2, <1>8, <1>9, <4>1, <4>2
    <3>2. CASE n = Len(results) + 1
      BY <1>7, <1>8, <1>9, <1>10, <1>11, <3>2
    <3> QED
      BY <1>11, <3>1, <3>2
  <2>3. ASSUME NEW n \in 2..Len(results') PROVE results'[n - 1].valEnd < results'[n].keyStart
    <3>1. n - 1 \in DOMAIN results /\ results'[n - 1] = results[n - 1]
      BY <1>11
    <3>2. CASE n \in DOMAIN results
      <4>1. n \in 2..Len(results) /\ results'[n] = results[n]
        BY <1>11, <3>2
      <4> QED
        BY <3>1, <4>1 DEF CookieInv, PointersInOrder
    <3>3. CASE n = Len(results) + 1
      <4>1. results'[n].keyStart = s /\ results[n - 1].valEnd < pos /\ results[n - 1].valEnd \in Nat
        BY <1>10, <1>11, <1>12, <3>1, <3>3
      <4> QED
        BY <1>2, <1>7, <3>1, <4>1
    <3> QED
      BY <1>11, <3>2, <3>3
  <2> QED
    BY <2>1, <2>2, <2>3 DEF PointersInOrder
<1>14. AtSegment'
  <2>1. ASSUME q < len PROVE At(q - 1) = SEMICOLON /\ e < q
    BY <1>9, <2>1
  <2>2. At(pos - 1)' = At(q - 1)
    BY <1>1, <1>8 DEF At
  <2>3. ASSUME q < len, NEW n \in DOMAIN results' PROVE results'[n].valEnd < q
    <3>1. CASE n \in DOMAIN results
      BY <1>2, <1>9, <1>11, <1>12, <3>1
    <3>2. CASE n = Len(results) + 1
      BY <1>7, <1>9, <1>10, <1>11, <2>1, <2>3, <3>2
    <3> QED
      BY <1>11, <3>1, <3>2
  <2> QED
    BY <1>1, <1>8, <2>1, <2>2, <2>3 DEF AtSegment
<1>15. Holds(SegmentsBefore(pos))'
  <2>1. PICK S : S = SegmentsBefore(pos) /\ IsFiniteSet(S)
    BY <1>1, SegmentsAreFinite
  <2>2. PICK t : t = <<pos, e>>
    OBVIOUS
  <2>3. t \notin S /\ SplitAt(t) = Cut(p) /\ Holds(S)
    BY <1>2, <1>9, <1>10, <2>1, <2>2
  <2>4. IndexOf(t) = Cardinality(S) + 1
    BY <2>1, <2>2 DEF IndexOf, Before, SegmentsBefore
  <2>5. results' = Append(results, p)
    BY <1>6 DEF p
  <2>6. Holds(S \cup {t})'
    BY <1>1, <1>2, <1>10, <2>1, <2>3, <2>4, <2>5, HoldsOneMore
  <2>7. SegmentsBefore(pos)' = S \cup {t}
    <3>1. SegmentsBefore(q) = S \cup {t}
      BY <1>9, <2>1, <2>2
    <3>2. Segments' = Segments
      BY <1>1, HeaderStays
    <3> QED
      BY <1>8, <3>1, <3>2 DEF SegmentsBefore
  <2> QED
    BY <2>6, <2>7 DEF Holds
<1> QED
  BY <1>1, <1>2, <1>11, <1>13, <1>14, <1>15 DEF CookieInv

\* A step that leaves the header and the list alone leaves what they say.
LEMMA ListStays ==
  ASSUME header' = header, results' = results, NEW S, Holds(S)
  PROVE  Holds(S)'
<1>1. /\ \A t : SplitAt(t)' = SplitAt(t) /\ IndexOf(t)' = IndexOf(t)
      /\ \A q : Cut(q)' = Cut(q)
  BY HeaderStays
<1>2. \A t \in S : SplitAt(t)' = Cut(results[IndexOf(t)])'
  <2> TAKE t \in S
  <2>1. Cut(results[IndexOf(t)])' = Cut(results[IndexOf(t)])
    BY <1>1 DEF Cut, Text
  <2> QED
    BY <1>1, <2>1 DEF Holds
<1> QED
  BY <1>1, <1>2 DEF Holds

LEMMA EndScanKeeps == CookieInv /\ EndScan => CookieInv'
<1> SUFFICES ASSUME CookieInv, EndScan PROVE CookieInv'
  OBVIOUS
<1>1. /\ HeaderOK /\ header' = header /\ HeaderOK' /\ len' = len /\ len \in Nat
      /\ Segments' = Segments
  BY HeaderStays, HeaderTypes DEF CookieInv, EndScan
<1>2. /\ pos \in Nat /\ pos <= len /\ pos' = len /\ results' = results /\ results \in Seq(Pointers)
      /\ cookiePhase = "scan" /\ cookiePhase' = "scanned"
      /\ Holds(SegmentsBefore(pos))
  BY <1>1 DEF CookieInv, EndScan, PointersInOrder
<1>3. Holds(Segments)'
  <2>1. PICK S : S = Segments
    OBVIOUS
  <2>2. SegmentsBefore(pos) = S
    BY <1>1, <1>2, <2>1, NoMoreSegments DEF EndScan
  <2>3. Holds(S)'
    BY <1>1, <1>2, <2>2, ListStays
  <2> QED
    BY <1>1, <2>1, <2>3 DEF Holds
<1>4. PointersInOrder'
  <2>1. ASSUME NEW n \in DOMAIN results PROVE results[n].valEnd <= len
    <3>1. results[n].valEnd <= pos /\ results[n] \in Pointers
      BY <1>2 DEF CookieInv, PointersInOrder
    <3> QED
      BY <1>1, <1>2, <3>1 DEF Pointers
  <2> QED
    BY <1>1, <1>2, <2>1 DEF CookieInv, PointersInOrder
<1> QED
  BY <1>1, <1>2, <1>3, <1>4 DEF CookieInv

LEMMA FirstOfStays ==
  ASSUME header' = header, NEW key, wanted' = key
  PROVE  FirstOf(wanted)' = FirstOf(key)
<1> DEFINE found == {s \in Segments : SplitAt(s).key = key}
           first(S) == CHOOSE s \in S : \A t \in S : s[1] <= t[1]
<1>1. Segments' = Segments /\ \A s : SplitAt(s)' = SplitAt(s)
  BY HeaderStays
<1>2. found' = found
  BY <1>1
<1>3. FirstOf(key) = IF found = {} THEN NoCookie ELSE SplitAt(first(found)).value
  BY DEF FirstOf
<1>4. FirstOf(wanted)' = IF found' = {} THEN NoCookie ELSE SplitAt(first(found))'.value
  BY DEF FirstOf
<1> HIDE DEF found, first
<1> QED
  BY <1>1, <1>2, <1>3, <1>4

\* The first pointer with that name is that of the first segment with it.
LEMMA FirstHit ==
  ASSUME CookieInv, cookiePhase = "scanned", NEW key, key \in Keys,
         NEW hits, hits = {n \in DOMAIN results : Matches(results[n], key)}
  PROVE  (IF hits = {} THEN NoCookie
          ELSE LET first == CHOOSE n \in hits : \A m \in hits : n <= m
               IN  Text(results[first].valStart, results[first].valEnd)) = FirstOf(key)
<1> DEFINE found == {s \in Segments : SplitAt(s).key = key}
<1>1. HeaderOK /\ len \in Nat /\ Holds(Segments) /\ results \in Seq(Pointers)
  BY HeaderTypes DEF CookieInv
<1>2. ASSUME NEW n \in DOMAIN results
      PROVE  Matches(results[n], key) <=> Cut(results[n]).key = key
  <2>1. /\ results[n].keyStart \in Nat /\ results[n].keyEnd \in Nat
        /\ results[n].keyStart <= results[n].keyEnd /\ results[n].keyEnd <= len
    <3>1. results[n] \in Pointers /\ pos \in 0..len
      BY <1>1 DEF CookieInv, PointersInOrder
    <3>2. /\ results[n].keyStart <= results[n].keyEnd /\ results[n].keyEnd <= results[n].valStart
          /\ results[n].valStart <= results[n].valEnd /\ results[n].valEnd <= pos
      BY DEF CookieInv, PointersInOrder
    <3> QED
      BY <1>1, <3>1, <3>2 DEF Pointers
  <2>2. Len(Text(results[n].keyStart, results[n].keyEnd)) = results[n].keyEnd - results[n].keyStart
    BY <1>1, <2>1, TextOf
  <2> QED
    BY <2>2 DEF Matches, Cut
<1>3. ASSUME NEW s \in found
      PROVE  /\ IndexOf(s) \in hits /\ SplitAt(s).value = Cut(results[IndexOf(s)]).value
  <2>1. s \in Segments /\ SplitAt(s).key = key
    OBVIOUS
  <2>2. IndexOf(s) \in DOMAIN results /\ SplitAt(s) = Cut(results[IndexOf(s)])
    BY <1>1, <2>1 DEF Holds
  <2> QED
    BY <1>2, <2>1, <2>2
<1>4. ASSUME NEW n \in hits PROVE \E s \in found : n = IndexOf(s)
  <2>1. n \in DOMAIN results /\ Cut(results[n]).key = key
    BY <1>2
  <2>2. PICK s \in Segments : n = IndexOf(s)
    BY <1>1, <2>1 DEF Holds
  <2>3. SplitAt(s) = Cut(results[n])
    BY <1>1, <2>2 DEF Holds
  <2> QED
    BY <2>1, <2>2, <2>3
<1>5. \A s \in found : s \in Segments
  OBVIOUS
<1>6. FirstOf(key) = IF found = {} THEN NoCookie
                     ELSE SplitAt(CHOOSE s \in found : \A t \in found : s[1] <= t[1]).value
  BY DEF FirstOf
<1> HIDE DEF found
<1>7. CASE found = {}
  <2>1. hits = {}
    BY <1>4, <1>7
  <2> QED
    BY <1>6, <1>7, <2>1
<1>8. CASE found # {}
  <2> DEFINE starts == {s[1] : s \in found}
  <2>1. starts \subseteq Nat /\ starts # {}
    BY <1>1, <1>5, <1>8, SegmentTypes
  <2>2. PICK x \in starts : \A y \in starts : x <= y
    BY <2>1, LeastExists
  <2>3. \E s \in found : \A t \in found : s[1] <= t[1]
    BY <2>2
  <2>4. PICK s \in found : /\ s = CHOOSE r \in found : \A t \in found : r[1] <= t[1]
                           /\ \A t \in found : s[1] <= t[1]
    BY <2>3
  <2>5. IndexOf(s) \in hits
    BY <1>3
  <2>6. ASSUME NEW m \in hits PROVE IndexOf(s) <= m /\ IndexOf(s) \in Nat /\ m \in Nat
    <3>1. PICK t \in found : m = IndexOf(t)
      BY <1>4
    <3>2. s \in Segments /\ t \in Segments /\ s[1] <= t[1] /\ s[1] \in Nat /\ t[1] \in Nat
      BY <1>1, <1>5, <2>4, SegmentTypes
    <3>3. /\ Cardinality(Before(s)) \in Nat /\ Cardinality(Before(t)) \in Nat
          /\ Cardinality(Before(s)) <= Cardinality(Before(t))
      <4>1. s[1] < t[1] \/ s[1] = t[1]
        BY <3>2
      <4> QED
        BY <1>1, <3>2, <4>1, SegmentOrder
    <3> QED
      BY <3>1, <3>3 DEF IndexOf
  <2>7. IndexOf(s) = CHOOSE n \in hits : \A m \in hits : n <= m
    <3>1. ASSUME NEW n \in hits, \A m \in hits : n <= m PROVE n = IndexOf(s)
      BY <2>5, <2>6, <3>1
    <3> QED
      BY <2>5, <2>6, <3>1
  <2>8. SplitAt(s).value = Text(results[IndexOf(s)].valStart, results[IndexOf(s)].valEnd)
    BY <1>3 DEF Cut
  <2>9. FirstOf(key) = SplitAt(s).value
    BY <1>6, <1>8, <2>4
  <2>10. hits # {}
    BY <2>5
  <2> QED
    BY <2>7, <2>8, <2>9, <2>10
<1> QED
  BY <1>7, <1>8

LEMMA GetCookieKeeps == ASSUME NEW key \in Keys PROVE CookieInv /\ GetCookie(key) => CookieInv'
<1> SUFFICES ASSUME CookieInv, GetCookie(key) PROVE CookieInv'
  OBVIOUS
<1>1. /\ HeaderOK /\ header' = header /\ HeaderOK' /\ len' = len
      /\ Segments' = Segments /\ \A s : SplitAt(s)' = SplitAt(s)
  BY HeaderStays DEF CookieInv, GetCookie
<1>2. /\ pos' = pos /\ results' = results /\ results \in Seq(Pointers)
      /\ cookiePhase = "scanned" /\ cookiePhase' = "answered" /\ wanted' = key
      /\ Holds(Segments)
  BY DEF CookieInv, GetCookie
<1>3. Holds(Segments)'
  <2>1. PICK S : S = Segments /\ Holds(S)
    BY <1>2
  <2>2. Holds(S)'
    BY <1>1, <1>2, <2>1, ListStays
  <2> QED
    BY <1>1, <2>1, <2>2 DEF Holds
<1>4. answer' = FirstOf(key)
  BY <1>2, FirstHit DEF GetCookie
<1>5. FirstOf(wanted)' = FirstOf(key)
  BY <1>1, <1>2, FirstOfStays
<1>6. PointersInOrder'
  BY <1>1, <1>2 DEF CookieInv, PointersInOrder
<1> QED
  BY <1>1, <1>2, <1>3, <1>4, <1>5, <1>6 DEF CookieInv

LEMMA CookieInvHolds == CookieSpec => []CookieInv
<1>1. CookieInit => CookieInv
  BY CookieStart
<1>2. CookieInv /\ [CookieNext]_cookieVars => CookieInv'
  <2> SUFFICES ASSUME CookieInv, [CookieNext]_cookieVars PROVE CookieInv'
    OBVIOUS
  <2>1. CASE FindCookie
    BY <2>1, FindCookieKeeps
  <2>2. CASE EndScan
    BY <2>2, EndScanKeeps
  <2>3. ASSUME NEW key \in Keys, GetCookie(key) PROVE CookieInv'
    BY <2>3, GetCookieKeeps
  <2>4. CASE UNCHANGED cookieVars
    <3>1. /\ header' = header /\ pos' = pos /\ results' = results /\ cookiePhase' = cookiePhase
          /\ wanted' = wanted /\ answer' = answer
      BY <2>4 DEF cookieVars
    <3>2. HeaderOK' /\ len' = len /\ Segments' = Segments /\ \A s : SplitAt(s)' = SplitAt(s)
      BY <3>1, HeaderStays DEF CookieInv
    <3>3. cookiePhase' = "scan" => AtSegment' /\ Holds(SegmentsBefore(pos))'
      <4> SUFFICES ASSUME cookiePhase = "scan" PROVE AtSegment' /\ Holds(SegmentsBefore(pos))'
        BY <3>1
      <4>1. PICK S : S = SegmentsBefore(pos) /\ Holds(S)
        BY DEF CookieInv
      <4>2. Holds(S)'
        BY <3>1, <4>1, ListStays
      <4>3. SegmentsBefore(pos)' = S
        BY <3>1, <3>2, <4>1 DEF SegmentsBefore
      <4> QED
        BY <3>1, <3>2, <4>2, <4>3 DEF Holds, CookieInv, AtSegment, At
    <3>4. cookiePhase' # "scan" => Holds(Segments)'
      <4> SUFFICES ASSUME cookiePhase # "scan" PROVE Holds(Segments)'
        BY <3>1
      <4>1. PICK S : S = Segments /\ Holds(S)
        BY DEF CookieInv
      <4>2. Holds(S)'
        BY <3>1, <4>1, ListStays
      <4> QED
        BY <3>2, <4>1, <4>2 DEF Holds
    <3>5. FirstOf(wanted)' = FirstOf(wanted)
      BY <3>1, FirstOfStays
    <3>6. PointersInOrder'
      BY <3>1, <3>2 DEF CookieInv, PointersInOrder
    <3> QED
      BY <3>1, <3>2, <3>3, <3>4, <3>5, <3>6 DEF CookieInv
  <2> QED
    BY <2>1, <2>2, <2>3, <2>4 DEF CookieNext
<1> QED
  BY <1>1, <1>2, PTL DEF CookieSpec

\* The offsets a scan returns are in order, inside the buffer and without
\* overlap, for a header of any bytes and any length.
THEOREM PointersAreInOrder == CookieSpec => []PointersInOrder
<1>1. CookieInv => PointersInOrder
  BY DEF CookieInv
<1> QED
  BY <1>1, CookieInvHolds, PTL

\* The offsets scanCookies returns cut the header into the cookies its text
\* says, in order and no others, and getCookie returns the first of a name.
THEOREM ScanAgreesWithSplit == CookieSpec => []AgreesWithSplit
<1>1. CookieInv => AgreesWithSplit
  BY DEF CookieInv, AgreesWithSplit, InOrder, Holds, IndexOf, Cut
<1> QED
  BY <1>1, CookieInvHolds, PTL

-----------------------------------------------------------------------------
(***************************************************************************)
(* The WebSocket frame parser.  The argument: what has been received and   *)
(* not cut off, followed by what is still on the wire, is the stream of    *)
(* the frames that were not taken, so parseFrame looks at the front of the *)
(* next frame as far as it has arrived; on such bytes it reads the header  *)
(* that was encoded or returns null, and it unmasks the payload once.      *)
(***************************************************************************)

LEMMA Downwards ==
  ASSUME NEW S, NEW N \in Nat, N \in S, \A n \in Nat : n + 1 \in S => n \in S
  PROVE  \A n \in 0..N : n \in S
<1> SUFFICES ASSUME NEW b \in 0..N, b \notin S PROVE FALSE
  OBVIOUS
<1> DEFINE Q == {d \in Nat : d <= N /\ N - d \notin S}
<1>1. N - b \in Q
  BY DEF Q
<1>2. PICK d \in Q : \A y \in Q : ~(<<y, d>> \in OpToRel(<, Nat))
  <2>1. Q \subseteq Nat
    OBVIOUS
  <2> QED
    BY <1>1, <2>1, NatLessThanWellFounded, WFMin
<1>3. d # 0 /\ N - d \in Nat /\ (N - d) + 1 = N - (d - 1)
  OBVIOUS
<1>4. d - 1 \in Q
  BY <1>3
<1>5. <<d - 1, d>> \in OpToRel(<, Nat)
  BY <1>3, <1>4 DEF OpToRel
<1> QED
  BY <1>2, <1>4, <1>5

LEMMA Upwards ==
  ASSUME NEW S, 0 \in S, \A n \in Nat : n \in S => n + 1 \in S
  PROVE  \A n \in Nat : n \in S
<1> SUFFICES ASSUME NEW b \in Nat, b \notin S PROVE FALSE
  OBVIOUS
<1> DEFINE Q == {d \in Nat : d \notin S}
<1>1. PICK d \in Q : \A y \in Q : ~(<<y, d>> \in OpToRel(<, Nat))
  <2>1. Q \subseteq Nat /\ b \in Q
    OBVIOUS
  <2> QED
    BY <2>1, NatLessThanWellFounded, WFMin
<1>2. d # 0 /\ d - 1 \in Nat /\ (d - 1) + 1 = d
  OBVIOUS
<1>3. d - 1 \in Q
  BY <1>2
<1>4. <<d - 1, d>> \in OpToRel(<, Nat)
  BY <1>2, <1>3 DEF OpToRel
<1> QED
  BY <1>1, <1>3, <1>4

-----------------------------------------------------------------------------
(* Bytes *)

LEMMA Joined ==
  ASSUME NEW s \in Seq(Nat), NEW t \in Seq(Nat)
  PROVE  /\ s \o t \in Seq(Nat) /\ Len(s) \in Nat /\ Len(t) \in Nat /\ Len(s \o t) = Len(s) + Len(t)
         /\ \A j \in 1..Len(s) : (s \o t)[j] = s[j]
         /\ \A j \in 1..Len(t) : (s \o t)[Len(s) + j] = t[j]
  OBVIOUS

LEMMA Division ==
  ASSUME NEW n \in Nat, NEW d \in Nat, d > 0
  PROVE  n \div d \in Nat /\ n % d \in Nat /\ n % d < d /\ n = (n \div d) * d + (n % d)
<1>1. n % d \in Nat /\ n % d < d
  OBVIOUS
<1>2. n = d * (n \div d) + (n % d)
  OBVIOUS
<1>3. n \div d \in Int
  OBVIOUS
<1>4. d * (n \div d) = (n \div d) * d
  BY <1>3
<1>5. n \div d \in Nat
  OBVIOUS
<1> QED
  BY <1>1, <1>2, <1>4, <1>5

LEMMA DivisionUnique ==
  ASSUME NEW n \in Nat, NEW d \in Nat, d > 0, NEW q \in Nat, NEW r \in Nat, r < d, n = q * d + r
  PROVE  n \div d = q /\ n % d = r
<1> DEFINE a == n \div d
           b == n % d
<1>1. a \in Nat /\ b \in Nat /\ b < d /\ n = a * d + b
  BY Division
<1> HIDE DEF a, b
<1>2. ASSUME a > q PROVE FALSE
  <2>1. (a - q) * d >= d
    BY <1>1, <1>2
  <2>2. (a - q) * d = a * d - q * d
    BY <1>1
  <2> QED
    BY <1>1, <2>1, <2>2
<1>3. ASSUME a < q PROVE FALSE
  <2>1. (q - a) * d >= d
    BY <1>1, <1>3
  <2>2. (q - a) * d = q * d - a * d
    BY <1>1
  <2> QED
    BY <1>1, <2>1, <2>2
<1>4. a = q
  BY <1>1, <1>2, <1>3
<1> QED
  BY <1>1, <1>4 DEF a, b

LEMMA DivideTwice ==
  ASSUME NEW n \in Nat, NEW a \in Nat, a > 0, NEW b \in Nat, b > 0
  PROVE  n \div (a * b) = (n \div a) \div b
<1>1. PICK x \in Nat, k \in Nat : x = n \div a /\ k < a /\ n = x * a + k
  BY Division
<1>2. PICK y \in Nat, m \in Nat : y = x \div b /\ m < b /\ x = y * b + m
  BY Division
<1>3. PICK r \in Nat : r = m * a + k /\ r < a * b
  <2>1. m * a \in Nat /\ m * a <= (b - 1) * a
    BY <1>2
  <2>2. (b - 1) * a = a * b - a
    OBVIOUS
  <2> QED
    BY <1>1, <2>1, <2>2
<1>4. n = y * (a * b) + r
  <2>1. (y * b + m) * a = (y * b) * a + m * a
    OBVIOUS
  <2>2. (y * b) * a = y * (a * b)
    OBVIOUS
  <2>3. (y * b) * a \in Nat /\ m * a \in Nat
    OBVIOUS
  <2> QED
    BY <1>1, <1>2, <1>3, <2>1, <2>2, <2>3
<1>5. a * b \in Nat /\ a * b > 0
  OBVIOUS
<1> QED
  BY <1>1, <1>2, <1>3, <1>4, <1>5, DivisionUnique

-----------------------------------------------------------------------------
(* Powers of the radix *)

LEMMA PowerSteps ==
  /\ Power(0) = 1
  /\ \A k \in 0..7 : Power(k + 1) = FrameRadix * Power(k)
<1> DEFINE Step(f, k) == IF k = 0 THEN 1 ELSE FrameRadix * f[k - 1]
           To(n) == {k \in 0..8 : k <= n}
           S == {n \in Nat : \E f : f = [k \in To(n) |-> Step(f, k)]}
<1>1. 0 \in S
  <2> DEFINE f == [k \in To(0) |-> 1]
  <2>1. f = [k \in To(0) |-> Step(f, k)]
    OBVIOUS
  <2> HIDE DEF f, Step
  <2> QED
    BY <2>1
<1>2. ASSUME NEW n \in Nat, n \in S PROVE n + 1 \in S
  <2>1. PICK f : f = [k \in To(n) |-> Step(f, k)]
    BY <1>2
  <2> DEFINE g == [k \in To(n + 1) |-> IF k = n + 1 THEN Step(f, k) ELSE f[k]]
  <2>2. \A k \in To(n + 1) : g[k] = Step(g, k)
    <3> TAKE k \in To(n + 1)
    <3>1. k # 0 => g[k - 1] = f[k - 1]
      OBVIOUS
    <3>2. Step(g, k) = Step(f, k)
      <4> HIDE DEF g
      <4> QED
        BY <3>1
    <3>3. CASE k = n + 1
      BY <3>2, <3>3
    <3>4. CASE k # n + 1
      <4>1. k \in To(n) /\ g[k] = f[k]
        BY <3>4
      <4>2. f[k] = Step(f, k)
        BY <2>1, <4>1
      <4> QED
        BY <3>2, <4>1, <4>2
    <3> QED
      BY <3>3, <3>4
  <2>3. g = [k \in To(n + 1) |-> g[k]]
    OBVIOUS
  <2> HIDE DEF g
  <2>4. g = [k \in To(n + 1) |-> Step(g, k)]
    BY <2>2, <2>3
  <2> HIDE DEF Step
  <2> QED
    BY <2>4
<1>3. 8 \in S
  <2> HIDE DEF S
  <2>1. \A n \in Nat : n \in S
    BY <1>1, <1>2, Upwards, Zenon
  <2> QED
    BY <2>1
<1>4. PICK f : f = [k \in 0..8 |-> Step(f, k)]
  <2>1. To(8) = 0..8
    OBVIOUS
  <2> HIDE DEF Step
  <2> QED
    BY <1>3, <2>1
<1> DEFINE p == CHOOSE h : h = [k \in 0..8 |-> Step(h, k)]
<1>5. p = [k \in 0..8 |-> Step(p, k)]
  BY <1>4
<1>6. \A k : Power(k) = p[k]
  BY Zenon DEF Power
<1> HIDE DEF p
<1>7. \A k \in 0..8 : p[k] = Step(p, k)
  <2> HIDE DEF Step
  <2> QED
    BY <1>5
<1>8. p[0] = 1
  BY <1>7
<1>9. ASSUME NEW k \in 0..7 PROVE p[k + 1] = FrameRadix * p[k]
  <2>1. k + 1 \in 0..8 /\ k + 1 # 0 /\ (k + 1) - 1 = k
    OBVIOUS
  <2>2. p[k + 1] = Step(p, k + 1)
    BY <1>7, <2>1
  <2> QED
    BY <2>1, <2>2
<1> QED
  BY <1>6, <1>8, <1>9, Zenon

LEMMA PowerTypes == \A k \in 0..8 : Power(k) \in Nat /\ Power(k) > 0
<1>1. FrameRadix \in Nat /\ FrameRadix > 0
  BY FrameAssumption
<1> DEFINE S == {n \in Nat : n \in 0..8 => Power(n) \in Nat /\ Power(n) > 0}
<1>2. 0 \in S
  BY PowerSteps
<1>3. ASSUME NEW n \in Nat, n \in S PROVE n + 1 \in S
  <2> SUFFICES ASSUME n + 1 \in 0..8 PROVE Power(n + 1) \in Nat /\ Power(n + 1) > 0
    OBVIOUS
  <2>1. n \in 0..7 /\ Power(n) \in Nat /\ Power(n) > 0
    BY <1>3
  <2>2. Power(n + 1) = FrameRadix * Power(n)
    BY <2>1, PowerSteps
  <2> QED
    BY <1>1, <2>1, <2>2
<1> HIDE DEF S
<1>4. \A n \in Nat : n \in S
  BY <1>2, <1>3, Upwards, Zenon
<1> QED
  BY <1>4 DEF S

LEMMA PowerOfSum == \A k \in 0..4 : Power(4 + k) = Power(4) * Power(k)
<1>1. \A k \in 0..8 : Power(k) \in Nat
  BY PowerTypes
<1>2. FrameRadix \in Nat
  BY FrameAssumption
<1> DEFINE S == {n \in Nat : n \in 0..4 => Power(4 + n) = Power(4) * Power(n)}
<1>3. 0 \in S
  BY <1>1, PowerSteps
<1>4. ASSUME NEW n \in Nat, n \in S PROVE n + 1 \in S
  <2> SUFFICES ASSUME n + 1 \in 0..4 PROVE Power(4 + (n + 1)) = Power(4) * Power(n + 1)
    OBVIOUS
  <2>1. /\ n \in 0..3 /\ 4 + n \in 0..7 /\ 4 + (n + 1) = (4 + n) + 1
        /\ Power(4 + n) = Power(4) * Power(n)
    BY <1>4
  <2>2. Power((4 + n) + 1) = FrameRadix * Power(4 + n) /\ Power(n + 1) = FrameRadix * Power(n)
    BY <2>1, PowerSteps
  <2>3. Power(4) \in Nat /\ Power(n) \in Nat
    BY <1>1, <2>1
  <2>4. \A r, x, y \in Nat : r * (x * y) = x * (r * y)
    OBVIOUS
  <2> QED
    BY <1>2, <2>1, <2>2, <2>3, <2>4
<1> HIDE DEF S
<1>5. \A n \in Nat : n \in S
  BY <1>3, <1>4, Upwards, Zenon
<1> QED
  BY <1>5 DEF S

-----------------------------------------------------------------------------
(* Lengths *)

LEMMA ReadSteps ==
  ASSUME NEW b, NEW from, NEW w \in Nat
  PROVE  \E v : /\ ReadUInt(b, from, w) = v[w]
                /\ v[0] = 0
                /\ \A d \in 1..w : v[d] = v[d - 1] * FrameRadix + Byte(b, from + d - 1)
<1> DEFINE Step(f, d) == IF d = 0 THEN 0 ELSE f[d - 1] * FrameRadix + Byte(b, from + d - 1)
           To(n) == {d \in 0..w : d <= n}
           S == {n \in Nat : \E f : f = [d \in To(n) |-> Step(f, d)]}
<1>1. 0 \in S
  <2> DEFINE f == [d \in To(0) |-> 0]
  <2>1. f = [d \in To(0) |-> Step(f, d)]
    OBVIOUS
  <2> HIDE DEF f, Step
  <2> QED
    BY <2>1
<1>2. ASSUME NEW n \in Nat, n \in S PROVE n + 1 \in S
  <2>1. PICK f : f = [d \in To(n) |-> Step(f, d)]
    BY <1>2
  <2> DEFINE g == [d \in To(n + 1) |-> IF d = n + 1 THEN Step(f, d) ELSE f[d]]
  <2>2. \A d \in To(n + 1) : g[d] = Step(g, d)
    <3> TAKE d \in To(n + 1)
    <3>1. d # 0 => g[d - 1] = f[d - 1]
      OBVIOUS
    <3>2. Step(g, d) = Step(f, d)
      <4> HIDE DEF g
      <4> QED
        BY <3>1
    <3>3. CASE d = n + 1
      BY <3>2, <3>3
    <3>4. CASE d # n + 1
      <4>1. d \in To(n) /\ g[d] = f[d]
        BY <3>4
      <4>2. f[d] = Step(f, d)
        BY <2>1, <4>1
      <4> QED
        BY <3>2, <4>1, <4>2
    <3> QED
      BY <3>3, <3>4
  <2>3. g = [d \in To(n + 1) |-> g[d]]
    OBVIOUS
  <2> HIDE DEF g
  <2>4. g = [d \in To(n + 1) |-> Step(g, d)]
    BY <2>2, <2>3
  <2> HIDE DEF Step
  <2> QED
    BY <2>4
<1>3. w \in S
  <2> HIDE DEF S
  <2>1. \A n \in Nat : n \in S
    BY <1>1, <1>2, Upwards, Zenon
  <2> QED
    BY <2>1
<1>4. PICK f : f = [d \in 0..w |-> Step(f, d)]
  <2>1. To(w) = 0..w
    OBVIOUS
  <2> HIDE DEF Step
  <2> QED
    BY <1>3, <2>1
<1> DEFINE v == CHOOSE h : h = [d \in 0..w |-> Step(h, d)]
<1>5. v = [d \in 0..w |-> Step(v, d)]
  BY <1>4
<1>6. ReadUInt(b, from, w) = v[w]
  BY Zenon DEF ReadUInt
<1> HIDE DEF v
<1>7. \A d \in 0..w : v[d] = Step(v, d)
  <2> HIDE DEF Step
  <2> QED
    BY <1>5
<1>8. v[0] = 0
  BY <1>7
<1>9. ASSUME NEW d \in 1..w PROVE v[d] = v[d - 1] * FrameRadix + Byte(b, from + d - 1)
  <2>1. d \in 0..w /\ d # 0
    OBVIOUS
  <2>2. v[d] = Step(v, d)
    BY <1>7, <2>1
  <2> QED
    BY <2>1, <2>2
<1> QED
  BY <1>6, <1>8, <1>9, Zenon

\* What the bytes of a number say, read from the first.
LEMMA ReadDigits ==
  ASSUME NEW b, NEW from \in Nat, NEW w \in 0..8, NEW n \in Nat,
         \A d \in 1..w : Byte(b, from + d - 1) = (n \div Power(w - d)) % FrameRadix
  PROVE  ReadUInt(b, from, w) \in Int /\ ReadUInt(b, from, w) + (n \div Power(w)) * Power(w) = n
<1>1. FrameRadix \in Nat /\ FrameRadix > 0
  BY FrameAssumption
<1>2. \A k \in 0..8 : Power(k) \in Nat /\ Power(k) > 0
  BY PowerTypes
<1>3. PICK v : /\ ReadUInt(b, from, w) = v[w]
               /\ v[0] = 0
               /\ \A d \in 1..w : v[d] = v[d - 1] * FrameRadix + Byte(b, from + d - 1)
  BY ReadSteps
<1> DEFINE quo(d) == n \div Power(w - d)
           z == n \div Power(w)
<1>4. \A d \in 0..w : quo(d) \in Nat
  <2> TAKE d \in 0..w
  <2>1. w - d \in 0..8
    OBVIOUS
  <2> QED
    BY <1>2, <2>1, Division
<1>5. quo(0) = z /\ z \in Nat
  <2>1. w - 0 = w
    OBVIOUS
  <2>2. quo(0) = z
    BY <2>1
  <2>3. quo(0) \in Nat
    BY <1>4
  <2> QED
    BY <2>2, <2>3
<1> HIDE DEF z
<1> DEFINE S == {d \in Nat : d <= w => v[d] \in Int /\ v[d] + z * Power(d) = quo(d)}
<1>6. 0 \in S
  BY <1>3, <1>5, PowerSteps
<1>7. ASSUME NEW d \in Nat, d \in S PROVE d + 1 \in S
  <2> SUFFICES ASSUME d + 1 <= w PROVE v[d + 1] \in Int /\ v[d + 1] + z * Power(d + 1) = quo(d + 1)
    OBVIOUS
  <2>1. d \in 0..7 /\ d + 1 \in 1..w /\ w - (d + 1) \in 0..7 /\ (d + 1) - 1 = d
        /\ (w - (d + 1)) + 1 = w - d
    OBVIOUS
  <2> DEFINE x == w - (d + 1)
  <2>2. Power(w - d) = FrameRadix * Power(x) /\ Power(d + 1) = FrameRadix * Power(d)
    BY <2>1, PowerSteps
  <2>3. Power(x) \in Nat /\ Power(x) > 0 /\ Power(d) \in Nat
    BY <1>2, <2>1
  <2>4. Power(w - d) = Power(x) * FrameRadix
    BY <1>1, <2>2, <2>3
  <2>5. quo(d) = quo(d + 1) \div FrameRadix
    BY <1>1, <2>3, <2>4, DivideTwice
  <2>6. quo(d + 1) \in Nat
    BY <1>4, <2>1
  <2>7. Byte(b, from + (d + 1) - 1) = quo(d + 1) % FrameRadix
    BY <2>1
  <2> HIDE DEF quo
  <2>8. /\ quo(d) \in Nat /\ quo(d + 1) % FrameRadix \in Nat
        /\ quo(d + 1) = quo(d) * FrameRadix + (quo(d + 1) % FrameRadix)
    BY <1>1, <2>5, <2>6, Division
  <2>9. v[d + 1] = v[d] * FrameRadix + (quo(d + 1) % FrameRadix)
    <3>1. v[d + 1] = v[(d + 1) - 1] * FrameRadix + Byte(b, from + (d + 1) - 1)
      BY <1>3, <2>1
    <3> QED
      BY <2>1, <2>7, <3>1
  <2>10. v[d] \in Int /\ v[d] + z * Power(d) = quo(d)
    BY <1>7, <2>1
  <2>11. ASSUME NEW a \in Int, NEW e \in Nat, NEW r \in Nat, NEW m \in Nat
         PROVE  a * r \in Int /\ (a * r + m) + e * r = (a + e) * r + m
    OBVIOUS
  <2>12. z * Power(d) \in Nat /\ z * Power(d + 1) = (z * Power(d)) * FrameRadix
    BY <1>1, <1>5, <2>2, <2>3
  <2> QED
    BY <1>1, <2>8, <2>9, <2>10, <2>11, <2>12
<1> HIDE DEF S
<1>8. \A d \in Nat : d \in S
  BY <1>6, <1>7, Upwards, Zenon
<1>9. v[w] \in Int /\ v[w] + z * Power(w) = quo(w)
  BY <1>8 DEF S
<1>10. quo(w) = n
  <2>1. w - w = 0
    OBVIOUS
  <2>2. quo(w) = n \div 1
    BY <2>1, PowerSteps
  <2> QED
    BY <2>2
<1> QED
  BY <1>3, <1>9, <1>10 DEF z

-----------------------------------------------------------------------------
(* The bytes of one frame *)

LEMMA FrameTypes ==
  ASSUME NEW f \in Frames
  PROVE  /\ f.fin \in BOOLEAN /\ f.opcode \in 0..15
         /\ f.mask = <<>> \/ f.mask \in [1..4 -> {0, 1}]
         /\ f.mask \in Seq(Nat) /\ Len(f.mask) = (IF f.mask = <<>> THEN 0 ELSE 4)
         /\ f.payload \in Seq({0, 1}) /\ Len(f.payload) \in Nat /\ Len(f.payload) < Power(8)
<1>1. /\ f.fin \in BOOLEAN /\ f.opcode \in 0..15
      /\ f.mask = <<>> \/ f.mask \in [1..4 -> {0, 1}]
      /\ f.payload \in Seq({0, 1}) /\ Len(f.payload) < Power(8)
  BY FrameAssumption
<1>2. Len(f.payload) \in Nat
  BY <1>1
<1>3. ASSUME NEW m, m \in [1..4 -> {0, 1}] PROVE m \in Seq(Nat) /\ Len(m) = 4 /\ m # <<>>
  <2>1. m = [k \in 1..4 |-> m[k]] /\ \A k \in 1..4 : m[k] \in Nat
    BY <1>3
  <2>2. m \in Seq(Nat) /\ Len(m) = 4
    BY <2>1
  <2>3. Len(<<>>) = 0
    OBVIOUS
  <2>4. m # <<>>
    BY ONLY <2>2, <2>3
  <2> QED
    BY <2>2, <2>4
<1>4. <<>> \in Seq(Nat) /\ Len(<<>>) = 0
  OBVIOUS
<1>5. f.mask \in Seq(Nat) /\ Len(f.mask) = (IF f.mask = <<>> THEN 0 ELSE 4)
  <2>1. CASE f.mask = <<>>
    <3>1. f.mask \in Seq(Nat) /\ Len(f.mask) = 0
      BY <1>4, <2>1, Zenon
    <3> QED
      BY <2>1, <3>1
  <2>2. CASE f.mask \in [1..4 -> {0, 1}]
    <3>1. f.mask \in Seq(Nat) /\ Len(f.mask) = 4 /\ f.mask # <<>>
      BY <1>3, <2>2, Zenon
    <3> QED
      BY <3>1
  <2> QED
    BY <1>1, <2>1, <2>2
<1> QED
  BY <1>1, <1>2, <1>5, Zenon

LEMMA Forms ==
  ASSUME NEW n \in Nat, n < Power(8)
  PROVE  /\ Form(n) \in 0..8
         /\ ShortLength(n) \in 0..127
         /\ \/ Form(n) = 0 /\ ShortLength(n) = n /\ ShortLength(n) < ExtLen
            \/ Form(n) = 2 /\ ShortLength(n) = ExtLen /\ n < Power(2)
            \/ Form(n) = 8 /\ ShortLength(n) = ExtLen + 1
<1>1. ExtLen \in 1..126 /\ Power(2) \in Nat
  BY FrameAssumption, PowerTypes
<1> QED
  BY <1>1 DEF Form, ShortLength

LEMMA MaskedTypes ==
  ASSUME NEW f \in Frames
  PROVE  /\ Masked(f) \in Seq(Nat) /\ Len(Masked(f)) = Len(f.payload)
         /\ \A k \in 1..Len(f.payload) :
              Masked(f)[k] = IF f.mask = <<>> THEN f.payload[k]
                             ELSE Xor(f.payload[k], f.mask[((k - 1) % 4) + 1])
<1>1. /\ f.mask = <<>> \/ f.mask \in [1..4 -> {0, 1}]
      /\ f.payload \in Seq({0, 1}) /\ Len(f.payload) \in Nat
  BY FrameTypes
<1> DEFINE g(k) == IF f.mask = <<>> THEN f.payload[k]
                   ELSE Xor(f.payload[k], f.mask[((k - 1) % 4) + 1])
<1>2. ASSUME NEW k \in 1..Len(f.payload) PROVE g(k) \in Nat
  <2>1. f.payload[k] \in {0, 1}
    BY <1>1
  <2>2. ((k - 1) % 4) + 1 \in 1..4
    OBVIOUS
  <2>3. f.mask = <<>> \/ f.mask[((k - 1) % 4) + 1] \in {0, 1}
    BY <1>1, <2>2
  <2> QED
    BY <2>1, <2>3 DEF Xor
<1>3. Masked(f) = [k \in 1..Len(f.payload) |-> g(k)]
  BY DEF Masked
<1> HIDE DEF g
<1>4. Masked(f) \in Seq(Nat) /\ Len(Masked(f)) = Len(f.payload)
      /\ \A k \in 1..Len(f.payload) : Masked(f)[k] = g(k)
  BY <1>1, <1>2, <1>3
<1> QED
  BY <1>4 DEF g

LEMMA DigitBytes ==
  ASSUME NEW n \in Nat, NEW w \in 0..8
  PROVE  /\ Digits(n, w) \in Seq(Nat) /\ Len(Digits(n, w)) = w
         /\ \A d \in 1..w : Digits(n, w)[d] = (n \div Power(w - d)) % FrameRadix
<1>1. ASSUME NEW d \in 1..w PROVE (n \div Power(w - d)) % FrameRadix \in Nat
  <2>1. FrameRadix \in Nat /\ FrameRadix > 0
    BY FrameAssumption
  <2>2. w - d \in 0..8
    OBVIOUS
  <2>3. Power(w - d) \in Nat /\ Power(w - d) > 0
    BY <2>2, PowerTypes
  <2>4. n \div Power(w - d) \in Nat
    BY <2>3, Division
  <2> QED
    BY <2>1, <2>4, Division
<1> DEFINE g(d) == (n \div Power(w - d)) % FrameRadix
<1>2. Digits(n, w) = [d \in 1..w |-> g(d)]
  BY DEF Digits
<1>3. \A d \in 1..w : g(d) \in Nat
  BY <1>1
<1> HIDE DEF g
<1>4. Digits(n, w) \in Seq(Nat) /\ Len(Digits(n, w)) = w /\ \A d \in 1..w : Digits(n, w)[d] = g(d)
  BY <1>2, <1>3
<1> QED
  BY <1>4 DEF g

LEMMA FirstTwo ==
  ASSUME NEW f \in Frames
  PROVE  /\ FirstBytes(f) \in Seq(Nat) /\ Len(FirstBytes(f)) = 2
         /\ FirstBytes(f)[1] = (IF f.fin THEN 128 ELSE 0) + f.opcode
         /\ FirstBytes(f)[2] = (IF f.mask = <<>> THEN 0 ELSE 128) + ShortLength(Len(f.payload))
<1>1. f.opcode \in 0..15 /\ Len(f.payload) \in Nat /\ Len(f.payload) < Power(8)
  BY FrameTypes
<1>2. ShortLength(Len(f.payload)) \in 0..127
  BY <1>1, Forms
<1> DEFINE p == IF f.fin THEN 128 ELSE 0
           q == IF f.mask = <<>> THEN 0 ELSE 128
           z == ShortLength(Len(f.payload))
           x == p + f.opcode
           y == q + z
<1>3. x \in Nat /\ y \in Nat
  <2>1. p \in Nat /\ q \in Nat
    OBVIOUS
  <2>2. z \in Nat
    <3>1. \A k \in 0..127 : k \in Nat
      OBVIOUS
    <3> QED
      BY <1>2, <3>1, Zenon
  <2>3. f.opcode \in Nat
    BY <1>1
  <2> HIDE DEF p, q, z
  <2> QED
    BY ONLY <2>1, <2>2, <2>3
<1>4. FirstBytes(f) = <<x, y>>
  BY DEF FirstBytes
<1> HIDE DEF x, y
<1>5. /\ FirstBytes(f) \in Seq(Nat) /\ Len(FirstBytes(f)) = 2
      /\ FirstBytes(f)[1] = x /\ FirstBytes(f)[2] = y
  BY <1>3, <1>4
<1> QED
  BY <1>5 DEF x, y

\* e is made of four parts.
FourParts(e, s, t, u, v) ==
    /\ e \in Seq(Nat) /\ Len(e) = Len(s) + Len(t) + Len(u) + Len(v)
    /\ \A j \in 1..Len(s) : e[j] = s[j]
    /\ \A j \in 1..Len(t) : e[Len(s) + j] = t[j]
    /\ \A j \in 1..Len(u) : e[Len(s) + Len(t) + j] = u[j]
    /\ \A j \in 1..Len(v) : e[Len(s) + Len(t) + Len(u) + j] = v[j]

LEMMA FourJoined ==
  ASSUME NEW s \in Seq(Nat), NEW t \in Seq(Nat), NEW u \in Seq(Nat), NEW v \in Seq(Nat)
  PROVE  FourParts(s \o (t \o (u \o v)), s, t, u, v)
<1> DEFINE a == u \o v
           c == t \o a
           e == s \o (t \o (u \o v))
<1>1. /\ a \in Seq(Nat) /\ Len(u) \in Nat /\ Len(v) \in Nat /\ Len(a) = Len(u) + Len(v)
      /\ \A j \in 1..Len(u) : a[j] = u[j]
      /\ \A j \in 1..Len(v) : a[Len(u) + j] = v[j]
  BY Joined, Zenon
<1>2. e = s \o (t \o a)
  OBVIOUS
<1> HIDE DEF a
<1>3. /\ c \in Seq(Nat) /\ Len(t) \in Nat /\ Len(c) = Len(t) + Len(a)
      /\ \A j \in 1..Len(t) : c[j] = t[j]
      /\ \A j \in 1..Len(a) : c[Len(t) + j] = a[j]
  BY <1>1, Joined, Zenon
<1>4. e = s \o c
  BY <1>2
<1> HIDE DEF c, e
<1>5. /\ s \o c \in Seq(Nat) /\ Len(s) \in Nat /\ Len(s \o c) = Len(s) + Len(c)
      /\ \A j \in 1..Len(s) : (s \o c)[j] = s[j]
      /\ \A j \in 1..Len(c) : (s \o c)[Len(s) + j] = c[j]
  BY <1>3, Joined, Zenon
<1>6. Len(e) = Len(s) + Len(t) + Len(u) + Len(v)
  BY <1>1, <1>3, <1>4, <1>5
<1>7. /\ Len(s) \in Nat /\ Len(t) \in Nat /\ Len(u) \in Nat /\ Len(v) \in Nat
       /\ Len(a) = Len(u) + Len(v) /\ Len(c) = Len(t) + Len(a)
  BY <1>1, <1>3, <1>5, Zenon
<1>8. ASSUME NEW j \in 1..Len(t) PROVE e[Len(s) + j] = t[j]
  <2>1. j \in 1..Len(c)
    BY <1>1, <1>3
  <2> QED
    BY <1>3, <1>4, <1>5, <2>1, Zenon
<1>9. ASSUME NEW j \in 1..Len(u) PROVE e[Len(s) + Len(t) + j] = u[j]
  <2>1. j \in 1..Len(a) /\ Len(t) + j \in 1..Len(c) /\ Len(s) + Len(t) + j = Len(s) + (Len(t) + j)
    BY <1>1, <1>3, <1>5
  <2> QED
    BY <1>1, <1>3, <1>4, <1>5, <2>1, Zenon
<1>10. ASSUME NEW j \in 1..Len(v) PROVE e[Len(s) + Len(t) + Len(u) + j] = v[j]
  <2>1. /\ Len(u) + j \in 1..Len(a) /\ Len(t) + (Len(u) + j) \in 1..Len(c)
        /\ Len(s) + Len(t) + Len(u) + j = Len(s) + (Len(t) + (Len(u) + j))
    BY <1>7
  <2> QED
    BY <1>1, <1>3, <1>4, <1>5, <2>1, Zenon
<1> QED
  <2>1. FourParts(e, s, t, u, v)
    BY <1>4, <1>5, <1>6, <1>8, <1>9, <1>10, Zenon DEF FourParts
  <2> QED
    BY <2>1 DEF e

\* e has two bytes, w bytes of length, m of mask and n of payload.
IsEncoded(f, n, w, m, e) ==
    /\ n \in Nat /\ w \in 0..8 /\ m \in Nat
    /\ e \in Seq(Nat) /\ Len(e) = 2 + w + m + n
    /\ e[1] = (IF f.fin THEN 128 ELSE 0) + f.opcode
    /\ e[2] = (IF f.mask = <<>> THEN 0 ELSE 128) + ShortLength(n)
    /\ \A d \in 1..w : e[2 + d] = (n \div Power(w - d)) % FrameRadix
    /\ \A j \in 1..m : e[2 + w + j] = f.mask[j]
    /\ \A j \in 1..n : e[2 + w + m + j] = Masked(f)[j]

LEMMA EncodedBytes ==
  ASSUME NEW f \in Frames
  PROVE  IsEncoded(f, Len(f.payload), Form(Len(f.payload)), Len(f.mask), Encode(f))
<1> DEFINE n == Len(f.payload)
           w == Form(n)
           m == Len(f.mask)
           e == Encode(f)
<1>1. n \in Nat /\ n < Power(8) /\ m \in Nat /\ f.mask \in Seq(Nat)
  BY FrameTypes
<1>2. w \in 0..8
  BY <1>1, Forms
<1> DEFINE s == FirstBytes(f)
           t == Digits(n, w)
           u == f.mask
           v == Masked(f)
<1>3. s \in Seq(Nat) /\ t \in Seq(Nat) /\ u \in Seq(Nat) /\ v \in Seq(Nat)
  BY <1>1, <1>2, FirstTwo, DigitBytes, MaskedTypes, Zenon
<1>4. Len(s) = 2 /\ Len(t) = w /\ Len(u) = m /\ Len(v) = n
  BY <1>1, <1>2, FirstTwo, DigitBytes, MaskedTypes, Zenon
<1>5. /\ s[1] = (IF f.fin THEN 128 ELSE 0) + f.opcode
      /\ s[2] = (IF f.mask = <<>> THEN 0 ELSE 128) + ShortLength(n)
  BY FirstTwo
<1>6. \A d \in 1..w : t[d] = (n \div Power(w - d)) % FrameRadix
  BY <1>1, <1>2, DigitBytes, Zenon
<1>7. e = s \o (t \o (u \o v))
  BY Zenon DEF Encode
<1> HIDE DEF n, w, m, e, s, t, u, v
<1>8. FourParts(e, s, t, u, v)
  BY <1>3, <1>7, FourJoined, Zenon
<1>9. /\ e \in Seq(Nat) /\ Len(e) = 2 + w + m + n
      /\ \A j \in 1..2 : e[j] = s[j]
      /\ \A j \in 1..w : e[2 + j] = t[j]
      /\ \A j \in 1..m : e[2 + w + j] = u[j]
      /\ \A j \in 1..n : e[2 + w + m + j] = v[j]
  BY ONLY <1>4, <1>8, Zenon DEF FourParts
<1>10. e[1] = s[1] /\ e[2] = s[2]
  BY ONLY <1>9, 1 \in 1..2, 2 \in 1..2, Zenon
<1>11. \A d \in 1..w : e[2 + d] = (n \div Power(w - d)) % FrameRadix
  BY ONLY <1>6, <1>9, Zenon
<1>12. \A j \in 1..m : e[2 + w + j] = f.mask[j]
  BY ONLY <1>9, Zenon DEF u
<1>13. \A j \in 1..n : e[2 + w + m + j] = Masked(f)[j]
  BY ONLY <1>9, Zenon DEF v
<1>14. IsEncoded(f, n, w, m, e)
  BY <1>1, <1>2, <1>5, <1>9, <1>10, <1>11, <1>12, <1>13, Zenon DEF IsEncoded
<1> QED
  BY <1>14 DEF n, w, m, e

-----------------------------------------------------------------------------
(* parseFrame on the bytes of a frame *)

\* As far as b reaches, it is e.
Agrees(b, e) == b \in Seq(Nat) /\ \A k \in 1..Len(b) : k <= Len(e) => b[k] = e[k]

LEMMA ShortQuotient == ASSUME NEW n \in Nat, NEW d \in Nat, n < d PROVE n \div d = 0
<1>1. n = 0 * d + n /\ d > 0
  OBVIOUS
<1> QED
  BY <1>1, DivisionUnique

LEMMA TwoByteLength ==
  ASSUME NEW b, NEW n \in Nat, n < Power(2),
         \A d \in 1..2 : b[2 + d] = (n \div Power(2 - d)) % FrameRadix
  PROVE  ReadUInt(b, 2, 2) = n
<1>1. Power(2) \in Nat
  BY PowerTypes
<1>2. n \div Power(2) = 0
  BY <1>1, ShortQuotient
<1>3. \A d \in 1..2 : Byte(b, 2 + d - 1) = (n \div Power(2 - d)) % FrameRadix
  <2> TAKE d \in 1..2
  <2>1. (2 + d - 1) + 1 = 2 + d
    OBVIOUS
  <2>2. Byte(b, 2 + d - 1) = b[2 + d]
    BY <2>1 DEF Byte
  <2> QED
    BY <2>2, Zenon
<1>4. 2 \in 0..8 /\ 2 \in Nat
  OBVIOUS
<1>5. ReadUInt(b, 2, 2) \in Int /\ ReadUInt(b, 2, 2) + (n \div Power(2)) * Power(2) = n
  BY <1>3, <1>4, ReadDigits, Zenon
<1>6. ReadUInt(b, 2, 2) + 0 * Power(2) = n
  BY <1>2, <1>5, Zenon
<1> QED
  BY <1>1, <1>5, <1>6

LEMMA EightByteLength ==
  ASSUME NEW b, NEW n \in Nat, n < Power(8),
         \A d \in 1..8 : b[2 + d] = (n \div Power(8 - d)) % FrameRadix
  PROVE  ReadUInt(b, 2, 4) * Power(4) + ReadUInt(b, 6, 4) = n
<1>1. Power(4) \in Nat /\ Power(4) > 0 /\ Power(8) \in Nat /\ Power(8) > 0
  BY PowerTypes
<1>2. Power(8) = Power(4) * Power(4)
  <2>1. 4 \in 0..4 /\ 4 + 4 = 8
    OBVIOUS
  <2> QED
    BY <2>1, PowerOfSum, Zenon
<1> DEFINE h == n \div Power(4)
<1>3. h \in Nat
  BY <1>1, Division
<1>4. h \div Power(4) = 0
  <2>1. n \div Power(8) = 0
    BY <1>1, ShortQuotient
  <2>2. n \div (Power(4) * Power(4)) = h \div Power(4)
    BY <1>1, DivideTwice
  <2> QED
    BY <1>2, <2>1, <2>2, Zenon
<1>5. \A d \in 1..4 : Byte(b, 2 + d - 1) = (h \div Power(4 - d)) % FrameRadix
  <2> TAKE d \in 1..4
  <2>1. d \in 1..8 /\ (2 + d - 1) + 1 = 2 + d /\ 8 - d = 4 + (4 - d) /\ 4 - d \in 0..4 /\ 4 - d \in 0..8
    OBVIOUS
  <2>2. Byte(b, 2 + d - 1) = b[2 + d]
    BY <2>1 DEF Byte
  <2>3. b[2 + d] = (n \div Power(4 + (4 - d))) % FrameRadix
    BY <2>1, Zenon
  <2>4. Power(4 + (4 - d)) = Power(4) * Power(4 - d)
    BY <2>1, PowerOfSum, Zenon
  <2>5. Power(4 - d) \in Nat /\ Power(4 - d) > 0
    BY <2>1, PowerTypes, Zenon
  <2>6. n \div (Power(4) * Power(4 - d)) = h \div Power(4 - d)
    BY <1>1, <2>5, DivideTwice
  <2> QED
    BY <2>2, <2>3, <2>4, <2>6, Zenon
<1>6. \A d \in 1..4 : Byte(b, 6 + d - 1) = (n \div Power(4 - d)) % FrameRadix
  <2> TAKE d \in 1..4
  <2>1. 4 + d \in 1..8 /\ (6 + d - 1) + 1 = 2 + (4 + d) /\ 8 - (4 + d) = 4 - d
    OBVIOUS
  <2>2. Byte(b, 6 + d - 1) = b[2 + (4 + d)]
    BY <2>1 DEF Byte
  <2>3. b[2 + (4 + d)] = (n \div Power(8 - (4 + d))) % FrameRadix
    BY <2>1, Zenon
  <2> QED
    BY <2>1, <2>2, <2>3, Zenon
<1>7. 4 \in 0..8 /\ 2 \in Nat /\ 6 \in Nat
  OBVIOUS
<1> HIDE DEF h
<1>8. ReadUInt(b, 2, 4) \in Int /\ ReadUInt(b, 2, 4) + (h \div Power(4)) * Power(4) = h
  BY <1>3, <1>5, <1>7, ReadDigits, Zenon
<1>9. ReadUInt(b, 6, 4) \in Int /\ ReadUInt(b, 6, 4) + (n \div Power(4)) * Power(4) = n
  BY <1>6, <1>7, ReadDigits, Zenon
<1>10. ReadUInt(b, 2, 4) + 0 * Power(4) = h
  BY <1>4, <1>8, Zenon
<1>11. ReadUInt(b, 2, 4) = h
  BY <1>1, <1>8, <1>10
<1>12. ReadUInt(b, 6, 4) + h * Power(4) = n
  BY <1>9, Zenon DEF h
<1> DEFINE x == h * Power(4)
<1>13. x \in Int
  BY <1>1, <1>3
<1>14. ReadUInt(b, 2, 4) * Power(4) = x
  BY <1>11
<1> HIDE DEF x
<1>15. ReadUInt(b, 6, 4) + x = n
  BY <1>12 DEF x
<1> QED
  BY <1>9, <1>13, <1>14, <1>15

\* The second byte says how many bytes of length follow, and whether a mask.
LEMMA SecondByte ==
  ASSUME NEW f \in Frames, NEW b,
         b[2] = (IF f.mask = <<>> THEN 0 ELSE 128) + ShortLength(Len(f.payload))
  PROVE  /\ Byte(b, 1) % 128 = ShortLength(Len(f.payload))
         /\ ExtBytes(b) = Form(Len(f.payload))
         /\ HasMask(b) <=> f.mask # <<>>
         /\ PayloadStart(b) = 2 + Form(Len(f.payload)) + Len(f.mask)
<1> DEFINE n == Len(f.payload)
           q == ShortLength(n)
           w == Form(n)
<1>1. n \in Nat /\ n < Power(8) /\ Len(f.mask) = (IF f.mask = <<>> THEN 0 ELSE 4)
  BY FrameTypes
<1>2. /\ q \in 0..127 /\ w \in 0..8
      /\ \/ w = 0 /\ q < ExtLen
         \/ w = 2 /\ q = ExtLen
         \/ w = 8 /\ q = ExtLen + 1
  BY <1>1, Forms, Zenon
<1>3. Byte(b, 1) = (IF f.mask = <<>> THEN 0 ELSE 128) + q
  <2>1. 1 + 1 = 2
    OBVIOUS
  <2> QED
    BY <2>1 DEF Byte
<1> HIDE DEF q, w
<1>4. Byte(b, 1) % 128 = q /\ (Byte(b, 1) >= 128 <=> f.mask # <<>>)
  BY <1>2, <1>3
<1>5. ExtLen \in 1..126
  BY FrameAssumption
<1>6. ExtBytes(b) = w
  BY <1>2, <1>4, <1>5 DEF ExtBytes
<1>7. HasMask(b) <=> f.mask # <<>>
  BY <1>4 DEF HasMask
<1>8. PayloadStart(b) = 2 + w + Len(f.mask)
  BY <1>1, <1>6, <1>7 DEF PayloadStart
<1> QED
  BY <1>4, <1>6, <1>7, <1>8 DEF q, w

LEMMA LengthOfFrame ==
  ASSUME NEW f \in Frames, NEW n, n = Len(f.payload), NEW w, w = Form(n), NEW b,
         Byte(b, 1) % 128 = ShortLength(n), ExtBytes(b) = w,
         \A d \in 1..w : b[2 + d] = (n \div Power(w - d)) % FrameRadix
  PROVE  PayloadLength(b) = n
<1>1. n \in Nat /\ n < Power(8)
  BY FrameTypes
<1>2. \/ w = 0 /\ ShortLength(n) = n
      \/ w = 2 /\ n < Power(2)
      \/ w = 8
  BY <1>1, Forms, Zenon
<1>3. CASE w = 0 /\ ShortLength(n) = n
  BY <1>3 DEF PayloadLength
<1>4. CASE w = 2 /\ n < Power(2)
  <2>1. \A d \in 1..2 : b[2 + d] = (n \div Power(2 - d)) % FrameRadix
    BY <1>4, Zenon
  <2>2. ReadUInt(b, 2, 2) = n
    BY <1>1, <1>4, <2>1, TwoByteLength, Zenon
  <2> QED
    BY <1>4, <2>2 DEF PayloadLength
<1>5. CASE w = 8
  <2>1. \A d \in 1..8 : b[2 + d] = (n \div Power(8 - d)) % FrameRadix
    BY <1>5, Zenon
  <2>2. ReadUInt(b, 2, 4) * Power(4) + ReadUInt(b, 6, 4) = n
    BY <1>1, <2>1, EightByteLength, Zenon
  <2>3. ExtBytes(b) # 0 /\ ExtBytes(b) # 2
    BY <1>5
  <2> QED
    BY <2>2, <2>3, Zenon DEF PayloadLength
<1> QED
  BY <1>2, <1>3, <1>4, <1>5

\* The header that parseFrame reads from the bytes of f.
HeaderFields(f) ==
    [short |-> FALSE, fin |-> f.fin, opcode |-> f.opcode, masked |-> f.mask # <<>>,
     payloadStart |-> 2 + Form(Len(f.payload)) + Len(f.mask), payloadLength |-> Len(f.payload)]

LEMMA HeaderOfFrame ==
  ASSUME NEW f \in Frames, NEW b, Agrees(b, Encode(f))
  PROVE  /\ Len(b) < Len(Encode(f)) => Header(b) = Short
         /\ Len(b) >= Len(Encode(f)) => Header(b) = HeaderFields(f)
<1> DEFINE n == Len(f.payload)
           w == Form(n)
           m == Len(f.mask)
           e == Encode(f)
<1>1. IsEncoded(f, n, w, m, e)
  BY EncodedBytes
<1> HIDE DEF n, w, m, e
<1>2. /\ Len(b) \in Nat /\ \A k \in 1..Len(b) : k <= Len(e) => b[k] = e[k]
      /\ n \in Nat /\ w \in 0..8 /\ m \in Nat /\ Len(e) = 2 + w + m + n
  BY <1>1 DEF Agrees, IsEncoded, e
<1>3. /\ e[1] = (IF f.fin THEN 128 ELSE 0) + f.opcode
      /\ e[2] = (IF f.mask = <<>> THEN 0 ELSE 128) + ShortLength(n)
      /\ \A d \in 1..w : e[2 + d] = (n \div Power(w - d)) % FrameRadix
  BY <1>1, Zenon DEF IsEncoded
<1>4. CASE Len(b) < 2
  <2>1. Header(b) = Short
    BY <1>4, Zenon DEF Header
  <2>2. Len(b) < Len(e)
    BY <1>2, <1>4
  <2> QED
    BY <1>2, <2>1, <2>2 DEF e
<1>5. CASE Len(b) >= 2
  <2>1. b[1] = e[1] /\ b[2] = e[2]
    <3>1. 1 \in 1..Len(b) /\ 2 \in 1..Len(b) /\ 1 <= Len(e) /\ 2 <= Len(e)
      BY <1>2, <1>5
    <3> QED
      BY <1>2, <3>1, Zenon
  <2>2. /\ Byte(b, 1) % 128 = ShortLength(n) /\ ExtBytes(b) = w
        /\ HasMask(b) <=> f.mask # <<>>
        /\ PayloadStart(b) = 2 + w + m
    <3>1. b[2] = (IF f.mask = <<>> THEN 0 ELSE 128) + ShortLength(n)
      BY <1>3, <2>1, Zenon
    <3> QED
      BY <3>1, SecondByte, Zenon DEF n, w, m
  <2>3. CASE Len(b) < 2 + w + m
    <3>1. Len(b) < PayloadStart(b)
      BY <2>2, <2>3, Zenon
    <3>2. Header(b) = Short
      BY <3>1, Zenon DEF Header
    <3>3. Len(b) < Len(e)
      BY <1>2, <2>3
    <3> QED
      BY <1>2, <3>2, <3>3 DEF e
  <2>4. CASE Len(b) >= 2 + w + m
    <3>1. \A d \in 1..w : b[2 + d] = (n \div Power(w - d)) % FrameRadix
      <4> TAKE d \in 1..w
      <4>1. 2 + d \in 1..Len(b) /\ 2 + d <= Len(e)
        BY <1>2, <2>4
      <4> QED
        BY <1>3, <1>2, <4>1, Zenon
    <3>2. PayloadLength(b) = n
      BY <2>2, <3>1, LengthOfFrame, Zenon DEF n, w
    <3>3. CASE Len(b) < Len(e)
      <4>1. Len(b) < PayloadStart(b) + PayloadLength(b)
        <5>1. PayloadStart(b) + PayloadLength(b) = Len(e)
          BY <1>2, <2>2, <3>2
        <5> QED
          BY <3>3, <5>1, Zenon
      <4>2. Header(b) = Short
        BY <4>1, Zenon DEF Header
      <4> QED
        BY <1>2, <3>3, <4>2 DEF e
    <3>4. CASE Len(b) >= Len(e)
      <4>1. /\ ~(Len(b) < 2) /\ ~(Len(b) < 2 + ExtBytes(b)) /\ ~(Len(b) < PayloadStart(b))
            /\ ~(Len(b) < PayloadStart(b) + PayloadLength(b))
        BY <1>2, <2>2, <3>2, <3>4
      <4>2. Header(b) = [short |-> FALSE, fin |-> Byte(b, 0) >= 128, opcode |-> Byte(b, 0) % 16,
                         masked |-> HasMask(b), payloadStart |-> PayloadStart(b),
                         payloadLength |-> PayloadLength(b)]
        BY <4>1, Zenon DEF Header
      <4>3. (Byte(b, 0) >= 128) = f.fin /\ Byte(b, 0) % 16 = f.opcode
        <5>1. f.fin \in BOOLEAN /\ f.opcode \in 0..15
          BY FrameTypes
        <5>2. Byte(b, 0) = (IF f.fin THEN 128 ELSE 0) + f.opcode
          <6>1. 0 + 1 = 1
            OBVIOUS
          <6> QED
            BY <1>3, <2>1, <6>1 DEF Byte
        <5> QED
          BY <5>1, <5>2
      <4>4. HasMask(b) = (f.mask # <<>>)
        BY <2>2 DEF HasMask
      <4>5. Header(b) = HeaderFields(f)
        BY <2>2, <3>2, <4>2, <4>3, <4>4, Zenon DEF HeaderFields, n, w, m
      <4> QED
        BY <1>2, <3>4, <4>5 DEF e
    <3> QED
      BY <1>2, <3>3, <3>4
  <2> QED
    BY <1>2, <2>3, <2>4
<1> QED
  BY <1>2, <1>4, <1>5

-----------------------------------------------------------------------------
(* The payload that parseFrame hands out *)

LEMMA XorTwice == ASSUME NEW x \in {0, 1}, NEW y \in {0, 1} PROVE Xor(Xor(x, y), y) = x
  BY DEF Xor

LEMMA PayloadOfFrame ==
  ASSUME NEW f \in Frames, NEW b, Agrees(b, Encode(f)), Len(b) >= Len(Encode(f))
  PROVE  LET h == HeaderFields(f)
             end == h.payloadStart + h.payloadLength
             u == Unmask(b, h)
         IN  /\ SubSeq(u, h.payloadStart + 1, end) = f.payload
             /\ end = Len(Encode(f))
             /\ SubSeq(u, end + 1, Len(u)) = SubSeq(b, end + 1, Len(b))
<1> DEFINE n == Len(f.payload)
           w == Form(n)
           m == Len(f.mask)
           e == Encode(f)
           h == HeaderFields(f)
           start == h.payloadStart
           end == start + h.payloadLength
           u == Unmask(b, h)
<1>1. IsEncoded(f, n, w, m, e)
  BY EncodedBytes
<1>2. h.masked = (f.mask # <<>>) /\ start = 2 + w + m /\ h.payloadLength = n
  BY DEF HeaderFields
<1>3. /\ m = (IF f.mask = <<>> THEN 0 ELSE 4)
      /\ f.mask = <<>> \/ f.mask \in [1..4 -> {0, 1}]
      /\ f.payload \in Seq({0, 1})
  BY FrameTypes
<1> DEFINE v(k) == IF f.mask # <<>> /\ k - 1 - start \in 0..(n - 1)
                   THEN Xor(b[k], Byte(b, start - 4 + ((k - 1 - start) % 4))) ELSE b[k]
<1>4. u = [k \in 1..Len(b) |-> v(k)]
  BY <1>2, Zenon DEF Unmask
<1> HIDE DEF n, w, m, e, h, u
<1>5. end = start + n
  BY <1>2
<1> HIDE DEF start, end
<1>6. /\ b \in Seq(Nat) /\ Len(b) \in Nat /\ Len(b) >= Len(e)
      /\ \A k \in 1..Len(b) : k <= Len(e) => b[k] = e[k]
  BY DEF Agrees, e
<1>7. /\ n \in Nat /\ w \in 0..8 /\ m \in Nat /\ start = 2 + w + m
      /\ start \in Nat /\ end \in Nat /\ end = start + n /\ Len(e) = end /\ end <= Len(b)
  <2>1. n \in Nat /\ w \in 0..8 /\ m \in Nat /\ Len(e) = 2 + w + m + n
    BY <1>1, Zenon DEF IsEncoded
  <2>2. start = 2 + w + m /\ Len(b) \in Nat /\ Len(b) >= Len(e)
    BY <1>2, <1>6, Zenon
  <2> QED
    BY ONLY <1>5, <2>1, <2>2
<1>8. ASSUME NEW j \in 1..n PROVE v(start + j) = f.payload[j]
  <2>1. Masked(f)[j] = IF f.mask = <<>> THEN f.payload[j]
                       ELSE Xor(f.payload[j], f.mask[((j - 1) % 4) + 1])
    BY MaskedTypes, Zenon DEF n
  <2>2. b[start + j] = Masked(f)[j]
    <3>1. start + j \in 1..Len(b) /\ start + j <= Len(e) /\ start + j = 2 + w + m + j
      <4>1. Len(b) \in Nat
        BY <1>6, Zenon
      <4> QED
        BY ONLY <1>7, <4>1, j \in 1..n
    <3> QED
      BY <1>1, <1>6, <3>1, Zenon DEF IsEncoded
  <2>3. f.payload[j] \in {0, 1}
    BY <1>3 DEF n
  <2>4. CASE f.mask = <<>>
    <3>1. v(start + j) = b[start + j]
      BY <2>4
    <3> QED
      BY <2>1, <2>2, <2>4, <3>1, Zenon
  <2>5. CASE f.mask # <<>>
    <3> DEFINE r == (j - 1) % 4
    <3>1. r \in 0..3 /\ r + 1 \in 1..4
      BY <1>7
    <3> HIDE DEF r
    <3>2. m = 4 /\ f.mask[r + 1] \in {0, 1}
      BY <1>3, <2>5, <3>1 DEF m
    <3>3. (start + j) - 1 - start = j - 1 /\ j - 1 \in 0..(n - 1)
      BY <1>7
    <3>4. v(start + j) = Xor(b[start + j], Byte(b, start - 4 + r))
      BY <2>5, <3>3, Zenon DEF r
    <3>5. Byte(b, start - 4 + r) = f.mask[r + 1]
      <4>1. (start - 4 + r) + 1 = 2 + w + (r + 1) /\ r + 1 \in 1..m
        BY <1>7, <3>1, <3>2
      <4>2. 2 + w + (r + 1) \in 1..Len(b) /\ 2 + w + (r + 1) <= Len(e)
        BY <1>6, <1>7, <3>1, <3>2
      <4>3. b[2 + w + (r + 1)] = f.mask[r + 1]
        BY <1>1, <1>6, <4>1, <4>2, Zenon DEF IsEncoded
      <4> QED
        BY <4>1, <4>3, Zenon DEF Byte
    <3>6. b[start + j] = Xor(f.payload[j], f.mask[r + 1])
      BY <2>1, <2>2, <2>5, Zenon DEF r
    <3>7. Xor(Xor(f.payload[j], f.mask[r + 1]), f.mask[r + 1]) = f.payload[j]
      BY <2>3, <3>2, XorTwice, Zenon
    <3> QED
      BY <3>4, <3>5, <3>6, <3>7, Zenon
  <2> QED
    BY <2>4, <2>5
<1>9. ASSUME NEW k \in 1..Len(b), k > end PROVE v(k) = b[k]
  <2>1. ~(k - 1 - start \in 0..(n - 1))
    BY <1>7, <1>9
  <2> QED
    BY <2>1, Zenon
<1> HIDE DEF v
<1>10. Len(u) = Len(b) /\ DOMAIN u = 1..Len(b) /\ \A k \in 1..Len(b) : u[k] = v(k)
  BY <1>4, <1>6
<1>11. SubSeq(u, start + 1, end) = f.payload
  <2>1. SubSeq(u, start + 1, end) = [j \in 1..(end - (start + 1) + 1) |-> u[j + (start + 1) - 1]]
    BY <1>4, <1>6, <1>7
  <2>2. end - (start + 1) + 1 = n
    BY <1>7
  <2>3. ASSUME NEW j \in 1..n PROVE u[j + (start + 1) - 1] = f.payload[j]
    <3>1. j + (start + 1) - 1 = start + j /\ start + j \in 1..Len(b)
      BY <1>6, <1>7
    <3> QED
      BY <1>8, <1>10, <3>1, Zenon
  <2>4. f.payload = [j \in 1..n |-> f.payload[j]]
    BY <1>3 DEF n
  <2>5. [j \in 1..n |-> u[j + (start + 1) - 1]] = [j \in 1..n |-> f.payload[j]]
    BY <2>3
  <2> QED
    BY <2>1, <2>2, <2>4, <2>5, Zenon
<1>12. SubSeq(u, end + 1, Len(u)) = SubSeq(b, end + 1, Len(b))
  <2> DEFINE d == Len(b) - (end + 1) + 1
  <2>1. /\ SubSeq(u, end + 1, Len(u)) = [j \in 1..d |-> u[j + (end + 1) - 1]]
        /\ SubSeq(b, end + 1, Len(b)) = [j \in 1..d |-> b[j + (end + 1) - 1]]
    BY <1>4, <1>6, <1>7, <1>10
  <2>2. ASSUME NEW j \in 1..d PROVE u[j + (end + 1) - 1] = b[j + (end + 1) - 1]
    <3>1. j + (end + 1) - 1 \in 1..Len(b) /\ j + (end + 1) - 1 > end
      BY <1>6, <1>7
    <3> QED
      BY <1>9, <1>10, <3>1, Zenon
  <2> HIDE DEF d
  <2>3. [j \in 1..d |-> u[j + (end + 1) - 1]] = [j \in 1..d |-> b[j + (end + 1) - 1]]
    BY <2>2
  <2> QED
    BY <2>1, <2>3, Zenon
<1> QED
  BY <1>7, <1>11, <1>12, Zenon DEF e, end, start, u, h

-----------------------------------------------------------------------------
(* The bytes of a connection *)

StreamStep(fs, f, n) == IF n > Len(fs) THEN <<>> ELSE Encode(fs[n]) \o f[n + 1]

LEMMA StreamSteps ==
  ASSUME NEW fs \in Seq(Frames)
  PROVE  \A k \in Nat : Stream(fs, k) = IF k > Len(fs) THEN <<>> ELSE Encode(fs[k]) \o Stream(fs, k + 1)
<1> DEFINE From(n) == {k \in Nat : k >= n}
           S == {n \in Nat : \E f : f = [k \in From(n) |-> StreamStep(fs, f, k)]}
           N == Len(fs) + 1
<1>1. N \in Nat /\ N \in S
  <2> DEFINE f == [k \in From(N) |-> <<>>]
  <2>1. \A k \in From(N) : StreamStep(fs, f, k) = <<>>
    <3> HIDE DEF f
    <3> QED
      BY DEF StreamStep
  <2>2. \A g : (\A k \in From(N) : StreamStep(fs, g, k) = <<>>)
               => [k \in From(N) |-> StreamStep(fs, g, k)] = [k \in From(N) |-> <<>>]
    OBVIOUS
  <2>3. f = [k \in From(N) |-> StreamStep(fs, f, k)]
    BY <2>1, <2>2
  <2> HIDE DEF f
  <2>4. \E h : h = [k \in From(N) |-> StreamStep(fs, h, k)]
    BY <2>3
  <2>5. N \in Nat
    OBVIOUS
  <2> QED
    BY <2>4, <2>5
<1>2. ASSUME NEW n \in Nat, n + 1 \in S PROVE n \in S
  <2>1. PICK f : f = [k \in From(n + 1) |-> StreamStep(fs, f, k)]
    BY <1>2
  <2> DEFINE g == [k \in From(n) |-> IF k = n THEN StreamStep(fs, f, n) ELSE f[k]]
  <2>2. \A k \in From(n) : g[k + 1] = f[k + 1]
    OBVIOUS
  <2>3. \A k \in From(n) : g[k] = StreamStep(fs, g, k)
    <3> TAKE k \in From(n)
    <3>1. StreamStep(fs, g, k) = StreamStep(fs, f, k)
      <4> HIDE DEF g
      <4> QED
        BY <2>2 DEF StreamStep
    <3>2. g[k] = StreamStep(fs, f, k)
      <4>1. CASE k = n
        BY <4>1
      <4>2. CASE k # n
        <5>1. k \in From(n + 1) /\ g[k] = f[k]
          BY <4>2
        <5>2. f[k] = StreamStep(fs, f, k)
          BY <2>1, <5>1
        <5> QED
          BY <5>1, <5>2
      <4> QED
        BY <4>1, <4>2
    <3> QED
      BY <3>1, <3>2
  <2>4. g = [k \in From(n) |-> g[k]]
    OBVIOUS
  <2> HIDE DEF g
  <2>5. g = [k \in From(n) |-> StreamStep(fs, g, k)]
    BY <2>3, <2>4
  <2> QED
    BY <2>5
<1> HIDE DEF S
<1>3. 0 \in S
  <2>1. \A n \in 0..N : n \in S
    BY <1>1, <1>2, Downwards, Zenon
  <2> QED
    BY <1>1, <2>1
<1>4. \E f : f = [k \in Nat |-> StreamStep(fs, f, k)]
  <2>1. From(0) = Nat
    OBVIOUS
  <2> QED
    BY <1>3, <2>1 DEF S
<1> DEFINE p == CHOOSE h : h = [k \in Nat |-> StreamStep(fs, h, k)]
<1>5. p = [k \in Nat |-> StreamStep(fs, p, k)]
  BY <1>4
<1>6. \A k : Stream(fs, k) = p[k]
  BY Zenon DEF Stream, StreamStep
<1> HIDE DEF p
<1>7. \A k \in Nat : p[k] = StreamStep(fs, p, k)
  BY <1>5
<1> QED
  BY <1>6, <1>7, Zenon DEF StreamStep

LEMMA StreamTypes ==
  ASSUME NEW fs \in Seq(Frames)
  PROVE  \A k \in Nat \ {0} : Stream(fs, k) \in Seq(Nat)
<1> DEFINE S == {n \in Nat : n = 0 \/ Stream(fs, n) \in Seq(Nat)}
           N == Len(fs) + 1
<1>1. N \in Nat
  OBVIOUS
<1>2. ASSUME NEW k \in Nat, k >= N PROVE k \in S
  <2>1. k > Len(fs)
    BY <1>1, <1>2
  <2>2. Stream(fs, k) = <<>>
    BY <2>1, StreamSteps
  <2>3. <<>> \in Seq(Nat)
    OBVIOUS
  <2> QED
    BY <2>2, <2>3
<1>3. ASSUME NEW n \in Nat, n + 1 \in S PROVE n \in S
  <2>1. CASE n = 0
    BY <2>1
  <2>2. CASE n > Len(fs)
    BY <1>2, <2>2
  <2>3. CASE n \in 1..Len(fs)
    <3>1. Encode(fs[n]) \in Seq(Nat)
      <4>1. fs[n] \in Frames
        BY <2>3
      <4> QED
        BY <4>1, EncodedBytes, Zenon DEF IsEncoded
    <3>2. Stream(fs, n + 1) \in Seq(Nat)
      BY <1>3
    <3>3. Stream(fs, n) = Encode(fs[n]) \o Stream(fs, n + 1)
      BY <2>3, StreamSteps
    <3>4. Encode(fs[n]) \o Stream(fs, n + 1) \in Seq(Nat)
      BY <3>1, <3>2, Joined, Zenon
    <3> QED
      BY <3>3, <3>4
  <2> QED
    BY <2>1, <2>2, <2>3
<1> HIDE DEF S
<1>4. \A n \in 0..N : n \in S
  <2>1. N \in S
    BY <1>1, <1>2
  <2> QED
    BY <1>1, <1>3, <2>1, Downwards, Zenon
<1>5. \A k \in Nat : k \in S
  BY <1>1, <1>2, <1>4
<1> QED
  BY <1>5 DEF S

LEMMA SameBytes ==
  ASSUME NEW s \in Seq(Nat), NEW t \in Seq(Nat), Len(s) = Len(t), \A j \in 1..Len(s) : s[j] = t[j]
  PROVE  s = t
  OBVIOUS

LEMMA PartOf ==
  ASSUME NEW s \in Seq(Nat), NEW a \in 1..(Len(s) + 1), NEW c \in (a - 1)..Len(s)
  PROVE  /\ SubSeq(s, a, c) \in Seq(Nat) /\ Len(SubSeq(s, a, c)) = c - a + 1
         /\ \A j \in 1..(c - a + 1) : SubSeq(s, a, c)[j] = s[a + j - 1]
  OBVIOUS

LEMMA Reassociate ==
  ASSUME NEW s \in Seq(Nat), NEW t \in Seq(Nat), NEW n \in 1..Len(t)
  PROVE  /\ s \o SubSeq(t, 1, n) \in Seq(Nat) /\ SubSeq(t, n + 1, Len(t)) \in Seq(Nat)
         /\ (s \o SubSeq(t, 1, n)) \o SubSeq(t, n + 1, Len(t)) = s \o t
<1> DEFINE a == SubSeq(t, 1, n)
           c == SubSeq(t, n + 1, Len(t))
           l == s \o a
           x == l \o c
           y == s \o t
<1>1. Len(s) \in Nat /\ Len(t) \in Nat /\ n \in Nat
  OBVIOUS
<1>2. /\ a \in Seq(Nat) /\ Len(a) = n /\ \A j \in 1..n : a[j] = t[j]
  <2>1. 1 \in 1..(Len(t) + 1) /\ n \in (1 - 1)..Len(t) /\ n - 1 + 1 = n
    BY <1>1
  <2>2. /\ a \in Seq(Nat) /\ Len(a) = n - 1 + 1
        /\ \A j \in 1..(n - 1 + 1) : a[j] = t[1 + j - 1]
    BY <2>1, PartOf, Zenon
  <2>3. \A j \in 1..n : 1 + j - 1 = j
    OBVIOUS
  <2> QED
    BY <2>1, <2>2, <2>3, Zenon
<1>3. /\ c \in Seq(Nat) /\ Len(c) = Len(t) - n /\ \A j \in 1..(Len(t) - n) : c[j] = t[n + j]
  <2>1. n + 1 \in 1..(Len(t) + 1) /\ Len(t) \in ((n + 1) - 1)..Len(t) /\ Len(t) - (n + 1) + 1 = Len(t) - n
    BY <1>1
  <2>2. /\ c \in Seq(Nat) /\ Len(c) = Len(t) - (n + 1) + 1
        /\ \A j \in 1..(Len(t) - (n + 1) + 1) : c[j] = t[(n + 1) + j - 1]
    BY <2>1, PartOf, Zenon
  <2>3. \A j \in 1..(Len(t) - n) : (n + 1) + j - 1 = n + j
    BY <1>1
  <2> QED
    BY <2>1, <2>2, <2>3, Zenon
<1> HIDE DEF a, c
<1>4. /\ l \in Seq(Nat) /\ Len(l) = Len(s) + n
      /\ \A j \in 1..Len(s) : l[j] = s[j]
      /\ \A j \in 1..n : l[Len(s) + j] = a[j]
  BY <1>2, Joined, Zenon
<1> HIDE DEF l
<1>5. /\ x \in Seq(Nat) /\ Len(x) = (Len(s) + n) + (Len(t) - n)
      /\ \A j \in 1..(Len(s) + n) : x[j] = l[j]
      /\ \A j \in 1..(Len(t) - n) : x[(Len(s) + n) + j] = c[j]
  <2>1. /\ x \in Seq(Nat) /\ Len(x) = Len(l) + Len(c)
        /\ \A j \in 1..Len(l) : x[j] = l[j]
        /\ \A j \in 1..Len(c) : x[Len(l) + j] = c[j]
    BY <1>3, <1>4, Joined, Zenon
  <2>2. Len(l) = Len(s) + n /\ Len(c) = Len(t) - n
    BY <1>3, <1>4, Zenon
  <2> HIDE DEF x
  <2> QED
    BY ONLY <2>1, <2>2
<1>6. /\ y \in Seq(Nat) /\ Len(y) = Len(s) + Len(t)
      /\ \A j \in 1..Len(s) : y[j] = s[j]
      /\ \A j \in 1..Len(t) : y[Len(s) + j] = t[j]
  BY Joined, Zenon
<1> HIDE DEF x, y
<1>7. Len(x) = Len(y)
  BY <1>1, <1>5, <1>6
<1>8. ASSUME NEW j \in 1..Len(x) PROVE x[j] = y[j]
  <2>1. CASE j <= Len(s)
    <3>1. j \in 1..Len(s) /\ j \in 1..(Len(s) + n)
      BY <1>1, <2>1
    <3> QED
      BY <1>4, <1>5, <1>6, <3>1, Zenon
  <2>2. CASE j > Len(s) /\ j <= Len(s) + n
    <3> DEFINE k == j - Len(s)
    <3>1. k \in 1..n /\ j = Len(s) + k
      BY <1>1, <2>2
    <3>2. k \in 1..Len(t) /\ Len(s) + k \in 1..(Len(s) + n)
      <4>1. n <= Len(t)
        OBVIOUS
      <4> HIDE DEF k
      <4> QED
        BY ONLY <1>1, <3>1, <4>1
    <3> HIDE DEF k
    <3>3. x[j] = l[j] /\ l[j] = a[k]
      BY <1>4, <1>5, <3>1, <3>2, Zenon
    <3>4. y[j] = t[k]
      BY <1>6, <3>1, <3>2, Zenon
    <3>5. a[k] = t[k]
      BY <1>2, <3>1, Zenon
    <3> QED
      BY <3>3, <3>4, <3>5
  <2>3. CASE j > Len(s) + n
    <3> DEFINE k == j - (Len(s) + n)
    <3>1. /\ k \in 1..(Len(t) - n) /\ j = (Len(s) + n) + k /\ j = Len(s) + (n + k)
          /\ n + k \in 1..Len(t)
      BY <1>1, <1>5, <2>3
    <3> HIDE DEF k
    <3>2. x[j] = c[k] /\ c[k] = t[n + k]
      BY <1>3, <1>5, <3>1, Zenon
    <3>3. y[j] = t[n + k]
      BY <1>6, <3>1, Zenon
    <3> QED
      BY <3>2, <3>3
  <2> QED
    BY <1>1, <1>5, <2>1, <2>2, <2>3
<1>9. x = y
  BY <1>5, <1>6, <1>7, <1>8, SameBytes, Zenon
<1> QED
  BY <1>3, <1>4, <1>9, Zenon DEF x, y, l, a, c

\* What is left of b when its first part e was cut off.
LEMMA CutFirst ==
  ASSUME NEW b \in Seq(Nat), NEW c \in Seq(Nat), NEW e \in Seq(Nat), NEW r \in Seq(Nat),
         b \o c = e \o r, Len(e) <= Len(b)
  PROVE  /\ SubSeq(b, Len(e) + 1, Len(b)) \in Seq(Nat)
         /\ SubSeq(b, Len(e) + 1, Len(b)) \o c = r
<1> DEFINE n == Len(e)
           d == SubSeq(b, n + 1, Len(b))
           x == d \o c
           z == b \o c
<1>1. n \in Nat /\ Len(b) \in Nat /\ Len(c) \in Nat /\ Len(r) \in Nat /\ n <= Len(b)
  OBVIOUS
<1>2. /\ d \in Seq(Nat) /\ Len(d) = Len(b) - n /\ \A j \in 1..(Len(b) - n) : d[j] = b[n + j]
  <2>1. n + 1 \in 1..(Len(b) + 1) /\ Len(b) \in ((n + 1) - 1)..Len(b) /\ Len(b) - (n + 1) + 1 = Len(b) - n
    BY <1>1
  <2>2. /\ d \in Seq(Nat) /\ Len(d) = Len(b) - (n + 1) + 1
        /\ \A j \in 1..(Len(b) - (n + 1) + 1) : d[j] = b[(n + 1) + j - 1]
    BY <2>1, PartOf, Zenon
  <2>3. \A j \in 1..(Len(b) - n) : (n + 1) + j - 1 = n + j
    BY <1>1
  <2> QED
    BY <2>1, <2>2, <2>3, Zenon
<1> HIDE DEF d
<1>3. /\ x \in Seq(Nat) /\ Len(x) = (Len(b) - n) + Len(c)
      /\ \A j \in 1..(Len(b) - n) : x[j] = d[j]
      /\ \A j \in 1..Len(c) : x[(Len(b) - n) + j] = c[j]
  <2>1. /\ x \in Seq(Nat) /\ Len(x) = Len(d) + Len(c)
        /\ \A j \in 1..Len(d) : x[j] = d[j]
        /\ \A j \in 1..Len(c) : x[Len(d) + j] = c[j]
    BY <1>2, Joined, Zenon
  <2>2. Len(d) = Len(b) - n
    BY <1>2, Zenon
  <2> HIDE DEF x, n
  <2> QED
    BY ONLY <2>1, <2>2
<1>4. /\ Len(z) = Len(b) + Len(c)
      /\ \A j \in 1..Len(b) : z[j] = b[j]
      /\ \A j \in 1..Len(c) : z[Len(b) + j] = c[j]
  BY Joined, Zenon
<1>5. /\ Len(e \o r) = n + Len(r)
      /\ \A j \in 1..Len(r) : (e \o r)[n + j] = r[j]
  BY Joined, Zenon
<1>6. z = e \o r
  OBVIOUS
<1> HIDE DEF x, z, n
<1>7. Len(z) = n + Len(r) /\ \A j \in 1..Len(r) : z[n + j] = r[j]
  BY <1>5, <1>6, Zenon
<1>8. Len(x) = Len(r)
  <2>1. Len(x) = (Len(b) - n) + Len(c) /\ Len(b) + Len(c) = n + Len(r)
    BY <1>3, <1>4, <1>7, Zenon
  <2> QED
    BY ONLY <1>1, <2>1
<1>9. ASSUME NEW j \in 1..Len(x) PROVE x[j] = r[j]
  <2>1. j \in 1..Len(r)
    BY <1>8
  <2>2. z[n + j] = r[j]
    BY <1>7, <2>1
  <2>3. CASE j <= Len(b) - n
    <3>1. j \in 1..(Len(b) - n) /\ n + j \in 1..Len(b)
      BY <1>1, <2>3
    <3> QED
      BY <1>2, <1>3, <1>4, <2>2, <3>1, Zenon
  <2>4. CASE j > Len(b) - n
    <3> DEFINE k == j - (Len(b) - n)
    <3>1. k \in 1..Len(c) /\ j = (Len(b) - n) + k /\ n + j = Len(b) + k
      BY <1>1, <1>3, <2>4
    <3> HIDE DEF k
    <3> QED
      BY <1>3, <1>4, <2>2, <3>1, Zenon
  <2> QED
    BY <1>1, <1>3, <2>3, <2>4
<1>10. x = r
  BY <1>3, <1>8, <1>9, SameBytes, Zenon
<1> QED
  BY <1>2, <1>10, Zenon DEF x, d, n

LEMMA PrefixAgrees ==
  ASSUME NEW b \in Seq(Nat), NEW c \in Seq(Nat), NEW e \in Seq(Nat), NEW r \in Seq(Nat),
         b \o c = e \o r
  PROVE  Agrees(b, e)
<1>1. \A k \in 1..Len(b) : (b \o c)[k] = b[k]
  BY Joined, Zenon
<1>2. Len(e) \in Nat /\ \A k \in 1..Len(e) : (e \o r)[k] = e[k]
  BY Joined, Zenon
<1>3. ASSUME NEW k \in 1..Len(b), k <= Len(e) PROVE b[k] = e[k]
  <2>1. k \in 1..Len(e)
    BY ONLY k \in 1..Len(b), k <= Len(e), Len(b) \in Nat, <1>2
  <2>2. (b \o c)[k] = b[k] /\ (e \o r)[k] = e[k]
    BY <1>1, <1>2, <2>1, Zenon
  <2> QED
    BY <2>2, Zenon
<1> QED
  BY <1>3, Zenon DEF Agrees

-----------------------------------------------------------------------------
(* The user of the parser *)

Upcoming == sent[Len(taken) + 1]

FrameInv ==
    /\ sent \in Seq(Frames) /\ taken \in Seq({Plain(f) : f \in Frames})
    /\ Len(taken) <= Len(sent)
    /\ \A n \in 1..Len(taken) : taken[n] = Plain(sent[n])
    /\ received \in Seq(Nat) /\ wire \in Seq(Nat)
    /\ received \o wire = Stream(sent, Len(taken) + 1)
    /\ incomplete => (Len(taken) < Len(sent) => Len(received) < Len(Encode(Upcoming)))

LEMMA FrameStart == FrameInit => FrameInv
<1> SUFFICES ASSUME FrameInit PROVE FrameInv
  OBVIOUS
<1>1. sent \in Seq(Frames) /\ sent # <<>>
  <2>1. PICK n \in 1..MaxFrames : sent \in [1..n -> Frames]
    BY DEF FrameInit
  <2>2. n \in Nat /\ n > 0
    BY <2>1, FrameAssumption
  <2>3. sent = [k \in 1..n |-> sent[k]] /\ \A k \in 1..n : sent[k] \in Frames
    BY <2>1
  <2>4. sent \in Seq(Frames) /\ Len(sent) = n
    BY <2>2, <2>3
  <2>5. Len(<<>>) = 0
    OBVIOUS
  <2>6. sent # <<>>
    BY ONLY <2>2, <2>4, <2>5
  <2> QED
    BY <2>4, <2>6
<1>2. taken = <<>> /\ received = <<>> /\ wire = Stream(sent, 1)
  BY DEF FrameInit
<1>3. taken \in Seq({Plain(f) : f \in Frames}) /\ Len(taken) = 0 /\ received \in Seq(Nat) /\ Len(received) = 0
  BY <1>2
<1>4. wire \in Seq(Nat)
  <2>1. 1 \in Nat \ {0}
    OBVIOUS
  <2> QED
    BY <1>1, <1>2, <2>1, StreamTypes, Zenon
<1>5. received \o wire = Stream(sent, Len(taken) + 1)
  <2>1. received \o wire = wire
    BY <1>2, <1>4
  <2>2. Len(taken) + 1 = 1
    BY <1>3
  <2> QED
    BY <1>2, <2>1, <2>2, Zenon
<1>6. ASSUME Len(taken) < Len(sent) PROVE Len(received) < Len(Encode(Upcoming))
  <2> DEFINE f == Upcoming
  <2>1. f \in Frames
    BY <1>1, <1>3, <1>6 DEF Upcoming
  <2>2. IsEncoded(f, Len(f.payload), Form(Len(f.payload)), Len(f.mask), Encode(f))
    BY <2>1, EncodedBytes, Zenon
  <2> DEFINE n == Len(f.payload)
             w == Form(n)
             m == Len(f.mask)
  <2>3. n \in Nat /\ w \in 0..8 /\ m \in Nat /\ Len(Encode(f)) = 2 + w + m + n
    BY <2>2, Zenon DEF IsEncoded
  <2> HIDE DEF n, w, m, f
  <2>4. Len(Encode(f)) > 0
    BY <2>3
  <2> QED
    BY <1>3, <2>4 DEF f
<1>7. \A n \in 1..Len(taken) : taken[n] = Plain(sent[n])
  BY <1>3
<1>8. Len(taken) <= Len(sent)
  BY <1>1, <1>3
<1> QED
  BY <1>1, <1>3, <1>4, <1>5, <1>6, <1>7, <1>8, Zenon DEF FrameInv

\* What the parser sees: the next frame as far as it has arrived.
LEMMA HeaderSeen ==
  ASSUME FrameInv
  PROVE  \/ Len(taken) = Len(sent) /\ Header(received) = Short
         \/ /\ Len(taken) < Len(sent) /\ Upcoming \in Frames
            /\ Agrees(received, Encode(Upcoming))
            /\ received \o wire = Encode(Upcoming) \o Stream(sent, (Len(taken) + 1) + 1)
            /\ Encode(Upcoming) \in Seq(Nat) /\ Stream(sent, (Len(taken) + 1) + 1) \in Seq(Nat)
            /\ \/ Len(received) < Len(Encode(Upcoming)) /\ Header(received) = Short
               \/ Len(received) >= Len(Encode(Upcoming)) /\ Header(received) = HeaderFields(Upcoming)
<1> DEFINE k == Len(taken) + 1
           r == Stream(sent, k + 1)
<1>1. /\ sent \in Seq(Frames) /\ Len(taken) \in Nat /\ Len(sent) \in Nat /\ Len(taken) <= Len(sent)
      /\ received \in Seq(Nat) /\ wire \in Seq(Nat) /\ received \o wire = Stream(sent, k)
  BY DEF FrameInv
<1>2. k \in Nat /\ k + 1 \in Nat \ {0}
  BY <1>1
<1>3. Stream(sent, k) = IF k > Len(sent) THEN <<>> ELSE Encode(sent[k]) \o r
  BY <1>1, <1>2, StreamSteps, Zenon
<1>4. r \in Seq(Nat)
  BY <1>1, <1>2, StreamTypes, Zenon
<1> HIDE DEF r
<1>5. CASE Len(taken) = Len(sent)
  <2>1. k > Len(sent)
    BY <1>1, <1>5
  <2>2. received \o wire = <<>>
    BY <1>1, <1>3, <2>1, Zenon
  <2>3. Len(received) < 2
    <3>1. /\ Len(received) \in Nat /\ Len(wire) \in Nat
          /\ Len(received \o wire) = Len(received) + Len(wire)
      BY <1>1, Joined, Zenon
    <3>2. Len(<<>>) = 0
      OBVIOUS
    <3>3. Len(received) + Len(wire) = 0
      BY <2>2, <3>1, <3>2, Zenon
    <3> QED
      BY ONLY <3>1, <3>3
  <2>4. Header(received) = Short
    BY <2>3, Zenon DEF Header
  <2> QED
    BY <1>5, <2>4
<1>6. CASE Len(taken) < Len(sent)
  <2>1. Upcoming \in Frames /\ ~(k > Len(sent))
    BY <1>1, <1>6 DEF Upcoming
  <2>2. received \o wire = Encode(Upcoming) \o r
    BY <1>1, <1>3, <2>1, Zenon DEF Upcoming
  <2>3. Encode(Upcoming) \in Seq(Nat)
    BY <2>1, EncodedBytes, Zenon DEF IsEncoded
  <2>4. Agrees(received, Encode(Upcoming))
    BY <1>1, <1>4, <2>2, <2>3, PrefixAgrees, Zenon
  <2>5. /\ Len(received) < Len(Encode(Upcoming)) => Header(received) = Short
        /\ Len(received) >= Len(Encode(Upcoming)) => Header(received) = HeaderFields(Upcoming)
    BY <2>1, <2>4, HeaderOfFrame, Zenon
  <2>6. Len(received) < Len(Encode(Upcoming)) \/ Len(received) >= Len(Encode(Upcoming))
    BY <1>1, <2>3
  <2> QED
    BY <1>4, <1>6, <2>1, <2>2, <2>3, <2>4, <2>5, <2>6, Zenon DEF r
<1> QED
  BY <1>1, <1>5, <1>6

LEMMA ReceiveKeeps == FrameInv /\ Receive => FrameInv'
<1> SUFFICES ASSUME FrameInv, Receive PROVE FrameInv'
  OBVIOUS
<1>1. PICK n \in 1..Len(wire) :
         /\ received' = received \o SubSeq(wire, 1, n)
         /\ wire' = SubSeq(wire, n + 1, Len(wire))
  BY DEF Receive
<1>2. incomplete' = FALSE /\ sent' = sent /\ taken' = taken
  BY DEF Receive
<1>3. /\ received' \in Seq(Nat) /\ wire' \in Seq(Nat)
      /\ received' \o wire' = received \o wire
  BY <1>1, Reassociate, Zenon DEF FrameInv
<1> QED
  BY <1>2, <1>3, Zenon DEF FrameInv

LEMMA ParseNullKeeps == FrameInv /\ ParseNull => FrameInv'
<1> SUFFICES ASSUME FrameInv, ParseNull PROVE FrameInv'
  OBVIOUS
<1>1. sent' = sent /\ wire' = wire /\ received' = received /\ taken' = taken
  BY DEF ParseNull
<1>2. ASSUME Len(taken) < Len(sent) PROVE Len(received) < Len(Encode(Upcoming))
  <2>1. HeaderFields(Upcoming).short = FALSE
    BY DEF HeaderFields
  <2>2. Header(received).short
    BY DEF ParseNull
  <2>3. Header(received) # HeaderFields(Upcoming)
    BY <2>1, <2>2, Zenon
  <2>4. Len(taken) # Len(sent)
    BY <1>2 DEF FrameInv
  <2> QED
    BY <2>3, <2>4, HeaderSeen, Zenon
<1>3. (Len(taken) < Len(sent) => Len(received) < Len(Encode(Upcoming)))'
  BY <1>1, <1>2 DEF Upcoming
<1> QED
  BY <1>1, <1>3, Zenon DEF FrameInv

LEMMA ParseFrameKeeps == FrameInv /\ ParseFrame => FrameInv'
<1> SUFFICES ASSUME FrameInv, ParseFrame PROVE FrameInv'
  OBVIOUS
<1> DEFINE h == Header(received)
           end == h.payloadStart + h.payloadLength
           b == Unmask(received, h)
           e == Encode(Upcoming)
           r == Stream(sent, (Len(taken) + 1) + 1)
<1>1. /\ ~incomplete /\ ~h.short /\ sent' = sent /\ wire' = wire /\ incomplete' = incomplete
      /\ taken' = Append(taken, [fin |-> h.fin, opcode |-> h.opcode,
                                 payload |-> SubSeq(b, h.payloadStart + 1, end)])
      /\ received' = SubSeq(b, end + 1, Len(b))
  BY Zenon DEF ParseFrame
<1>2. Short.short = TRUE
  BY DEF Short
<1>3. /\ Len(taken) < Len(sent) /\ Upcoming \in Frames
      /\ Agrees(received, e) /\ received \o wire = e \o r
      /\ e \in Seq(Nat) /\ r \in Seq(Nat)
      /\ Len(received) >= Len(e) /\ h = HeaderFields(Upcoming)
  BY <1>1, <1>2, HeaderSeen, Zenon
<1>4. /\ SubSeq(b, h.payloadStart + 1, end) = Upcoming.payload
      /\ end = Len(e)
      /\ SubSeq(b, end + 1, Len(b)) = SubSeq(received, end + 1, Len(received))
  BY <1>3, PayloadOfFrame, Zenon
<1>5. h.fin = Upcoming.fin /\ h.opcode = Upcoming.opcode
  <2>1. HeaderFields(Upcoming).fin = Upcoming.fin /\ HeaderFields(Upcoming).opcode = Upcoming.opcode
    BY DEF HeaderFields
  <2> QED
    BY <1>3, <2>1, Zenon
<1>6. taken' = Append(taken, Plain(Upcoming))
  BY <1>1, <1>4, <1>5, Zenon DEF Plain
<1>7. received' = SubSeq(received, Len(e) + 1, Len(received))
  BY <1>1, <1>4, Zenon
<1> HIDE DEF h, end, b, e, r
<1>8. received' \in Seq(Nat) /\ received' \o wire = r
  <2>1. received \in Seq(Nat) /\ wire \in Seq(Nat) /\ Len(e) <= Len(received)
    BY <1>3 DEF FrameInv
  <2> QED
    BY <1>3, <1>7, <2>1, CutFirst, Zenon
<1>9. /\ taken' \in Seq({Plain(f) : f \in Frames}) /\ Len(taken') = Len(taken) + 1
      /\ Len(taken') <= Len(sent)
      /\ \A n \in 1..Len(taken') : taken'[n] = Plain(sent[n])
  <2> DEFINE F == {Plain(f) : f \in Frames}
             x == Plain(Upcoming)
  <2>1. x \in F
    BY <1>3
  <2>2. /\ taken \in Seq(F) /\ Len(taken) \in Nat /\ Len(sent) \in Nat
        /\ \A n \in 1..Len(taken) : taken[n] = Plain(sent[n])
    BY DEF FrameInv
  <2>3. x = Plain(sent[Len(taken) + 1])
    BY DEF Upcoming
  <2> HIDE DEF x, F
  <2>4. /\ Append(taken, x) \in Seq(F) /\ Len(Append(taken, x)) = Len(taken) + 1
        /\ \A n \in 1..Len(taken) : Append(taken, x)[n] = taken[n]
        /\ Append(taken, x)[Len(taken) + 1] = x
    BY <2>1, <2>2
  <2>5. /\ taken' \in Seq(F) /\ Len(taken') = Len(taken) + 1
        /\ \A n \in 1..Len(taken) : taken'[n] = taken[n]
        /\ taken'[Len(taken) + 1] = x
    BY <1>6, <2>4, Zenon DEF x
  <2>6. ASSUME NEW n \in 1..Len(taken') PROVE taken'[n] = Plain(sent[n])
    <3>1. n \in 1..Len(taken) \/ n = Len(taken) + 1
      BY <2>2, <2>5
    <3> QED
      BY <2>2, <2>3, <2>5, <3>1, Zenon
  <2>7. Len(taken') <= Len(sent)
    BY <1>3, <2>2, <2>5
  <2> QED
    BY <2>5, <2>6, <2>7, Zenon DEF F
<1>10. received' \o wire' = Stream(sent', Len(taken') + 1)
  BY <1>1, <1>8, <1>9, Zenon DEF r
<1>11. sent' \in Seq(Frames) /\ wire' \in Seq(Nat)
  BY <1>1 DEF FrameInv
<1>12. ~incomplete'
  BY <1>1
<1> QED
  BY <1>1, <1>8, <1>9, <1>10, <1>11, <1>12, Zenon DEF FrameInv

LEMMA FrameInvHolds == FrameSpec => []FrameInv
<1>1. FrameInv /\ [FrameNext]_frameVars => FrameInv'
  <2> SUFFICES ASSUME FrameInv, [FrameNext]_frameVars PROVE FrameInv'
    OBVIOUS
  <2>1. CASE UNCHANGED frameVars
    BY <2>1 DEF frameVars, FrameInv, Upcoming
  <2> QED
    BY <2>1, ReceiveKeeps, ParseNullKeeps, ParseFrameKeeps DEF FrameNext
<1> QED
  BY <1>1, FrameStart, PTL DEF FrameSpec

\* The user gets the frames that were sent, in order, whole and unmasked, for
\* frames of any length, any mask and any cut of the bytes into chunks, and
\* null is returned only for a frame that has not arrived (parseFrame,
\* packages/ohn-ws/src/ohn-ws.js).
THEOREM FramesArriveWhole == FrameSpec => []FramesAsSent
<1>1. FrameInv => FramesAsSent
  <2> SUFFICES ASSUME FrameInv PROVE FramesAsSent
    OBVIOUS
  <2>1. DOMAIN taken = 1..Len(taken)
    BY DEF FrameInv
  <2> QED
    BY <2>1, Zenon DEF FrameInv, FramesAsSent, Upcoming
<1> QED
  BY <1>1, FrameInvHolds, PTL

=============================================================================
