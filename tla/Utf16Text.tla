------------------------------ MODULE Utf16Text ------------------------------
(***************************************************************************)
(* The string helpers that core/src/plugins/babel-plugin-cbor-aot.js       *)
(* injects into every @cbor class: how many bytes a string takes           *)
(* (_utf8ByteLength), the bytes themselves (_writeString) and the way back *)
(* (_readString).  The length is computed first and fixes the size of the  *)
(* buffer, by a loop of its own: the two loops have to agree on every      *)
(* string, well formed or not.  A string is a sequence of UTF-16 code      *)
(* units; the numbers are those of the code.                               *)
(***************************************************************************)
EXTENDS Integers, Sequences

HighSurrogate(c) == c >= 55296 /\ c < 56320      \* 0xd800 .. 0xdbff
LowSurrogate(c) == c >= 56320 /\ c < 57344       \* 0xdc00 .. 0xdfff
Replacement == 65533                        \* U+FFFD

\* The first character of n bytes, 0x80, 0x800 and 0x10000, and the bits
\* that mark its first byte.
FirstCode(n) == <<0, 128, 2048, 65536>>[n]
Mark(n) == <<0, 192, 224, 240>>[n]

\* The code units of a string.
Units == {c \in Nat : c < FirstCode(4)}

\* Both loops look one unit ahead at a high surrogate.
Paired(str, i) == HighSurrogate(str[i]) /\ i + 1 <= Len(str) /\ LowSurrogate(str[i + 1])

\* _utf8ByteLength
Utf8ByteLength(str) ==
    LET length[i \in Nat] ==
            IF i > Len(str) THEN 0
            ELSE CASE str[i] < FirstCode(2) -> 1 + length[i + 1]
                   [] str[i] >= FirstCode(2) /\ str[i] < FirstCode(3) -> 2 + length[i + 1]
                   [] Paired(str, i) -> 4 + length[i + 2]
                   [] OTHER -> 3 + length[i + 1]
    IN  length[1]

\* c >> 6 * k, and the continuation byte that holds its low bits.
Shift(c, k) == c \div <<1, 64, 4096, 262144>>[k + 1]
Continuation(c, k) == 128 + (Shift(c, k) % 64)

Utf8Bytes(c) ==
    CASE c < FirstCode(2) -> <<c>>
      [] c >= FirstCode(2) /\ c < FirstCode(3) -> <<Mark(2) + Shift(c, 1), Continuation(c, 0)>>
      [] c >= FirstCode(3) /\ c < FirstCode(4) ->
            <<Mark(3) + Shift(c, 2), Continuation(c, 1), Continuation(c, 0)>>
      [] OTHER ->
            <<Mark(4) + Shift(c, 3), Continuation(c, 2), Continuation(c, 1), Continuation(c, 0)>>

\* Fault: 0x10000 is not added.
CodePointLow(high, low) == (high % 1024) * 1024 + (low % 1024)

\* 0x10000 + (((c & 0x3ff) << 10) | (c2 & 0x3ff))
CodePoint(high, low) == FirstCode(4) + (high % 1024) * 1024 + (low % 1024)

\* _writeString: an unpaired surrogate becomes U+FFFD.
WriteString(str) ==
    LET from[i \in Nat] ==
            IF i > Len(str) THEN <<>>
            ELSE CASE Paired(str, i) -> Utf8Bytes(CodePoint(str[i], str[i + 1])) \o from[i + 2]
                   [] ~Paired(str, i) /\ (HighSurrogate(str[i]) \/ LowSurrogate(str[i])) ->
                        Utf8Bytes(Replacement) \o from[i + 1]
                   [] OTHER -> Utf8Bytes(str[i]) \o from[i + 1]
    IN  from[1]

\* What _readString makes of the bytes that begin at k, by their number; a
\* byte behind the end of the buffer counts as 0.
Low(buf, k) == IF k <= Len(buf) THEN buf[k] % 64 ELSE 0
TwoBytes(buf, k) == (buf[k] % 32) * 64 + Low(buf, k + 1)
ThreeBytes(buf, k) == (buf[k] % 16) * 4096 + Low(buf, k + 1) * 64 + Low(buf, k + 2)
FourBytes(buf, k) ==
    (buf[k] % 8) * 262144 + Low(buf, k + 1) * 4096 + Low(buf, k + 2) * 64 + Low(buf, k + 3)

\* 0xd800 + (t2 >> 10), 0xdc00 + (t2 & 0x3ff)
Surrogates(c) ==
    LET t2 == c - FirstCode(4)
    IN  <<55296 + (t2 \div 1024), 56320 + (t2 % 1024)>>

\* _readString over buf[start + 1 .. start + length].  A byte that can only
\* continue a character is passed over where one should begin, and the bytes
\* of a character are taken even past the end of the string.
ReadString(buf, start, length) ==
    LET from[k \in Nat] ==
            IF k > start + length THEN <<>>
            ELSE CASE buf[k] < FirstCode(2) -> <<buf[k]>> \o from[k + 1]
                   [] buf[k] >= FirstCode(2) /\ buf[k] < Mark(2) -> from[k + 1]
                   [] buf[k] >= Mark(2) /\ buf[k] < Mark(3) -> <<TwoBytes(buf, k)>> \o from[k + 2]
                   [] buf[k] >= Mark(3) /\ buf[k] < Mark(4) -> <<ThreeBytes(buf, k)>> \o from[k + 3]
                   [] OTHER -> Surrogates(FourBytes(buf, k)) \o from[k + 4]
    IN  from[start + 1]

-----------------------------------------------------------------------------
\* What a string can be restored to: surrogates without a partner are
\* replaced, everything else is kept.
WellFormed(str) ==
    [i \in DOMAIN str |->
        IF Paired(str, i) \/ (i > 1 /\ Paired(str, i - 1)) THEN str[i]
        ELSE IF HighSurrogate(str[i]) \/ LowSurrogate(str[i]) THEN Replacement
        ELSE str[i]]

\* RFC 3629: the bytes are UTF-8, without overlong forms and without
\* surrogates.
ValidUtf8(bs) ==
    LET tail(k) == k <= Len(bs) /\ bs[k] \in 128..191
        from[k \in Nat] ==
            \/ k > Len(bs)
            \/ bs[k] \in 0..127 /\ from[k + 1]
            \/ bs[k] \in 194..223 /\ tail(k + 1) /\ from[k + 2]
            \/ /\ bs[k] \in 224..239 /\ tail(k + 1) /\ tail(k + 2)
               /\ bs[k] = 224 => bs[k + 1] >= 160
               /\ bs[k] = 237 => bs[k + 1] < 160
               /\ from[k + 3]
            \/ /\ bs[k] \in 240..244 /\ tail(k + 1) /\ tail(k + 2) /\ tail(k + 3)
               /\ bs[k] = 240 => bs[k + 1] >= 144
               /\ bs[k] = 244 => bs[k + 1] < 144
               /\ from[k + 4]
    IN  from[1]

=============================================================================
