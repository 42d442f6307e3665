------------------------------- MODULE CborAot -------------------------------
(***************************************************************************)
(* The code that core/src/plugins/babel-plugin-cbor-aot.js generates for a *)
(* @cbor class: toCBOR adds up _size field by field, allocates the buffer  *)
(* once and writes the fields into it; fromCBOR reads them back in the     *)
(* order of the class, skipping the keys.  The plugin emits one fragment   *)
(* of each of the three functions per property; here a fragment is a step. *)
(* Between the two functions the buffer may lose its end.                  *)
(*                                                                         *)
(* The byte is a digit of base Radix and the counts below Inline fit in a  *)
(* tag: 256 and 24 in the code.  Numbers have four digits.                 *)
(***************************************************************************)
EXTENDS Utf16Text

CONSTANTS
    Inline,   \* counts below it are part of the tag
    Radix,    \* values of a digit
    Objects   \* [class, values]: the fields of a class and of one object of it

\* A property of a class: its key in UTF-16 units, whether it is computed,
\* its TypeScript type and the limits of its decorators, <<>> without one.
\* An object has a value for every property: one number (a boolean is 0 or
\* 1), the UTF-16 units of a string, the elements of an array.
NoLimit == <<>>
Annotated == {"boolean", "number", "string", "array", "other"}

Limits == {NoLimit} \cup [1..1 -> Int]
Fields == [key : Seq(Units), computed : BOOLEAN, ann : Annotated, min : Limits, max : Limits]

\* JavaScript has no string and no array whose length needs a fifth digit;
\* the plugin keeps the properties of a class in an array, too.
Word == Radix * Radix * Radix * Radix
IsValue(f, value) ==
    /\ f.ann = "boolean" => value \in {<<0>>, <<1>>}
    /\ f.ann = "number" => value \in [1..1 -> Int]
    /\ f.ann = "string" => value \in Seq(Units) /\ Utf8ByteLength(value) < Word
    /\ f.ann = "array" => value \in Seq(Int) /\ Len(value) < Word

ASSUME CborAssumption ==
    /\ Radix \in Nat \ {0, 1} /\ Inline \in 1..28
    /\ \A o \in Objects : /\ o.class \in Seq(Fields) /\ Len(o.class) < Word
                         /\ DOMAIN o.class = DOMAIN o.values
                         /\ \A i \in DOMAIN o.class : IsValue(o.class[i], o.values[i])

VARIABLES
    object,     \* the object of Objects that is sent
    phase,      \* size, write, wire, read, decoded; refused and failed: thrown
    field,      \* the properties the current function is done with
    _size,      \* _size
    buf,        \* the buffer
    _offset,    \* _offset of the current function, Lost once it is NaN
    restored    \* the fields of obj: <<value>>, or <<>> while unset

cborVars == <<object, phase, field, _size, buf, _offset, restored>>

CborInit ==
    /\ object \in Objects
    /\ phase = "size"
    /\ field = 0
    /\ _size = 0
    /\ buf = <<>>
    /\ _offset = 0
    /\ restored = [i \in DOMAIN object.class |-> <<>>]

-----------------------------------------------------------------------------
(***************************************************************************)
(* Digits and heads                                                        *)
(***************************************************************************)
Half == Word \div 2
Weights == <<1, Radix, Radix * Radix, Radix * Radix * Radix>>

BigEndian(n, width) == [i \in 1..width |-> (n \div Weights[width - i + 1]) % Radix]

Tag(major, info) == 32 * major + info

\* The widths that follow a tag, by the information in it.
Extension == [info \in {Inline, Inline + 1, Inline + 2} |-> <<1, 2, 4>>[info - Inline + 1]]
WidthInfo(n) == CASE n < Radix -> Inline
                  [] n >= Radix /\ n < Radix * Radix -> Inline + 1
                  [] OTHER -> Inline + 2

\* A tag with a count: of properties, of bytes, of elements.
CountHead(major, n) ==
    IF n < Inline THEN <<Tag(major, n)>>
    ELSE <<Tag(major, WidthInfo(n))>> \o BigEndian(n, Extension[WidthInfo(n)])

\* Fault: -n instead of -n - 1.
NumberBytesNegated(n) ==
    IF n >= 0 THEN <<Tag(0, Inline + 2)>> \o BigEndian(n % Word, 4)
    ELSE <<Tag(1, Inline + 2)>> \o BigEndian((-n) % Word, 4)

\* 0x1a or 0x3a and four digits: what >>> keeps of a number.
NumberBytes(n) ==
    IF n >= 0 THEN <<Tag(0, Inline + 2)>> \o BigEndian(n % Word, 4)
    ELSE <<Tag(1, Inline + 2)>> \o BigEndian((-n - 1) % Word, 4)

\* Each element of an array is written like a number.
ArrayBytes(value) ==
    LET from[i \in Nat] == IF i > Len(value) THEN <<>> ELSE NumberBytes(value[i]) \o from[i + 1]
    IN  from[1]

\* The key is assumed to be short: its head has one byte whatever its length.
\* Its units are stored as they are, and a typed array keeps their low bytes.
KeyHead(f) == <<Tag(3, Len(f.key)) % 256>>
KeyBytes(f) == KeyHead(f) \o [i \in 1..Len(f.key) |-> f.key[i] % 256]

MapHead(class) == CountHead(5, Len(class))

-----------------------------------------------------------------------------
(***************************************************************************)
(* toCBOR                                                                  *)
(***************************************************************************)
Class == object.class
Field == Class[field + 1]
Value == object.values[field + 1]

\* Fault: no count is taken to need more than one digit.
HeadSizeShort(n) == IF n < Inline THEN 1 ELSE 2

HeadSize(n) == Len(CountHead(0, n))

\* The statements that add to _size.
FieldSize(f, value) ==
    IF f.computed THEN 0
    ELSE 1 + Len(f.key) + CASE f.ann = "boolean" -> 1
                            [] f.ann = "number" -> 5
                            [] f.ann = "string" -> HeadSize(Utf8ByteLength(value)) + Utf8ByteLength(value)
                            [] f.ann = "array" -> HeadSize(Len(value)) + 5 * Len(value)
                            [] OTHER -> 0

\* The statements that write.
WrittenBytes(f, value) ==
    IF f.computed THEN <<>>
    ELSE KeyBytes(f) \o
         CASE f.ann = "boolean" -> <<Tag(7, IF value = <<0>> THEN 20 ELSE 21)>>
           [] f.ann = "number" -> NumberBytes(value[1])
           [] f.ann = "string" -> CountHead(3, Utf8ByteLength(value)) \o WriteString(value)
           [] f.ann = "array" -> CountHead(4, Len(value)) \o ArrayBytes(value)
           [] OTHER -> <<>>

\* A typed array ignores what is stored outside of it.
Stored(bytes) ==
    [i \in DOMAIN buf |-> IF i - _offset \in DOMAIN bytes THEN bytes[i - _offset] ELSE buf[i]]

SizeField ==
    /\ phase = "size" /\ field < Len(Class)
    /\ _size' = _size + FieldSize(Field, Value)
    /\ field' = field + 1
    /\ UNCHANGED <<object, phase, buf, _offset, restored>>

\* new Uint8Array(_size), and the map header.
Allocate ==
    /\ phase = "size" /\ field = Len(Class)
    /\ _size' = _size + Len(MapHead(Class))
    /\ buf' = [i \in 1.._size' |-> IF i \in DOMAIN MapHead(Class) THEN MapHead(Class)[i] ELSE 0]
    /\ _offset' = Len(MapHead(Class))
    /\ field' = 0
    /\ phase' = "write"
    /\ UNCHANGED <<object, restored>>

\* Only a number field is checked before it is written.
NotWritable(f, value) ==
    ~f.computed /\ f.ann = "number" /\ value[1] \notin -Half..(Half - 1)

WriteField ==
    /\ phase = "write" /\ field < Len(Class)
    /\ ~NotWritable(Field, Value)
    /\ buf' = Stored(WrittenBytes(Field, Value))
    /\ _offset' = _offset + Len(WrittenBytes(Field, Value))
    /\ field' = field + 1
    /\ UNCHANGED <<object, phase, _size, restored>>

RefuseField ==
    /\ phase = "write" /\ field < Len(Class)
    /\ NotWritable(Field, Value)
    /\ phase' = "refused"
    /\ UNCHANGED <<object, field, _size, buf, _offset, restored>>

ReturnBuffer ==
    /\ phase = "write" /\ field = Len(Class)
    /\ phase' = "wire"
    /\ field' = 0
    /\ UNCHANGED <<object, _size, buf, _offset, restored>>

-----------------------------------------------------------------------------
(***************************************************************************)
(* fromCBOR.  A byte that is missing reads as undefined: no tag equals it, *)
(* as a digit among others it counts as 0, and on its own it makes the     *)
(* length undefined and _offset NaN.                                       *)
(***************************************************************************)
Lost == -1
Undefined == -1
Missing(p) == p = Lost \/ p >= Len(buf)
ByteAt(p) == IF Missing(p) THEN Undefined ELSE buf[p + 1]
DigitAt(p) == IF Missing(p) THEN 0 ELSE buf[p + 1]
After(p, n) == IF p = Lost THEN Lost ELSE p + n

DigitsAt(p, width) ==
    LET upTo[i \in 0..width] == IF i = 0 THEN 0 ELSE upTo[i - 1] * Radix + DigitAt(p + i - 1)
    IN  upTo[width]

\* What a fragment of fromCBOR does: it assigns a value and goes on at next,
\* or throws.
Throws == [ok |-> FALSE, value |-> <<>>, next |-> Lost]
Assigns(value, next) == [ok |-> TRUE, value |-> value, next |-> next]

\* The count after a tag of this major type.
CountAt(p, major) ==
    LET tag == ByteAt(p)
        info == tag - Tag(major, 0)
    IN  CASE tag # Undefined /\ info \in 0..(Inline - 1) -> Assigns(info, p + 1)
          [] tag # Undefined /\ info = Inline ->
               IF Missing(p + 1) THEN Assigns(Undefined, p + 2) ELSE Assigns(buf[p + 2], p + 2)
          [] tag # Undefined /\ info \in {Inline + 1, Inline + 2} ->
               Assigns(DigitsAt(p + 1, Extension[info]), p + 1 + Extension[info])
          [] OTHER -> Throws

NumberAt(p) ==
    CASE ByteAt(p) = Tag(0, Inline + 2) -> Assigns(<<DigitsAt(p + 1, 4)>>, p + 5)
      [] ByteAt(p) = Tag(1, Inline + 2) -> Assigns(<<-DigitsAt(p + 1, 4) - 1>>, p + 5)
      [] OTHER -> Throws

ArrayAt(p, count) ==
    LET elem(k) == NumberAt(p + 5 * (k - 1))
    IN  IF \A k \in 1..count : elem(k).ok
        THEN Assigns([k \in 1..count |-> elem(k).value[1]], p + 5 * count)
        ELSE Throws

OutsideLimits(f, n) == (f.min # NoLimit /\ n < f.min[1]) \/ (f.max # NoLimit /\ n > f.max[1])

\* Fault: whatever is not true is false.
ReadBooleanLoosely(p) == Assigns(<<IF ByteAt(p) = Tag(7, 21) THEN 1 ELSE 0>>, After(p, 1))

ReadBoolean(p) ==
    CASE ByteAt(p) = Tag(7, 21) -> Assigns(<<1>>, p + 1)
      [] ByteAt(p) = Tag(7, 20) -> Assigns(<<0>>, p + 1)
      [] OTHER -> Throws

ReadNumber(f, p) ==
    LET number == NumberAt(p)
    IN  IF number.ok /\ OutsideLimits(f, number.value[1]) THEN Throws ELSE number

ReadText(f, p) ==
    LET count == CountAt(p, 3)
    IN  CASE ~count.ok -> Throws
          [] count.ok /\ count.value = Undefined -> Assigns(<<>>, Lost)
          [] count.ok /\ count.value # Undefined
             /\ (count.value > Len(buf) - count.next
                 \/ (f.max # NoLimit /\ count.value > f.max[1])) -> Throws
          [] OTHER -> Assigns(ReadString(buf, count.next, count.value), count.next + count.value)

\* An array whose length is undefined has one element, that is undefined.
ReadArray(p) ==
    LET count == CountAt(p, 4)
    IN  CASE ~count.ok -> Throws
          [] count.ok /\ count.value = Undefined -> Assigns(<<Undefined>>, count.next)
          [] OTHER -> ArrayAt(count.next, count.value)

ReadValue(f, p) ==
    CASE f.ann = "boolean" -> ReadBoolean(p)
      [] f.ann = "number" -> ReadNumber(f, p)
      [] f.ann = "string" -> ReadText(f, p)
      [] OTHER -> ReadArray(p)

Typed(f) == ~f.computed /\ f.ann # "other"

\* The map header is skipped, its count is not looked at.
FromCBOR ==
    /\ phase = "wire"
    /\ phase' = "read"
    /\ _offset' = Len(MapHead(Class))
    /\ UNCHANGED <<object, field, _size, buf, restored>>

\* The key is skipped, whatever it is; a property without a type has no value.
ReadField ==
    /\ phase = "read" /\ field < Len(Class)
    /\ LET start == IF Field.computed THEN _offset ELSE After(_offset, 1 + Len(Field.key))
           read == ReadValue(Field, start)
       IN  IF ~Typed(Field)
           THEN _offset' = start /\ UNCHANGED restored
           ELSE /\ read.ok
                /\ _offset' = read.next
                /\ restored' = [restored EXCEPT ![field + 1] = <<read.value>>]
    /\ field' = field + 1
    /\ UNCHANGED <<object, phase, _size, buf>>

FailField ==
    /\ phase = "read" /\ field < Len(Class)
    /\ Typed(Field)
    /\ ~ReadValue(Field, After(_offset, 1 + Len(Field.key))).ok
    /\ phase' = "failed"
    /\ UNCHANGED <<object, field, _size, buf, _offset, restored>>

ReturnObject ==
    /\ phase = "read" /\ field = Len(Class)
    /\ phase' = "decoded"
    /\ UNCHANGED <<object, field, _size, buf, _offset, restored>>

\* External: the end of the message does not arrive.
CutBuffer ==
    /\ phase = "wire" /\ Len(buf) = _size
    /\ \E n \in 0..(_size - 1) : buf' = SubSeq(buf, 1, n)
    /\ UNCHANGED <<object, phase, field, _size, _offset, restored>>

CborNext ==
    \/ SizeField \/ Allocate \/ WriteField \/ RefuseField \/ ReturnBuffer
    \/ FromCBOR \/ ReadField \/ FailField \/ ReturnObject
    \/ CutBuffer

CborSpec == CborInit /\ [][CborNext]_cborVars

-----------------------------------------------------------------------------
(***************************************************************************)
(* A decoder after RFC 8949 (with Inline and Radix for 24 and 256): what   *)
(* any other CBOR library reads in the buffer.                             *)
(***************************************************************************)
StdMajor(p) == buf[p + 1] \div 32
StdInfo(p) == buf[p + 1] % 32
StdBody(p) == IF StdInfo(p) < Inline THEN p + 1 ELSE p + 1 + Extension[StdInfo(p)]
StdCount(p) == IF StdInfo(p) < Inline THEN StdInfo(p) ELSE DigitsAt(p + 1, Extension[StdInfo(p)])

StdNumber(p) == IF StdMajor(p) = 0 THEN StdCount(p) ELSE -1 - StdCount(p)

\* The item at p as a value of the class, and where the next one begins.
StdItem(p) ==
    LET elements[i \in 0..StdCount(p)] ==
            IF i = 0 THEN Assigns(<<>>, StdBody(p))
            ELSE LET before == elements[i - 1]
                 IN  Assigns(Append(before.value, StdNumber(before.next)), StdBody(before.next))
    IN  CASE StdMajor(p) \in {0, 1} -> Assigns(<<StdNumber(p)>>, StdBody(p))
          [] StdMajor(p) = 3 -> Assigns(ReadString(buf, StdBody(p), StdCount(p)),
                                        StdBody(p) + StdCount(p))
          [] StdMajor(p) = 4 -> elements[StdCount(p)]
          [] StdMajor(p) = 7 /\ StdInfo(p) \in {20, 21} -> Assigns(<<StdInfo(p) - 20>>, p + 1)
          [] OTHER -> Throws

\* After i pairs of the map: the pairs, and where the next one begins.
StdPairs(count) ==
    LET upTo[i \in 0..count] ==
            IF i = 0 THEN Assigns(<<>>, StdBody(0))
            ELSE LET before == upTo[i - 1]
                     key == StdItem(before.next)
                     item == StdItem(key.next)
                 IN  Assigns(Append(before.value, <<key.value, item.value>>), item.next)
    IN  upTo[count]

-----------------------------------------------------------------------------
(***************************************************************************)
(* Properties                                                              *)
(***************************************************************************)
\* What becomes of a value that was sent: text loses its unpaired
\* surrogates, an array element is kept modulo 2^32 on its side of zero,
\* everything else is the same.
SameNumber(n, m) == (n >= 0 <=> m >= 0) /\ (n - m) % Word = 0 /\ m \in -Word..(Word - 1)

Restores(i) ==
    LET f == Class[i]
        value == object.values[i]
        r == restored[i][1]
    IN  /\ restored[i] # <<>>
        /\ CASE f.ann = "string" -> r = WellFormed(value)
             [] f.ann = "array" -> Len(r) = Len(value) /\ \A k \in DOMAIN r : SameNumber(value[k], r[k])
             [] OTHER -> r = value

\* _size, computed by statements of its own before anything is written, is
\* exactly what the write statements fill: no byte of the buffer is left
\* over, and no store falls outside it and is dropped.
SizeIsExact ==
    /\ phase = "write" => _offset <= _size
    /\ phase = "wire" => _offset = _size

\* The values that get through: a number that has a signed 32-bit form and is
\* within the limits of its decorator, and a string whose UTF-8 form (not its
\* length) is within them.
Carried(f, value) ==
    /\ f.ann = "number" => value[1] \in -Half..(Half - 1) /\ ~OutsideLimits(f, value[1])
    /\ f.ann = "string" /\ f.max # NoLimit => Utf8ByteLength(value) <= f.max[1]

\* A buffer that arrives whole gives back every property that has a type, if
\* each has a value that gets through; if one has not, toCBOR or fromCBOR
\* throws there and no object is made.  (toCBOR does not check the limits.)
RoundTrip ==
    /\ phase = "decoded" /\ Len(buf) = _size =>
          \A i \in DOMAIN Class : Typed(Class[i]) => Carried(Class[i], object.values[i]) /\ Restores(i)
    /\ phase = "refused" \/ (phase = "failed" /\ Len(buf) = _size) => Typed(Field) /\ ~Carried(Field, Value)

\* docs/api/ohn-zod.md: a property is within the limits of its decorator if the
\* number is between min and max and the string is no longer than maxLength,
\* and @uint32({ min: 0, max: 4294967295 }) is such a limit.  This says that
\* an object within its limits comes back whole.
Decorated(f, value) ==
    f.min = <<0>> /\ f.max = <<Word - 1>> /\ value \in [1..1 -> 0..(Word - 1)]

DecoratedComesBack ==
    (\A i \in DOMAIN Class : Decorated(Class[i], object.values[i])) /\ Len(buf) = _size =>
        /\ phase \notin {"refused", "failed"}
        /\ phase = "decoded" => \A i \in DOMAIN Class : Restores(i)

\* A buffer that lost its end is either refused, or only the last value of
\* the object is not what was sent: missing bytes never shift a field.
CutOnlyInLastValue ==
    phase = "decoded" =>
        \A i, j \in DOMAIN Class : i < j /\ Typed(Class[i]) /\ Typed(Class[j]) => Restores(i)

\* A class whose properties all have a type and a short key in ASCII is written
\* as one CBOR map that any decoder reads to its end, with the keys and the
\* values that were sent, every string of it valid UTF-8.  Of another key the
\* low bytes of its units are not its UTF-8 form.
Portable(f) == Typed(f) /\ Len(f.key) < Inline /\ \A i \in DOMAIN f.key : f.key[i] < 128

StandardDecoderAgrees ==
    phase = "wire" /\ Len(buf) = _size /\ (\A i \in DOMAIN Class : Portable(Class[i])) =>
        LET map == StdPairs(StdCount(0))
        IN  /\ StdMajor(0) = 5 /\ StdCount(0) = Len(Class)
            /\ map.next = Len(buf)
            /\ \A i \in DOMAIN Class :
                  LET value == object.values[i]
                      read == map.value[i][2]
                  IN  /\ map.value[i][1] = Class[i].key
                      /\ CASE Class[i].ann = "string" -> read = WellFormed(value) /\ ValidUtf8(WriteString(value))
                           [] Class[i].ann = "array" -> \A k \in DOMAIN value : SameNumber(value[k], read[k])
                           [] OTHER -> read = value

=============================================================================
