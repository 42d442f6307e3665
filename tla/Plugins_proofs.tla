---------------------------- MODULE Plugins_proofs ----------------------------
(***************************************************************************)
(* Proofs about the two class transforms of the core: the getters of       *)
(* @binaryLayout, for classes of any length with any element sizes and     *)
(* buffers of any length, and the code @cbor generates, for any class and  *)
(* any object of it.                                                       *)
(***************************************************************************)
EXTENDS BinaryLayout, CborAot, WellFoundedInduction, TLAPS

Getters == [element : Nat, type : Types, size : Nat, offset : Nat]

LayoutTypeOK ==
    /\ elements \in Seq(Elements)
    /\ visited \in 0..Len(elements)
    /\ currentOffset \in Nat
    /\ getters \in Seq(Getters)
    /\ keptElements \subseteq Nat
    /\ layoutDone \in BOOLEAN

\* What the loop keeps true about the bytes: not only neighbours but any two
\* fields are apart, and all of them end where the next one would begin.
Apart ==
    /\ \A k \in DOMAIN getters : FieldEnd(getters[k]) <= currentOffset
    /\ \A j, k \in DOMAIN getters : j < k => FieldEnd(getters[j]) <= getters[k].offset

\* What the loop keeps true about the elements.
InClassOrder ==
    /\ \A k \in DOMAIN getters :
          getters[k].element \in 1..visited /\ HasLayout(elements[getters[k].element])
    /\ \A j, k \in DOMAIN getters : j < k => getters[j].element < getters[k].element
    /\ {getters[k].element : k \in DOMAIN getters} \cup keptElements = 1..visited
    /\ \A k \in keptElements : k \in 1..visited /\ ~HasLayout(elements[k])

LayoutInv == LayoutTypeOK /\ Tiled /\ Apart /\ InClassOrder

-----------------------------------------------------------------------------
(* Elements and fields *)

LEMMA SizeIsNat ==
  ASSUME NEW e \in Elements
  PROVE  Size(e) \in Nat /\ e.property \in BOOLEAN
  BY LayoutAssumption DEF Size, Annotations, NoSize

LEMMA BytesAreNat ==
  ASSUME NEW t \in Types, NEW s \in Nat
  PROVE  TYPE_SIZES[t] \in Nat /\ TYPE_SIZES[t] > 0 /\ TYPE_SIZES[t] * s \in Nat
<1>1. TYPE_SIZES[t] \in Nat /\ TYPE_SIZES[t] > 0
  BY LayoutAssumption
<1> QED
  BY <1>1

LEMMA FieldEndIsNat ==
  ASSUME NEW g \in Getters
  PROVE  FieldEnd(g) \in Nat /\ FieldBytes(g) \in Nat /\ g.offset <= FieldEnd(g)
         /\ FieldEnd(g) = g.offset + FieldBytes(g)
<1>1. g.type \in Types /\ g.size \in Nat /\ g.offset \in Nat
  BY DEF Getters
<1> QED
  BY <1>1, BytesAreNat DEF FieldEnd, FieldBytes

-----------------------------------------------------------------------------
(* The loop keeps the invariant *)

LEMMA LayoutInvHolds == LayoutSpec => []LayoutInv
<1>1. LayoutInit => LayoutInv
  <2> SUFFICES ASSUME LayoutInit PROVE LayoutInv
    OBVIOUS
  <2>1. elements \in Seq(Elements)
    BY LayoutAssumption DEF LayoutInit
  <2>2. /\ visited = 0 /\ currentOffset = 0 /\ getters = <<>> /\ keptElements = {}
        /\ layoutDone = FALSE /\ DOMAIN getters = {}
    BY DEF LayoutInit
  <2>3. LayoutTypeOK
    <3>1. Len(elements) \in Nat /\ 0 \in 0..Len(elements)
      BY <2>1
    <3>2. <<>> \in Seq(Getters)
      OBVIOUS
    <3> QED
      BY <2>1, <2>2, <3>1, <3>2 DEF LayoutTypeOK
  <2>4. Tiled /\ Apart
    BY <2>2 DEF Tiled, Apart
  <2>5. InClassOrder
    BY <2>2 DEF InClassOrder
  <2> QED
    BY <2>3, <2>4, <2>5 DEF LayoutInv
<1>2. LayoutInv /\ [LayoutNext]_layoutVars => LayoutInv'
  <2> SUFFICES ASSUME LayoutInv, [LayoutNext]_layoutVars PROVE LayoutInv'
    OBVIOUS
  <2>1. CASE PlaceField
    <3> DEFINE e == elements[visited + 1]
               g == [element |-> visited + 1, type |-> TypeName(e),
                     size |-> Size(e), offset |-> currentOffset]
               N == Len(getters)
    <3>1. /\ visited \in Nat /\ visited < Len(elements) /\ Len(elements) \in Nat
          /\ visited + 1 \in 1..Len(elements)
          /\ currentOffset \in Nat /\ getters \in Seq(Getters) /\ N \in Nat
      BY <2>1 DEF PlaceField, LayoutInv, LayoutTypeOK
    <3>2. e \in Elements
      BY <3>1 DEF LayoutInv, LayoutTypeOK
    <3>3. g \in Getters
      BY <2>1, <3>1, <3>2, SizeIsNat DEF PlaceField, HasLayout, Getters
    <3>4. /\ getters' = Append(getters, g)
          /\ currentOffset' = FieldEnd(g)
          /\ visited' = visited + 1
          /\ elements' = elements /\ keptElements' = keptElements
          /\ layoutDone' = layoutDone
          /\ HasLayout(e)
      BY <2>1 DEF PlaceField, FieldEnd, FieldBytes, TotalBytes
    <3>5. /\ Len(getters') = N + 1
          /\ DOMAIN getters = 1..N
          /\ DOMAIN getters' = 1..(N + 1)
          /\ \A k \in 1..N : getters'[k] = getters[k] /\ getters[k] \in Getters
          /\ getters'[N + 1] = g
      BY <3>1, <3>3, <3>4
    <3> HIDE DEF e, g, N
    <3>6. /\ FieldEnd(g) \in Nat /\ g.offset <= FieldEnd(g)
          /\ g.offset = currentOffset /\ g.element = visited + 1
      BY <3>3, FieldEndIsNat DEF g
    <3>7. \A k \in 1..N : FieldEnd(getters[k]) \in Nat
      BY <3>5, FieldEndIsNat
    <3>8. LayoutTypeOK'
      BY <3>1, <3>3, <3>4, <3>6 DEF LayoutInv, LayoutTypeOK
    <3>9. Tiled'
      <4>1. N = 0 => currentOffset = 0
        BY <3>1 DEF LayoutInv, Tiled, N
      <4>2. N > 0 => getters[1].offset = 0 /\ currentOffset = FieldEnd(getters[N])
        BY <3>1 DEF LayoutInv, Tiled, N
      <4>3. getters' # <<>> /\ Len(getters') = N + 1
        BY <3>5, <3>1
      <4>4. getters'[1].offset = 0
        BY <4>1, <4>2, <3>5, <3>6, <3>1
      <4>5. \A k \in 2..(N + 1) : getters'[k].offset = FieldEnd(getters'[k - 1])
        <5> TAKE k \in 2..(N + 1)
        <5>1. CASE k = N + 1
          <6>1. k - 1 = N /\ N \in 1..N
            BY <5>1, <3>1
          <6> QED
            BY <5>1, <6>1, <4>2, <3>5, <3>6
        <5>2. CASE k # N + 1
          <6>1. k \in 2..N /\ k \in 1..N /\ k - 1 \in 1..N
            BY <5>2, <3>1
          <6>2. getters[k].offset = FieldEnd(getters[k - 1])
            BY <6>1 DEF LayoutInv, Tiled, N
          <6> QED
            BY <6>1, <6>2, <3>5
        <5> QED
          BY <5>1, <5>2
      <4>6. currentOffset' = FieldEnd(getters'[Len(getters')])
        BY <3>4, <3>5
      <4> QED
        BY <4>3, <4>4, <4>5, <4>6 DEF Tiled, FieldEnd, FieldBytes
    <3>10. Apart'
      <4>1. \A k \in 1..N : FieldEnd(getters[k]) <= currentOffset
        BY <3>5 DEF LayoutInv, Apart
      <4>2. \A j, k \in 1..N : j < k => FieldEnd(getters[j]) <= getters[k].offset
        BY <3>5 DEF LayoutInv, Apart
      <4>3. ASSUME NEW k \in 1..(N + 1) PROVE FieldEnd(getters'[k]) <= FieldEnd(g)
        <5>1. CASE k = N + 1
          BY <5>1, <3>5, <3>6
        <5>2. CASE k # N + 1
          <6>1. k \in 1..N
            BY <5>2, <3>1
          <6>2. FieldEnd(getters[k]) <= currentOffset /\ FieldEnd(getters[k]) \in Nat
            BY <4>1, <6>1, <3>7
          <6> QED
            BY <6>1, <6>2, <3>1, <3>5, <3>6
        <5> QED
          BY <5>1, <5>2
      <4>4. \A j, k \in 1..(N + 1) : j < k => FieldEnd(getters'[j]) <= getters'[k].offset
        BY <4>1, <4>2, <3>1, <3>5, <3>6
      <4> QED
        BY <4>3, <4>4, <3>4, <3>5 DEF Apart, FieldEnd, FieldBytes
    <3>11. InClassOrder'
      <4>1. \A k \in 1..N : /\ getters[k].element \in 1..visited
                            /\ HasLayout(elements[getters[k].element])
        BY <3>5 DEF LayoutInv, InClassOrder
      <4>2. \A k \in 1..(N + 1) : /\ getters'[k].element \in 1..(visited + 1)
                                  /\ HasLayout(elements[getters'[k].element])
        BY <4>1, <3>1, <3>4, <3>5, <3>6 DEF e
      <4>3. \A j, k \in 1..N : j < k => getters[j].element < getters[k].element
        BY <3>5 DEF LayoutInv, InClassOrder
      <4>4. \A j, k \in 1..(N + 1) : j < k => getters'[j].element < getters'[k].element
        BY <4>1, <4>3, <3>1, <3>5, <3>6
      <4>5. {getters[k].element : k \in 1..N} \cup keptElements = 1..visited
        BY <3>5 DEF LayoutInv, InClassOrder
      <4>6. {getters'[k].element : k \in 1..(N + 1)}
                = {getters[k].element : k \in 1..N} \cup {visited + 1}
        BY <3>1, <3>5, <3>6
      <4>7. 1..(visited + 1) = (1..visited) \cup {visited + 1}
        BY <3>1
      <4>8. {getters'[k].element : k \in 1..(N + 1)} \cup keptElements = 1..(visited + 1)
        BY <4>5, <4>6, <4>7
      <4>9. \A k \in keptElements : k \in 1..(visited + 1) /\ ~HasLayout(elements[k])
        BY <4>7 DEF LayoutInv, InClassOrder
      <4> QED
        BY <4>2, <4>4, <4>8, <4>9, <3>4, <3>5 DEF InClassOrder
    <3> QED
      BY <3>8, <3>9, <3>10, <3>11 DEF LayoutInv
  <2>2. CASE SkipElement
    <3>1. /\ visited \in Nat /\ visited < Len(elements) /\ Len(elements) \in Nat
          /\ keptElements' = keptElements \cup {visited + 1} /\ visited' = visited + 1
          /\ elements' = elements /\ currentOffset' = currentOffset
          /\ getters' = getters /\ layoutDone' = layoutDone
          /\ ~HasLayout(elements[visited + 1])
      BY <2>2 DEF SkipElement, LayoutInv, LayoutTypeOK
    <3>2. 1..(visited + 1) = (1..visited) \cup {visited + 1}
      BY <3>1
    <3>3. LayoutTypeOK'
      BY <3>1 DEF LayoutInv, LayoutTypeOK
    <3>4. Tiled' /\ Apart'
      BY <3>1 DEF LayoutInv, Tiled, Apart, FieldEnd, FieldBytes
    <3>5. {getters[k].element : k \in DOMAIN getters} \cup keptElements' = 1..(visited + 1)
      BY <3>1, <3>2 DEF LayoutInv, InClassOrder
    <3>6. InClassOrder'
      BY <3>1, <3>2, <3>5 DEF LayoutInv, InClassOrder
    <3> QED
      BY <3>3, <3>4, <3>6 DEF LayoutInv
  <2>3. CASE InjectMembers \/ UNCHANGED layoutVars
    <3>1. /\ UNCHANGED <<elements, visited, currentOffset, getters, keptElements>>
          /\ layoutDone' \in {layoutDone, TRUE}
      BY <2>3 DEF InjectMembers, layoutVars
    <3>2. LayoutTypeOK'
      BY <3>1 DEF LayoutInv, LayoutTypeOK
    <3>3. Tiled' /\ Apart'
      BY <3>1 DEF LayoutInv, Tiled, Apart, FieldEnd, FieldBytes
    <3>4. InClassOrder'
      BY <3>1 DEF LayoutInv, InClassOrder
    <3> QED
      BY <3>2, <3>3, <3>4 DEF LayoutInv
  <2> QED
    BY <2>1, <2>2, <2>3 DEF LayoutNext
<1> QED
  BY <1>1, <1>2, PTL DEF LayoutSpec

\* The fields of a class tile the packet, and every element of the class is
\* accounted for (the offsets and removals of the class transform's loop), for
\* a class with any number of elements of any sizes.
THEOREM FieldsTile == LayoutSpec => []FieldsTilePacket
<1>1. LayoutInv => FieldsTilePacket
  <2> SUFFICES ASSUME LayoutInv PROVE Tiled /\ Accounted
    BY DEF FieldsTilePacket
  <2>1. \A k \in 2..Len(getters) : k \in DOMAIN getters /\ k - 1 \in DOMAIN getters /\ k - 1 < k
    BY DEF LayoutInv, LayoutTypeOK
  <2> QED
    BY <2>1 DEF LayoutInv, InClassOrder, Accounted
<1> QED
  BY <1>1, LayoutInvHolds, PTL

-----------------------------------------------------------------------------
(* The getters it generates *)

LEMMA WholeElements ==
  ASSUME NEW a \in Nat \ {0}, NEW s \in Nat, NEW x \in Nat
  PROVE  /\ x = a * s => x % a = 0 /\ x \div a = s
         /\ x < a * s /\ x % a = 0 => x \div a < s
<1>1. x % a \in 0..(a - 1) /\ x \div a \in Int /\ x = a * (x \div a) + (x % a)
  OBVIOUS
<1> DEFINE q == x \div a
           r == x % a
<1>2. q \in Int /\ r \in 0..(a - 1) /\ x = a * q + r
  BY <1>1
<1> HIDE DEF q, r
<1>3. ASSUME x = a * s PROVE r = 0 /\ q = s
  <2>1. a * (s - q) = r
    BY <1>2, <1>3
  <2>2. s - q \in Int /\ (s - q <= 0 \/ s - q >= 1)
    BY <1>2
  <2>3. CASE s - q >= 1
    <3>1. a * (s - q) >= a
      BY <2>2, <2>3
    <3> QED
      BY <3>1, <2>1, <1>2
  <2>4. CASE s - q < 0
    <3>1. a * (s - q) < 0
      BY <2>2, <2>4
    <3> QED
      BY <3>1, <2>1, <1>2
  <2>5. CASE s - q = 0
    BY <2>1, <2>5, <1>2
  <2> QED
    BY <2>2, <2>3, <2>4, <2>5
<1>4. ASSUME x < a * s, r = 0 PROVE q < s
  <2>1. a * q < a * s
    BY <1>2, <1>4
  <2>2. q >= s => a * q >= a * s
    BY <1>2
  <2> QED
    BY <2>1, <2>2, <1>2
<1> QED
  BY <1>3, <1>4 DEF q, r

\* One getter on a buffer of n bytes: it is complete exactly when all the
\* bytes of its field are there, and never longer than its field.
LEMMA GetterOnBuffer ==
  ASSUME NEW g \in Getters, NEW n \in Nat
  PROVE  /\ (~GetterFails(g, n) /\ GetterLength(g, n) = g.size)
               <=> (FieldEnd(g) <= n \/ g.size = 0)
         /\ ~GetterFails(g, n) => GetterLength(g, n) <= g.size
         /\ BytesRead(g, n) \subseteq g.offset .. FieldEnd(g) - 1
<1> DEFINE a == TYPE_SIZES[g.type]
           x == SliceLength(g, n)
<1>1. /\ g.type \in Types /\ g.size \in Nat /\ g.offset \in Nat
      /\ a \in Nat \ {0} /\ a * g.size \in Nat
      /\ FieldEnd(g) = g.offset + a * g.size /\ FieldEnd(g) \in Nat
  BY BytesAreNat, FieldEndIsNat DEF Getters, FieldEnd, FieldBytes
<1>2. BytesRead(g, n) \subseteq g.offset .. FieldEnd(g) - 1
  BY <1>1 DEF BytesRead, AtMost
<1>3. CASE g.size = 1
  BY <1>1, <1>2, <1>3 DEF GetterFails, GetterLength
<1>4. CASE g.size # 1
  <2>1. /\ GetterFails(g, n) <=> x % a # 0
        /\ GetterLength(g, n) = x \div a
    BY <1>4 DEF GetterFails, GetterLength
  <2>2. x \in Nat
    BY <1>1 DEF SliceLength, AtMost
  <2>3. g.size > 0 => a * g.size > 0
    BY <1>1
  <2>4. g.size = 0 => a * g.size = 0
    BY <1>1
  <2>5. FieldEnd(g) <= n \/ g.size = 0 => x = a * g.size
    BY <1>1, <2>3, <2>4 DEF SliceLength, AtMost
  <2>6. ~(FieldEnd(g) <= n \/ g.size = 0) => x < a * g.size
    BY <1>1, <2>3 DEF SliceLength, AtMost
  <2> HIDE DEF a, x
  <2>7. /\ x = a * g.size => x % a = 0 /\ x \div a = g.size
        /\ x < a * g.size /\ x % a = 0 => x \div a < g.size
    BY <1>1, <2>2, WholeElements
  <2>8. x \div a \in Int
    BY <1>1, <2>2
  <2> QED
    BY <1>1, <1>2, <2>1, <2>5, <2>6, <2>7, <2>8
<1> QED
  BY <1>3, <1>4

\* What a generated getter returns on a buffer that is too short, exact or too
\* long: complete, shorter or an exception, but never a byte of another field.
THEOREM GettersReadOnlyTheirs == LayoutSpec => []GettersReadTheirField
<1>1. LayoutInv => GettersReadTheirField
  <2> SUFFICES ASSUME LayoutInv, NEW k \in DOMAIN getters, NEW n \in 0..(currentOffset + 1)
               PROVE  LET g == getters[k]
                          complete == ~GetterFails(g, n) /\ GetterLength(g, n) = g.size
                      IN  /\ complete <=> FieldEnd(g) <= n \/ g.size = 0
                          /\ ~GetterFails(g, n) => GetterLength(g, n) <= g.size
                          /\ \A j \in DOMAIN getters \ {k} :
                                BytesRead(g, n) \cap BytesRead(getters[j], n) = {}
    BY DEF GettersReadTheirField
  <2>1. n \in Nat /\ \A j \in DOMAIN getters : getters[j] \in Getters /\ j \in Nat
    BY DEF LayoutInv, LayoutTypeOK
  <2>2. ASSUME NEW j \in DOMAIN getters \ {k}
        PROVE  BytesRead(getters[k], n) \cap BytesRead(getters[j], n) = {}
    <3>1. /\ BytesRead(getters[k], n) \subseteq getters[k].offset .. FieldEnd(getters[k]) - 1
          /\ BytesRead(getters[j], n) \subseteq getters[j].offset .. FieldEnd(getters[j]) - 1
      BY <2>1, GetterOnBuffer
    <3>2. /\ getters[k].offset \in Nat /\ FieldEnd(getters[k]) \in Nat
          /\ getters[j].offset \in Nat /\ FieldEnd(getters[j]) \in Nat
      BY <2>1, FieldEndIsNat DEF Getters
    <3>3. \/ FieldEnd(getters[k]) <= getters[j].offset
          \/ FieldEnd(getters[j]) <= getters[k].offset
      <4>1. k < j \/ j < k
        BY <2>1
      <4> QED
        BY <4>1 DEF LayoutInv, Apart
    <3> QED
      BY <3>1, <3>2, <3>3
  <2> QED
    BY <2>1, <2>2, GetterOnBuffer
<1> QED
  BY <1>1, LayoutInvHolds, PTL

-----------------------------------------------------------------------------
(* Induction over a set of numbers *)

LEMMA Downwards ==
  ASSUME NEW S, NEW N \in Nat, N \in S, \A n \in Nat : n + 1 \in S => n \in S
  PROVE  \A n \in 0..N : n \in S
<1> SUFFICES ASSUME NEW b \in 0..N, b \notin S PROVE FALSE
  OBVIOUS
<1> DEFINE Q == {d \in Nat : d <= N /\ N - d \notin S}
<1>1. N - b \in Q
  BY DEF Q
<1>2. PICK d \in Q : \A y \in Q : ~(<<y, d>> \in OpToRel(<, Nat))
  <2>1. Q \subseteq Nat
    OBVIOUS
  <2> QED
    BY <1>1, <2>1, NatLessThanWellFounded, WFMin
<1>3. d # 0 /\ N - d \in Nat /\ (N - d) + 1 = N - (d - 1)
  OBVIOUS
<1>4. d - 1 \in Q
  BY <1>3
<1>5. <<d - 1, d>> \in OpToRel(<, Nat)
  BY <1>3, <1>4 DEF OpToRel
<1> QED
  BY <1>2, <1>4, <1>5

LEMMA Upwards ==
  ASSUME NEW S, 0 \in S, \A n \in Nat : n \in S => n + 1 \in S
  PROVE  \A n \in Nat : n \in S
<1> SUFFICES ASSUME NEW b \in Nat, b \notin S PROVE FALSE
  OBVIOUS
<1> DEFINE Q == {d \in Nat : d \notin S}
<1>1. PICK d \in Q : \A y \in Q : ~(<<y, d>> \in OpToRel(<, Nat))
  <2>1. Q \subseteq Nat /\ b \in Q
    OBVIOUS
  <2> QED
    BY <2>1, NatLessThanWellFounded, WFMin
<1>2. d # 0 /\ d - 1 \in Nat /\ (d - 1) + 1 = d
  OBVIOUS
<1>3. d - 1 \in Q
  BY <1>2
<1>4. <<d - 1, d>> \in OpToRel(<, Nat)
  BY <1>2, <1>3 DEF OpToRel
<1> QED
  BY <1>1, <1>3, <1>4

-----------------------------------------------------------------------------
(* Bytes *)

LEMMA Joined ==
  ASSUME NEW s \in Seq(Nat), NEW t \in Seq(Nat)
  PROVE  /\ s \o t \in Seq(Nat) /\ Len(s) \in Nat /\ Len(t) \in Nat /\ Len(s \o t) = Len(s) + Len(t)
         /\ \A j \in 1..Len(s) : (s \o t)[j] = s[j]
         /\ \A j \in 1..Len(t) : (s \o t)[Len(s) + j] = t[j]
  OBVIOUS

LEMMA HeadAndBytes ==
  ASSUME NEW x \in Nat, NEW t \in Seq(Nat)
  PROVE  /\ <<x>> \o t \in Seq(Nat) /\ Len(t) \in Nat /\ Len(<<x>> \o t) = 1 + Len(t)
         /\ (<<x>> \o t)[1] = x
         /\ \A j \in 1..Len(t) : (<<x>> \o t)[1 + j] = t[j]
<1>1. <<x>> \in Seq(Nat) /\ Len(<<x>>) = 1 /\ <<x>>[1] = x
  OBVIOUS
<1>2. /\ <<x>> \o t \in Seq(Nat) /\ Len(t) \in Nat /\ Len(<<x>> \o t) = Len(<<x>>) + Len(t)
      /\ \A j \in 1..Len(<<x>>) : (<<x>> \o t)[j] = <<x>>[j]
      /\ \A j \in 1..Len(t) : (<<x>> \o t)[Len(<<x>>) + j] = t[j]
  BY <1>1, Joined, Zenon
<1> QED
  BY <1>1, <1>2

-----------------------------------------------------------------------------
(* Strings *)

\* The recursive functions of the string helpers, each as what it does at
\* one place with what it has done behind that place.
LengthStep(str, f, i) ==
    IF i > Len(str) THEN 0
    ELSE CASE str[i] < FirstCode(2) -> 1 + f[i + 1]
           [] str[i] >= FirstCode(2) /\ str[i] < FirstCode(3) -> 2 + f[i + 1]
           [] Paired(str, i) -> 4 + f[i + 2]
           [] OTHER -> 3 + f[i + 1]

WriteStep(str, f, i) ==
    IF i > Len(str) THEN <<>>
    ELSE CASE Paired(str, i) -> Utf8Bytes(CodePoint(str[i], str[i + 1])) \o f[i + 2]
           [] ~Paired(str, i) /\ (HighSurrogate(str[i]) \/ LowSurrogate(str[i])) ->
                Utf8Bytes(Replacement) \o f[i + 1]
           [] OTHER -> Utf8Bytes(str[i]) \o f[i + 1]

IsLength(str, l) == l = [i \in Nat |-> LengthStep(str, l, i)]
IsWrite(str, w) == w = [i \in Nat |-> WriteStep(str, w, i)]

LEMMA LengthFunction ==
  ASSUME NEW str \in Seq(Units)
  PROVE  \E f : f = [i \in Nat |-> LengthStep(str, f, i)] /\ Utf8ByteLength(str) = f[1]
<1> DEFINE From(n) == {i \in Nat : i >= n}
           S == {n \in Nat : \E f : f = [i \in From(n) |-> LengthStep(str, f, i)]}
           N == Len(str) + 1
<1>1. N \in Nat /\ N \in S
  <2> DEFINE f == [i \in From(N) |-> 0]
  <2>1. \A i \in From(N) : LengthStep(str, f, i) = 0
    <3> HIDE DEF f
    <3> QED
      BY DEF LengthStep
  <2>2. \A g : (\A i \in From(N) : LengthStep(str, g, i) = 0)
               => [i \in From(N) |-> LengthStep(str, g, i)] = [i \in From(N) |-> 0]
    OBVIOUS
  <2>3. f = [i \in From(N) |-> LengthStep(str, f, i)]
    BY <2>1, <2>2
  <2> HIDE DEF f
  <2>4. \E h : h = [i \in From(N) |-> LengthStep(str, h, i)]
    BY <2>3
  <2>5. N \in Nat
    OBVIOUS
  <2> QED
    BY <2>4, <2>5
<1>2. ASSUME NEW n \in Nat, n + 1 \in S PROVE n \in S
  <2>1. PICK f : f = [i \in From(n + 1) |-> LengthStep(str, f, i)]
    BY <1>2
  <2> DEFINE g == [i \in From(n) |-> IF i = n THEN LengthStep(str, f, n) ELSE f[i]]
  <2>2. \A i \in From(n) : g[i + 1] = f[i + 1] /\ g[i + 2] = f[i + 2]
    OBVIOUS
  <2>3. \A i \in From(n) : g[i] = LengthStep(str, g, i)
    <3> TAKE i \in From(n)
    <3>1. LengthStep(str, g, i) = LengthStep(str, f, i)
      <4> HIDE DEF g
      <4> QED
        BY <2>2 DEF LengthStep
    <3>2. g[i] = LengthStep(str, f, i)
      <4>1. CASE i = n
        BY <4>1
      <4>2. CASE i # n
        <5>1. i \in From(n + 1) /\ g[i] = f[i]
          BY <4>2
        <5>2. f[i] = LengthStep(str, f, i)
          BY <2>1, <5>1
        <5> QED
          BY <5>1, <5>2
      <4> QED
        BY <4>1, <4>2
    <3> QED
      BY <3>1, <3>2
  <2>4. g = [i \in From(n) |-> g[i]]
    OBVIOUS
  <2> HIDE DEF g
  <2>5. g = [i \in From(n) |-> LengthStep(str, g, i)]
    BY <2>3, <2>4
  <2> QED
    BY <2>5
<1> HIDE DEF S
<1>3. 0 \in S
  <2>1. \A n \in 0..N : n \in S
    BY <1>1, <1>2, Downwards, Zenon
  <2> QED
    BY <1>1, <2>1
<1>4. PICK f : f = [i \in Nat |-> LengthStep(str, f, i)]
  <2>1. From(0) = Nat
    OBVIOUS
  <2> QED
    BY <1>3, <2>1 DEF S
<1>5. Utf8ByteLength(str) = (CHOOSE h : h = [i \in Nat |-> LengthStep(str, h, i)])[1]
  BY Zenon DEF Utf8ByteLength, LengthStep
<1> QED
  BY <1>4, <1>5

LEMMA WriteFunction ==
  ASSUME NEW str \in Seq(Units)
  PROVE  \E f : f = [i \in Nat |-> WriteStep(str, f, i)] /\ WriteString(str) = f[1]
<1> DEFINE From(n) == {i \in Nat : i >= n}
           S == {n \in Nat : \E f : f = [i \in From(n) |-> WriteStep(str, f, i)]}
           N == Len(str) + 1
<1>1. N \in Nat /\ N \in S
  <2> DEFINE f == [i \in From(N) |-> <<>>]
  <2>1. \A i \in From(N) : WriteStep(str, f, i) = <<>>
    <3> HIDE DEF f
    <3> QED
      BY DEF WriteStep
  <2>2. \A g : (\A i \in From(N) : WriteStep(str, g, i) = <<>>)
               => [i \in From(N) |-> WriteStep(str, g, i)] = [i \in From(N) |-> <<>>]
    OBVIOUS
  <2>3. f = [i \in From(N) |-> WriteStep(str, f, i)]
    BY <2>1, <2>2
  <2> HIDE DEF f
  <2>4. \E h : h = [i \in From(N) |-> WriteStep(str, h, i)]
    BY <2>3
  <2>5. N \in Nat
    OBVIOUS
  <2> QED
    BY <2>4, <2>5
<1>2. ASSUME NEW n \in Nat, n + 1 \in S PROVE n \in S
  <2>1. PICK f : f = [i \in From(n + 1) |-> WriteStep(str, f, i)]
    BY <1>2
  <2> DEFINE g == [i \in From(n) |-> IF i = n THEN WriteStep(str, f, n) ELSE f[i]]
  <2>2. \A i \in From(n) : g[i + 1] = f[i + 1] /\ g[i + 2] = f[i + 2]
    OBVIOUS
  <2>3. \A i \in From(n) : g[i] = WriteStep(str, g, i)
    <3> TAKE i \in From(n)
    <3>1. WriteStep(str, g, i) = WriteStep(str, f, i)
      <4> HIDE DEF g
      <4> QED
        BY <2>2 DEF WriteStep
    <3>2. g[i] = WriteStep(str, f, i)
      <4>1. CASE i = n
        BY <4>1
      <4>2. CASE i # n
        <5>1. i \in From(n + 1) /\ g[i] = f[i]
          BY <4>2
        <5>2. f[i] = WriteStep(str, f, i)
          BY <2>1, <5>1
        <5> QED
          BY <5>1, <5>2
      <4> QED
        BY <4>1, <4>2
    <3> QED
      BY <3>1, <3>2
  <2>4. g = [i \in From(n) |-> g[i]]
    OBVIOUS
  <2> HIDE DEF g
  <2>5. g = [i \in From(n) |-> WriteStep(str, g, i)]
    BY <2>3, <2>4
  <2> QED
    BY <2>5
<1> HIDE DEF S
<1>3. 0 \in S
  <2>1. \A n \in 0..N : n \in S
    BY <1>1, <1>2, Downwards, Zenon
  <2> QED
    BY <1>1, <2>1
<1>4. PICK f : f = [i \in Nat |-> WriteStep(str, f, i)]
  <2>1. From(0) = Nat
    OBVIOUS
  <2> QED
    BY <1>3, <2>1 DEF S
<1>5. WriteString(str) = (CHOOSE h : h = [i \in Nat |-> WriteStep(str, h, i)])[1]
  BY Zenon DEF WriteString, WriteStep
<1> QED
  BY <1>4, <1>5

ArrayStep(value, f, i) ==
    IF i > Len(value) THEN <<>> ELSE NumberBytes(value[i]) \o f[i + 1]

LEMMA ArrayFunction ==
  ASSUME NEW value \in Seq(Int)
  PROVE  \E f : f = [i \in Nat |-> ArrayStep(value, f, i)] /\ ArrayBytes(value) = f[1]
<1> DEFINE From(n) == {i \in Nat : i >= n}
           S == {n \in Nat : \E f : f = [i \in From(n) |-> ArrayStep(value, f, i)]}
           N == Len(value) + 1
<1>1. N \in Nat /\ N \in S
  <2> DEFINE f == [i \in From(N) |-> <<>>]
  <2>1. \A i \in From(N) : ArrayStep(value, f, i) = <<>>
    <3> HIDE DEF f
    <3> QED
      BY DEF ArrayStep
  <2>2. \A g : (\A i \in From(N) : ArrayStep(value, g, i) = <<>>)
               => [i \in From(N) |-> ArrayStep(value, g, i)] = [i \in From(N) |-> <<>>]
    OBVIOUS
  <2>3. f = [i \in From(N) |-> ArrayStep(value, f, i)]
    BY <2>1, <2>2
  <2> HIDE DEF f
  <2>4. \E h : h = [i \in From(N) |-> ArrayStep(value, h, i)]
    BY <2>3
  <2>5. N \in Nat
    OBVIOUS
  <2> QED
    BY <2>4, <2>5
<1>2. ASSUME NEW n \in Nat, n + 1 \in S PROVE n \in S
  <2>1. PICK f : f = [i \in From(n + 1) |-> ArrayStep(value, f, i)]
    BY <1>2
  <2> DEFINE g == [i \in From(n) |-> IF i = n THEN ArrayStep(value, f, n) ELSE f[i]]
  <2>2. \A i \in From(n) : g[i + 1] = f[i + 1] /\ g[i + 2] = f[i + 2]
    OBVIOUS
  <2>3. \A i \in From(n) : g[i] = ArrayStep(value, g, i)
    <3> TAKE i \in From(n)
    <3>1. ArrayStep(value, g, i) = ArrayStep(value, f, i)
      <4> HIDE DEF g
      <4> QED
        BY <2>2 DEF ArrayStep
    <3>2. g[i] = ArrayStep(value, f, i)
      <4>1. CASE i = n
        BY <4>1
      <4>2. CASE i # n
        <5>1. i \in From(n + 1) /\ g[i] = f[i]
          BY <4>2
        <5>2. f[i] = ArrayStep(value, f, i)
          BY <2>1, <5>1
        <5> QED
          BY <5>1, <5>2
      <4> QED
        BY <4>1, <4>2
    <3> QED
      BY <3>1, <3>2
  <2>4. g = [i \in From(n) |-> g[i]]
    OBVIOUS
  <2> HIDE DEF g
  <2>5. g = [i \in From(n) |-> ArrayStep(value, g, i)]
    BY <2>3, <2>4
  <2> QED
    BY <2>5
<1> HIDE DEF S
<1>3. 0 \in S
  <2>1. \A n \in 0..N : n \in S
    BY <1>1, <1>2, Downwards, Zenon
  <2> QED
    BY <1>1, <2>1
<1>4. PICK f : f = [i \in Nat |-> ArrayStep(value, f, i)]
  <2>1. From(0) = Nat
    OBVIOUS
  <2> QED
    BY <1>3, <2>1 DEF S
<1>5. ArrayBytes(value) = (CHOOSE h : h = [i \in Nat |-> ArrayStep(value, h, i)])[1]
  BY Zenon DEF ArrayBytes, ArrayStep
<1> QED
  BY <1>4, <1>5

-----------------------------------------------------------------------------
(* The bytes of a string *)

LEMMA Widths ==
  /\ FirstCode(2) = 128 /\ FirstCode(3) = 2048 /\ FirstCode(4) = 65536
  /\ Mark(2) = 192 /\ Mark(3) = 224 /\ Mark(4) = 240
  BY DEF FirstCode, Mark

LEMMA CodeUnits ==
  ASSUME NEW str \in Seq(Units), NEW i \in 1..Len(str)
  PROVE  /\ str[i] \in Nat /\ str[i] < FirstCode(4)
         /\ Paired(str, i) => /\ i + 1 \in 1..Len(str) /\ str[i + 1] \in Nat
                              /\ HighSurrogate(str[i]) /\ LowSurrogate(str[i + 1])
                              /\ CodePoint(str[i], str[i + 1]) \in Nat
                              /\ CodePoint(str[i], str[i + 1]) >= FirstCode(4)
<1>1. \A j \in 1..Len(str) : str[j] \in Nat /\ str[j] < FirstCode(4)
  <2>1. \A j \in 1..Len(str) : str[j] \in Units
    OBVIOUS
  <2> QED
    BY <2>1 DEF Units
<1>2. ASSUME Paired(str, i)
      PROVE  i + 1 \in 1..Len(str) /\ HighSurrogate(str[i]) /\ LowSurrogate(str[i + 1])
  BY <1>2 DEF Paired
<1>3. ASSUME NEW h \in Nat, NEW k \in Nat PROVE CodePoint(h, k) \in Nat /\ CodePoint(h, k) >= FirstCode(4)
  BY Widths DEF CodePoint
<1>4. ASSUME Paired(str, i)
      PROVE  str[i] \in Nat /\ str[i + 1] \in Nat
  BY <1>1, <1>2, <1>4
<1>5. ASSUME Paired(str, i)
      PROVE  CodePoint(str[i], str[i + 1]) \in Nat /\ CodePoint(str[i], str[i + 1]) >= FirstCode(4)
  BY <1>3, <1>4, <1>5
<1> QED
  BY <1>1, <1>2, <1>4, <1>5

LEMMA BytesOfCharacter ==
  ASSUME NEW c \in Nat
  PROVE  /\ c < FirstCode(2) => Utf8Bytes(c) = <<c>>
         /\ c >= FirstCode(2) /\ c < FirstCode(3) => Utf8Bytes(c) = <<Mark(2) + Shift(c, 1), Continuation(c, 0)>>
         /\ c >= FirstCode(3) /\ c < FirstCode(4) =>
               Utf8Bytes(c) = <<Mark(3) + Shift(c, 2), Continuation(c, 1), Continuation(c, 0)>>
         /\ c >= FirstCode(4) =>
               Utf8Bytes(c) = <<Mark(4) + Shift(c, 3), Continuation(c, 2), Continuation(c, 1), Continuation(c, 0)>>
<1>1. /\ c < FirstCode(2) => ~(c >= FirstCode(2)) /\ ~(c >= FirstCode(3))
      /\ c >= FirstCode(2) /\ c < FirstCode(3) => ~(c < FirstCode(2)) /\ ~(c >= FirstCode(3))
      /\ c >= FirstCode(3) => ~(c < FirstCode(2)) /\ ~(c < FirstCode(3))
      /\ c >= FirstCode(4) => ~(c < FirstCode(2)) /\ ~(c < FirstCode(3)) /\ ~(c < FirstCode(4))
  BY Widths
<1> QED
  BY <1>1, Zenon DEF Utf8Bytes

LEMMA BytesAreWhole ==
  ASSUME NEW c \in Nat
  PROVE  /\ Utf8Bytes(c) \in Seq(Nat)
         /\ c < FirstCode(2) => Len(Utf8Bytes(c)) = 1
         /\ c >= FirstCode(2) /\ c < FirstCode(3) => Len(Utf8Bytes(c)) = 2
         /\ c >= FirstCode(3) /\ c < FirstCode(4) => Len(Utf8Bytes(c)) = 3
         /\ c >= FirstCode(4) => Len(Utf8Bytes(c)) = 4
<1>1. \A k \in 0..3 : Shift(c, k) \in Nat /\ Continuation(c, k) \in Nat
  <2>1. Shift(c, 0) \in Nat /\ Shift(c, 1) \in Nat /\ Shift(c, 2) \in Nat /\ Shift(c, 3) \in Nat
    BY DEF Shift
  <2> QED
    BY <2>1 DEF Continuation
<1>2. Mark(2) \in Nat /\ Mark(3) \in Nat /\ Mark(4) \in Nat
  BY Widths
<1>3. \/ c < FirstCode(2) \/ (c >= FirstCode(2) /\ c < FirstCode(3))
      \/ (c >= FirstCode(3) /\ c < FirstCode(4)) \/ c >= FirstCode(4)
  BY Widths
<1>4. \A x, y, z, u \in Nat : /\ <<x>> \in Seq(Nat) /\ Len(<<x>>) = 1
                              /\ <<x, y>> \in Seq(Nat) /\ Len(<<x, y>>) = 2
                              /\ <<x, y, z>> \in Seq(Nat) /\ Len(<<x, y, z>>) = 3
                              /\ <<x, y, z, u>> \in Seq(Nat) /\ Len(<<x, y, z, u>>) = 4
  OBVIOUS
<1>5. /\ Shift(c, 1) \in Nat /\ Shift(c, 2) \in Nat /\ Shift(c, 3) \in Nat
      /\ Continuation(c, 0) \in Nat /\ Continuation(c, 1) \in Nat /\ Continuation(c, 2) \in Nat
  BY <1>1
<1>6. /\ Mark(2) + Shift(c, 1) \in Nat /\ Mark(3) + Shift(c, 2) \in Nat
      /\ Mark(4) + Shift(c, 3) \in Nat
  BY <1>2, <1>5
<1>7. ASSUME c < FirstCode(2) PROVE Utf8Bytes(c) \in Seq(Nat) /\ Len(Utf8Bytes(c)) = 1
  <2>1. Utf8Bytes(c) = <<c>>
    BY <1>7, BytesOfCharacter, Zenon
  <2> QED
    BY <2>1, <1>4
<1>8. ASSUME c >= FirstCode(2), c < FirstCode(3) PROVE Utf8Bytes(c) \in Seq(Nat) /\ Len(Utf8Bytes(c)) = 2
  <2>1. Utf8Bytes(c) = <<Mark(2) + Shift(c, 1), Continuation(c, 0)>>
    BY <1>8, BytesOfCharacter, Zenon
  <2> QED
    BY <2>1, <1>4, <1>5, <1>6
<1>9. ASSUME c >= FirstCode(3), c < FirstCode(4) PROVE Utf8Bytes(c) \in Seq(Nat) /\ Len(Utf8Bytes(c)) = 3
  <2>1. Utf8Bytes(c) = <<Mark(3) + Shift(c, 2), Continuation(c, 1), Continuation(c, 0)>>
    BY <1>9, BytesOfCharacter, Zenon
  <2> QED
    BY <2>1, <1>4, <1>5, <1>6
<1>10. ASSUME c >= FirstCode(4) PROVE Utf8Bytes(c) \in Seq(Nat) /\ Len(Utf8Bytes(c)) = 4
  <2>1. Utf8Bytes(c) = <<Mark(4) + Shift(c, 3), Continuation(c, 2), Continuation(c, 1), Continuation(c, 0)>>
    BY <1>10, BytesOfCharacter, Zenon
  <2> QED
    BY <2>1, <1>4, <1>5, <1>6
<1> QED
  BY <1>3, <1>7, <1>8, <1>9, <1>10

\* The character at a unit, and how many units it takes.
Character(str, i, c, k) ==
    \/ k = 2 /\ Paired(str, i) /\ c = CodePoint(str[i], str[i + 1])
    \/ k = 1 /\ ~Paired(str, i) /\ (HighSurrogate(str[i]) \/ LowSurrogate(str[i])) /\ c = Replacement
    \/ k = 1 /\ ~Paired(str, i) /\ ~(HighSurrogate(str[i]) \/ LowSurrogate(str[i])) /\ c = str[i]

\* What the two loops do with one unit, or two.
BothTake(str, l, w, i) ==
    \E c \in Nat, k \in {1, 2} :
        /\ w[i] = Utf8Bytes(c) \o w[i + k]
        /\ l[i] = Len(Utf8Bytes(c)) + l[i + k]
        /\ Character(str, i, c, k)

LEMMA OneCharacter ==
  ASSUME NEW str \in Seq(Units), NEW i \in 1..Len(str),
         NEW l, IsLength(str, l), NEW w, IsWrite(str, w)
  PROVE  BothTake(str, l, w, i)
<1>1. i \in Nat /\ ~(i > Len(str)) /\ Len(str) \in Nat
  OBVIOUS
<1>2. l[i] = LengthStep(str, l, i) /\ w[i] = WriteStep(str, w, i)
  BY <1>1 DEF IsLength, IsWrite
<1>3. str[i] \in Nat /\ str[i] < FirstCode(4)
  BY CodeUnits
<1>4. ASSUME Paired(str, i)
      PROVE  HighSurrogate(str[i]) /\ CodePoint(str[i], str[i + 1]) \in Nat /\ CodePoint(str[i], str[i + 1]) >= FirstCode(4)
  BY <1>4, CodeUnits
<1>5. CASE Paired(str, i)
  <2>1. PICK c \in Nat : c = CodePoint(str[i], str[i + 1]) /\ c >= FirstCode(4)
    <3>1. CodePoint(str[i], str[i + 1]) \in Nat /\ CodePoint(str[i], str[i + 1]) >= FirstCode(4)
      BY <1>4, <1>5
    <3> QED
      BY <3>1, Zenon
  <2>2. Len(Utf8Bytes(c)) = 4
    BY <2>1, BytesAreWhole
  <2>3. w[i] = Utf8Bytes(c) \o w[i + 2]
    BY <1>1, <1>2, <1>5, <2>1, Zenon DEF WriteStep
  <2>4. l[i] = 4 + l[i + 2]
    <3>1. ~(str[i] < FirstCode(2)) /\ ~(str[i] >= FirstCode(2) /\ str[i] < FirstCode(3))
      BY <1>3, <1>4, <1>5, Widths DEF HighSurrogate
    <3> QED
      BY <1>1, <1>2, <1>5, <3>1, Zenon DEF LengthStep
  <2> QED
    BY <1>5, <2>1, <2>2, <2>3, <2>4, Zenon DEF Character, BothTake
<1>6. CASE ~Paired(str, i) /\ (HighSurrogate(str[i]) \/ LowSurrogate(str[i]))
  <2>1. Replacement \in Nat /\ (Replacement >= FirstCode(3) /\ Replacement < FirstCode(4))
    BY Widths DEF Replacement
  <2>2. Len(Utf8Bytes(Replacement)) = 3
    BY <2>1, BytesAreWhole
  <2>3. w[i] = Utf8Bytes(Replacement) \o w[i + 1]
    BY <1>1, <1>2, <1>6, Zenon DEF WriteStep
  <2>4. l[i] = 3 + l[i + 1]
    <3>1. ~(str[i] < FirstCode(2)) /\ ~(str[i] >= FirstCode(2) /\ str[i] < FirstCode(3))
      BY <1>3, <1>6, Widths DEF HighSurrogate, LowSurrogate
    <3> QED
      BY <1>1, <1>2, <1>6, <3>1, Zenon DEF LengthStep
  <2> QED
    BY <1>6, <2>1, <2>2, <2>3, <2>4, Zenon DEF Character, BothTake
<1>7. CASE ~Paired(str, i) /\ ~(HighSurrogate(str[i]) \/ LowSurrogate(str[i]))
  <2>1. w[i] = Utf8Bytes(str[i]) \o w[i + 1]
    BY <1>1, <1>2, <1>7, Zenon DEF WriteStep
  <2>2. l[i] = Len(Utf8Bytes(str[i])) + l[i + 1]
    <3>1. CASE str[i] < FirstCode(2)
      <4>1. Len(Utf8Bytes(str[i])) = 1 /\ ~(str[i] >= FirstCode(2) /\ str[i] < FirstCode(3))
        <5>1. Len(Utf8Bytes(str[i])) = 1
          BY <1>3, <3>1, BytesAreWhole, Zenon
        <5>2. ~(str[i] >= FirstCode(2) /\ str[i] < FirstCode(3))
          BY <1>3, <3>1, Widths
        <5> QED
          BY <5>1, <5>2
      <4>2. l[i] = 1 + l[i + 1]
        BY <1>1, <1>2, <1>7, <3>1, <4>1, Zenon DEF LengthStep
      <4> QED
        BY <4>1, <4>2
    <3>2. CASE str[i] >= FirstCode(2) /\ str[i] < FirstCode(3)
      <4>1. Len(Utf8Bytes(str[i])) = 2 /\ ~(str[i] < FirstCode(2))
        <5>1. Len(Utf8Bytes(str[i])) = 2
          BY <1>3, <3>2, BytesAreWhole, Zenon
        <5>2. ~(str[i] < FirstCode(2))
          BY <1>3, <3>2, Widths
        <5> QED
          BY <5>1, <5>2
      <4>2. l[i] = 2 + l[i + 1]
        BY <1>1, <1>2, <1>7, <3>2, <4>1, Zenon DEF LengthStep
      <4> QED
        BY <4>1, <4>2
    <3>3. CASE str[i] >= FirstCode(3) /\ str[i] < FirstCode(4)
      <4>1. Len(Utf8Bytes(str[i])) = 3 /\ ~(str[i] < FirstCode(2)) /\ ~(str[i] >= FirstCode(2) /\ str[i] < FirstCode(3))
        <5>1. Len(Utf8Bytes(str[i])) = 3
          BY <1>3, <3>3, BytesAreWhole, Zenon
        <5>2. ~(str[i] < FirstCode(2)) /\ ~(str[i] >= FirstCode(2) /\ str[i] < FirstCode(3))
          BY <1>3, <3>3, Widths
        <5> QED
          BY <5>1, <5>2
      <4>2. l[i] = 3 + l[i + 1]
        BY <1>1, <1>2, <1>7, <3>3, <4>1, Zenon DEF LengthStep
      <4> QED
        BY <4>1, <4>2
    <3> QED
      BY <1>3, <3>1, <3>2, <3>3, Widths
  <2> QED
    BY <1>3, <1>7, <2>1, <2>2, Zenon DEF Character, BothTake
<1> QED
  BY <1>5, <1>6, <1>7

\* The two loops agree on every string, well formed or not.
LEMMA LoopsAgree ==
  ASSUME NEW str \in Seq(Units),
         NEW l, IsLength(str, l), NEW w, IsWrite(str, w)
  PROVE  \A i \in Nat : i > 0 => w[i] \in Seq(Nat) /\ l[i] \in Nat /\ Len(w[i]) = l[i]
<1> DEFINE Agree(i) == w[i] \in Seq(Nat) /\ l[i] \in Nat /\ Len(w[i]) = l[i]
           S == {n \in Nat : \A i \in Nat : i > n => Agree(i)}
           N == Len(str)
<1>1. N \in Nat /\ N \in S
  <2>1. ASSUME NEW i \in Nat, i > N PROVE Agree(i)
    <3>1. l[i] = LengthStep(str, l, i) /\ w[i] = WriteStep(str, w, i)
      BY DEF IsLength, IsWrite
    <3>2. l[i] = 0 /\ w[i] = <<>>
      BY <2>1, <3>1, Zenon DEF LengthStep, WriteStep
    <3> QED
      BY <3>2
  <2> QED
    BY <2>1
<1>2. ASSUME NEW n \in Nat, n + 1 \in S PROVE n \in S
  <2> SUFFICES ASSUME NEW i \in Nat, i > n PROVE Agree(i)
    OBVIOUS
  <2>1. CASE i > n + 1
    BY <1>2, <2>1
  <2>2. CASE i = n + 1 /\ i > N
    BY <1>1, <2>2
  <2>3. CASE i = n + 1 /\ i <= N
    <3>1. i \in 1..Len(str)
      BY <2>3
    <3>2. PICK c \in Nat, k \in {1, 2} : /\ w[i] = Utf8Bytes(c) \o w[i + k]
                                         /\ l[i] = Len(Utf8Bytes(c)) + l[i + k]
                                         /\ Character(str, i, c, k)
      <4>1. BothTake(str, l, w, i)
        BY <3>1, OneCharacter, Zenon
      <4> QED
        BY <4>1, Zenon DEF BothTake
    <3>3. Agree(i + k)
      <4>1. i + k \in Nat /\ i + k > n + 1
        BY <2>3
      <4> QED
        BY <1>2, <4>1
    <3>4. PICK a, b : /\ a = Utf8Bytes(c) /\ b = w[i + k] /\ a \in Seq(Nat)
                      /\ b \in Seq(Nat) /\ l[i + k] = Len(b)
      BY <3>3, BytesAreWhole, Zenon
    <3>5. w[i] = a \o b /\ l[i] = Len(a) + Len(b)
      BY <3>2, <3>4, Zenon
    <3>6. a \o b \in Seq(Nat) /\ Len(a) + Len(b) \in Nat /\ Len(a \o b) = Len(a) + Len(b)
      BY <3>4
    <3> QED
      BY <3>5, <3>6, Zenon
  <2> QED
    BY <1>1, <2>1, <2>2, <2>3
<1> HIDE DEF S
<1>3. 0 \in S
  <2>1. \A n \in 0..N : n \in S
    BY <1>1, <1>2, Downwards, Zenon
  <2> QED
    BY <1>1, <2>1
<1> QED
  BY <1>3 DEF S

LEMMA WrittenLength ==
  ASSUME NEW str \in Seq(Units)
  PROVE  /\ WriteString(str) \in Seq(Nat) /\ Utf8ByteLength(str) \in Nat
         /\ Len(WriteString(str)) = Utf8ByteLength(str)
<1>1. PICK l : IsLength(str, l) /\ Utf8ByteLength(str) = l[1]
  BY LengthFunction DEF IsLength
<1>2. PICK w : IsWrite(str, w) /\ WriteString(str) = w[1]
  BY WriteFunction DEF IsWrite
<1> QED
  BY <1>1, <1>2, LoopsAgree

-----------------------------------------------------------------------------
(* Counts, numbers and arrays *)

LEMMA RadixTypes ==
  /\ Radix \in Nat /\ Radix > 1 /\ Inline \in Nat /\ Inline > 0 /\ Inline <= 28
  /\ Word \in Nat /\ Word > 0
<1>1. Radix \in Nat /\ Radix > 1 /\ Inline \in Nat /\ Inline > 0 /\ Inline <= 28
  BY CborAssumption
<1>2. \A a, b \in Nat : a > 0 /\ b > 0 => a * b \in Nat /\ a * b > 0
  OBVIOUS
<1>3. Radix * Radix \in Nat /\ Radix * Radix > 0
  BY <1>1, <1>2
<1>4. Radix * Radix * Radix \in Nat /\ Radix * Radix * Radix > 0
  BY <1>1, <1>2, <1>3
<1> QED
  BY <1>1, <1>2, <1>4 DEF Word

LEMMA ExtensionOf ==
  /\ Extension[Inline] = 1 /\ Extension[Inline + 1] = 2 /\ Extension[Inline + 2] = 4
  BY RadixTypes DEF Extension

\* A digit is the remainder of something.
LEMMA DigitTypes ==
  ASSUME NEW n \in Nat, NEW width \in {1, 2, 4}
  PROVE  BigEndian(n, width) \in Seq(Nat) /\ Len(BigEndian(n, width)) = width
<1>1. \A j \in 1..4 : Weights[j] \in Nat /\ Weights[j] > 0
  <2>1. \A a, b \in Nat : a > 0 /\ b > 0 => a * b \in Nat /\ a * b > 0
    OBVIOUS
  <2>2. Radix * Radix \in Nat /\ Radix * Radix > 0
    BY <2>1, RadixTypes
  <2>3. Radix * Radix * Radix \in Nat /\ Radix * Radix * Radix > 0
    BY <2>1, <2>2, RadixTypes
  <2> QED
    BY <2>2, <2>3, RadixTypes DEF Weights
<1>2. ASSUME NEW d \in 1..width PROVE (n \div Weights[width - d + 1]) % Radix \in Nat
  <2>1. PICK x : x = Weights[width - d + 1] /\ x \in Nat /\ x > 0
    BY <1>1
  <2>2. \A a, b \in Nat : b > 0 => a \div b \in Nat /\ a % b \in Nat
    OBVIOUS
  <2> QED
    BY <2>1, <2>2, RadixTypes
<1> QED
  BY <1>2 DEF BigEndian

\* A head is as long as HeadSize says, whatever it counts.
LEMMA HeadLength ==
  ASSUME NEW n \in Nat, NEW major \in Nat
  PROVE  /\ CountHead(major, n) \in Seq(Nat) /\ Len(CountHead(major, n)) = HeadSize(n)
         /\ HeadSize(n) \in Nat /\ HeadSize(n) > 0
<1>1. WidthInfo(n) \in {Inline, Inline + 1, Inline + 2}
  <2>1. CASE n < Radix
    <3>1. WidthInfo(n) = Inline
      <4>1. ~(n >= Radix)
        BY <2>1, RadixTypes
      <4> QED
        BY <2>1, <4>1, Zenon DEF WidthInfo
    <3> QED
      BY <3>1
  <2>2. CASE n >= Radix /\ n < Radix * Radix
    <3>1. WidthInfo(n) = Inline + 1
      <4>1. ~(n < Radix)
        BY <2>2, RadixTypes
      <4> QED
        BY <2>2, <4>1, Zenon DEF WidthInfo
    <3> QED
      BY <3>1
  <2>3. CASE ~(n < Radix) /\ ~(n >= Radix /\ n < Radix * Radix)
    <3>1. WidthInfo(n) = Inline + 2
      BY <2>3, Zenon DEF WidthInfo
    <3> QED
      BY <3>1
  <2> QED
    BY <2>1, <2>2, <2>3, RadixTypes
<1>2. PICK width \in {1, 2, 4} : Extension[WidthInfo(n)] = width
  BY <1>1, ExtensionOf
<1>3. BigEndian(n, width) \in Seq(Nat) /\ Len(BigEndian(n, width)) = width
  BY DigitTypes
<1>4. ASSUME NEW m \in Nat
      PROVE  /\ CountHead(m, n) \in Seq(Nat)
             /\ Len(CountHead(m, n)) = IF n < Inline THEN 1 ELSE 1 + width
  <2>1. \A info \in Nat : Tag(m, info) \in Nat
    BY DEF Tag
  <2>2. WidthInfo(n) \in Nat
    BY <1>1, RadixTypes
  <2>3. CASE n < Inline
    BY <2>1, <2>3 DEF CountHead
  <2>4. CASE ~(n < Inline)
    <3>1. CountHead(m, n) = <<Tag(m, WidthInfo(n))>> \o BigEndian(n, width)
      BY <1>2, <2>4 DEF CountHead
    <3>2. PICK a, b : /\ a = Tag(m, WidthInfo(n)) /\ b = BigEndian(n, width)
                      /\ a \in Nat /\ b \in Seq(Nat) /\ Len(b) = width
      BY <1>3, <2>1, <2>2
    <3>3. <<a>> \o b \in Seq(Nat) /\ Len(<<a>> \o b) = 1 + width
      BY ONLY <3>2, width \in {1, 2, 4}
    <3> QED
      BY <2>4, <3>1, <3>2, <3>3
  <2> QED
    BY <2>3, <2>4
<1>5. HeadSize(n) = IF n < Inline THEN 1 ELSE 1 + width
  BY <1>4 DEF HeadSize
<1> QED
  BY <1>4, <1>5

LEMMA NumberLength ==
  ASSUME NEW n \in Int
  PROVE  NumberBytes(n) \in Seq(Nat) /\ Len(NumberBytes(n)) = 5
<1>1. /\ n % Word \in Nat /\ (-n - 1) % Word \in Nat
      /\ Tag(0, Inline + 2) \in Nat /\ Tag(1, Inline + 2) \in Nat
  BY RadixTypes DEF Tag
<1>2. PICK a : a = BigEndian(n % Word, 4) /\ a \in Seq(Nat) /\ Len(a) = 4
  BY <1>1, DigitTypes
<1>3. PICK b : b = BigEndian((-n - 1) % Word, 4) /\ b \in Seq(Nat) /\ Len(b) = 4
  BY <1>1, DigitTypes
<1>4. NumberBytes(n) = IF n >= 0 THEN <<Tag(0, Inline + 2)>> \o a ELSE <<Tag(1, Inline + 2)>> \o b
  BY <1>2, <1>3 DEF NumberBytes
<1>5. PICK s, t \in Nat : s = Tag(0, Inline + 2) /\ t = Tag(1, Inline + 2)
  BY <1>1
<1>6. /\ <<s>> \o a \in Seq(Nat) /\ Len(<<s>> \o a) = 1 + Len(a)
      /\ <<t>> \o b \in Seq(Nat) /\ Len(<<t>> \o b) = 1 + Len(b)
  BY <1>2, <1>3, HeadAndBytes, Zenon
<1>7. /\ <<s>> \o a \in Seq(Nat) /\ Len(<<s>> \o a) = 5
      /\ <<t>> \o b \in Seq(Nat) /\ Len(<<t>> \o b) = 5
  <2>1. 1 + Len(a) = 5 /\ 1 + Len(b) = 5
    <3>1. Len(a) = 4 /\ Len(b) = 4
      BY <1>2, <1>3, Zenon
    <3> QED
      BY ONLY <3>1
  <2> QED
    BY <1>6, <2>1
<1>8. NumberBytes(n) = <<s>> \o a \/ NumberBytes(n) = <<t>> \o b
  BY <1>4, <1>5
<1> QED
  BY <1>7, <1>8, Zenon

\* The elements of an array lie five bytes apart.
LEMMA ArrayElements ==
  ASSUME NEW value \in Seq(Int)
  PROVE  /\ ArrayBytes(value) \in Seq(Nat) /\ Len(ArrayBytes(value)) = 5 * Len(value)
         /\ \A k \in 1..Len(value) : \A j \in 1..5 :
               ArrayBytes(value)[5 * (k - 1) + j] = NumberBytes(value[k])[j]
<1>1. PICK f : f = [i \in Nat |-> ArrayStep(value, f, i)] /\ ArrayBytes(value) = f[1]
  BY ArrayFunction
<1> DEFINE N == Len(value)
           Good(i) == /\ f[i] \in Seq(Nat) /\ Len(f[i]) = 5 * (N + 1 - i)
                      /\ \A k \in i..N : \A j \in 1..5 : f[i][5 * (k - i) + j] = NumberBytes(value[k])[j]
           S == {n \in Nat : n > 0 => Good(n)}
<1>2. N \in Nat /\ N + 1 \in S
  <2>1. f[N + 1] = ArrayStep(value, f, N + 1)
    BY <1>1
  <2>2. f[N + 1] = <<>>
    BY <2>1 DEF ArrayStep
  <2>3. N + 1 \in Nat /\ N + 1 - (N + 1) = 0 /\ N \in Nat /\ (N + 1)..N = {}
    OBVIOUS
  <2>4. Good(N + 1)
    BY <2>2, <2>3
  <2> HIDE DEF Good
  <2> QED
    BY <2>3, <2>4
<1>3. ASSUME NEW n \in Nat, n + 1 \in S, n <= N PROVE n \in S
  <2> SUFFICES ASSUME n > 0 PROVE Good(n)
    OBVIOUS
  <2>1. Good(n + 1)
    BY <1>3
  <2>2. f[n] = NumberBytes(value[n]) \o f[n + 1]
    <3>1. f[n] = ArrayStep(value, f, n)
      BY <1>1
    <3>2. ~(n > Len(value))
      BY <1>2, <1>3
    <3> QED
      BY <3>1, <3>2, Zenon DEF ArrayStep
  <2>3. PICK a : a = NumberBytes(value[n]) /\ a \in Seq(Nat) /\ Len(a) = 5
    <3>1. value[n] \in Int
      BY <1>3
    <3> QED
      BY <3>1, NumberLength
  <2>4. PICK b : b = f[n + 1] /\ b \in Seq(Nat) /\ Len(b) = 5 * (N - n)
    BY <2>1
  <2>5. /\ f[n] = a \o b /\ f[n] \in Seq(Nat) /\ Len(f[n]) = 5 + 5 * (N - n)
        /\ \A j \in 1..5 : f[n][j] = a[j]
        /\ \A j \in 6..(5 + 5 * (N - n)) : f[n][j] = b[j - 5]
    <3>1. PICK d \in Nat : d = 5 * (N - n) /\ d = Len(b)
      BY <1>2, <1>3, <2>4
    <3>2. /\ a \o b \in Seq(Nat) /\ Len(a \o b) = Len(a) + Len(b)
          /\ \A j \in 1..Len(a) : (a \o b)[j] = a[j]
          /\ \A j \in 1..Len(b) : (a \o b)[Len(a) + j] = b[j]
      BY <2>3, <2>4, Joined, Zenon
    <3>3. f[n] = a \o b
      BY <2>2, <2>3, <2>4
    <3>4. ASSUME NEW j \in 6..(5 + d) PROVE (a \o b)[j] = b[j - 5]
      <4>1. j - 5 \in 1..Len(b) /\ Len(a) + (j - 5) = j
        BY <2>3, <3>1
      <4> QED
        BY <3>2, <4>1
    <3> QED
      BY <2>3, <3>1, <3>2, <3>3, <3>4
  <2>6. ASSUME NEW k \in n..N, NEW j \in 1..5 PROVE f[n][5 * (k - n) + j] = NumberBytes(value[k])[j]
    <3>1. CASE k = n
      <4>1. 5 * (k - n) + j = j
        BY <3>1
      <4>2. f[n][j] = a[j] /\ NumberBytes(value[k]) = a
        BY <2>3, <2>5, <3>1
      <4> QED
        BY <4>1, <4>2, Zenon
    <3>2. CASE k # n
      <4>1. k \in (n + 1)..N
        BY <3>2
      <4>2. b[5 * (k - (n + 1)) + j] = NumberBytes(value[k])[j]
        BY <2>1, <2>4, <4>1
      <4>3. PICK d : d = 5 * (k - n) + j /\ d \in 6..(5 + 5 * (N - n)) /\ d - 5 = 5 * (k - (n + 1)) + j
        BY <4>1
      <4>4. f[n][d] = b[d - 5]
        BY <2>5, <4>3
      <4> QED
        BY <4>2, <4>3, <4>4, Zenon
    <3> QED
      BY <3>1, <3>2
  <2>7. 5 + 5 * (N - n) = 5 * (N + 1 - n)
    BY <1>2
  <2> QED
    BY <2>5, <2>6, <2>7
<1>4. 1 \in S
  <2> HIDE DEF S
  <2> DEFINE T == {n \in Nat : n > N + 1 \/ n \in S}
  <2>1. N + 1 \in T /\ N + 1 \in Nat /\ \A n \in Nat : n + 1 \in T => n \in T
    <3>1. ASSUME NEW n \in Nat, n + 1 \in T PROVE n \in T
      <4>1. CASE n <= N
        <5>1. n + 1 \in S
          BY <1>2, <3>1, <4>1
        <5> QED
          BY <1>3, <4>1, <5>1
      <4>2. CASE n > N
        BY <1>2, <4>2
      <4> QED
        BY <1>2, <4>1, <4>2
    <3>2. N + 1 \in Nat /\ N + 1 \in T
      BY <1>2
    <3> HIDE DEF T
    <3> QED
      BY <3>1, <3>2
  <2> HIDE DEF T
  <2>2. 1 \in T
    <3>1. \A n \in 0..(N + 1) : n \in T
      BY <2>1, Downwards, Zenon
    <3> QED
      BY <1>2, <3>1
  <2> QED
    BY <1>2, <2>2 DEF T
<1>5. Good(1)
  BY <1>4
<1> HIDE DEF Good
<1>6. ArrayBytes(value) \in Seq(Nat) /\ Len(ArrayBytes(value)) = 5 * N
  BY <1>1, <1>2, <1>5 DEF Good
<1> QED
  BY <1>1, <1>5, <1>6 DEF Good

-----------------------------------------------------------------------------
(* What is written of a property *)

\* The five types, with what they are not: the cases of a CASE.
IsBoolean(f) == f.ann = "boolean" /\ f.ann # "number" /\ f.ann # "string" /\ f.ann # "array"
IsNumber(f) == f.ann = "number" /\ f.ann # "boolean" /\ f.ann # "string" /\ f.ann # "array"
IsString(f) == f.ann = "string" /\ f.ann # "boolean" /\ f.ann # "number" /\ f.ann # "array"
IsArray(f) == f.ann = "array" /\ f.ann # "boolean" /\ f.ann # "number" /\ f.ann # "string"
IsOther(f) == f.ann # "boolean" /\ f.ann # "number" /\ f.ann # "string" /\ f.ann # "array"

LEMMA FieldTypes ==
  ASSUME NEW f \in Fields
  PROVE  /\ f.key \in Seq(Units) /\ Len(f.key) \in Nat /\ f.computed \in BOOLEAN /\ f.min \in Limits /\ f.max \in Limits
         /\ \/ IsBoolean(f) \/ IsNumber(f) \/ IsString(f) \/ IsArray(f) \/ IsOther(f)
<1>1. /\ f.key \in Seq(Units) /\ f.computed \in BOOLEAN /\ f.min \in Limits /\ f.max \in Limits
      /\ f.ann \in Annotated
  BY DEF Fields
<1>2. Len(f.key) \in Nat
  BY <1>1
<1> QED
  BY <1>1, <1>2 DEF Annotated, IsBoolean, IsNumber, IsString, IsArray, IsOther

LEMMA KeyLength ==
  ASSUME NEW f \in Fields
  PROVE  KeyBytes(f) \in Seq(Nat) /\ Len(KeyBytes(f)) = 1 + Len(f.key)
<1>1. f.key \in Seq(Units) /\ Len(f.key) \in Nat
  BY FieldTypes
<1>2. PICK n \in Nat : n = Len(f.key) /\ \A k \in 1..n : f.key[k] \in Nat
  BY <1>1 DEF Units
<1> DEFINE a == [k \in 1..n |-> f.key[k] % 256]
<1>3. a \in Seq(Nat) /\ Len(a) = n
  <2>1. \A k \in 1..n : f.key[k] % 256 \in Nat
    BY <1>2
  <2> QED
    BY <2>1
<1>4. Tag(3, n) % 256 \in Nat
  BY DEF Tag
<1>5. KeyBytes(f) = <<Tag(3, n) % 256>> \o a
  BY <1>2, Zenon DEF KeyBytes, KeyHead
<1> HIDE DEF a
<1> QED
  BY <1>2, <1>3, <1>4, <1>5

\* The bytes of a value after its key, by the type of the property.
ValueBytes(f, value) ==
    CASE f.ann = "boolean" -> <<Tag(7, IF value = <<0>> THEN 20 ELSE 21)>>
      [] f.ann = "number" -> NumberBytes(value[1])
      [] f.ann = "string" -> CountHead(3, Utf8ByteLength(value)) \o WriteString(value)
      [] f.ann = "array" -> CountHead(4, Len(value)) \o ArrayBytes(value)
      [] OTHER -> <<>>

ValueSize(f, value) ==
    CASE f.ann = "boolean" -> 1
      [] f.ann = "number" -> 5
      [] f.ann = "string" -> HeadSize(Utf8ByteLength(value)) + Utf8ByteLength(value)
      [] f.ann = "array" -> HeadSize(Len(value)) + 5 * Len(value)
      [] OTHER -> 0

LEMMA BooleanValue ==
  ASSUME NEW f, NEW value, IsBoolean(f)
  PROVE  /\ ValueBytes(f, value) = <<Tag(7, IF value = <<0>> THEN 20 ELSE 21)>>
         /\ ValueSize(f, value) = 1
         /\ IsValue(f, value) => value \in {<<0>>, <<1>>}
<1>1. ValueBytes(f, value) = <<Tag(7, IF value = <<0>> THEN 20 ELSE 21)>>
  BY Zenon DEF ValueBytes, IsBoolean
<1>2. ValueSize(f, value) = 1
  BY Zenon DEF ValueSize, IsBoolean
<1>3. IsValue(f, value) => value \in {<<0>>, <<1>>}
  BY DEF IsValue, IsBoolean
<1> QED
  BY <1>1, <1>2, <1>3

LEMMA NumberValue ==
  ASSUME NEW f, NEW value, IsNumber(f)
  PROVE  /\ ValueBytes(f, value) = NumberBytes(value[1])
         /\ ValueSize(f, value) = 5
         /\ IsValue(f, value) => value \in [1..1 -> Int]
<1>1. ValueBytes(f, value) = NumberBytes(value[1])
  BY Zenon DEF ValueBytes, IsNumber
<1>2. ValueSize(f, value) = 5
  BY Zenon DEF ValueSize, IsNumber
<1>3. IsValue(f, value) => value \in [1..1 -> Int]
  BY DEF IsValue, IsNumber
<1> QED
  BY <1>1, <1>2, <1>3

LEMMA StringValue ==
  ASSUME NEW f, NEW value, IsString(f)
  PROVE  /\ ValueBytes(f, value) = CountHead(3, Utf8ByteLength(value)) \o WriteString(value)
         /\ ValueSize(f, value) = HeadSize(Utf8ByteLength(value)) + Utf8ByteLength(value)
         /\ IsValue(f, value) => value \in Seq(Units) /\ Utf8ByteLength(value) < Word
<1>1. ValueBytes(f, value) = CountHead(3, Utf8ByteLength(value)) \o WriteString(value)
  BY Zenon DEF ValueBytes, IsString
<1>2. ValueSize(f, value) = HeadSize(Utf8ByteLength(value)) + Utf8ByteLength(value)
  BY Zenon DEF ValueSize, IsString
<1>3. IsValue(f, value) => value \in Seq(Units) /\ Utf8ByteLength(value) < Word
  BY DEF IsValue, IsString, Units
<1> QED
  BY <1>1, <1>2, <1>3

LEMMA ArrayValue ==
  ASSUME NEW f, NEW value, IsArray(f)
  PROVE  /\ ValueBytes(f, value) = CountHead(4, Len(value)) \o ArrayBytes(value)
         /\ ValueSize(f, value) = HeadSize(Len(value)) + 5 * Len(value)
         /\ IsValue(f, value) => value \in Seq(Int) /\ Len(value) < Word
<1>1. ValueBytes(f, value) = CountHead(4, Len(value)) \o ArrayBytes(value)
  BY Zenon DEF ValueBytes, IsArray
<1>2. ValueSize(f, value) = HeadSize(Len(value)) + 5 * Len(value)
  BY Zenon DEF ValueSize, IsArray
<1>3. IsValue(f, value) => value \in Seq(Int) /\ Len(value) < Word
  BY DEF IsValue, IsArray
<1> QED
  BY <1>1, <1>2, <1>3

LEMMA OtherValue ==
  ASSUME NEW f, NEW value, IsOther(f)
  PROVE  ValueBytes(f, value) = <<>> /\ ValueSize(f, value) = 0
<1>1. ValueBytes(f, value) = <<>>
  BY Zenon DEF ValueBytes, IsOther
<1>2. ValueSize(f, value) = 0
  BY Zenon DEF ValueSize, IsOther
<1> QED
  BY <1>1, <1>2

LEMMA ValueLength ==
  ASSUME NEW f \in Fields, NEW value, IsValue(f, value)
  PROVE  /\ ValueBytes(f, value) \in Seq(Nat) /\ Len(ValueBytes(f, value)) = ValueSize(f, value)
         /\ ValueSize(f, value) \in Nat
<1>1. CASE IsBoolean(f)
  <2>1. PICK t : /\ t = Tag(7, IF value = <<0>> THEN 20 ELSE 21) /\ t \in Nat
                 /\ ValueBytes(f, value) = <<t>> /\ ValueSize(f, value) = 1
    BY <1>1, BooleanValue DEF Tag
  <2> QED
    BY <2>1
<1>2. CASE IsNumber(f)
  <2>1. PICK n \in Int : ValueBytes(f, value) = NumberBytes(n) /\ ValueSize(f, value) = 5
    BY <1>2, NumberValue
  <2> QED
    BY <2>1, NumberLength
<1>3. CASE IsString(f)
  <2>1. PICK n, w : /\ n = Utf8ByteLength(value) /\ w = WriteString(value)
                    /\ n \in Nat /\ w \in Seq(Nat) /\ Len(w) = n
    <3>1. value \in Seq(Units)
      BY <1>3, StringValue
    <3> QED
      BY <3>1, WrittenLength
  <2>2. PICK h : h = CountHead(3, n) /\ h \in Seq(Nat) /\ HeadSize(n) \in Nat /\ Len(h) = HeadSize(n)
    BY <2>1, HeadLength
  <2>3. ValueBytes(f, value) = h \o w /\ ValueSize(f, value) = HeadSize(n) + n
    BY <1>3, <2>1, <2>2, StringValue
  <2>4. h \o w \in Seq(Nat) /\ Len(h \o w) = HeadSize(n) + n /\ HeadSize(n) + n \in Nat
    <3>1. PICK d : d = HeadSize(n) /\ d \in Nat /\ Len(h) = d /\ h \in Seq(Nat)
      BY <2>2
    <3>2. w \in Seq(Nat) /\ Len(w) = n /\ n \in Nat
      BY <2>1
    <3> QED
      BY ONLY <3>1, <3>2
  <2> QED
    BY <2>3, <2>4, Zenon
<1>4. CASE IsArray(f)
  <2>1. value \in Seq(Int)
    BY <1>4, ArrayValue
  <2>2. PICK n, w : /\ n = Len(value) /\ w = ArrayBytes(value)
                    /\ n \in Nat /\ w \in Seq(Nat) /\ Len(w) = 5 * n
    <3>1. PICK n \in Nat : n = Len(value)
      BY <2>1
    <3>2. ArrayBytes(value) \in Seq(Nat) /\ Len(ArrayBytes(value)) = 5 * Len(value)
      BY <2>1, ArrayElements
    <3> QED
      BY <3>1, <3>2, Zenon
  <2>3. PICK h : h = CountHead(4, n) /\ h \in Seq(Nat) /\ HeadSize(n) \in Nat /\ Len(h) = HeadSize(n)
    BY <2>2, HeadLength
  <2>4. ValueBytes(f, value) = h \o w /\ ValueSize(f, value) = HeadSize(n) + 5 * n
    BY <1>4, <2>2, <2>3, ArrayValue
  <2>5. h \o w \in Seq(Nat) /\ Len(h \o w) = HeadSize(n) + 5 * n /\ HeadSize(n) + 5 * n \in Nat
    BY ONLY <2>2, <2>3
  <2> QED
    BY <2>4, <2>5, Zenon
<1>5. CASE IsOther(f)
  <2>1. <<>> \in Seq(Nat) /\ Len(<<>>) = 0 /\ 0 \in Nat
    OBVIOUS
  <2> QED
    BY <1>5, <2>1, OtherValue, Zenon
<1> QED
  <2>1. IsBoolean(f) \/ IsNumber(f) \/ IsString(f) \/ IsArray(f) \/ IsOther(f)
    BY FieldTypes
  <2> QED
    BY <1>1, <1>2, <1>3, <1>4, <1>5, <2>1, Zenon

\* The statements that add to _size and the statements that write agree.
LEMMA FieldLength ==
  ASSUME NEW f \in Fields, NEW value, IsValue(f, value)
  PROVE  /\ WrittenBytes(f, value) = IF f.computed THEN <<>> ELSE KeyBytes(f) \o ValueBytes(f, value)
         /\ FieldSize(f, value) = IF f.computed THEN 0 ELSE 1 + Len(f.key) + ValueSize(f, value)
         /\ WrittenBytes(f, value) \in Seq(Nat) /\ FieldSize(f, value) \in Nat
         /\ Len(WrittenBytes(f, value)) = FieldSize(f, value)
<1>1. WrittenBytes(f, value) = IF f.computed THEN <<>> ELSE KeyBytes(f) \o ValueBytes(f, value)
  BY Zenon DEF WrittenBytes, ValueBytes
<1>2. FieldSize(f, value) = IF f.computed THEN 0 ELSE 1 + Len(f.key) + ValueSize(f, value)
  BY Zenon DEF FieldSize, ValueSize
<1>3. PICK b : b = ValueBytes(f, value) /\ b \in Seq(Nat) /\ Len(b) = ValueSize(f, value) /\ Len(b) \in Nat
  BY ValueLength
<1>4. PICK x \in Nat : x = Len(f.key)
  BY FieldTypes, Zenon
<1>5. PICK a \in Seq(Nat) : a = KeyBytes(f) /\ Len(a) = 1 + x
  BY <1>4, KeyLength, Zenon
<1>6. CASE f.computed
  <2>1. WrittenBytes(f, value) = <<>> /\ FieldSize(f, value) = 0
    BY <1>1, <1>2, <1>6, Zenon
  <2>2. <<>> \in Seq(Nat) /\ 0 \in Nat /\ Len(<<>>) = 0
    OBVIOUS
  <2> QED
    BY <1>1, <1>2, <2>1, <2>2, Zenon
<1>7. CASE ~f.computed
  <2>1. a \o b \in Seq(Nat) /\ Len(a \o b) = (1 + x) + Len(b) /\ (1 + x) + Len(b) \in Nat
    BY <1>3, <1>5
  <2>2. WrittenBytes(f, value) = a \o b /\ FieldSize(f, value) = (1 + x) + Len(b)
    BY <1>1, <1>2, <1>3, <1>4, <1>5, <1>7, Zenon
  <2> QED
    BY <1>1, <1>2, <2>1, <2>2, Zenon
<1> QED
  BY <1>6, <1>7

-----------------------------------------------------------------------------
(* The sizes of the first properties of a class, added up *)

IsSums(o, F) ==
    /\ F \in [0..Len(o.class) -> Nat]
    /\ F[0] = 0
    /\ \A k \in 0..(Len(o.class) - 1) : F[k + 1] = F[k] + FieldSize(o.class[k + 1], o.values[k + 1])

Sums(o) == CHOOSE F : IsSums(o, F)

LEMMA ObjectTypes ==
  ASSUME NEW o \in Objects
  PROVE  /\ o.class \in Seq(Fields) /\ Len(o.class) \in Nat
         /\ \A k \in 1..Len(o.class) : o.class[k] \in Fields /\ IsValue(o.class[k], o.values[k])
<1>1. o.class \in Seq(Fields) /\ \A k \in DOMAIN o.class : IsValue(o.class[k], o.values[k])
  BY CborAssumption
<1> QED
  BY <1>1

LEMMA SumsExist == ASSUME NEW o \in Objects PROVE IsSums(o, Sums(o))
<1> DEFINE N == Len(o.class)
           Adds(F, n) == /\ F \in [0..n -> Nat] /\ F[0] = 0
                         /\ \A k \in 0..(n - 1) : F[k + 1] = F[k] + FieldSize(o.class[k + 1], o.values[k + 1])
           S == {n \in Nat : n <= N => \E F : Adds(F, n)}
<1>1. N \in Nat /\ \A k \in 1..N : FieldSize(o.class[k], o.values[k]) \in Nat
  BY ObjectTypes, FieldLength
<1>2. 0 \in S
  <2>1. PICK z \in Nat : z = 0
    OBVIOUS
  <2> DEFINE F == [k \in 0..z |-> 0]
  <2>2. F \in [0..z -> Nat]
    OBVIOUS
  <2>3. F[0] = 0
    BY <2>1
  <2>4. \A k : k \notin 0..(z - 1)
    BY <2>1
  <2> HIDE DEF F
  <2>5. Adds(F, z)
    BY <2>2, <2>3, <2>4
  <2> HIDE DEF Adds
  <2> QED
    BY <2>1, <2>5
<1>3. ASSUME NEW n \in Nat, n \in S PROVE n + 1 \in S
  <2> HIDE DEF Adds
  <2> SUFFICES ASSUME n + 1 <= N PROVE \E F : Adds(F, n + 1)
    OBVIOUS
  <2>1. PICK F : Adds(F, n)
    BY <1>1, <1>3
  <2> USE DEF Adds
  <2>2. PICK x : x = FieldSize(o.class[n + 1], o.values[n + 1]) /\ x \in Nat
    BY <1>1
  <2> DEFINE G == [k \in 0..(n + 1) |-> IF k = n + 1 THEN F[n] + x ELSE F[k]]
  <2>3. Adds(G, n + 1)
    <3>1. G \in [0..(n + 1) -> Nat] /\ G[0] = 0
      BY <2>1, <2>2
    <3>2. ASSUME NEW k \in 0..n PROVE G[k + 1] = G[k] + FieldSize(o.class[k + 1], o.values[k + 1])
      <4>1. CASE k = n
        BY <2>2, <4>1
      <4>2. CASE k # n
        <5>1. k \in 0..(n - 1) /\ k + 1 \in 0..n /\ G[k] = F[k] /\ G[k + 1] = F[k + 1]
          BY <4>2
        <5> QED
          BY <2>1, <5>1
      <4> QED
        BY <4>1, <4>2
    <3> HIDE DEF G
    <3>3. (n + 1) - 1 = n
      OBVIOUS
    <3> QED
      BY <3>1, <3>2, <3>3
  <2> HIDE DEF Adds, G
  <2> QED
    BY <2>3
<1> HIDE DEF S
<1>4. N \in S
  BY <1>1, <1>2, <1>3, Upwards
<1>5. \E F : IsSums(o, F)
  <2>1. \A F : Adds(F, N) => IsSums(o, F)
    BY DEF IsSums
  <2> HIDE DEF Adds
  <2>2. \E F : Adds(F, N)
    BY <1>1, <1>4 DEF S
  <2> QED
    BY <2>1, <2>2
<1> QED
  BY <1>5 DEF Sums

\* The sums grow.
LEMMA SumsGrow ==
  ASSUME NEW o \in Objects, NEW k \in 0..Len(o.class)
  PROVE  Sums(o)[k] \in Nat /\ Sums(o)[k] <= Sums(o)[Len(o.class)]
<1> DEFINE N == Len(o.class)
           F == Sums(o)
           S == {n \in Nat : n <= N => F[n] <= F[N]}
<1>1. N \in Nat /\ \A j \in 1..N : FieldSize(o.class[j], o.values[j]) \in Nat
  BY ObjectTypes, FieldLength
<1>2. /\ F \in [0..N -> Nat]
      /\ \A j \in 0..(N - 1) : F[j + 1] = F[j] + FieldSize(o.class[j + 1], o.values[j + 1])
  BY SumsExist DEF IsSums
<1> HIDE DEF F, N
<1>3. N \in S
  BY <1>1, <1>2
<1>4. ASSUME NEW n \in Nat, n + 1 \in S PROVE n \in S
  <2> SUFFICES ASSUME n <= N PROVE F[n] <= F[N]
    OBVIOUS
  <2>1. CASE n = N
    BY <1>1, <1>2, <2>1
  <2>2. CASE n # N
    <3>1. F[n + 1] <= F[N] /\ n \in 0..(N - 1) /\ n + 1 \in 1..N /\ n + 1 \in 0..N
      BY <1>1, <1>4, <2>2
    <3>2. PICK x \in Nat : F[n + 1] = F[n] + x
      BY <1>1, <1>2, <3>1
    <3>3. F[n] \in Nat /\ F[N] \in Nat
      BY <1>1, <1>2, <3>1
    <3> QED
      BY <3>1, <3>2, <3>3
  <2> QED
    BY <2>1, <2>2
<1> HIDE DEF S
<1>5. k \in 0..N
  BY DEF N
<1>6. k \in S
  BY <1>1, <1>3, <1>4, <1>5, Downwards
<1>7. F[k] \in Nat /\ F[k] <= F[N]
  BY <1>1, <1>2, <1>5, <1>6 DEF S
<1> QED
  BY <1>7 DEF F, N

-----------------------------------------------------------------------------
(* The buffer is filled exactly *)

HeadLen(o) == Len(MapHead(o.class))
Whole(o) == HeadLen(o) + Sums(o)[Len(o.class)]

CborInv ==
    /\ object \in Objects
    /\ field \in 0..Len(Class)
    /\ phase = "size" => _size = Sums(object)[field]
    /\ phase = "write" => _size = Whole(object) /\ _offset = HeadLen(object) + Sums(object)[field]
    /\ phase = "wire" => _offset = _size

LEMMA HeadLenType == ASSUME NEW o \in Objects PROVE HeadLen(o) \in Nat
<1>1. PICK n \in Nat : n = Len(o.class)
  BY ObjectTypes
<1>2. Len(CountHead(5, n)) \in Nat
  BY HeadLength
<1> QED
  BY <1>1, <1>2 DEF HeadLen, MapHead

\* One more property.
LEMMA NextSum ==
  ASSUME NEW o \in Objects, NEW k \in 0..(Len(o.class) - 1)
  PROVE  /\ Sums(o)[k] \in Nat /\ Sums(o)[k + 1] \in Nat /\ k + 1 \in 1..Len(o.class)
         /\ Sums(o)[k + 1] = Sums(o)[k] + FieldSize(o.class[k + 1], o.values[k + 1])
         /\ Len(WrittenBytes(o.class[k + 1], o.values[k + 1])) = FieldSize(o.class[k + 1], o.values[k + 1])
<1>1. Len(o.class) \in Nat
  BY ObjectTypes
<1>2. k + 1 \in 1..Len(o.class) /\ k \in 0..Len(o.class) /\ k + 1 \in 0..Len(o.class)
  BY <1>1
<1>3. Len(WrittenBytes(o.class[k + 1], o.values[k + 1])) = FieldSize(o.class[k + 1], o.values[k + 1])
  BY <1>2, ObjectTypes, FieldLength
<1>4. Sums(o)[k + 1] = Sums(o)[k] + FieldSize(o.class[k + 1], o.values[k + 1])
  BY SumsExist DEF IsSums
<1> QED
  BY <1>2, <1>3, <1>4, SumsGrow

LEMMA CborInvHolds == CborSpec => []CborInv
<1>1. CborInit => CborInv
  <2> SUFFICES ASSUME CborInit PROVE CborInv
    OBVIOUS
  <2>1. object \in Objects /\ phase = "size" /\ field = 0 /\ _size = 0
    BY DEF CborInit
  <2>2. Sums(object)[0] = 0
    BY <2>1, SumsExist DEF IsSums
  <2>3. 0 \in 0..Len(Class)
    BY <2>1, ObjectTypes DEF Class
  <2> QED
    BY <2>1, <2>2, <2>3 DEF CborInv
<1>2. CborInv /\ [CborNext]_cborVars => CborInv'
  <2> SUFFICES ASSUME CborInv, [CborNext]_cborVars PROVE CborInv'
    OBVIOUS
  <2>1. object \in Objects /\ field \in 0..Len(Class) /\ Len(Class) \in Nat
    BY ObjectTypes DEF CborInv, Class
  <2> DEFINE N == Len(Class)
  <2>2. CASE SizeField
    <3>1. /\ phase = "size" /\ phase' = "size" /\ field < N /\ field' = field + 1 /\ object' = object
          /\ _size' = _size + FieldSize(object.class[field + 1], object.values[field + 1])
      BY <2>2 DEF SizeField, Class, Field, Value
    <3>2. field \in 0..(N - 1) /\ field' \in 0..N
      BY <2>1, <3>1
    <3>3. _size' = Sums(object)[field']
      BY <2>1, <3>1, <3>2, NextSum DEF CborInv, Class
    <3> QED
      BY <2>1, <3>1, <3>2, <3>3 DEF CborInv, Class
  <2>3. CASE Allocate
    <3>1. /\ phase = "size" /\ phase' = "write" /\ field = N /\ field' = 0 /\ object' = object
          /\ _size' = _size + HeadLen(object) /\ _offset' = HeadLen(object)
      BY <2>3 DEF Allocate, Class, HeadLen
    <3>2. _size = Sums(object)[N] /\ Sums(object)[N] \in Nat /\ Sums(object)[0] = 0
      BY <2>1, <3>1, SumsGrow, SumsExist DEF CborInv, Class, IsSums
    <3>3. HeadLen(object) \in Nat
      BY <2>1, HeadLenType
    <3>4. _size' = Whole(object) /\ _offset' = HeadLen(object) + Sums(object)[0] /\ 0 \in 0..N
      BY <2>1, <3>1, <3>2, <3>3 DEF Whole, Class
    <3> QED
      BY <2>1, <3>1, <3>4 DEF CborInv, Class
  <2>4. CASE WriteField
    <3>1. /\ phase = "write" /\ phase' = "write" /\ field < N /\ field' = field + 1 /\ object' = object
          /\ _offset' = _offset + Len(WrittenBytes(object.class[field + 1], object.values[field + 1]))
          /\ _size' = _size
      BY <2>4 DEF WriteField, Class, Field, Value
    <3>2. field \in 0..(N - 1) /\ field' \in 0..N
      BY <2>1, <3>1
    <3>3. _offset = HeadLen(object) + Sums(object)[field] /\ _size = Whole(object)
      BY <3>1 DEF CborInv
    <3>4. _offset' = HeadLen(object) + Sums(object)[field']
      <4>1. /\ Sums(object)[field] \in Nat /\ Sums(object)[field + 1] \in Nat
            /\ Sums(object)[field + 1] = Sums(object)[field] + FieldSize(object.class[field + 1], object.values[field + 1])
            /\ Len(WrittenBytes(object.class[field + 1], object.values[field + 1]))
                  = FieldSize(object.class[field + 1], object.values[field + 1])
        BY <2>1, <3>2, NextSum DEF Class
      <4>2. PICK x : x = FieldSize(object.class[field + 1], object.values[field + 1]) /\ x \in Nat
        BY <2>1, <3>2, ObjectTypes, FieldLength DEF Class
      <4>3. HeadLen(object) \in Nat
        BY <2>1, HeadLenType
      <4> QED
        BY <3>1, <3>3, <4>1, <4>2, <4>3
    <3> QED
      BY <2>1, <3>1, <3>2, <3>3, <3>4 DEF CborInv, Class
  <2>5. CASE RefuseField
    BY <2>1, <2>5 DEF RefuseField, CborInv, Class
  <2>6. CASE ReturnBuffer
    <3>1. /\ phase = "write" /\ phase' = "wire" /\ field = N /\ field' = 0 /\ object' = object
          /\ _size' = _size /\ _offset' = _offset
      BY <2>6 DEF ReturnBuffer
    <3>2. _offset = _size /\ 0 \in 0..N
      BY <2>1, <3>1 DEF CborInv, Whole, Class
    <3> QED
      BY <2>1, <3>1, <3>2 DEF CborInv, Class
  <2>7. CASE FromCBOR
    BY <2>1, <2>7 DEF FromCBOR, CborInv, Class
  <2>8. CASE ReadField
    <3>1. phase = "read" /\ phase' = "read" /\ object' = object /\ field < N /\ field' = field + 1
      BY <2>8 DEF ReadField
    <3>2. field' \in 0..N
      BY <2>1, <3>1
    <3> QED
      BY <2>1, <3>1, <3>2 DEF CborInv, Class
  <2>9. CASE FailField
    BY <2>1, <2>9 DEF FailField, CborInv, Class
  <2>10. CASE ReturnObject
    BY <2>1, <2>10 DEF ReturnObject, CborInv, Class
  <2>11. CASE CutBuffer
    BY <2>1, <2>11 DEF CutBuffer, CborInv, Class
  <2>12. CASE UNCHANGED cborVars
    BY <2>1, <2>12 DEF cborVars, CborInv, Class
  <2> QED
    BY <2>2, <2>3, <2>4, <2>5, <2>6, <2>7, <2>8, <2>9, <2>10, <2>11, <2>12 DEF CborNext
<1> QED
  BY <1>1, <1>2, PTL DEF CborSpec

\* _size, computed by statements of its own before anything is written, is
\* exactly what the statements of toCBOR write, for every class and object.
THEOREM BufferIsFilledExactly == CborSpec => []SizeIsExact
<1>1. CborInv => SizeIsExact
  <2> SUFFICES ASSUME CborInv PROVE SizeIsExact
    OBVIOUS
  <2>1. object \in Objects /\ field \in 0..Len(Class)
    BY DEF CborInv
  <2>2. Sums(object)[field] \in Nat /\ Sums(object)[field] <= Sums(object)[Len(Class)] /\ HeadLen(object) \in Nat
    BY <2>1, SumsGrow, HeadLenType DEF Class
  <2>3. Sums(object)[Len(Class)] \in Nat
    BY <2>1, SumsExist, ObjectTypes DEF IsSums, Class
  <2> QED
    BY <2>2, <2>3 DEF CborInv, SizeIsExact, Whole, Class
<1> QED
  BY <1>1, CborInvHolds, PTL

LEMMA Division ==
  ASSUME NEW n \in Nat, NEW d \in Nat, d > 0
  PROVE  n \div d \in Nat /\ n % d \in Nat /\ n % d < d /\ n = (n \div d) * d + (n % d)
<1>1. n % d \in Nat /\ n % d < d
  OBVIOUS
<1>2. n = d * (n \div d) + (n % d)
  OBVIOUS
<1>3. n \div d \in Int
  OBVIOUS
<1>4. d * (n \div d) = (n \div d) * d
  BY <1>3
<1>5. n \div d \in Nat
  OBVIOUS
<1> QED
  BY <1>1, <1>2, <1>4, <1>5

LEMMA DivisionUnique ==
  ASSUME NEW n \in Nat, NEW d \in Nat, d > 0, NEW q \in Nat, NEW r \in Nat, r < d, n = q * d + r
  PROVE  n \div d = q /\ n % d = r
<1> DEFINE a == n \div d
           b == n % d
<1>1. a \in Nat /\ b \in Nat /\ b < d /\ n = a * d + b
  BY Division
<1> HIDE DEF a, b
<1>2. ASSUME a > q PROVE FALSE
  <2>1. (a - q) * d >= d
    BY <1>1, <1>2
  <2>2. (a - q) * d = a * d - q * d
    BY <1>1
  <2> QED
    BY <1>1, <2>1, <2>2
<1>3. ASSUME a < q PROVE FALSE
  <2>1. (q - a) * d >= d
    BY <1>1, <1>3
  <2>2. (q - a) * d = q * d - a * d
    BY <1>1
  <2> QED
    BY <1>1, <2>1, <2>2
<1>4. a = q
  BY <1>1, <1>2, <1>3
<1> QED
  BY <1>1, <1>4 DEF a, b

LEMMA DivideTwice ==
  ASSUME NEW n \in Nat, NEW a \in Nat, a > 0, NEW b \in Nat, b > 0
  PROVE  n \div (a * b) = (n \div a) \div b
<1>1. PICK x \in Nat, k \in Nat : x = n \div a /\ k < a /\ n = x * a + k
  BY Division
<1>2. PICK y \in Nat, m \in Nat : y = x \div b /\ m < b /\ x = y * b + m
  BY Division
<1>3. PICK r \in Nat : r = m * a + k /\ r < a * b
  <2>1. m * a \in Nat /\ m * a <= (b - 1) * a
    BY <1>2
  <2>2. (b - 1) * a = a * b - a
    OBVIOUS
  <2> QED
    BY <1>1, <2>1, <2>2
<1>4. n = y * (a * b) + r
  <2>1. (y * b + m) * a = (y * b) * a + m * a
    OBVIOUS
  <2>2. (y * b) * a = y * (a * b)
    OBVIOUS
  <2>3. (y * b) * a \in Nat /\ m * a \in Nat
    OBVIOUS
  <2> QED
    BY <1>1, <1>2, <1>3, <2>1, <2>2, <2>3
<1>5. a * b \in Nat /\ a * b > 0
  OBVIOUS
<1> QED
  BY <1>1, <1>2, <1>3, <1>4, <1>5, DivisionUnique

(* Reading what was written: digits *)

LEMMA DigitSteps ==
  ASSUME NEW p, NEW w \in Nat
  PROVE  \E v : /\ DigitsAt(p, w) = v[w]
                /\ v[0] = 0
                /\ \A d \in 1..w : v[d] = v[d - 1] * Radix + DigitAt(p + d - 1)
<1> DEFINE Step(f, d) == IF d = 0 THEN 0 ELSE f[d - 1] * Radix + DigitAt(p + d - 1)
           To(n) == {d \in 0..w : d <= n}
           S == {n \in Nat : \E f : f = [d \in To(n) |-> Step(f, d)]}
<1>1. 0 \in S
  <2> DEFINE f == [d \in To(0) |-> 0]
  <2>1. f = [d \in To(0) |-> Step(f, d)]
    OBVIOUS
  <2> HIDE DEF f, Step
  <2> QED
    BY <2>1
<1>2. ASSUME NEW n \in Nat, n \in S PROVE n + 1 \in S
  <2>1. PICK f : f = [d \in To(n) |-> Step(f, d)]
    BY <1>2
  <2> DEFINE g == [d \in To(n + 1) |-> IF d = n + 1 THEN Step(f, d) ELSE f[d]]
  <2>2. \A d \in To(n + 1) : g[d] = Step(g, d)
    <3> TAKE d \in To(n + 1)
    <3>1. d # 0 => g[d - 1] = f[d - 1]
      OBVIOUS
    <3>2. Step(g, d) = Step(f, d)
      <4> HIDE DEF g
      <4> QED
        BY <3>1
    <3>3. CASE d = n + 1
      BY <3>2, <3>3
    <3>4. CASE d # n + 1
      <4>1. d \in To(n) /\ g[d] = f[d]
        BY <3>4
      <4>2. f[d] = Step(f, d)
        BY <2>1, <4>1
      <4> QED
        BY <3>2, <4>1, <4>2
    <3> QED
      BY <3>3, <3>4
  <2>3. g = [d \in To(n + 1) |-> g[d]]
    OBVIOUS
  <2> HIDE DEF g
  <2>4. g = [d \in To(n + 1) |-> Step(g, d)]
    BY <2>2, <2>3
  <2> HIDE DEF Step
  <2> QED
    BY <2>4
<1>3. w \in S
  <2> HIDE DEF S
  <2>1. \A n \in Nat : n \in S
    BY <1>1, <1>2, Upwards, Zenon
  <2> QED
    BY <2>1
<1>4. PICK f : f = [d \in 0..w |-> Step(f, d)]
  <2>1. To(w) = 0..w
    OBVIOUS
  <2> HIDE DEF Step
  <2> QED
    BY <1>3, <2>1
<1> DEFINE v == CHOOSE h : h = [d \in 0..w |-> Step(h, d)]
<1>5. v = [d \in 0..w |-> Step(v, d)]
  BY <1>4
<1>6. DigitsAt(p, w) = v[w]
  BY Zenon DEF DigitsAt
<1> HIDE DEF v
<1>7. \A d \in 0..w : v[d] = Step(v, d)
  <2> HIDE DEF Step
  <2> QED
    BY <1>5
<1>8. v[0] = 0
  BY <1>7
<1>9. ASSUME NEW d \in 1..w PROVE v[d] = v[d - 1] * Radix + DigitAt(p + d - 1)
  <2>1. d \in 0..w /\ d # 0
    OBVIOUS
  <2>2. v[d] = Step(v, d)
    BY <1>7, <2>1
  <2> QED
    BY <2>1, <2>2
<1> QED
  BY <1>6, <1>8, <1>9, Zenon

\* Digits are numbers, whatever is in the buffer.
LEMMA DigitsAreNat ==
  ASSUME buf \in Seq(Nat), NEW p \in Nat, NEW w \in Nat
  PROVE  DigitsAt(p, w) \in Nat
<1>1. PICK v : /\ DigitsAt(p, w) = v[w]
               /\ v[0] = 0
               /\ \A d \in 1..w : v[d] = v[d - 1] * Radix + DigitAt(p + d - 1)
  BY DigitSteps, Zenon
<1>2. \A k \in Nat : DigitAt(k) \in Nat
  BY DEF DigitAt, Missing, Lost
<1> DEFINE S == {d \in Nat : d <= w => v[d] \in Nat}
<1>3. 0 \in S
  BY <1>1
<1>4. ASSUME NEW d \in Nat, d \in S PROVE d + 1 \in S
  <2> SUFFICES ASSUME d + 1 <= w PROVE v[d + 1] \in Nat
    OBVIOUS
  <2>1. d + 1 \in 1..w /\ (d + 1) - 1 = d /\ p + (d + 1) - 1 \in Nat /\ v[d] \in Nat
    BY <1>4
  <2>2. v[d + 1] = v[d] * Radix + DigitAt(p + (d + 1) - 1)
    BY <1>1, <2>1
  <2>3. \A a, b, c \in Nat : a * b + c \in Nat
    OBVIOUS
  <2>4. DigitAt(p + (d + 1) - 1) \in Nat /\ Radix \in Nat
    BY <1>2, <2>1, RadixTypes, Zenon
  <2>5. v[d] * Radix + DigitAt(p + (d + 1) - 1) \in Nat
    BY <2>1, <2>3, <2>4, Zenon
  <2> QED
    BY <2>2, <2>5, Zenon
<1> HIDE DEF S
<1>5. w \in S
  <2>1. \A n \in Nat : n \in S
    BY <1>3, <1>4, Upwards, Zenon
  <2> QED
    BY <2>1
<1> QED
  BY <1>1, <1>5 DEF S

\* What BigEndian takes apart, DigitsAt puts together.
Fits(n, w) == CASE w = 1 -> n < Radix [] w = 2 -> n < Radix * Radix [] OTHER -> n < Word

LEMMA DigitsOfNumber ==
  ASSUME NEW n \in Nat
  PROVE  LET a == n \div Radix
             b == a \div Radix
             c == b \div Radix
         IN  /\ a \in Nat /\ b \in Nat /\ c \in Nat
             /\ n = a * Radix + (n % Radix) /\ a = b * Radix + (a % Radix) /\ b = c * Radix + (b % Radix)
             /\ BigEndian(n, 2)[1] = a % Radix /\ BigEndian(n, 2)[2] = n % Radix
             /\ BigEndian(n, 4)[1] = c % Radix /\ BigEndian(n, 4)[2] = b % Radix
             /\ BigEndian(n, 4)[3] = a % Radix /\ BigEndian(n, 4)[4] = n % Radix
<1> DEFINE a == n \div Radix
           b == a \div Radix
           c == b \div Radix
<1>1. a \in Nat /\ n = a * Radix + (n % Radix)
  BY RadixTypes, Division
<1>2. b \in Nat /\ a = b * Radix + (a % Radix)
  <2> HIDE DEF a
  <2> QED
    BY <1>1, RadixTypes, Division
<1>3. c \in Nat /\ b = c * Radix + (b % Radix)
  <2> HIDE DEF b
  <2> QED
    BY <1>2, RadixTypes, Division
<1>4. Radix * Radix \in Nat /\ Radix * Radix > 0
  BY RadixTypes
<1>5. n \div (Radix * Radix) = b
  BY RadixTypes, DivideTwice
<1>6. n \div (Radix * Radix * Radix) = c
  BY <1>4, <1>5, RadixTypes, DivideTwice
<1>7. n \div 1 = n
  OBVIOUS
<1>8. /\ BigEndian(n, 2)[1] = (n \div Weights[2]) % Radix /\ BigEndian(n, 2)[2] = (n \div Weights[1]) % Radix
      /\ BigEndian(n, 4)[1] = (n \div Weights[4]) % Radix /\ BigEndian(n, 4)[2] = (n \div Weights[3]) % Radix
      /\ BigEndian(n, 4)[3] = (n \div Weights[2]) % Radix /\ BigEndian(n, 4)[4] = (n \div Weights[1]) % Radix
  <2>1. \A w \in Nat : \A i \in 1..w : BigEndian(n, w)[i] = (n \div Weights[w - i + 1]) % Radix
    BY Zenon DEF BigEndian
  <2>2. BigEndian(n, 2)[1] = (n \div Weights[2 - 1 + 1]) % Radix /\ BigEndian(n, 2)[2] = (n \div Weights[2 - 2 + 1]) % Radix
    BY <2>1
  <2>3. BigEndian(n, 4)[1] = (n \div Weights[4 - 1 + 1]) % Radix /\ BigEndian(n, 4)[2] = (n \div Weights[4 - 2 + 1]) % Radix
    BY <2>1
  <2>4. BigEndian(n, 4)[3] = (n \div Weights[4 - 3 + 1]) % Radix /\ BigEndian(n, 4)[4] = (n \div Weights[4 - 4 + 1]) % Radix
    BY <2>1
  <2>5. 2 - 1 + 1 = 2 /\ 2 - 2 + 1 = 1 /\ 4 - 1 + 1 = 4 /\ 4 - 2 + 1 = 3 /\ 4 - 3 + 1 = 2 /\ 4 - 4 + 1 = 1
    OBVIOUS
  <2> QED
    BY <2>2, <2>3, <2>4, <2>5
<1>9. Weights[1] = 1 /\ Weights[2] = Radix /\ Weights[3] = Radix * Radix /\ Weights[4] = Radix * Radix * Radix
  BY DEF Weights
<1>10. n \div Weights[2] = a
  BY <1>9
<1> HIDE DEF a, b, c
<1> QED
  BY <1>1, <1>2, <1>3, <1>5, <1>6, <1>7, <1>8, <1>9, <1>10, Zenon DEF a, b, c

LEMMA DigitsBack ==
  ASSUME NEW n \in Nat, NEW w \in {1, 2, 4}, Fits(n, w), NEW p \in Nat,
         \A d \in 1..w : DigitAt(p + d - 1) = BigEndian(n, w)[d]
  PROVE  DigitsAt(p, w) = n
<1> DEFINE a == n \div Radix
           b == a \div Radix
           c == b \div Radix
<1>1. /\ a \in Nat /\ b \in Nat /\ c \in Nat
      /\ n = a * Radix + (n % Radix) /\ a = b * Radix + (a % Radix) /\ b = c * Radix + (b % Radix)
      /\ BigEndian(n, 2)[1] = a % Radix /\ BigEndian(n, 2)[2] = n % Radix
      /\ BigEndian(n, 4)[1] = c % Radix /\ BigEndian(n, 4)[2] = b % Radix
      /\ BigEndian(n, 4)[3] = a % Radix /\ BigEndian(n, 4)[4] = n % Radix
  BY DigitsOfNumber, Zenon
<1> HIDE DEF a, b, c
<1>2. PICK v : /\ DigitsAt(p, w) = v[w] /\ v[0] = 0
               /\ \A d \in 1..w : v[d] = v[d - 1] * Radix + DigitAt(p + d - 1)
  <2>1. w \in Nat
    OBVIOUS
  <2> QED
    BY <2>1, DigitSteps
<1>3. \A d \in 1..w : v[d] = v[d - 1] * Radix + BigEndian(n, w)[d]
  BY <1>2, Zenon
<1>4. Radix \in Nat /\ Radix > 1
  BY RadixTypes
<1>5. \A x \in Nat : x < Radix => x % Radix = x /\ 0 * Radix + (x % Radix) = x
  BY ONLY <1>4
\* A number below a product of radixes has a quotient below the rest of it.
<1>6. \A x, y, z, r \in Nat : x = y * Radix + r /\ x < z * Radix => y < z
  <2> TAKE x, y, z, r \in Nat
  <2> HAVE x = y * Radix + r /\ x < z * Radix
  <2>1. ASSUME NEW e \in Nat, y = z + e PROVE FALSE
    <3>1. y * Radix = z * Radix + e * Radix
      BY <1>4, <2>1
    <3>2. e * Radix \in Nat /\ z * Radix \in Nat
      BY <1>4
    <3> QED
      BY <3>1, <3>2
  <2>2. y >= z => y - z \in Nat /\ y = z + (y - z)
    OBVIOUS
  <2> QED
    BY <2>1, <2>2
<1>7. CASE w = 1
  <2>1. n < Radix
    BY <1>7 DEF Fits
  <2>2. BigEndian(n, 1)[1] = (n \div Weights[1 - 1 + 1]) % Radix
    BY DEF BigEndian
  <2>3. 1 - 1 + 1 = 1 /\ Weights[1] = 1 /\ n \div 1 = n
    BY DEF Weights
  <2>4. BigEndian(n, 1)[1] = n % Radix
    BY <2>2, <2>3
  <2>5. v[1] = v[1 - 1] * Radix + BigEndian(n, 1)[1] /\ 1 - 1 = 0
    BY <1>3, <1>7
  <2>6. v[1] = 0 * Radix + (n % Radix)
    BY <1>2, <2>4, <2>5
  <2> QED
    BY <1>2, <1>5, <1>7, <2>1, <2>6
<1>8. CASE w = 2
  <2>1. n < Radix * Radix
    BY <1>8 DEF Fits
  <2>2. n % Radix \in Nat
    BY <1>4
  <2>3. a < Radix
    BY <1>1, <1>4, <1>6, <2>1, <2>2
  <2>4. v[1] = v[1 - 1] * Radix + BigEndian(n, 2)[1] /\ 1 - 1 = 0
        /\ v[2] = v[2 - 1] * Radix + BigEndian(n, 2)[2] /\ 2 - 1 = 1
    BY <1>3, <1>8
  <2>5. v[1] = 0 * Radix + (a % Radix)
    BY <1>1, <1>2, <2>4
  <2>6. v[1] = a
    BY <1>1, <1>5, <2>3, <2>5
  <2>7. v[2] = a * Radix + (n % Radix)
    BY <1>1, <2>4, <2>6
  <2> QED
    BY <1>1, <1>2, <1>8, <2>7
<1>9. CASE w = 4
  <2>1. n < (Radix * Radix * Radix) * Radix
    BY <1>9 DEF Fits, Word
  <2>2. n % Radix \in Nat /\ a % Radix \in Nat /\ b % Radix \in Nat
    BY <1>1, <1>4
  <2>3. Radix * Radix \in Nat /\ Radix * Radix * Radix \in Nat
    BY <1>4
  <2>4. a < (Radix * Radix) * Radix
    BY <1>1, <1>6, <2>1, <2>2, <2>3, Zenon
  <2>5. b < Radix * Radix
    BY <1>1, <1>6, <2>2, <2>3, <2>4, Zenon
  <2>6. c < Radix
    BY <1>1, <1>4, <1>6, <2>2, <2>5, Zenon
  <2>7. v[1] = v[1 - 1] * Radix + BigEndian(n, 4)[1] /\ 1 - 1 = 0
        /\ v[2] = v[2 - 1] * Radix + BigEndian(n, 4)[2] /\ 2 - 1 = 1
    BY <1>3, <1>9
  <2>8. v[3] = v[3 - 1] * Radix + BigEndian(n, 4)[3] /\ 3 - 1 = 2
        /\ v[4] = v[4 - 1] * Radix + BigEndian(n, 4)[4] /\ 4 - 1 = 3
    BY <1>3, <1>9
  <2>9. v[1] = 0 * Radix + (c % Radix)
    BY <1>1, <1>2, <2>7
  <2>10. v[1] = c
    BY <1>1, <1>5, <2>6, <2>9
  <2>11. v[2] = c * Radix + (b % Radix)
    BY <1>1, <2>7, <2>10
  <2>12. v[3] = b * Radix + (a % Radix)
    BY <1>1, <2>8, <2>11
  <2>13. v[4] = a * Radix + (n % Radix)
    BY <1>1, <2>8, <2>12
  <2> QED
    BY <1>1, <1>2, <1>9, <2>13
<1> QED
  BY <1>7, <1>8, <1>9

LEMMA Multiple ==
  ASSUME NEW e \in Int, NEW d \in Nat, d > 0
  PROVE  (e * d) % d = 0
<1> DEFINE a == e * d
           q == a \div d
           r == a % d
<1>1. a \in Int /\ q \in Int /\ r \in Nat /\ r < d /\ a = d * q + r
  <2>1. a \in Int
    OBVIOUS
  <2> HIDE DEF a
  <2> QED
    BY <2>1
<1>2. a = e * d
  OBVIOUS
<1> HIDE DEF a, q, r
<1>3. (e - q) * d = r
  <2>1. (e - q) * d = e * d - q * d /\ d * q = q * d
    BY <1>1
  <2> QED
    BY <1>1, <1>2, <2>1
<1>4. e - q > 0 => (e - q) * d >= d
  BY <1>1
<1>5. e - q < 0 => (e - q) * d < 0
  BY <1>1
<1>6. e - q = 0
  BY <1>1, <1>3, <1>4, <1>5
<1>7. r = 0
  BY <1>3, <1>6
<1> QED
  BY <1>2, <1>7 DEF r

\* Of the bytes bs that belong at p, those that b still has.
Holds(b, p, bs) == \A i \in 1..Len(bs) : p + i <= Len(b) => b[p + i] = bs[i]

LEMMA HoldsParts ==
  ASSUME NEW b \in Seq(Nat), NEW p \in Nat, NEW s \in Seq(Nat), NEW t \in Seq(Nat), Holds(b, p, s \o t)
  PROVE  Holds(b, p, s) /\ Holds(b, p + Len(s), t)
<1>1. /\ Len(s) \in Nat /\ Len(t) \in Nat /\ Len(s \o t) = Len(s) + Len(t)
      /\ \A j \in 1..Len(s) : (s \o t)[j] = s[j]
      /\ \A j \in 1..Len(t) : (s \o t)[Len(s) + j] = t[j]
  BY Joined, Zenon
<1>2. Len(b) \in Nat
  OBVIOUS
<1>3. \A i \in 1..(Len(s) + Len(t)) : p + i <= Len(b) => b[p + i] = (s \o t)[i]
  BY <1>1, Zenon DEF Holds
<1> DEFINE n == Len(s)
           m == Len(t)
           w == s \o t
<1>4. /\ n \in Nat /\ m \in Nat /\ \A j \in 1..n : w[j] = s[j]
      /\ \A j \in 1..m : w[n + j] = t[j]
      /\ \A i \in 1..(n + m) : p + i <= Len(b) => b[p + i] = w[i]
  BY <1>1, <1>3, Zenon
<1> HIDE DEF n, m, w
<1>5. \A i \in 1..n : p + i <= Len(b) => b[p + i] = s[i]
  BY <1>4
<1>6. \A i \in 1..m : (p + n) + i <= Len(b) => b[(p + n) + i] = t[i]
  <2> TAKE i \in 1..m
  <2>1. n + i \in 1..(n + m) /\ p + (n + i) = (p + n) + i
    BY <1>4
  <2> QED
    BY <1>4, <2>1
<1> QED
  BY <1>5, <1>6, Zenon DEF Holds, n, m

\* A byte that is there, and one that is not.
LEMMA HeldByte ==
  ASSUME buf \in Seq(Nat), NEW p \in Nat, NEW s \in Seq(Nat), Holds(buf, p, s),
         NEW i \in 1..Len(s), p + i <= Len(buf)
  PROVE  /\ ~Missing(p + i - 1) /\ DigitAt(p + i - 1) = s[i] /\ ByteAt(p + i - 1) = s[i]
         /\ buf[p + i] = s[i]
<1>1. p + i - 1 \in Nat /\ (p + i - 1) + 1 = p + i /\ p + i - 1 < Len(buf)
  OBVIOUS
<1>2. ~Missing(p + i - 1)
  BY <1>1 DEF Missing, Lost
<1>3. buf[p + i] = s[i]
  BY DEF Holds
<1> QED
  BY <1>1, <1>2, <1>3, Zenon DEF DigitAt, ByteAt

LEMMA NoByte ==
  ASSUME buf \in Seq(Nat), NEW p \in Int, p = Lost \/ p >= Len(buf)
  PROVE  Missing(p) /\ ByteAt(p) = Undefined
  BY Zenon DEF Missing, ByteAt

\* A tag is not taken for another, nor for a missing byte.
LEMMA Tags ==
  /\ \A major \in Nat : \A info \in Nat : Tag(major, info) \in Nat /\ Tag(major, info) # Undefined
  /\ Tag(0, Inline + 2) # Tag(1, Inline + 2)
  /\ Tag(7, 20) # Tag(7, 21)
  BY RadixTypes DEF Tag, Undefined

\* The digits behind a tag.
LEMMA HeldDigits ==
  ASSUME buf \in Seq(Nat), NEW p \in Nat, NEW w \in {1, 2, 4}, NEW n \in Nat, Fits(n, w),
         Holds(buf, p, BigEndian(n, w)), p + w <= Len(buf)
  PROVE  DigitsAt(p, w) = n
<1>1. BigEndian(n, w) \in Seq(Nat) /\ Len(BigEndian(n, w)) = w
  BY DigitTypes
<1>2. ASSUME NEW d \in 1..w PROVE DigitAt(p + d - 1) = BigEndian(n, w)[d]
  <2>1. d \in 1..Len(BigEndian(n, w)) /\ p + d <= Len(buf)
    BY <1>1
  <2> QED
    BY <1>1, <2>1, HeldByte
<1> QED
  BY <1>2, DigitsBack

\* What an element keeps of a number n.
Kept(n, m) == m \in Int /\ SameNumber(n, m) /\ (n >= -Word /\ n < Word => m = n)

LEMMA KeptNumber ==
  ASSUME NEW n \in Int
  PROVE  /\ n >= 0 => n % Word \in Nat /\ n % Word < Word /\ Kept(n, n % Word)
         /\ n < 0 => /\ (-n - 1) % Word \in Nat /\ (-n - 1) % Word < Word
                     /\ Kept(n, -((-n - 1) % Word) - 1)
<1>1. PICK W \in Nat : W = Word /\ W > 0
  BY RadixTypes
<1>2. ASSUME n >= 0
      PROVE  n % W \in Nat /\ n % W < W /\ Kept(n, n % W)
  <2>1. PICK q \in Nat, r \in Nat : r = n % W /\ r < W /\ n = q * W + r
    <3>1. n \in Nat
      BY <1>2
    <3>2. n \div W \in Nat /\ n % W \in Nat /\ n % W < W /\ n = (n \div W) * W + (n % W)
      BY <1>1, <3>1, Division, Zenon
    <3> QED
      BY <3>2, Zenon
  <2>2. n - r = q * W
    <3>1. q * W \in Nat
      OBVIOUS
    <3> QED
      BY <2>1, <3>1
  <2>3. (n - r) % W = 0
    <3>1. (q * W) % W = 0
      <4>1. q \in Int
        OBVIOUS
      <4> QED
        BY <1>1, <4>1, Multiple, Zenon
    <3> QED
      BY <2>2, <3>1, Zenon
  <2>4. n < W => r = n
    <3>1. q > 0 => q * W >= W
      OBVIOUS
    <3>2. q = 0 => q * W = 0
      OBVIOUS
    <3>3. q * W \in Nat
      OBVIOUS
    <3> QED
      BY <2>1, <3>1, <3>2, <3>3
  <2>5. r \in -W..(W - 1) /\ r \in Int /\ r >= 0
    BY <2>1
  <2> QED
    BY <1>1, <1>2, <2>1, <2>3, <2>4, <2>5 DEF Kept, SameNumber
<1>3. ASSUME n < 0
      PROVE  (-n - 1) % W \in Nat /\ (-n - 1) % W < W /\ Kept(n, -((-n - 1) % W) - 1)
  <2>1. PICK k \in Nat : k = -n - 1 /\ n = -k - 1
    <3>1. -n - 1 \in Nat /\ n = -(-n - 1) - 1
      BY <1>3
    <3> QED
      BY <3>1
  <2>2. PICK q \in Nat, r \in Nat : r = k % W /\ r < W /\ k = q * W + r
    <3>1. k \div W \in Nat /\ k % W \in Nat /\ k % W < W /\ k = (k \div W) * W + (k % W)
      BY <1>1, Division, Zenon
    <3> QED
      BY <3>1, Zenon
  <2> DEFINE m == -r - 1
  <2>3. n - m = (-q) * W
    <3>1. q * W \in Nat /\ (-q) * W = -(q * W)
      OBVIOUS
    <3> QED
      BY <2>1, <2>2, <3>1
  <2>4. (n - m) % W = 0
    <3>1. ((-q) * W) % W = 0
      <4>1. -q \in Int
        OBVIOUS
      <4> QED
        BY <1>1, <4>1, Multiple, Zenon
    <3> QED
      BY <2>3, <3>1, Zenon
  <2>5. n >= -W => m = n
    <3>1. q > 0 => q * W >= W
      OBVIOUS
    <3>2. q = 0 => q * W = 0
      OBVIOUS
    <3>3. q * W \in Nat
      OBVIOUS
    <3> QED
      BY <2>1, <2>2, <3>1, <3>2, <3>3
  <2>6. m \in -W..(W - 1) /\ m \in Int /\ ~(m >= 0)
    BY <2>2
  <2>7. Kept(n, m)
    <3> HIDE DEF m
    <3> QED
      BY <1>1, <1>3, <2>4, <2>5, <2>6 DEF Kept, SameNumber
  <2> QED
    BY <2>1, <2>2, <2>7
<1> QED
  BY <1>1, <1>2, <1>3

\* A number as NumberAt reads it: the number that was written, five bytes
\* further; without its last bytes it is another number, but it still ends
\* where it should have ended.
LEMMA ReadsNumber ==
  ASSUME buf \in Seq(Nat), NEW p \in Nat, NEW n \in Int, Holds(buf, p, NumberBytes(n)), p + 5 <= Len(buf)
  PROVE  \E m : NumberAt(p) = Assigns(<<m>>, p + 5) /\ Kept(n, m)
<1>1. /\ n >= 0 => n % Word \in Nat /\ n % Word < Word /\ Kept(n, n % Word)
      /\ n < 0 => /\ (-n - 1) % Word \in Nat /\ (-n - 1) % Word < Word
                  /\ Kept(n, -((-n - 1) % Word) - 1)
  BY KeptNumber
<1>2. ASSUME NEW t \in Nat, NEW k \in Nat, k < Word, NumberBytes(n) = <<t>> \o BigEndian(k, 4)
      PROVE  ByteAt(p) = t /\ DigitsAt(p + 1, 4) = k
  <2>1. BigEndian(k, 4) \in Seq(Nat) /\ Len(BigEndian(k, 4)) = 4 /\ <<t>> \in Seq(Nat) /\ Len(<<t>>) = 1 /\ <<t>>[1] = t
    <3>1. 4 \in {1, 2, 4}
      OBVIOUS
    <3>2. BigEndian(k, 4) \in Seq(Nat) /\ Len(BigEndian(k, 4)) = 4
      BY <3>1, DigitTypes, Zenon
    <3>3. <<t>> \in Seq(Nat) /\ Len(<<t>>) = 1 /\ <<t>>[1] = t
      OBVIOUS
    <3> QED
      BY <3>2, <3>3, Zenon
  <2>2. Holds(buf, p, <<t>>) /\ Holds(buf, p + Len(<<t>>), BigEndian(k, 4))
    <3>1. Holds(buf, p, <<t>> \o BigEndian(k, 4))
      BY <1>2, Zenon
    <3> QED
      BY <2>1, <3>1, HoldsParts, ZenonT(30)
  <2>3. ByteAt(p) = t
    <3>1. 1 \in 1..Len(<<t>>) /\ p + 1 <= Len(buf) /\ p + 1 - 1 = p
      BY <2>1
    <3>2. ByteAt(p + 1 - 1) = <<t>>[1]
      BY <2>1, <2>2, <3>1, HeldByte, Zenon
    <3> QED
      BY <2>1, <3>1, <3>2
  <2>4. Holds(buf, p + 1, BigEndian(k, 4))
    BY <2>1, <2>2, Zenon
  <2>5. Fits(k, 4)
    BY <1>2 DEF Fits
  <2>6. p + 1 \in Nat /\ (p + 1) + 4 <= Len(buf) /\ 4 \in {1, 2, 4}
    OBVIOUS
  <2> QED
    BY <2>3, <2>4, <2>5, <2>6, HeldDigits, Zenon
<1>3. Tag(0, Inline + 2) \in Nat /\ Tag(1, Inline + 2) \in Nat /\ Tag(0, Inline + 2) # Tag(1, Inline + 2)
  BY RadixTypes, Tags
<1>4. CASE n >= 0
  <2>1. NumberBytes(n) = <<Tag(0, Inline + 2)>> \o BigEndian(n % Word, 4)
    BY <1>4, Zenon DEF NumberBytes
  <2>2. ByteAt(p) = Tag(0, Inline + 2) /\ DigitsAt(p + 1, 4) = n % Word
    BY <1>1, <1>2, <1>3, <1>4, <2>1, Zenon
  <2>3. NumberAt(p) = Assigns(<<n % Word>>, p + 5)
    BY <1>3, <2>2, Zenon DEF NumberAt
  <2> QED
    BY <1>1, <1>4, <2>3, Zenon
<1>5. CASE n < 0
  <2>1. NumberBytes(n) = <<Tag(1, Inline + 2)>> \o BigEndian((-n - 1) % Word, 4)
    <3>1. ~(n >= 0)
      BY <1>5
    <3> QED
      BY <3>1, Zenon DEF NumberBytes
  <2>2. ByteAt(p) = Tag(1, Inline + 2) /\ DigitsAt(p + 1, 4) = (-n - 1) % Word
    BY <1>1, <1>2, <1>3, <1>5, <2>1, Zenon
  <2>3. NumberAt(p) = Assigns(<<-((-n - 1) % Word) - 1>>, p + 5)
    BY <1>3, <2>2, Zenon DEF NumberAt
  <2> QED
    BY <1>1, <1>5, <2>3, Zenon
<1>6. n >= 0 \/ n < 0
  OBVIOUS
<1> QED
  BY <1>4, <1>5, <1>6, Zenon

LEMMA NumberEnds ==
  ASSUME NEW p
  PROVE  /\ NumberAt(p) = Throws \/ \E m : NumberAt(p) = Assigns(<<m>>, p + 5)
         /\ ByteAt(p) = Undefined => NumberAt(p) = Throws
<1>1. NumberAt(p) = Throws \/ \E m : NumberAt(p) = Assigns(<<m>>, p + 5)
  <2>1. Tag(0, Inline + 2) # Tag(1, Inline + 2)
    BY Tags
  <2>2. CASE ByteAt(p) = Tag(0, Inline + 2)
    <3>1. NumberAt(p) = Assigns(<<DigitsAt(p + 1, 4)>>, p + 5)
      BY <2>1, <2>2, Zenon DEF NumberAt
    <3> QED
      BY <3>1, Zenon
  <2>3. CASE ByteAt(p) = Tag(1, Inline + 2)
    <3>1. NumberAt(p) = Assigns(<<-DigitsAt(p + 1, 4) - 1>>, p + 5)
      BY <2>1, <2>3, Zenon DEF NumberAt
    <3> QED
      BY <3>1, Zenon
  <2>4. CASE ByteAt(p) # Tag(0, Inline + 2) /\ ByteAt(p) # Tag(1, Inline + 2)
    BY <2>4, Zenon DEF NumberAt
  <2> QED
    BY <2>2, <2>3, <2>4, Zenon
<1>2. ASSUME ByteAt(p) = Undefined PROVE NumberAt(p) = Throws
  <2>1. Undefined # Tag(0, Inline + 2) /\ Undefined # Tag(1, Inline + 2)
    BY Tags, RadixTypes
  <2> QED
    BY <1>2, <2>1, Zenon DEF NumberAt
<1> QED
  BY <1>1, <1>2

LEMMA Outcomes ==
  /\ ~Throws.ok
  /\ \A value, next : /\ Assigns(value, next).ok /\ Assigns(value, next).value = value
                      /\ Assigns(value, next).next = next
  BY DEF Throws, Assigns

LEMMA OutcomeOf ==
  ASSUME NEW c, NEW v, NEW q, c = Assigns(v, q)
  PROVE  c.ok /\ c.value = v /\ c.next = q
  BY Outcomes, Zenon

\* The two forms of a head.
ExtendedBy(major, n, info, w) ==
    /\ CountHead(major, n) = <<Tag(major, info)>> \o BigEndian(n, w)
    /\ info \in Nat /\ Extension[info] = w /\ w \in {1, 2, 4} /\ Fits(n, w)
    /\ \/ info = Inline /\ w = 1
       \/ info = Inline + 1 /\ w = 2
       \/ info = Inline + 2 /\ w = 4

LEMMA HeadForms ==
  ASSUME NEW n \in Nat, n < Word, NEW major \in Nat
  PROVE  /\ n < Inline => CountHead(major, n) = <<Tag(major, n)>>
         /\ n >= Inline => \E info, w : ExtendedBy(major, n, info, w)
<1>1. n < Inline => CountHead(major, n) = <<Tag(major, n)>>
  BY Zenon DEF CountHead
<1>2. ASSUME n >= Inline, NEW info \in Nat, NEW w \in {1, 2, 4}, WidthInfo(n) = info, Extension[info] = w
      PROVE  CountHead(major, n) = <<Tag(major, info)>> \o BigEndian(n, w)
  <2>1. ~(n < Inline)
    BY <1>2, RadixTypes
  <2> QED
    BY <1>2, <2>1, Zenon DEF CountHead
<1>3. Inline \in Nat /\ Inline + 1 \in Nat /\ Inline + 2 \in Nat
  BY RadixTypes
<1>4. ASSUME n >= Inline, n < Radix PROVE ExtendedBy(major, n, Inline, 1)
  <2>1. WidthInfo(n) = Inline
    <3>1. ~(n >= Radix)
      BY <1>4, RadixTypes
    <3> QED
      BY <1>4, <3>1, Zenon DEF WidthInfo
  <2>2. Fits(n, 1)
    BY <1>4 DEF Fits
  <2> QED
    BY <1>2, <1>3, <1>4, <2>1, <2>2, ExtensionOf DEF ExtendedBy
<1>5. ASSUME n >= Inline, n >= Radix, n < Radix * Radix PROVE ExtendedBy(major, n, Inline + 1, 2)
  <2>1. WidthInfo(n) = Inline + 1
    <3>1. ~(n < Radix)
      BY <1>5, RadixTypes
    <3> QED
      BY <1>5, <3>1, Zenon DEF WidthInfo
  <2>2. Fits(n, 2)
    BY <1>5 DEF Fits
  <2> QED
    BY <1>2, <1>3, <1>5, <2>1, <2>2, ExtensionOf DEF ExtendedBy
<1>6. ASSUME n >= Inline, ~(n < Radix), ~(n < Radix * Radix) PROVE ExtendedBy(major, n, Inline + 2, 4)
  <2>1. WidthInfo(n) = Inline + 2
    BY <1>6, Zenon DEF WidthInfo
  <2>2. Fits(n, 4)
    BY DEF Fits
  <2> QED
    BY <1>2, <1>3, <1>6, <2>1, <2>2, ExtensionOf DEF ExtendedBy
<1>7. n < Radix \/ n >= Radix
  BY RadixTypes
<1> QED
  BY <1>1, <1>4, <1>5, <1>6, <1>7, Zenon

\* What CountAt makes of each tag.
LEMMA CountTags ==
  ASSUME NEW p, NEW major \in Nat
  PROVE  /\ ByteAt(p) = Undefined => CountAt(p, major) = Throws
         /\ \A k \in Nat : k < Inline /\ ByteAt(p) = Tag(major, k) => CountAt(p, major) = Assigns(k, p + 1)
         /\ ByteAt(p) = Tag(major, Inline) =>
               CountAt(p, major) = IF Missing(p + 1) THEN Assigns(Undefined, p + 2) ELSE Assigns(buf[p + 2], p + 2)
         /\ \A info \in {Inline + 1, Inline + 2} :
               ByteAt(p) = Tag(major, info) =>
                  CountAt(p, major) = Assigns(DigitsAt(p + 1, Extension[info]), p + 1 + Extension[info])
<1>1. Inline \in Nat /\ Inline > 0
  BY RadixTypes
<1>2. \A info \in Nat : Tag(major, info) # Undefined /\ Tag(major, info) - Tag(major, 0) = info
  BY DEF Tag, Undefined
<1>3. \A k \in Nat : k < Inline => /\ k \in 0..(Inline - 1) /\ k # Inline
                                   /\ k \notin {Inline + 1, Inline + 2}
  BY <1>1
<1>4. Inline \notin 0..(Inline - 1) /\ Inline \notin {Inline + 1, Inline + 2}
  BY <1>1
<1>5. \A info \in {Inline + 1, Inline + 2} : info \in Nat /\ info \notin 0..(Inline - 1) /\ info # Inline
  BY <1>1
<1>6. ByteAt(p) = Undefined => CountAt(p, major) = Throws
  BY Zenon DEF CountAt
<1>7. ASSUME NEW k \in Nat, k < Inline, ByteAt(p) = Tag(major, k)
      PROVE  CountAt(p, major) = Assigns(k, p + 1)
  <2>1. ByteAt(p) # Undefined /\ ByteAt(p) - Tag(major, 0) = k
    BY <1>2, <1>7, Zenon
  <2> QED
    BY <1>3, <1>7, <2>1, Zenon DEF CountAt
<1>8. ASSUME ByteAt(p) = Tag(major, Inline)
      PROVE  CountAt(p, major) = IF Missing(p + 1) THEN Assigns(Undefined, p + 2) ELSE Assigns(buf[p + 2], p + 2)
  <2>1. ByteAt(p) # Undefined /\ ByteAt(p) - Tag(major, 0) = Inline
    BY <1>1, <1>2, <1>8, Zenon
  <2> QED
    BY <1>4, <2>1, Zenon DEF CountAt
<1>9. ASSUME NEW info \in {Inline + 1, Inline + 2}, ByteAt(p) = Tag(major, info)
      PROVE  CountAt(p, major) = Assigns(DigitsAt(p + 1, Extension[info]), p + 1 + Extension[info])
  <2>1. ByteAt(p) # Undefined /\ ByteAt(p) - Tag(major, 0) = info
    BY <1>2, <1>5, <1>9, Zenon
  <2> QED
    BY <1>5, <2>1, Zenon DEF CountAt
<1> QED
  BY <1>6, <1>7, <1>8, <1>9, Zenon

\* A count that is there is read back; one without its last digits leads
\* behind the end of the buffer.
BeyondEnd(p) == p \in Nat /\ p > Len(buf)
CountLost(c) == c = Throws \/ \E v, q : c = Assigns(v, q) /\ BeyondEnd(q) /\ (v = Undefined \/ v \in Nat)

LEMMA ReadsCount ==
  ASSUME buf \in Seq(Nat), NEW p \in Nat, NEW n \in Nat, n < Word, NEW major \in Nat,
         Holds(buf, p, CountHead(major, n))
  PROVE  /\ p + HeadSize(n) <= Len(buf) => CountAt(p, major) = Assigns(n, p + HeadSize(n))
         /\ p + HeadSize(n) > Len(buf) => CountLost(CountAt(p, major))
<1>1. /\ Len(CountHead(major, n)) = HeadSize(n) /\ HeadSize(n) \in Nat /\ HeadSize(n) > 0
      /\ CountHead(major, n) \in Seq(Nat)
  BY HeadLength
<1>2. Len(buf) \in Nat
  OBVIOUS
<1>3. CASE p >= Len(buf)
  <2>1. ByteAt(p) = Undefined
    BY <1>3, NoByte
  <2>2. CountAt(p, major) = Throws
    BY <2>1, CountTags, Zenon
  <2>3. ~(p + HeadSize(n) <= Len(buf))
    BY <1>1, <1>2, <1>3
  <2> QED
    BY <2>2, <2>3, Zenon DEF CountLost
<1>4. CASE p < Len(buf) /\ n < Inline
  <2>1. CountHead(major, n) = <<Tag(major, n)>> /\ Tag(major, n) \in Nat
    BY <1>4, HeadForms, Tags, Zenon
  <2>2. PICK t \in Nat : t = Tag(major, n)
    BY <2>1
  <2>3. CountHead(major, n) = <<t>> /\ HeadSize(n) = 1 /\ <<t>> \in Seq(Nat) /\ <<t>>[1] = t /\ Len(<<t>>) = 1
    BY <1>1, <2>1, <2>2
  <2>4. ByteAt(p) = t
    <3>1. 1 \in 1..Len(<<t>>) /\ p + 1 <= Len(buf) /\ p + 1 - 1 = p
      BY <1>2, <1>4, <2>3
    <3>2. Holds(buf, p, <<t>>)
      BY <2>3, Zenon
    <3>3. ByteAt(p + 1 - 1) = <<t>>[1]
      BY <2>3, <3>1, <3>2, HeldByte, Zenon
    <3> QED
      BY <2>3, <3>1, <3>3
  <2>5. CountAt(p, major) = Assigns(n, p + 1)
    BY <1>4, <2>2, <2>4, CountTags, Zenon
  <2>6. ~(p + HeadSize(n) > Len(buf))
    BY <1>2, <1>4, <2>3
  <2> QED
    BY <2>3, <2>5, <2>6, Zenon
<1>5. CASE p < Len(buf) /\ n >= Inline
  <2>1. PICK info, w : ExtendedBy(major, n, info, w)
    BY <1>5, HeadForms, Zenon
  <2>2. /\ CountHead(major, n) = <<Tag(major, info)>> \o BigEndian(n, w)
        /\ info \in Nat /\ Extension[info] = w /\ w \in {1, 2, 4} /\ Fits(n, w)
        /\ \/ info = Inline /\ w = 1
           \/ info = Inline + 1 /\ w = 2
           \/ info = Inline + 2 /\ w = 4
    BY <2>1, Zenon DEF ExtendedBy
  <2>3. PICK t \in Nat : t = Tag(major, info)
    BY <2>2, Tags, Zenon
  <2>4. PICK d \in Seq(Nat) : d = BigEndian(n, w) /\ Len(d) = w
    BY <2>2, DigitTypes
  <2>5. CountHead(major, n) = <<t>> \o d /\ <<t>> \in Seq(Nat) /\ Len(<<t>>) = 1 /\ <<t>>[1] = t
    BY <2>2, <2>3, <2>4
  <2>6. w \in Nat /\ HeadSize(n) = 1 + w
    <3>1. Len(<<t>> \o d) = 1 + Len(d)
      BY <2>5, HeadAndBytes
    <3> QED
      BY <1>1, <2>2, <2>4, <2>5, <3>1
  <2>7. Holds(buf, p, <<t>>) /\ Holds(buf, p + 1, d)
    <3>1. Holds(buf, p, <<t>>) /\ Holds(buf, p + Len(<<t>>), d)
      BY <2>5, HoldsParts, Zenon
    <3> QED
      BY <2>5, <3>1
  <2>8. ByteAt(p) = Tag(major, info)
    <3>1. 1 \in 1..Len(<<t>>) /\ p + 1 <= Len(buf) /\ p + 1 - 1 = p
      BY <1>2, <1>5, <2>5
    <3>2. ByteAt(p + 1 - 1) = <<t>>[1]
      BY <2>5, <2>7, <3>1, HeldByte, Zenon
    <3> QED
      BY <2>3, <2>5, <3>1, <3>2
  <2>9. p + 1 \in Nat /\ p + HeadSize(n) = (p + 1) + w /\ (p + 1) + w \in Nat /\ p + 1 + w = (p + 1) + w
    BY <2>6
  <2>10. CASE info = Inline /\ w = 1
    <3>1. CountAt(p, major) = IF Missing(p + 1) THEN Assigns(Undefined, p + 2) ELSE Assigns(buf[p + 2], p + 2)
      BY <2>8, <2>10, CountTags, Zenon
    <3>2. p + HeadSize(n) = p + 2 /\ p + 2 \in Nat
      BY <2>9, <2>10
    <3>3. CASE p + 2 <= Len(buf)
      <4>1. 1 \in 1..Len(d) /\ (p + 1) + 1 <= Len(buf) /\ (p + 1) + 1 - 1 = p + 1 /\ (p + 1) + 1 = p + 2
        BY <1>2, <2>4, <2>10, <3>3
      <4>2. ~Missing((p + 1) + 1 - 1) /\ buf[(p + 1) + 1] = d[1]
        BY <2>7, <2>9, <4>1, HeldByte, Zenon
      <4>3. d[1] = n
        <5>1. BigEndian(n, 1)[1] = (n \div Weights[1 - 1 + 1]) % Radix
          BY DEF BigEndian
        <5>2. 1 - 1 + 1 = 1 /\ Weights[1] = 1 /\ n \div 1 = n /\ n < Radix
          <6>1. n < Radix
            <7>1. Fits(n, 1)
              BY <2>2, <2>10, Zenon
            <7> QED
              BY <7>1 DEF Fits
          <6>2. Weights[1] = 1
            BY DEF Weights
          <6>3. 1 - 1 + 1 = 1 /\ n \div 1 = n
            OBVIOUS
          <6> QED
            BY <6>1, <6>2, <6>3, Zenon
        <5>3. \A x, r \in Nat : x < r => x % r = x
          OBVIOUS
        <5>4. n % Radix = n
          BY <5>2, <5>3, RadixTypes, Zenon
        <5> QED
          BY <2>4, <2>10, <5>1, <5>2, <5>4
      <4>4. ~Missing(p + 1) /\ buf[p + 2] = n
        BY <4>1, <4>2, <4>3
      <4>5. CountAt(p, major) = Assigns(n, p + 2)
        BY <3>1, <4>4, Zenon
      <4>6. ~(p + 2 > Len(buf))
        BY <1>2, <3>3
      <4> QED
        BY <3>2, <4>5, <4>6, Zenon
    <3>4. CASE p + 2 > Len(buf)
      <4>1. Missing(p + 1)
        <5>1. p + 1 \in Int /\ p + 1 >= Len(buf)
          BY <1>2, <3>4
        <5> QED
          BY <5>1, NoByte, Zenon
      <4>2. CountAt(p, major) = Assigns(Undefined, p + 2)
        BY <3>1, <4>1, Zenon
      <4>3. ~(p + 2 <= Len(buf)) /\ BeyondEnd(p + 2)
        BY <1>2, <3>2, <3>4 DEF BeyondEnd
      <4> QED
        BY <3>2, <4>2, <4>3, Zenon DEF CountLost
    <3> QED
      BY <1>2, <3>2, <3>3, <3>4
  <2>11. CASE info \in {Inline + 1, Inline + 2}
    <3>1. CountAt(p, major) = Assigns(DigitsAt(p + 1, w), p + 1 + w)
      BY <2>2, <2>8, <2>11, CountTags, Zenon
    <3>2. CASE (p + 1) + w <= Len(buf)
      <4>1. DigitsAt(p + 1, w) = n
        BY <2>2, <2>4, <2>7, <2>9, <3>2, HeldDigits, Zenon
      <4>2. ~((p + 1) + w > Len(buf))
        BY <1>2, <2>9, <3>2
      <4> QED
        BY <2>9, <3>1, <4>1, <4>2, Zenon
    <3>3. CASE (p + 1) + w > Len(buf)
      <4>1. DigitsAt(p + 1, w) \in Nat
        BY <2>6, <2>9, DigitsAreNat, Zenon
      <4>2. ~((p + 1) + w <= Len(buf)) /\ BeyondEnd(p + 1 + w)
        BY <1>2, <2>9, <3>3 DEF BeyondEnd
      <4> QED
        BY <2>9, <3>1, <4>1, <4>2, Zenon DEF CountLost
    <3> QED
      BY <1>2, <2>9, <3>2, <3>3
  <2> QED
    <3>1. (info = Inline /\ w = 1) \/ info \in {Inline + 1, Inline + 2}
      BY <2>2
    <3> QED
      BY <2>10, <2>11, <3>1, Zenon
<1> QED
  <2>1. n < Inline \/ n >= Inline
    BY RadixTypes
  <2>2. p >= Len(buf) \/ p < Len(buf)
    BY <1>2
  <2> QED
    BY <1>3, <1>4, <1>5, <2>1, <2>2, Zenon

\* The elements of an array.
RightArray(value, r) == Len(r) = Len(value) /\ \A k \in DOMAIN r : SameNumber(value[k], r[k])

LEMMA ReadsElements ==
  ASSUME buf \in Seq(Nat), NEW p \in Nat, NEW value \in Seq(Int),
         Holds(buf, p, ArrayBytes(value)), p + 5 * Len(value) <= Len(buf)
  PROVE  \E r : ArrayAt(p, Len(value)) = Assigns(r, p + 5 * Len(value)) /\ RightArray(value, r)
<1> DEFINE n == Len(value)
           elem(k) == NumberAt(p + 5 * (k - 1))
           r == [k \in 1..n |-> elem(k).value[1]]
<1>1. n \in Nat /\ Len(buf) \in Nat
  OBVIOUS
<1>2. /\ Len(ArrayBytes(value)) = 5 * n
      /\ \A k \in 1..n : \A j \in 1..5 : ArrayBytes(value)[5 * (k - 1) + j] = NumberBytes(value[k])[j]
  BY ArrayElements, Zenon
<1>3. \A i \in 1..(5 * n) : p + i <= Len(buf) => buf[p + i] = ArrayBytes(value)[i]
  BY <1>2, Zenon DEF Holds
<1> HIDE DEF n
<1>4. ASSUME NEW k \in 1..n
      PROVE  \E m : elem(k) = Assigns(<<m>>, p + 5 * (k - 1) + 5) /\ Kept(value[k], m)
  <2>1. PICK q \in Nat : q = p + 5 * (k - 1)
    <3>1. p + 5 * (k - 1) \in Nat
      OBVIOUS
    <3> QED
      BY <3>1
  <2>2. value[k] \in Int
    BY DEF n
  <2>3. q + 5 <= Len(buf)
    BY <1>1, <2>1 DEF n
  <2>4. Len(NumberBytes(value[k])) = 5
    BY <2>2, NumberLength
  <2>5. ASSUME NEW i \in 1..5 PROVE buf[q + i] = NumberBytes(value[k])[i]
    <3>1. 5 * (k - 1) + i \in 1..(5 * n) /\ p + (5 * (k - 1) + i) = q + i /\ q + i <= Len(buf)
      BY <1>1, <2>1, <2>3
    <3>2. buf[p + (5 * (k - 1) + i)] = ArrayBytes(value)[5 * (k - 1) + i]
      BY <1>3, <3>1
    <3> QED
      BY <1>2, <3>1, <3>2
  <2>6. Holds(buf, q, NumberBytes(value[k]))
    BY <2>4, <2>5 DEF Holds
  <2>7. \E m : NumberAt(q) = Assigns(<<m>>, q + 5) /\ Kept(value[k], m)
    BY <2>2, <2>3, <2>6, ReadsNumber, Zenon
  <2> QED
    BY <2>1, <2>7, Zenon
<1>5. ASSUME NEW k \in 1..n PROVE elem(k).ok /\ SameNumber(value[k], elem(k).value[1])
  <2>1. PICK m : elem(k) = Assigns(<<m>>, p + 5 * (k - 1) + 5) /\ Kept(value[k], m)
    BY <1>4, Zenon
  <2>2. elem(k).ok /\ elem(k).value = <<m>>
    BY <2>1, Outcomes, ZenonT(30)
  <2>3. elem(k).value[1] = m
    <3>1. <<m>>[1] = m
      OBVIOUS
    <3> HIDE DEF elem
    <3> QED
      BY <2>2, <3>1
  <2> QED
    BY <2>1, <2>2, <2>3, Zenon DEF Kept
<1>6. ArrayAt(p, n) = Assigns(r, p + 5 * n)
  BY <1>5, Zenon DEF ArrayAt
<1>7. RightArray(value, r)
  <2>1. DOMAIN r = 1..n /\ \A k \in 1..n : r[k] = elem(k).value[1]
    BY Zenon
  <2>2. Len(r) = n
    <3> HIDE DEF elem
    <3> QED
      BY <1>1
  <2> HIDE DEF r, elem
  <2>3. \A k \in DOMAIN r : SameNumber(value[k], r[k])
    BY <1>5, <2>1, Zenon
  <2> QED
    BY <2>2, <2>3, Zenon DEF RightArray, n
<1> HIDE DEF r, elem
<1> QED
  BY <1>6, <1>7, Zenon DEF n

LEMMA ArrayEnds ==
  ASSUME NEW p, NEW count
  PROVE  ArrayAt(p, count) = Throws \/ \E r : ArrayAt(p, count) = Assigns(r, p + 5 * count)
  BY Zenon DEF ArrayAt

-----------------------------------------------------------------------------
(* Reading what was written: values *)

RightValue(f, value, r) ==
    CASE f.ann = "string" -> r = WellFormed(value)
      [] f.ann = "array" -> RightArray(value, r)
      [] OTHER -> r = value

\* A value that gets through and whose bytes are all there is read back, and
\* the reader goes on behind it; of one that does not get through, the reader
\* throws; one whose bytes are not all there is refused, or the reader goes on
\* behind the end of the buffer.
Recovers(f, value, r) == Carried(f, value) /\ RightValue(f, value, r)
ReadsRight(f, value, p) ==
    \/ \E v : ReadValue(f, p) = Assigns(v, p + ValueSize(f, value)) /\ Recovers(f, value, v)
    \/ ReadValue(f, p) = Throws /\ ~Carried(f, value)
ReadsPast(f, p) ==
    ReadValue(f, p) = Throws \/ \E v, q : ReadValue(f, p) = Assigns(v, q) /\ (q = Lost \/ BeyondEnd(q))

Reads(f, value, p) ==
    /\ p + ValueSize(f, value) <= Len(buf) => ReadsRight(f, value, p)
    /\ p + ValueSize(f, value) > Len(buf) => ReadsPast(f, p)

LEMMA ReadsBoolean ==
  ASSUME buf \in Seq(Nat), NEW p \in Nat, NEW f, IsBoolean(f), NEW value, IsValue(f, value),
         Holds(buf, p, ValueBytes(f, value))
  PROVE  Reads(f, value, p)
<1>1. ReadValue(f, p) = ReadBoolean(p)
  BY Zenon DEF ReadValue, IsBoolean
<1>2. ValueSize(f, value) = 1 /\ value \in {<<0>>, <<1>>}
      /\ ValueBytes(f, value) = <<Tag(7, IF value = <<0>> THEN 20 ELSE 21)>>
  BY BooleanValue, Zenon
<1>3. PICK t \in Nat : t = Tag(7, IF value = <<0>> THEN 20 ELSE 21)
  BY Tags
<1>4. ValueBytes(f, value) = <<t>> /\ <<t>> \in Seq(Nat) /\ Len(<<t>>) = 1 /\ <<t>>[1] = t
  BY <1>2, <1>3
<1>5. Len(buf) \in Nat
  OBVIOUS
<1>6. Tag(7, 20) # Tag(7, 21) /\ Tag(7, 20) # Undefined /\ Tag(7, 21) # Undefined
  BY Tags
<1>7. CASE p + 1 <= Len(buf)
  <2>1. ByteAt(p) = t
    <3>1. 1 \in 1..Len(<<t>>) /\ p + 1 - 1 = p
      BY <1>4
    <3>2. Holds(buf, p, <<t>>)
      BY <1>4, Zenon
    <3>3. ByteAt(p + 1 - 1) = <<t>>[1]
      BY <1>4, <1>7, <3>1, <3>2, HeldByte, Zenon
    <3> QED
      BY <1>4, <3>1, <3>3
  <2>2. ReadValue(f, p) = Assigns(value, p + ValueSize(f, value))
    <3>1. CASE value = <<0>>
      <4>1. ByteAt(p) = Tag(7, 20)
        BY <1>3, <2>1, <3>1, Zenon
      <4>2. ReadBoolean(p) = Assigns(<<0>>, p + 1)
        BY <1>6, <4>1, Zenon DEF ReadBoolean
      <4> QED
        BY <1>1, <1>2, <3>1, <4>2, Zenon
    <3>2. CASE value = <<1>>
      <4>1. <<0>> # <<1>>
        OBVIOUS
      <4>2. ByteAt(p) = Tag(7, 21)
        BY <1>3, <2>1, <3>2, <4>1, Zenon
      <4>3. ReadBoolean(p) = Assigns(<<1>>, p + 1)
        BY <1>6, <4>2, Zenon DEF ReadBoolean
      <4> QED
        BY <1>1, <1>2, <3>2, <4>3, Zenon
    <3> QED
      BY <1>1, <1>2, <3>1, <3>2, Zenon
  <2>3. Recovers(f, value, value)
    BY Zenon DEF Recovers, Carried, RightValue, IsBoolean
  <2>4. ~(p + 1 > Len(buf))
    BY <1>5, <1>7
  <2> QED
    BY <1>2, <2>2, <2>3, <2>4, Zenon DEF Reads, ReadsRight
<1>8. CASE ~(p + 1 <= Len(buf))
  <2>1. ByteAt(p) = Undefined
    BY <1>5, <1>8, NoByte
  <2>2. ReadBoolean(p) = Throws
    BY <1>6, <2>1, Zenon DEF ReadBoolean
  <2> QED
    BY <1>1, <1>2, <1>8, <2>2, Zenon DEF Reads, ReadsPast
<1> QED
  BY <1>7, <1>8

\* A number that toCBOR writes has a 32-bit form.
LEMMA HalfWord == Half \in Nat /\ Half <= Word
<1>1. \A x \in Nat : x \div 2 \in Nat /\ x \div 2 <= x
  OBVIOUS
<1> QED
  BY <1>1, RadixTypes, Zenon DEF Half

LEMMA ReadsNumberField ==
  ASSUME buf \in Seq(Nat), NEW p \in Nat, NEW f, IsNumber(f), ~f.computed, NEW value, IsValue(f, value),
         ~NotWritable(f, value), Holds(buf, p, ValueBytes(f, value))
  PROVE  Reads(f, value, p)
<1>1. ReadValue(f, p) = ReadNumber(f, p)
  BY Zenon DEF ReadValue, IsNumber
<1>2. ValueSize(f, value) = 5 /\ value \in [1..1 -> Int] /\ ValueBytes(f, value) = NumberBytes(value[1])
  BY NumberValue, Zenon
<1>3. PICK n \in Int : n = value[1] /\ value = <<n>>
  <2>1. value[1] \in Int /\ value = <<value[1]>>
    BY <1>2
  <2> QED
    BY <2>1
<1>4. value[1] \in -Half..(Half - 1) /\ n >= -Word /\ n < Word
  <2>1. value[1] \in -Half..(Half - 1)
    BY Zenon DEF NotWritable, IsNumber
  <2>2. n \in -Half..(Half - 1)
    BY <1>3, <2>1, Zenon
  <2>3. n >= -Word /\ n < Word
    BY <2>2, HalfWord, RadixTypes
  <2> QED
    BY <2>1, <2>3, Zenon
<1>5. Len(buf) \in Nat
  OBVIOUS
<1>6. CASE p + 5 <= Len(buf)
  <2>1. PICK m : NumberAt(p) = Assigns(<<m>>, p + 5) /\ Kept(n, m)
    BY <1>2, <1>3, <1>6, ReadsNumber, Zenon
  <2>2. m = n
    BY <1>4, <2>1 DEF Kept
  <2>3. NumberAt(p) = Assigns(value, p + 5)
    BY <1>3, <2>1, <2>2, Zenon
  <2>4. NumberAt(p).ok /\ NumberAt(p).value = value
    BY <2>3, Outcomes, Zenon
  <2>5. ~(p + 5 > Len(buf))
    BY <1>5, <1>6
  <2>6. CASE OutsideLimits(f, value[1])
    <3>1. ReadNumber(f, p) = Throws
      BY <2>4, <2>6, Zenon DEF ReadNumber
    <3>2. ~Carried(f, value)
      BY <2>6, Zenon DEF Carried, IsNumber
    <3> QED
      BY <1>1, <1>2, <2>5, <3>1, <3>2, Zenon DEF Reads, ReadsRight
  <2>7. CASE ~OutsideLimits(f, value[1])
    <3>1. ReadNumber(f, p) = Assigns(value, p + 5)
      BY <2>3, <2>4, <2>7, Zenon DEF ReadNumber
    <3>2. Recovers(f, value, value)
      BY <1>4, <2>7, Zenon DEF Recovers, Carried, RightValue, IsNumber
    <3> QED
      BY <1>1, <1>2, <2>5, <3>1, <3>2, Zenon DEF Reads, ReadsRight
  <2> QED
    BY <2>6, <2>7
<1>7. CASE ~(p + 5 <= Len(buf))
  <2>1. BeyondEnd(p + 5)
    BY <1>5, <1>7 DEF BeyondEnd
  <2>2. ReadNumber(f, p) = Throws \/ ReadNumber(f, p) = NumberAt(p)
    BY Zenon DEF ReadNumber
  <2>3. NumberAt(p) = Throws \/ \E m : NumberAt(p) = Assigns(<<m>>, p + 5)
    BY NumberEnds, Zenon
  <2> QED
    BY <1>1, <1>2, <1>7, <2>1, <2>2, <2>3, Zenon DEF Reads, ReadsPast
<1> QED
  BY <1>6, <1>7

LEMMA ReadsArrayField ==
  ASSUME buf \in Seq(Nat), NEW p \in Nat, NEW f, IsArray(f), NEW value, IsValue(f, value),
         Holds(buf, p, ValueBytes(f, value))
  PROVE  Reads(f, value, p)
<1>1. ReadValue(f, p) = ReadArray(p)
  BY Zenon DEF ReadValue, IsArray
<1>2. /\ ValueSize(f, value) = HeadSize(Len(value)) + 5 * Len(value)
      /\ ValueBytes(f, value) = CountHead(4, Len(value)) \o ArrayBytes(value)
      /\ value \in Seq(Int) /\ Len(value) < Word
  BY ArrayValue, Zenon
<1>3. PICK n \in Nat : n = Len(value)
  BY <1>2
<1>4. PICK h : h = HeadSize(n) /\ h \in Nat /\ h > 0 /\ Len(CountHead(4, n)) = h /\ CountHead(4, n) \in Seq(Nat)
  <2>1. 4 \in Nat
    OBVIOUS
  <2> QED
    BY <2>1, HeadLength, Zenon
<1>5. ArrayBytes(value) \in Seq(Nat)
  BY <1>2, ArrayElements
<1>6. Holds(buf, p, CountHead(4, n)) /\ Holds(buf, p + h, ArrayBytes(value))
  <2>1. Holds(buf, p, CountHead(4, n) \o ArrayBytes(value))
    BY <1>2, <1>3, Zenon
  <2>2. Holds(buf, p, CountHead(4, n)) /\ Holds(buf, p + Len(CountHead(4, n)), ArrayBytes(value))
    BY <1>4, <1>5, <2>1, HoldsParts, Zenon
  <2> QED
    BY <1>4, <2>2, Zenon
<1>7. /\ p + h <= Len(buf) => CountAt(p, 4) = Assigns(n, p + h)
      /\ p + h > Len(buf) => CountLost(CountAt(p, 4))
  <2>1. 4 \in Nat /\ n < Word
    BY <1>2, <1>3
  <2>2. /\ p + HeadSize(n) <= Len(buf) => CountAt(p, 4) = Assigns(n, p + HeadSize(n))
        /\ p + HeadSize(n) > Len(buf) => CountLost(CountAt(p, 4))
    BY <1>6, <2>1, ReadsCount, ZenonT(30)
  <2> QED
    BY <1>4, <2>2, Zenon
<1>8. Len(buf) \in Nat /\ p + h \in Nat /\ ValueSize(f, value) = h + 5 * n /\ p + (h + 5 * n) = (p + h) + 5 * n
  <2>1. Len(buf) \in Nat
    OBVIOUS
  <2>2. h \in Nat
    BY <1>4, Zenon
  <2>3. p + h \in Nat /\ p + (h + 5 * n) = (p + h) + 5 * n
    BY <2>2
  <2>4. ValueSize(f, value) = h + 5 * n
    BY <1>2, <1>3, <1>4, Zenon
  <2> QED
    BY <2>1, <2>3, <2>4, Zenon
<1>9. n # Undefined
  BY DEF Undefined
<1>10. CASE p + h <= Len(buf)
  <2>1. CountAt(p, 4).ok /\ CountAt(p, 4).value = n /\ CountAt(p, 4).next = p + h
    <3>1. CountAt(p, 4) = Assigns(n, p + h)
      BY <1>7, <1>10, Zenon
    <3> QED
      BY <3>1, OutcomeOf, ZenonT(30)
  <2>2. ReadArray(p) = ArrayAt(p + h, n)
    BY <1>9, <2>1, Zenon DEF ReadArray
  <2>3. CASE (p + h) + 5 * n <= Len(buf)
    <3>1. PICK r : ArrayAt(p + h, n) = Assigns(r, (p + h) + 5 * n) /\ RightArray(value, r)
      BY <1>2, <1>3, <1>6, <1>8, <2>3, ReadsElements, Zenon
    <3>2. Recovers(f, value, r)
      BY <3>1, Zenon DEF Recovers, Carried, RightValue, IsArray
    <3>3. ReadsRight(f, value, p)
      BY <1>1, <1>8, <2>2, <3>1, <3>2, Zenon DEF ReadsRight
    <3>4. ~((p + h) + 5 * n > Len(buf))
      BY <1>8, <2>3
    <3> QED
      BY <1>8, <3>3, <3>4, Zenon DEF Reads
  <2>4. CASE ~((p + h) + 5 * n <= Len(buf))
    <3>1. BeyondEnd((p + h) + 5 * n)
      BY <1>8, <2>4 DEF BeyondEnd
    <3>2. ArrayAt(p + h, n) = Throws \/ \E r : ArrayAt(p + h, n) = Assigns(r, (p + h) + 5 * n)
      BY ArrayEnds, Zenon
    <3> QED
      BY <1>1, <1>8, <2>2, <2>4, <3>1, <3>2, Zenon DEF Reads, ReadsPast
  <2> QED
    BY <2>3, <2>4
<1>11. CASE ~(p + h <= Len(buf))
  <2>1. p + h > Len(buf) /\ ~((p + h) + 5 * n <= Len(buf))
    BY <1>8, <1>11
  <2>2. ASSUME CountAt(p, 4) = Throws PROVE ReadArray(p) = Throws
    <3>1. ~CountAt(p, 4).ok
      BY <2>2, Outcomes, Zenon
    <3> QED
      BY <3>1, Zenon DEF ReadArray
  <2>3. ASSUME NEW v, NEW q, CountAt(p, 4) = Assigns(v, q), BeyondEnd(q), v = Undefined \/ v \in Nat
        PROVE  ReadArray(p) = Throws \/ \E x, y : ReadArray(p) = Assigns(x, y) /\ BeyondEnd(y)
    <3>1. CountAt(p, 4).ok /\ CountAt(p, 4).value = v /\ CountAt(p, 4).next = q
      BY <2>3, OutcomeOf, ZenonT(30)
    <3>2. CASE v = Undefined
      <4>1. ReadArray(p) = Assigns(<<Undefined>>, q)
        BY <3>1, <3>2, Zenon DEF ReadArray
      <4> QED
        BY <2>3, <4>1, Zenon
    <3>3. CASE v # Undefined
      <4>1. ReadArray(p) = ArrayAt(q, v)
        BY <3>1, <3>3, Zenon DEF ReadArray
      <4>2. BeyondEnd(q + 5 * v)
        BY <1>8, <2>3, <3>3 DEF BeyondEnd
      <4> QED
        BY <4>1, <4>2, ArrayEnds, Zenon
    <3> QED
      BY <3>2, <3>3
  <2>4. ReadsPast(f, p)
    BY <1>1, <1>7, <2>1, <2>2, <2>3, Zenon DEF ReadsPast, CountLost
  <2> QED
    BY <1>8, <2>1, <2>4, Zenon DEF Reads
<1> QED
  BY <1>10, <1>11

\* Text, but for what ReadString makes of the bytes.
LEMMA ReadsTextField ==
  ASSUME buf \in Seq(Nat), NEW p \in Nat, NEW f \in Fields, IsString(f), NEW value, IsValue(f, value),
         Holds(buf, p, ValueBytes(f, value)),
         \A q \in Nat : /\ Holds(buf, q, WriteString(value))
                        /\ q + Utf8ByteLength(value) <= Len(buf)
                        => ReadString(buf, q, Utf8ByteLength(value)) = WellFormed(value)
  PROVE  Reads(f, value, p)
<1>1. ReadValue(f, p) = ReadText(f, p)
  BY Zenon DEF ReadValue, IsString
<1>2. /\ ValueSize(f, value) = HeadSize(Utf8ByteLength(value)) + Utf8ByteLength(value)
      /\ ValueBytes(f, value) = CountHead(3, Utf8ByteLength(value)) \o WriteString(value)
      /\ value \in Seq(Units) /\ Utf8ByteLength(value) < Word
  BY StringValue, Zenon
<1>3. PICK n \in Nat : n = Utf8ByteLength(value) /\ WriteString(value) \in Seq(Nat)
  BY <1>2, WrittenLength, Zenon
<1>4. PICK h : h = HeadSize(n) /\ h \in Nat /\ h > 0 /\ Len(CountHead(3, n)) = h /\ CountHead(3, n) \in Seq(Nat)
  <2>1. 3 \in Nat
    OBVIOUS
  <2> QED
    BY <2>1, HeadLength, Zenon
<1>5. Holds(buf, p, CountHead(3, n)) /\ Holds(buf, p + h, WriteString(value))
  <2>1. Holds(buf, p, CountHead(3, n) \o WriteString(value))
    BY <1>2, <1>3, Zenon
  <2>2. Holds(buf, p, CountHead(3, n)) /\ Holds(buf, p + Len(CountHead(3, n)), WriteString(value))
    BY <1>3, <1>4, <2>1, HoldsParts, Zenon
  <2> QED
    BY <1>4, <2>2, Zenon
<1>6. /\ p + h <= Len(buf) => CountAt(p, 3) = Assigns(n, p + h)
      /\ p + h > Len(buf) => CountLost(CountAt(p, 3))
  <2>1. 3 \in Nat /\ n < Word
    BY <1>2, <1>3
  <2>2. /\ p + HeadSize(n) <= Len(buf) => CountAt(p, 3) = Assigns(n, p + HeadSize(n))
        /\ p + HeadSize(n) > Len(buf) => CountLost(CountAt(p, 3))
    BY <1>5, <2>1, ReadsCount, ZenonT(30)
  <2> QED
    BY <1>4, <2>2, Zenon
<1>7. Len(buf) \in Nat /\ p + h \in Nat /\ ValueSize(f, value) = h + n /\ p + (h + n) = (p + h) + n
  <2>1. Len(buf) \in Nat
    OBVIOUS
  <2>2. h \in Nat
    BY <1>4, Zenon
  <2>3. p + h \in Nat /\ p + (h + n) = (p + h) + n
    BY <2>2
  <2>4. ValueSize(f, value) = h + n
    BY <1>2, <1>3, <1>4, Zenon
  <2> QED
    BY <2>1, <2>3, <2>4, Zenon
<1>8. n # Undefined
  BY DEF Undefined
<1>12. f.max # NoLimit => f.max[1] \in Int
  BY FieldTypes DEF Limits
<1>9. ASSUME NEW v, NEW q, CountAt(p, 3) = Assigns(v, q), v # Undefined, v > Len(buf) - q
      PROVE  ReadText(f, p) = Throws
  <2>1. CountAt(p, 3).ok /\ CountAt(p, 3).value = v /\ CountAt(p, 3).next = q
    BY <1>9, OutcomeOf, ZenonT(30)
  <2> QED
    BY <1>9, <2>1, Zenon DEF ReadText
<1>10. CASE p + h <= Len(buf)
  <2>1. CountAt(p, 3) = Assigns(n, p + h)
    BY <1>6, <1>10, Zenon
  <2>2. CountAt(p, 3).ok /\ CountAt(p, 3).value = n /\ CountAt(p, 3).next = p + h
    BY <2>1, OutcomeOf, ZenonT(30)
  <2>3. CASE (p + h) + n <= Len(buf)
    <3>1. ~(n > Len(buf) - (p + h)) /\ ~((p + h) + n > Len(buf))
      BY <1>7, <2>3
    <3>2. CASE f.max # NoLimit /\ n > f.max[1]
      <4>1. ReadText(f, p) = Throws
        BY <1>8, <2>2, <3>2, Zenon DEF ReadText
      <4>2. ~(n <= f.max[1])
        BY <1>12, <3>2
      <4>3. ~Carried(f, value)
        BY <1>3, <3>2, <4>2, Zenon DEF Carried, IsString
      <4> QED
        BY <1>1, <1>7, <3>1, <4>1, <4>3, Zenon DEF Reads, ReadsRight
    <3>3. CASE ~(f.max # NoLimit /\ n > f.max[1])
      <4>1. ReadText(f, p) = Assigns(ReadString(buf, p + h, n), (p + h) + n)
        BY <1>8, <2>2, <3>1, <3>3, Zenon DEF ReadText
      <4>2. ReadString(buf, p + h, n) = WellFormed(value)
        BY <1>3, <1>5, <1>7, <2>3, Zenon
      <4>3. f.max # NoLimit => n <= f.max[1]
        BY <1>12, <3>3
      <4>4. Recovers(f, value, WellFormed(value))
        BY <1>3, <4>3, Zenon DEF Recovers, Carried, RightValue, IsString
      <4> QED
        BY <1>1, <1>7, <3>1, <4>1, <4>2, <4>4, Zenon DEF Reads, ReadsRight
    <3> QED
      BY <3>2, <3>3
  <2>4. CASE ~((p + h) + n <= Len(buf))
    <3>1. n > Len(buf) - (p + h)
      BY <1>7, <2>4
    <3>2. ReadText(f, p) = Throws
      BY <1>8, <1>9, <2>1, <3>1, Zenon
    <3> QED
      BY <1>1, <1>7, <2>4, <3>2, Zenon DEF Reads, ReadsPast
  <2> QED
    BY <2>3, <2>4
<1>11. CASE ~(p + h <= Len(buf))
  <2>1. p + h > Len(buf) /\ ~((p + h) + n <= Len(buf))
    BY <1>7, <1>11
  <2>2. ASSUME CountAt(p, 3) = Throws PROVE ReadText(f, p) = Throws
    <3>1. ~CountAt(p, 3).ok
      BY <2>2, Outcomes, Zenon
    <3> QED
      BY <3>1, Zenon DEF ReadText
  <2>3. ASSUME NEW v, NEW q, CountAt(p, 3) = Assigns(v, q), BeyondEnd(q), v = Undefined \/ v \in Nat
        PROVE  ReadText(f, p) = Throws \/ \E x : ReadText(f, p) = Assigns(x, Lost)
    <3>1. CASE v = Undefined
      <4>1. CountAt(p, 3).ok /\ CountAt(p, 3).value = Undefined
        BY <2>3, <3>1, OutcomeOf, ZenonT(30)
      <4>2. ReadText(f, p) = Assigns(<<>>, Lost)
        BY <4>1, Zenon DEF ReadText
      <4> QED
        BY <4>2, Zenon
    <3>2. CASE v # Undefined
      <4>1. v > Len(buf) - q
        BY <1>7, <2>3, <3>2 DEF BeyondEnd
      <4> QED
        BY <1>9, <2>3, <3>2, <4>1, Zenon
    <3> QED
      BY <3>1, <3>2
  <2>4. ReadsPast(f, p)
    BY <1>1, <1>6, <2>1, <2>2, <2>3, Zenon DEF ReadsPast, CountLost
  <2> QED
    BY <1>7, <2>1, <2>4, Zenon DEF Reads
<1> QED
  BY <1>10, <1>11

-----------------------------------------------------------------------------
(* Reading what was written: text *)

ReadStep(b, end, f, k) ==
    IF k > end THEN <<>>
    ELSE CASE b[k] < FirstCode(2) -> <<b[k]>> \o f[k + 1]
           [] b[k] >= FirstCode(2) /\ b[k] < Mark(2) -> f[k + 1]
           [] b[k] >= Mark(2) /\ b[k] < Mark(3) -> <<TwoBytes(b, k)>> \o f[k + 2]
           [] b[k] >= Mark(3) /\ b[k] < Mark(4) -> <<ThreeBytes(b, k)>> \o f[k + 3]
           [] OTHER -> Surrogates(FourBytes(b, k)) \o f[k + 4]

IsRead(b, end, f) == f = [k \in Nat |-> ReadStep(b, end, f, k)]

LEMMA ReadFunction ==
  ASSUME NEW b, NEW start \in Nat, NEW length \in Nat, NEW end \in Nat, end = start + length
  PROVE  \E f : IsRead(b, end, f) /\ ReadString(b, start, length) = f[start + 1]
<1> DEFINE From(n) == {i \in Nat : i >= n}
           S == {n \in Nat : \E f : f = [i \in From(n) |-> ReadStep(b, end, f, i)]}
           N == end + 1
<1>1. N \in Nat /\ N \in S
  <2> DEFINE f == [i \in From(N) |-> <<>>]
  <2>1. \A i \in From(N) : ReadStep(b, end, f, i) = <<>>
    <3> HIDE DEF f
    <3> QED
      BY DEF ReadStep
  <2>2. \A g : (\A i \in From(N) : ReadStep(b, end, g, i) = <<>>)
               => [i \in From(N) |-> ReadStep(b, end, g, i)] = [i \in From(N) |-> <<>>]
    OBVIOUS
  <2>3. f = [i \in From(N) |-> ReadStep(b, end, f, i)]
    BY <2>1, <2>2
  <2> HIDE DEF f
  <2>4. \E h : h = [i \in From(N) |-> ReadStep(b, end, h, i)]
    BY <2>3
  <2>5. N \in Nat
    OBVIOUS
  <2> QED
    BY <2>4, <2>5
<1>2. ASSUME NEW n \in Nat, n + 1 \in S PROVE n \in S
  <2>1. PICK f : f = [i \in From(n + 1) |-> ReadStep(b, end, f, i)]
    BY <1>2
  <2> DEFINE g == [i \in From(n) |-> IF i = n THEN ReadStep(b, end, f, n) ELSE f[i]]
  <2>2. \A i \in From(n) : g[i + 1] = f[i + 1] /\ g[i + 2] = f[i + 2]
                          /\ g[i + 3] = f[i + 3] /\ g[i + 4] = f[i + 4]
    OBVIOUS
  <2>3. \A i \in From(n) : g[i] = ReadStep(b, end, g, i)
    <3> TAKE i \in From(n)
    <3>1. ReadStep(b, end, g, i) = ReadStep(b, end, f, i)
      <4> HIDE DEF g
      <4> QED
        BY <2>2 DEF ReadStep
    <3>2. g[i] = ReadStep(b, end, f, i)
      <4>1. CASE i = n
        BY <4>1
      <4>2. CASE i # n
        <5>1. i \in From(n + 1) /\ g[i] = f[i]
          BY <4>2
        <5>2. f[i] = ReadStep(b, end, f, i)
          BY <2>1, <5>1
        <5> QED
          BY <5>1, <5>2
      <4> QED
        BY <4>1, <4>2
    <3> QED
      BY <3>1, <3>2
  <2>4. g = [i \in From(n) |-> g[i]]
    OBVIOUS
  <2> HIDE DEF g
  <2>5. g = [i \in From(n) |-> ReadStep(b, end, g, i)]
    BY <2>3, <2>4
  <2> QED
    BY <2>5
<1> HIDE DEF S
<1>3. 0 \in S
  <2>1. \A n \in 0..N : n \in S
    BY <1>1, <1>2, Downwards, Zenon
  <2> QED
    BY <1>1, <2>1
<1>4. PICK f : f = [i \in Nat |-> ReadStep(b, end, f, i)]
  <2>1. From(0) = Nat
    OBVIOUS
  <2> QED
    BY <1>3, <2>1 DEF S
<1> DEFINE p == CHOOSE h : h = [i \in Nat |-> ReadStep(b, end, h, i)]
<1>5. ReadString(b, start, length) = p[start + 1]
  BY Zenon DEF ReadString, ReadStep
<1>6. p = [i \in Nat |-> ReadStep(b, end, p, i)]
  BY <1>4
<1> HIDE DEF p
<1> QED
  BY <1>5, <1>6, Zenon DEF IsRead

\* A character of two, three or four bytes, put together.
LowBits(y) == y % 64
Two(x, y) == (x % 32) * 64 + LowBits(y)
Three(x, y, z) == (x % 16) * 4096 + LowBits(y) * 64 + LowBits(z)
Four(x, y, z, u) == (x % 8) * 262144 + LowBits(y) * 4096 + LowBits(z) * 64 + LowBits(u)

LEMMA BytesTogether ==
  ASSUME NEW b \in Seq(Nat), NEW k \in Nat
  PROVE  /\ k + 1 <= Len(b) => TwoBytes(b, k) = Two(b[k], b[k + 1])
         /\ k + 2 <= Len(b) => ThreeBytes(b, k) = Three(b[k], b[k + 1], b[k + 2])
         /\ k + 3 <= Len(b) => FourBytes(b, k) = Four(b[k], b[k + 1], b[k + 2], b[k + 3])
<1>1. \A j : j <= Len(b) => Low(b, j) = LowBits(b[j])
  BY Zenon DEF Low, LowBits
<1>2. /\ k + 2 <= Len(b) => k + 1 <= Len(b)
      /\ k + 3 <= Len(b) => k + 1 <= Len(b) /\ k + 2 <= Len(b)
  OBVIOUS
<1>3. TwoBytes(b, k) = (b[k] % 32) * 64 + Low(b, k + 1)
  BY SMT DEF TwoBytes
<1>4. ThreeBytes(b, k) = (b[k] % 16) * 4096 + Low(b, k + 1) * 64 + Low(b, k + 2)
  BY SMT DEF ThreeBytes
<1>5. FourBytes(b, k) = (b[k] % 8) * 262144 + Low(b, k + 1) * 4096 + Low(b, k + 2) * 64 + Low(b, k + 3)
  BY SMT DEF FourBytes
<1> QED
  BY <1>1, <1>2, <1>3, <1>4, <1>5, SMT DEF Two, Three, Four

LastCode == 1114111

\* The bits of a character, taken apart and put together.
LEMMA Bits ==
  ASSUME NEW c \in Nat
  PROVE  /\ c >= FirstCode(2) /\ c < FirstCode(3) =>
               LET x == Mark(2) + Shift(c, 1)
               IN  x \in Nat /\ x >= Mark(2) /\ x < Mark(3) /\ Two(x, Continuation(c, 0)) = c
         /\ c >= FirstCode(3) /\ c < FirstCode(4) =>
               LET x == Mark(3) + Shift(c, 2)
               IN  x \in Nat /\ x >= Mark(3) /\ x < Mark(4) /\ Three(x, Continuation(c, 1), Continuation(c, 0)) = c
         /\ c >= FirstCode(4) /\ c <= LastCode =>
               LET x == Mark(4) + Shift(c, 3)
               IN  x \in Nat /\ x >= Mark(4) /\ Four(x, Continuation(c, 2), Continuation(c, 1), Continuation(c, 0)) = c
<1>1. ASSUME c >= FirstCode(2), c < FirstCode(3)
      PROVE  LET x == Mark(2) + Shift(c, 1)
             IN  x \in Nat /\ x >= Mark(2) /\ x < Mark(3) /\ Two(x, Continuation(c, 0)) = c
  <2>1. c >= 128 /\ c < 2048
    BY <1>1, SMT DEF FirstCode
  <2>2. Mark(2) + Shift(c, 1) = 192 + (c \div 64) /\ Mark(2) = 192 /\ Mark(3) = 224
    BY SMT DEF Mark, Shift
  <2>3. Continuation(c, 0) = 128 + (c % 64)
    BY SMT DEF Continuation, Shift
  <2>4. /\ 192 + (c \div 64) \in Nat /\ 192 + (c \div 64) >= 192 /\ 192 + (c \div 64) < 224
        /\ ((192 + (c \div 64)) % 32) * 64 + ((128 + (c % 64)) % 64) = c
    BY <2>1, SMT
  <2>5. Two(192 + (c \div 64), 128 + (c % 64)) = c
    BY <2>4, SMT DEF Two, LowBits
  <2> QED
    BY <2>2, <2>3, <2>4, <2>5, SMT
<1>2. ASSUME c >= FirstCode(3), c < FirstCode(4)
      PROVE  LET x == Mark(3) + Shift(c, 2)
             IN  x \in Nat /\ x >= Mark(3) /\ x < Mark(4) /\ Three(x, Continuation(c, 1), Continuation(c, 0)) = c
  <2>1. c >= 2048 /\ c < 65536
    BY <1>2, SMT DEF FirstCode
  <2>2. Mark(3) + Shift(c, 2) = 224 + (c \div 4096) /\ Mark(3) = 224 /\ Mark(4) = 240
    BY SMT DEF Mark, Shift
  <2>3. Continuation(c, 0) = 128 + (c % 64) /\ Continuation(c, 1) = 128 + ((c \div 64) % 64)
    BY SMT DEF Continuation, Shift
  <2>4. /\ 224 + (c \div 4096) \in Nat /\ 224 + (c \div 4096) >= 224 /\ 224 + (c \div 4096) < 240
        /\ ((224 + (c \div 4096)) % 16) * 4096 + ((128 + ((c \div 64) % 64)) % 64) * 64
              + ((128 + (c % 64)) % 64) = c
    BY <2>1, SMT
  <2>5. Three(224 + (c \div 4096), 128 + ((c \div 64) % 64), 128 + (c % 64)) = c
    BY <2>4, SMT DEF Three, LowBits
  <2> QED
    BY <2>2, <2>3, <2>4, <2>5, SMT
<1>3. ASSUME c >= FirstCode(4), c <= LastCode
      PROVE  LET x == Mark(4) + Shift(c, 3)
             IN  x \in Nat /\ x >= Mark(4) /\ Four(x, Continuation(c, 2), Continuation(c, 1), Continuation(c, 0)) = c
  <2>1. c >= 65536 /\ c < 1114112
    BY <1>3, SMT DEF FirstCode, LastCode
  <2>2. Mark(4) + Shift(c, 3) = 240 + (c \div 262144) /\ Mark(4) = 240
    BY SMT DEF Mark, Shift
  <2>3. /\ Continuation(c, 0) = 128 + (c % 64) /\ Continuation(c, 1) = 128 + ((c \div 64) % 64)
        /\ Continuation(c, 2) = 128 + ((c \div 4096) % 64)
    BY SMT DEF Continuation, Shift
  <2>4. /\ 240 + (c \div 262144) \in Nat /\ 240 + (c \div 262144) >= 240
        /\ ((240 + (c \div 262144)) % 8) * 262144 + ((128 + ((c \div 4096) % 64)) % 64) * 4096
              + ((128 + ((c \div 64) % 64)) % 64) * 64 + ((128 + (c % 64)) % 64) = c
    BY <2>1, SMT
  <2>5. Four(240 + (c \div 262144), 128 + ((c \div 4096) % 64), 128 + ((c \div 64) % 64), 128 + (c % 64)) = c
    BY <2>4, SMT DEF Four, LowBits
  <2> QED
    BY <2>2, <2>3, <2>4, <2>5, SMT
<1> QED
  BY <1>1, <1>2, <1>3, SMT

LEMMA MarksGrow ==
  \A x \in Nat : /\ x >= Mark(2) => ~(x < FirstCode(2)) /\ ~(x < Mark(2))
                 /\ x >= Mark(3) => ~(x < FirstCode(2)) /\ ~(x < Mark(2)) /\ ~(x < Mark(3))
                 /\ x >= Mark(4) => ~(x < FirstCode(2)) /\ ~(x < Mark(2)) /\ ~(x < Mark(3)) /\ ~(x < Mark(4))
                 /\ x < FirstCode(2) => ~(x >= FirstCode(2)) /\ ~(x >= Mark(2)) /\ ~(x >= Mark(3)) /\ x < FirstCode(4)
                 /\ x < Mark(3) => ~(x >= Mark(3))
                 /\ x < FirstCode(3) => x < FirstCode(4)
                 /\ x >= FirstCode(4) => ~(x < FirstCode(4))
  BY Widths, SMT

\* The code units of a character.
UnitsOf(c) == IF c < FirstCode(4) THEN <<c>> ELSE Surrogates(c)

\* What the loop of _readString does at the first byte of a character.
Taken(f, k, c) == f[k] = UnitsOf(c) \o f[k + Len(Utf8Bytes(c))]

LEMMA ReadsCharacter ==
  ASSUME NEW b \in Seq(Nat), NEW end \in Nat, NEW f, IsRead(b, end, f), NEW p \in Nat,
         NEW c \in Nat, c <= LastCode, Holds(b, p, Utf8Bytes(c)),
         p + Len(Utf8Bytes(c)) <= end, end <= Len(b)
  PROVE  Taken(f, p + 1, c)
<1>1. Len(b) \in Nat /\ p + 1 \in Nat
  OBVIOUS
<1>2. f[p + 1] = ReadStep(b, end, f, p + 1)
  BY <1>1, Zenon DEF IsRead
<1>3. \A i \in 1..Len(Utf8Bytes(c)) : p + i <= Len(b) => b[p + i] = Utf8Bytes(c)[i]
  BY Zenon DEF Holds
<1>4. CASE c < FirstCode(2)
  <2>1. Utf8Bytes(c) = <<c>>
    BY <1>4, BytesOfCharacter, Zenon
  <2>2. Len(<<c>>) = 1 /\ <<c>>[1] = c
    OBVIOUS
  <2>3. ~(p + 1 > end) /\ p + 1 <= Len(b)
    BY <1>1, <2>1, <2>2, SMT
  <2>4. b[p + 1] = c
    BY <1>3, <2>1, <2>2, <2>3, SMT
  <2>5. ~(c >= FirstCode(2)) /\ ~(c >= Mark(2)) /\ ~(c >= Mark(3)) /\ c < FirstCode(4)
    BY <1>4, MarksGrow, Zenon
  <2>6. f[p + 1] = <<c>> \o f[(p + 1) + 1]
    BY <1>2, <1>4, <2>3, <2>4, <2>5, Zenon DEF ReadStep
  <2>7. Len(Utf8Bytes(c)) = 1
    BY <2>1, <2>2, Zenon
  <2> QED
    BY <2>5, <2>6, <2>7, Zenon DEF Taken, UnitsOf
<1>5. CASE c >= FirstCode(2) /\ c < FirstCode(3)
  <2>1. Utf8Bytes(c) = <<Mark(2) + Shift(c, 1), Continuation(c, 0)>>
    BY <1>5, BytesOfCharacter, Zenon
  <2>2. PICK x, y : x = Mark(2) + Shift(c, 1) /\ y = Continuation(c, 0)
    BY Zenon
  <2>3. Utf8Bytes(c) = <<x, y>> /\ x \in Nat /\ x >= Mark(2) /\ x < Mark(3) /\ Two(x, y) = c
    BY <1>5, <2>1, <2>2, Bits, Zenon
  <2>4. Len(<<x, y>>) = 2 /\ <<x, y>>[1] = x /\ <<x, y>>[2] = y
    OBVIOUS
  <2>5. Len(Utf8Bytes(c)) = 2 /\ Utf8Bytes(c)[1] = x /\ Utf8Bytes(c)[2] = y
    BY <2>3, <2>4, Zenon
  <2>6. /\ ~(p + 1 > end) /\ (p + 1) + 1 <= Len(b)
        /\ p + 1 <= Len(b) /\ p + 2 <= Len(b)
        /\ (p + 1) + 1 = p + 2
    BY <1>1, <2>5, SMT
  <2>7. 1 \in 1..2 /\ 2 \in 1..2
    BY SMT
  <2>8. b[p + 1] = x /\ b[p + 2] = y
    BY <1>3, <2>5, <2>6, <2>7, Zenon
  <2>9. TwoBytes(b, p + 1) = c
    BY <1>1, <2>3, <2>6, <2>8, BytesTogether, Zenon
  <2>10. ~(x < FirstCode(2)) /\ ~(x < Mark(2)) /\ ~(x >= Mark(3)) /\ c < FirstCode(4)
    BY <1>5, <2>3, MarksGrow, Zenon
  <2>11. f[p + 1] = <<c>> \o f[(p + 1) + 2]
    BY <1>2, <2>3, <2>6, <2>8, <2>9, <2>10, Zenon DEF ReadStep
  <2> QED
    BY <2>5, <2>10, <2>11, Zenon DEF Taken, UnitsOf
<1>6. CASE c >= FirstCode(3) /\ c < FirstCode(4)
  <2>1. Utf8Bytes(c) = <<Mark(3) + Shift(c, 2), Continuation(c, 1), Continuation(c, 0)>>
    BY <1>6, BytesOfCharacter, Zenon
  <2>2. PICK x, y, z : x = Mark(3) + Shift(c, 2) /\ y = Continuation(c, 1) /\ z = Continuation(c, 0)
    BY Zenon
  <2>3. Utf8Bytes(c) = <<x, y, z>> /\ x \in Nat /\ x >= Mark(3) /\ x < Mark(4) /\ Three(x, y, z) = c
    BY <1>6, <2>1, <2>2, Bits, Zenon
  <2>4. Len(<<x, y, z>>) = 3 /\ <<x, y, z>>[1] = x /\ <<x, y, z>>[2] = y /\ <<x, y, z>>[3] = z
    OBVIOUS
  <2>5. Len(Utf8Bytes(c)) = 3 /\ Utf8Bytes(c)[1] = x /\ Utf8Bytes(c)[2] = y /\ Utf8Bytes(c)[3] = z
    BY <2>3, <2>4, Zenon
  <2>6. /\ ~(p + 1 > end) /\ (p + 1) + 2 <= Len(b)
        /\ p + 1 <= Len(b) /\ p + 2 <= Len(b) /\ p + 3 <= Len(b)
        /\ (p + 1) + 1 = p + 2 /\ (p + 1) + 2 = p + 3
    BY <1>1, <2>5, SMT
  <2>7. 1 \in 1..3 /\ 2 \in 1..3 /\ 3 \in 1..3
    BY SMT
  <2>8. b[p + 1] = x /\ b[p + 2] = y /\ b[p + 3] = z
    BY <1>3, <2>5, <2>6, <2>7, Zenon
  <2>9. ThreeBytes(b, p + 1) = c
    BY <1>1, <2>3, <2>6, <2>8, BytesTogether, Zenon
  <2>10. ~(x < FirstCode(2)) /\ ~(x < Mark(2)) /\ ~(x < Mark(3)) /\ c < FirstCode(4)
    BY <1>6, <2>3, MarksGrow, Zenon
  <2>11. f[p + 1] = <<c>> \o f[(p + 1) + 3]
    BY <1>2, <2>3, <2>6, <2>8, <2>9, <2>10, Zenon DEF ReadStep
  <2> QED
    BY <2>5, <2>10, <2>11, Zenon DEF Taken, UnitsOf
<1>7. CASE c >= FirstCode(4)
  <2>1. Utf8Bytes(c) = <<Mark(4) + Shift(c, 3), Continuation(c, 2), Continuation(c, 1), Continuation(c, 0)>>
    BY <1>7, BytesOfCharacter, Zenon
  <2>2. PICK x, y, z, u : x = Mark(4) + Shift(c, 3) /\ y = Continuation(c, 2) /\ z = Continuation(c, 1) /\ u = Continuation(c, 0)
    BY Zenon
  <2>3. Utf8Bytes(c) = <<x, y, z, u>> /\ x \in Nat /\ x >= Mark(4) /\ Four(x, y, z, u) = c
    BY <1>7, <2>1, <2>2, Bits, Zenon
  <2>4. Len(<<x, y, z, u>>) = 4 /\ <<x, y, z, u>>[1] = x /\ <<x, y, z, u>>[2] = y /\ <<x, y, z, u>>[3] = z /\ <<x, y, z, u>>[4] = u
    OBVIOUS
  <2>5. Len(Utf8Bytes(c)) = 4 /\ Utf8Bytes(c)[1] = x /\ Utf8Bytes(c)[2] = y /\ Utf8Bytes(c)[3] = z /\ Utf8Bytes(c)[4] = u
    BY <2>3, <2>4, Zenon
  <2>6. /\ ~(p + 1 > end) /\ (p + 1) + 3 <= Len(b)
        /\ p + 1 <= Len(b) /\ p + 2 <= Len(b) /\ p + 3 <= Len(b) /\ p + 4 <= Len(b)
        /\ (p + 1) + 1 = p + 2 /\ (p + 1) + 2 = p + 3 /\ (p + 1) + 3 = p + 4
    BY <1>1, <2>5, SMT
  <2>7. 1 \in 1..4 /\ 2 \in 1..4 /\ 3 \in 1..4 /\ 4 \in 1..4
    BY SMT
  <2>8. b[p + 1] = x /\ b[p + 2] = y /\ b[p + 3] = z /\ b[p + 4] = u
    BY <1>3, <2>5, <2>6, <2>7, Zenon
  <2>9. FourBytes(b, p + 1) = c
    BY <1>1, <2>3, <2>6, <2>8, BytesTogether, Zenon
  <2>10. ~(x < FirstCode(2)) /\ ~(x < Mark(2)) /\ ~(x < Mark(3)) /\ ~(x < Mark(4)) /\ ~(c < FirstCode(4))
    BY <1>7, <2>3, MarksGrow, Zenon
  <2>11. f[p + 1] = Surrogates(c) \o f[(p + 1) + 4]
    BY <1>2, <2>3, <2>6, <2>8, <2>9, <2>10, Zenon DEF ReadStep
  <2> QED
    BY <2>5, <2>10, <2>11, Zenon DEF Taken, UnitsOf
<1> QED
  BY <1>4, <1>5, <1>6, <1>7, Widths

\* What is left of a text from a unit on.
Rest(s, n) == [j \in 1..(Len(s) - n + 1) |-> s[n + j - 1]]

LEMMA RestTypes ==
  ASSUME NEW s \in Seq(Nat), NEW n \in 1..(Len(s) + 1)
  PROVE  /\ Rest(s, n) \in Seq(Nat) /\ Len(Rest(s, n)) = Len(s) - n + 1
         /\ \A j \in 1..(Len(s) - n + 1) : Rest(s, n)[j] = s[n + j - 1]
<1> DEFINE m == Len(s) - n + 1
<1>1. m \in Nat /\ m = Len(s) - n + 1
  OBVIOUS
<1>2. \A j \in 1..m : s[n + j - 1] \in Nat
  <2> TAKE j \in 1..m
  <2>1. n + j - 1 \in 1..Len(s)
    BY <1>1
  <2> QED
    BY <2>1
<1>3. Rest(s, n) = [j \in 1..m |-> s[n + j - 1]]
  BY DEF Rest
<1> HIDE DEF m
<1>4. [j \in 1..m |-> s[n + j - 1]] \in Seq(Nat) /\ Len([j \in 1..m |-> s[n + j - 1]]) = m
  BY <1>1, <1>2
<1> QED
  BY <1>1, <1>3, <1>4

LEMMA SameText ==
  ASSUME NEW s \in Seq(Nat), NEW t \in Seq(Nat), Len(s) = Len(t), \A j \in 1..Len(s) : s[j] = t[j]
  PROVE  s = t
  OBVIOUS

LEMMA RestEnds ==
  ASSUME NEW s \in Seq(Nat)
  PROVE  Rest(s, 1) = s /\ Rest(s, Len(s) + 1) = <<>>
<1>1. /\ 1 \in 1..(Len(s) + 1) /\ Len(s) + 1 \in 1..(Len(s) + 1)
      /\ Len(s) - 1 + 1 = Len(s) /\ Len(s) - (Len(s) + 1) + 1 = 0
  OBVIOUS
<1>2. Rest(s, 1) \in Seq(Nat) /\ Len(Rest(s, 1)) = Len(s) /\ \A j \in 1..Len(s) : Rest(s, 1)[j] = s[1 + j - 1]
  BY <1>1, RestTypes
<1>3. \A j \in 1..Len(s) : Rest(s, 1)[j] = s[j]
  BY <1>2
<1>4. Rest(s, Len(s) + 1) \in Seq(Nat) /\ Len(Rest(s, Len(s) + 1)) = 0
  BY <1>1, RestTypes
<1>5. Rest(s, 1) = s
  BY <1>2, <1>3, SameText
<1>6. Rest(s, Len(s) + 1) = <<>>
  BY <1>4
<1> QED
  BY <1>5, <1>6

LEMMA RestStep ==
  ASSUME NEW s \in Seq(Nat), NEW n \in 1..Len(s)
  PROVE  Rest(s, n) = <<s[n]>> \o Rest(s, n + 1)
<1>1. n \in 1..(Len(s) + 1) /\ n + 1 \in 1..(Len(s) + 1) /\ s[n] \in Nat /\ Len(s) \in Nat
  OBVIOUS
<1>2. PICK t \in Seq(Nat) : t = Rest(s, n) /\ Len(t) = Len(s) - n + 1
                            /\ \A j \in 1..(Len(s) - n + 1) : t[j] = s[n + j - 1]
  BY <1>1, RestTypes
<1>3. PICK u \in Seq(Nat) : u = Rest(s, n + 1) /\ Len(u) = Len(s) - (n + 1) + 1
                            /\ \A j \in 1..(Len(s) - (n + 1) + 1) : u[j] = s[(n + 1) + j - 1]
  BY <1>1, RestTypes
<1>4. /\ <<s[n]>> \o u \in Seq(Nat) /\ Len(<<s[n]>> \o u) = 1 + Len(u)
      /\ (<<s[n]>> \o u)[1] = s[n]
      /\ \A j \in 1..Len(u) : (<<s[n]>> \o u)[1 + j] = u[j]
  BY <1>1, HeadAndBytes
<1>5. Len(t) = 1 + Len(u) /\ Len(u) = Len(s) - n
  <2>1. Len(s) - (n + 1) + 1 = Len(s) - n /\ Len(s) - n + 1 = 1 + (Len(s) - n)
    BY <1>1
  <2> QED
    BY <1>2, <1>3, <2>1, Zenon
<1>6. ASSUME NEW j \in 1..Len(t) PROVE t[j] = (<<s[n]>> \o u)[j]
  <2>1. CASE j = 1
    <3>1. t[1] = s[n + 1 - 1] /\ n + 1 - 1 = n
      BY <1>1, <1>2
    <3> QED
      BY <1>4, <2>1, <3>1
  <2>2. CASE j # 1
    <3>1. PICK i \in 1..Len(u) : j = 1 + i
      <4>1. j - 1 \in 1..Len(u) /\ j = 1 + (j - 1)
        BY <1>5, <2>2
      <4> QED
        BY <4>1
    <3>2. t[j] = s[n + j - 1]
      BY <1>2
    <3>3. u[i] = s[(n + 1) + i - 1]
      BY <1>3, <1>5
    <3>4. n + j - 1 = (n + 1) + i - 1
      BY <3>1
    <3> QED
      BY <1>4, <3>1, <3>2, <3>3, <3>4
  <2> QED
    BY <2>1, <2>2
<1>7. t = <<s[n]>> \o u
  <2>1. PICK w \in Seq(Nat) : w = <<s[n]>> \o u
    BY <1>4, Zenon
  <2>2. Len(w) = Len(t)
    BY <1>4, <1>5, <2>1, Zenon
  <2>3. \A j \in 1..Len(t) : t[j] = w[j]
    BY <1>6, <2>1, Zenon
  <2> QED
    BY <2>1, <2>2, <2>3, SameText, Zenon
<1> QED
  BY <1>2, <1>3, <1>7

LEMMA TwoUnits ==
  ASSUME NEW x \in Nat, NEW y \in Nat, NEW t \in Seq(Nat)
  PROVE  <<x>> \o (<<y>> \o t) = <<x, y>> \o t
<1>1. PICK a \in Seq(Nat) : /\ a = <<y>> \o t /\ Len(a) = 1 + Len(t) /\ Len(t) \in Nat
                            /\ a[1] = y /\ \A j \in 1..Len(t) : a[1 + j] = t[j]
  BY HeadAndBytes
<1>2. PICK b \in Seq(Nat) : /\ b = <<x>> \o a /\ Len(b) = 1 + Len(a)
                            /\ b[1] = x /\ \A j \in 1..Len(a) : b[1 + j] = a[j]
  BY HeadAndBytes
<1>3. <<x, y>> \in Seq(Nat) /\ Len(<<x, y>>) = 2 /\ <<x, y>>[1] = x /\ <<x, y>>[2] = y
  OBVIOUS
<1>4. PICK d \in Seq(Nat) : /\ d = <<x, y>> \o t /\ Len(d) = 2 + Len(t)
                            /\ d[1] = x /\ d[2] = y /\ \A j \in 1..Len(t) : d[2 + j] = t[j]
  <2>1. /\ <<x, y>> \o t \in Seq(Nat) /\ Len(<<x, y>> \o t) = Len(<<x, y>>) + Len(t)
        /\ \A j \in 1..Len(<<x, y>>) : (<<x, y>> \o t)[j] = <<x, y>>[j]
        /\ \A j \in 1..Len(t) : (<<x, y>> \o t)[Len(<<x, y>>) + j] = t[j]
    BY <1>3, Joined, Zenon
  <2>2. 1 \in 1..Len(<<x, y>>) /\ 2 \in 1..Len(<<x, y>>)
    BY <1>3
  <2> QED
    BY <1>3, <2>1, <2>2, Zenon
<1>5. Len(b) = Len(d)
  BY <1>1, <1>2, <1>4
<1>6. ASSUME NEW j \in 1..Len(b) PROVE b[j] = d[j]
  <2>1. CASE j = 1
    BY <1>2, <1>4, <2>1
  <2>2. CASE j = 2
    <3>1. 1 \in 1..Len(a) /\ 1 + 1 = 2
      BY <1>1
    <3> QED
      BY <1>1, <1>2, <1>4, <2>2, <3>1
  <2>3. CASE j # 1 /\ j # 2
    <3>1. PICK i \in 1..Len(t) : j = 2 + i
      <4>1. j - 2 \in 1..Len(t) /\ j = 2 + (j - 2)
        BY <1>1, <1>2, <2>3
      <4> QED
        BY <4>1
    <3>2. 1 + i \in 1..Len(a) /\ 2 + i = 1 + (1 + i)
      BY <1>1, <3>1
    <3>3. b[1 + (1 + i)] = a[1 + i] /\ a[1 + i] = t[i] /\ d[2 + i] = t[i]
      BY <1>1, <1>2, <1>4, <3>2
    <3> QED
      BY <3>1, <3>2, <3>3
  <2> QED
    BY <2>1, <2>2, <2>3
<1>7. b = d
  BY <1>5, <1>6, SameText, Zenon
<1> QED
  BY <1>1, <1>2, <1>4, <1>7, Zenon

\* The second unit of a pair.
Second(str, n) == n > 1 /\ Paired(str, n - 1)

LEMMA SurrogateRanges ==
  /\ \A c \in Nat : LowSurrogate(c) => ~HighSurrogate(c)
  /\ \A h, k \in Nat : HighSurrogate(h) /\ LowSurrogate(k) =>
        CodePoint(h, k) <= LastCode /\ Surrogates(CodePoint(h, k)) = <<h, k>>
  /\ Replacement \in Nat /\ Replacement < FirstCode(4) /\ FirstCode(4) <= LastCode
<1>1. \A c \in Nat : LowSurrogate(c) => ~HighSurrogate(c)
  BY SMT DEF LowSurrogate, HighSurrogate
<1>2. ASSUME NEW h \in Nat, NEW k \in Nat, HighSurrogate(h), LowSurrogate(k)
      PROVE  CodePoint(h, k) <= LastCode /\ Surrogates(CodePoint(h, k)) = <<h, k>>
  <2>1. h >= 55296 /\ h < 56320 /\ k >= 56320 /\ k < 57344
    BY <1>2, SMT DEF LowSurrogate, HighSurrogate
  <2>2. PICK t \in Nat : t = (h % 1024) * 1024 + (k % 1024)
    <3>1. (h % 1024) * 1024 + (k % 1024) \in Nat
      BY SMT
    <3> QED
      BY <3>1, SMT
  <2>3. CodePoint(h, k) = 65536 + t
    BY <2>2, SMT DEF CodePoint, FirstCode
  <2>4. t <= 1048575 /\ 55296 + (t \div 1024) = h /\ 56320 + (t % 1024) = k
    BY <2>1, <2>2, SMT
  <2>5. Surrogates(65536 + t) = <<55296 + (t \div 1024), 56320 + (t % 1024)>>
    <3>1. (65536 + t) - FirstCode(4) = t
      BY SMT DEF FirstCode
    <3> QED
      BY <3>1, SMT DEF Surrogates
  <2> QED
    BY <2>3, <2>4, <2>5, SMT DEF LastCode
<1>3. Replacement \in Nat /\ Replacement < FirstCode(4) /\ FirstCode(4) <= LastCode
  BY SMT DEF Replacement, FirstCode, LastCode
<1> QED
  BY <1>1, <1>2, <1>3, Zenon

LEMMA WellFormedText ==
  ASSUME NEW str \in Seq(Units)
  PROVE  /\ WellFormed(str) \in Seq(Nat) /\ Len(WellFormed(str)) = Len(str)
         /\ \A i \in 1..Len(str) :
               /\ Paired(str, i) \/ Second(str, i) => WellFormed(str)[i] = str[i]
               /\ ~Paired(str, i) /\ ~Second(str, i) =>
                     WellFormed(str)[i] = IF HighSurrogate(str[i]) \/ LowSurrogate(str[i]) THEN Replacement ELSE str[i]
<1> DEFINE u(i) == IF Paired(str, i) \/ (i > 1 /\ Paired(str, i - 1)) THEN str[i]
                   ELSE IF HighSurrogate(str[i]) \/ LowSurrogate(str[i]) THEN Replacement
                   ELSE str[i]
<1>1. \A i \in 1..Len(str) : str[i] \in Nat
  BY CodeUnits
<1>2. DOMAIN str = 1..Len(str) /\ Len(str) \in Nat
  OBVIOUS
<1>3. \A i \in 1..Len(str) : u(i) \in Nat
  BY <1>1, SurrogateRanges, Zenon
<1>4. WellFormed(str) = [i \in 1..Len(str) |-> u(i)]
  BY <1>2, Zenon DEF WellFormed
<1>5. \A i \in 1..Len(str) : WellFormed(str)[i] = u(i)
  BY <1>4, Zenon
<1>6. WellFormed(str) \in Seq(Nat) /\ Len(WellFormed(str)) = Len(str)
  <2>1. PICK n \in Nat : n = Len(str)
    BY <1>2
  <2> HIDE DEF u
  <2>2. [i \in 1..n |-> u(i)] \in Seq(Nat) /\ Len([i \in 1..n |-> u(i)]) = n
    BY <1>3, <2>1
  <2> QED
    BY <1>4, <2>1, <2>2, Zenon
<1>7. \A i \in 1..Len(str) : /\ Paired(str, i) \/ Second(str, i) => u(i) = str[i]
                             /\ ~Paired(str, i) /\ ~Second(str, i) =>
                                   u(i) = IF HighSurrogate(str[i]) \/ LowSurrogate(str[i]) THEN Replacement ELSE str[i]
  BY Zenon DEF Second
<1> HIDE DEF u
<1> QED
  BY <1>5, <1>6, <1>7, Zenon

\* The code units of the character at a unit are those of the restored text.
LEMMA CharacterRestored ==
  ASSUME NEW str \in Seq(Units), NEW i \in 1..Len(str), ~Second(str, i),
         NEW c \in Nat, NEW k \in {1, 2}, Character(str, i, c, k)
  PROVE  /\ i + k \in 1..(Len(str) + 1) /\ ~Second(str, i + k) /\ c <= LastCode
         /\ Rest(WellFormed(str), i) = UnitsOf(c) \o Rest(WellFormed(str), i + k)
<1> DEFINE s == WellFormed(str)
<1>1. /\ s \in Seq(Nat) /\ Len(s) = Len(str)
      /\ \A j \in 1..Len(str) :
            /\ Paired(str, j) \/ Second(str, j) => s[j] = str[j]
            /\ ~Paired(str, j) /\ ~Second(str, j) =>
                  s[j] = IF HighSurrogate(str[j]) \/ LowSurrogate(str[j]) THEN Replacement ELSE str[j]
  BY WellFormedText, Zenon
<1> HIDE DEF s
<1>2. Len(str) \in Nat /\ i + 1 > 1 /\ (i + 1) - 1 = i /\ (i + 2) - 1 = i + 1 /\ (i + 1) + 1 = i + 2
      /\ i + 1 \in 1..(Len(str) + 1)
  OBVIOUS
<1>3. str[i] \in Nat /\ str[i] < FirstCode(4)
  BY CodeUnits
<1>4. CASE k = 2
  <2>1. Paired(str, i) /\ c = CodePoint(str[i], str[i + 1])
    <3>1. 2 # 1
      OBVIOUS
    <3> QED
      BY <1>4, <3>1, Zenon DEF Character
  <2>2. /\ i + 1 \in 1..Len(str) /\ str[i + 1] \in Nat
        /\ HighSurrogate(str[i]) /\ LowSurrogate(str[i + 1]) /\ c >= FirstCode(4)
    BY <2>1, CodeUnits, Zenon
  <2>3. c <= LastCode /\ Surrogates(c) = <<str[i], str[i + 1]>>
    BY <1>3, <2>1, <2>2, SurrogateRanges, Zenon
  <2>4. UnitsOf(c) = <<str[i], str[i + 1]>>
    <3>1. ~(c < FirstCode(4))
      BY <2>2, MarksGrow, Zenon
    <3> QED
      BY <2>3, <3>1, Zenon DEF UnitsOf
  <2>5. ~Second(str, i + 2)
    BY <1>2, <2>2, SurrogateRanges, Zenon DEF Second, Paired
  <2>6. s[i] = str[i] /\ s[i + 1] = str[i + 1]
    BY <1>1, <1>2, <2>1, <2>2, Zenon DEF Second
  <2>7. Rest(s, i) = <<s[i]>> \o Rest(s, i + 1) /\ Rest(s, i + 1) = <<s[i + 1]>> \o Rest(s, i + 2)
    <3>1. i \in 1..Len(s) /\ i + 1 \in 1..Len(s)
      BY <1>1, <2>2
    <3> QED
      BY <1>1, <1>2, <3>1, RestStep, Zenon
  <2>8. i + 2 \in 1..(Len(str) + 1)
    BY <1>2, <2>2
  <2>9. Rest(s, i + 2) \in Seq(Nat)
    BY <1>1, <2>8, RestTypes
  <2>10. <<str[i]>> \o (<<str[i + 1]>> \o Rest(s, i + 2)) = <<str[i], str[i + 1]>> \o Rest(s, i + 2)
    BY <1>3, <2>2, <2>9, TwoUnits, Zenon
  <2>11. Rest(s, i) = <<str[i], str[i + 1]>> \o Rest(s, i + 2)
    BY <2>6, <2>7, <2>10, Zenon
  <2> QED
    BY <1>4, <2>3, <2>4, <2>5, <2>8, <2>11, Zenon DEF s
<1>5. CASE k = 1
  <2>1. ~Paired(str, i) /\ c = IF HighSurrogate(str[i]) \/ LowSurrogate(str[i]) THEN Replacement ELSE str[i]
    <3>1. 1 # 2
      OBVIOUS
    <3> QED
      BY <1>5, <3>1, Zenon DEF Character
  <2>2. s[i] = c
    BY <1>1, <2>1, Zenon
  <2>3. c < FirstCode(4)
    BY <1>3, <2>1, SurrogateRanges, Zenon
  <2>4. c <= LastCode
    BY <2>3, SurrogateRanges, SMT DEF FirstCode, LastCode
  <2>5. UnitsOf(c) = <<c>>
    BY <2>3, Zenon DEF UnitsOf
  <2>6. ~Second(str, i + 1)
    BY <1>2, <2>1, Zenon DEF Second
  <2>7. Rest(s, i) = <<s[i]>> \o Rest(s, i + 1)
    <3>1. i \in 1..Len(s)
      BY <1>1
    <3> QED
      BY <1>1, <3>1, RestStep, Zenon
  <2> QED
    BY <1>2, <1>5, <2>2, <2>4, <2>5, <2>6, <2>7, Zenon DEF s
<1> QED
  BY <1>4, <1>5

\* A character of a text, and the loop of _readString over some bytes.
Reader(str, i, c, k, b, end, f) ==
    /\ str \in Seq(Units) /\ i \in 1..Len(str) /\ ~Second(str, i)
    /\ c \in Nat /\ k \in {1, 2} /\ Character(str, i, c, k)
    /\ b \in Seq(Nat) /\ end \in Nat /\ end <= Len(b) /\ IsRead(b, end, f)

Ending(b, end, s, p) == Holds(b, p, s) /\ p + Len(s) = end

\* Wherever the bytes v end the text, the loop makes r of them.
Makes(b, end, f, v, r) == \A q \in Nat : Holds(b, q, v) /\ q + Len(v) = end => f[q + 1] = r

\* One character of the text, with what follows it already read.
LEMMA TextStep ==
  ASSUME NEW str, NEW i, NEW c, NEW k, NEW b, NEW end, NEW f, Reader(str, i, c, k, b, end, f),
         NEW v \in Seq(Nat), NEW p \in Nat, Ending(b, end, Utf8Bytes(c) \o v, p),
         Makes(b, end, f, v, Rest(WellFormed(str), i + k))
  PROVE  f[p + 1] = Rest(WellFormed(str), i)
<1> USE DEF Reader, Ending
<1>1. PICK u \in Seq(Nat) : u = Utf8Bytes(c)
  BY BytesAreWhole, Zenon
<1>2. c <= LastCode /\ Rest(WellFormed(str), i) = UnitsOf(c) \o Rest(WellFormed(str), i + k)
  BY CharacterRestored, Zenon
<1>3. Holds(b, p, u) /\ Holds(b, p + Len(u), v)
  BY <1>1, HoldsParts, Zenon
<1>4. Len(u) \in Nat /\ Len(v) \in Nat /\ Len(u \o v) = Len(u) + Len(v)
  OBVIOUS
<1>5. /\ p + Len(u) \in Nat /\ p + Len(u) <= end /\ (p + Len(u)) + Len(v) = end
      /\ (p + 1) + Len(u) = (p + Len(u)) + 1
  <2>1. p + Len(u \o v) = end
    BY <1>1, Zenon
  <2> QED
    BY <1>4, <2>1
<1>6. Taken(f, p + 1, c)
  BY <1>1, <1>2, <1>3, <1>5, ReadsCharacter, Zenon
<1>7. f[p + 1] = UnitsOf(c) \o f[(p + Len(u)) + 1]
  BY <1>1, <1>5, <1>6, Zenon DEF Taken
<1>8. f[(p + Len(u)) + 1] = Rest(WellFormed(str), i + k)
  BY <1>3, <1>5, Zenon DEF Makes
<1> QED
  BY <1>2, <1>7, <1>8, Zenon

\* _readString makes of the bytes of _writeString the text without its
\* unpaired surrogates.
LEMMA TextRead ==
  ASSUME NEW str \in Seq(Units), NEW b \in Seq(Nat), NEW q \in Nat,
         Holds(b, q, WriteString(str)), q + Utf8ByteLength(str) <= Len(b)
  PROVE  ReadString(b, q, Utf8ByteLength(str)) = WellFormed(str)
<1>1. PICK w : IsWrite(str, w) /\ WriteString(str) = w[1]
  BY WriteFunction, Zenon DEF IsWrite
<1>2. PICK l : IsLength(str, l) /\ Utf8ByteLength(str) = l[1]
  BY LengthFunction, Zenon DEF IsLength
<1>3. \A i \in Nat : i > 0 => w[i] \in Seq(Nat) /\ l[i] \in Nat /\ Len(w[i]) = l[i]
  BY <1>1, <1>2, LoopsAgree
<1>4. w[1] \in Seq(Nat) /\ l[1] \in Nat /\ Len(w[1]) = l[1]
  <2>1. 1 \in Nat /\ 1 > 0
    OBVIOUS
  <2> QED
    BY <1>3, <2>1, Zenon
<1>5. PICK length \in Nat : length = Utf8ByteLength(str)
  BY <1>2, <1>4, Zenon
<1>6. PICK end \in Nat : end = q + length /\ end <= Len(b)
  BY <1>5
<1>7. PICK f : IsRead(b, end, f) /\ ReadString(b, q, length) = f[q + 1]
  BY <1>6, ReadFunction, Zenon
<1> DEFINE s == WellFormed(str)
           R(i) == \A p \in Nat : Holds(b, p, w[i]) /\ p + Len(w[i]) = end => f[p + 1] = Rest(s, i)
           N == Len(str)
           S == {n \in Nat : \A i \in Nat : i > n /\ i <= N + 1 /\ ~Second(str, i) => R(i)}
<1>8. s \in Seq(Nat) /\ Len(s) = N /\ N \in Nat
  <2>1. WellFormed(str) \in Seq(Nat) /\ Len(WellFormed(str)) = Len(str)
    BY WellFormedText, Zenon
  <2> QED
    BY <2>1
<1>9. R(N + 1)
  <2>1. w[N + 1] = <<>>
    <3>1. N + 1 \in Nat /\ N + 1 > N
      BY <1>8
    <3>2. w[N + 1] = WriteStep(str, w, N + 1)
      BY <1>1, <3>1, Zenon DEF IsWrite
    <3> QED
      BY <3>1, <3>2, Zenon DEF WriteStep
  <2>2. f[end + 1] = <<>>
    <3>1. end + 1 \in Nat /\ end + 1 > end
      OBVIOUS
    <3>2. f[end + 1] = ReadStep(b, end, f, end + 1)
      BY <1>7, <3>1, Zenon DEF IsRead
    <3> QED
      BY <3>1, <3>2, Zenon DEF ReadStep
  <2>3. Rest(s, N + 1) = <<>>
    BY <1>8, RestEnds, Zenon
  <2> HIDE DEF s
  <2> SUFFICES ASSUME NEW p \in Nat, p + Len(w[N + 1]) = end PROVE f[p + 1] = Rest(s, N + 1)
    BY Zenon
  <2>4. p = end
    BY <2>1
  <2> QED
    BY <2>2, <2>3, <2>4, Zenon
<1>10. N + 1 \in S /\ N + 1 \in Nat
  <2>1. N + 1 \in Nat /\ \A i \in Nat : ~(i > N + 1 /\ i <= N + 1)
    BY <1>8
  <2> HIDE DEF R
  <2> QED
    BY <2>1, Zenon
<1>11. ASSUME NEW n \in Nat, n + 1 \in S PROVE n \in S
  <2> SUFFICES ASSUME NEW i \in Nat, i > n, i <= N + 1, ~Second(str, i) PROVE R(i)
    BY Zenon
  <2>1. CASE i > n + 1
    <3> HIDE DEF R
    <3> QED
      BY <1>11, <2>1, Zenon
  <2>2. CASE i = N + 1
    <3> HIDE DEF R
    <3> QED
      BY <1>9, <2>2, Zenon
  <2>3. CASE i = n + 1 /\ i # N + 1
    <3>1. i \in 1..Len(str)
      BY <2>3
    <3>2. PICK c \in Nat, k \in {1, 2} : /\ w[i] = Utf8Bytes(c) \o w[i + k]
                                         /\ l[i] = Len(Utf8Bytes(c)) + l[i + k]
                                         /\ Character(str, i, c, k)
      <4>1. BothTake(str, l, w, i)
        BY <1>1, <1>2, <3>1, OneCharacter, Zenon
      <4> QED
        BY <4>1, Zenon DEF BothTake
    <3>3. i + k \in 1..(Len(str) + 1) /\ ~Second(str, i + k)
      BY <3>1, <3>2, CharacterRestored, Zenon
    <3>4. i + k \in Nat /\ i + k > n + 1 /\ i + k <= N + 1 /\ i + k > 0
      BY <2>3, <3>3
    <3>5. R(i + k)
      <4> HIDE DEF R
      <4> QED
        BY <1>11, <3>3, <3>4, Zenon
    <3>6. w[i + k] \in Seq(Nat)
      BY <1>3, <3>4, Zenon
    <3> SUFFICES ASSUME NEW p \in Nat, Holds(b, p, w[i]), p + Len(w[i]) = end PROVE f[p + 1] = Rest(s, i)
      BY Zenon
    <3>7. Holds(b, p, Utf8Bytes(c) \o w[i + k]) /\ p + Len(Utf8Bytes(c) \o w[i + k]) = end
      BY <3>2, Zenon
    <3>8. PICK v \in Seq(Nat) : v = w[i + k]
      BY <3>6, Zenon
    <3>9. Makes(b, end, f, v, Rest(WellFormed(str), i + k))
      BY <3>5, <3>8, Zenon DEF Makes
    <3>10. Holds(b, p, Utf8Bytes(c) \o v) /\ p + Len(Utf8Bytes(c) \o v) = end
      BY <3>7, <3>8, Zenon
    <3>11. ~Second(str, i) /\ Character(str, i, c, k) /\ end <= Len(b) /\ IsRead(b, end, f)
      BY <1>6, <1>7, <3>2, Zenon
    <3>12. f[p + 1] = Rest(WellFormed(str), i)
      <4>2. Reader(str, i, c, k, b, end, f)
        BY <3>1, <3>11, Zenon DEF Reader
      <4>4. Ending(b, end, Utf8Bytes(c) \o v, p)
        BY <3>10, Zenon DEF Ending
      <4>5. ASSUME Reader(str, i, c, k, b, end, f), Ending(b, end, Utf8Bytes(c) \o v, p),
                   Makes(b, end, f, v, Rest(WellFormed(str), i + k))
            PROVE  f[p + 1] = Rest(WellFormed(str), i)
        <5> HIDE DEF s, S, N
        <5> QED
          BY <4>5, TextStep
      <4> QED
        BY <3>9, <4>2, <4>4, <4>5, Zenon
    <3> QED
      BY <3>12, Zenon
  <2>4. i > n + 1 \/ i = N + 1 \/ (i = n + 1 /\ i # N + 1)
    BY <1>8
  <2> HIDE DEF R
  <2> QED
    BY <2>1, <2>2, <2>3, <2>4, Zenon
<1> HIDE DEF R
<1>12. 0 \in S
  <2> HIDE DEF S
  <2>1. 0 \in 0..(N + 1)
    BY <1>8
  <2> QED
    BY <1>10, <1>11, <2>1, Downwards, Zenon
<1>13. R(1)
  <2>1. 1 \in Nat /\ 1 > 0 /\ 1 <= N + 1 /\ ~(1 > 1)
    BY <1>8
  <2> QED
    BY <1>12, <2>1, Zenon DEF Second
<1>14. f[q + 1] = Rest(s, 1)
  <2>1. q + Len(w[1]) = end
    BY <1>2, <1>4, <1>5, <1>6, Zenon
  <2> QED
    BY <1>1, <1>13, <2>1, Zenon DEF R
<1>15. Rest(s, 1) = s
  BY <1>8, RestEnds, Zenon
<1> QED
  BY <1>5, <1>7, <1>14, <1>15, Zenon

-----------------------------------------------------------------------------
(* Reading what was written: properties *)

\* A value of any type, read at the place where it was written.
LEMMA ReadsValue ==
  ASSUME buf \in Seq(Nat), NEW p \in Nat, NEW f \in Fields, Typed(f), NEW value, IsValue(f, value),
         ~NotWritable(f, value), Holds(buf, p, ValueBytes(f, value))
  PROVE  Reads(f, value, p)
<1>1. IsBoolean(f) \/ IsNumber(f) \/ IsString(f) \/ IsArray(f) \/ IsOther(f)
  BY FieldTypes
<1>2. ~f.computed /\ ~IsOther(f)
  <2>1. IsOther(f) => f.ann = "other"
    BY DEF IsOther, Fields, Annotated
  <2> QED
    BY <2>1 DEF Typed
<1>3. CASE IsBoolean(f)
  BY <1>3, ReadsBoolean, Zenon
<1>4. CASE IsNumber(f)
  BY <1>2, <1>4, ReadsNumberField, Zenon
<1>5. CASE IsArray(f)
  BY <1>5, ReadsArrayField, Zenon
<1>6. CASE IsString(f)
  <2>1. value \in Seq(Units)
    BY <1>6, StringValue
  <2>2. \A q \in Nat : /\ Holds(buf, q, WriteString(value))
                       /\ q + Utf8ByteLength(value) <= Len(buf)
                       => ReadString(buf, q, Utf8ByteLength(value)) = WellFormed(value)
    BY <2>1, TextRead, Zenon
  <2> QED
    BY <1>6, <2>2, ReadsTextField, Zenon
<1> QED
  BY <1>1, <1>2, <1>3, <1>4, <1>5, <1>6, Zenon

\* Nothing is read where there is no byte.
LEMMA ReadsNothing ==
  ASSUME NEW f \in Fields, Typed(f), NEW p, ByteAt(p) = Undefined
  PROVE  ~ReadValue(f, p).ok
<1>1. ~Throws.ok
  BY Outcomes, Zenon
<1>2. CASE f.ann = "boolean"
  <2>1. Undefined # Tag(7, 21) /\ Undefined # Tag(7, 20)
    BY Tags
  <2>2. ReadBoolean(p) = Throws
    BY <2>1, Zenon DEF ReadBoolean
  <2> QED
    BY <1>1, <1>2, <2>2, Zenon DEF ReadValue
<1>3. CASE f.ann = "number"
  <2>1. NumberAt(p) = Throws
    BY NumberEnds, Zenon
  <2>2. ReadNumber(f, p) = Throws
    BY <1>1, <2>1, Zenon DEF ReadNumber
  <2>3. ReadValue(f, p) = ReadNumber(f, p)
    <3>1. f.ann # "boolean" /\ f.ann # "string"
      BY <1>3
    <3> QED
      BY <1>3, <3>1, Zenon DEF ReadValue
  <2> QED
    BY <1>1, <2>2, <2>3, Zenon
<1>4. CASE f.ann = "string"
  <2>1. CountAt(p, 3) = Throws
    <3>1. 3 \in Nat
      OBVIOUS
    <3> QED
      BY <3>1, CountTags, Zenon
  <2>2. ReadText(f, p) = Throws
    BY <1>1, <2>1, Zenon DEF ReadText
  <2>3. ReadValue(f, p) = ReadText(f, p)
    <3>1. f.ann # "boolean" /\ f.ann # "number"
      BY <1>4
    <3> QED
      BY <1>4, <3>1, Zenon DEF ReadValue
  <2> QED
    BY <1>1, <2>2, <2>3, Zenon
<1>5. CASE f.ann # "boolean" /\ f.ann # "number" /\ f.ann # "string"
  <2>1. CountAt(p, 4) = Throws
    <3>1. 4 \in Nat
      OBVIOUS
    <3> QED
      BY <3>1, CountTags, Zenon
  <2>2. ReadArray(p) = Throws
    BY <1>1, <2>1, Zenon DEF ReadArray
  <2>3. ReadValue(f, p) = ReadArray(p)
    BY <1>5, Zenon DEF ReadValue
  <2> QED
    BY <1>1, <2>2, <2>3, Zenon
<1> QED
  BY <1>2, <1>3, <1>4, <1>5, Zenon

\* Where a property of an object begins, and that it has been written there.
Start(o, i) == HeadLen(o) + Sums(o)[i - 1]

Sent(o, b, i) ==
    /\ ~NotWritable(o.class[i], o.values[i])
    /\ Holds(b, Start(o, i), WrittenBytes(o.class[i], o.values[i]))

\* A property of obj has the value that was sent, and one that gets through.
Back(o, i, r) ==
    IF ~Typed(o.class[i]) THEN r[i] = <<>>
    ELSE r[i] # <<>> /\ Recovers(o.class[i], o.values[i], r[i][1])

LEMMA BackIsRestored ==
  \A i : Typed(Class[i]) /\ Back(object, i, restored) => Restores(i) /\ Carried(Class[i], object.values[i])
<1> TAKE i
<1> DEFINE f == Class[i]
           value == object.values[i]
<1>1. \A r : RightValue(f, value, r) <=> CASE f.ann = "string" -> r = WellFormed(value)
                      [] f.ann = "array" -> Len(r) = Len(value)
                                            /\ \A k \in DOMAIN r : SameNumber(value[k], r[k])
                      [] OTHER -> r = value
  BY Zenon DEF RightValue, RightArray
<1>2. Restores(i) <=> restored[i] # <<>> /\ RightValue(f, value, restored[i][1])
  <2> HIDE DEF f, value
  <2>1. Restores(i) <=>
             /\ restored[i] # <<>>
             /\ LET r == restored[i][1]
                IN  CASE f.ann = "string" -> r = WellFormed(value)
                      [] f.ann = "array" -> Len(r) = Len(value)
                                            /\ \A k \in DOMAIN r : SameNumber(value[k], r[k])
                      [] OTHER -> r = value
    BY Zenon DEF Restores, f, value
  <2> QED
    BY <1>1, <2>1, Zenon
<1> QED
  BY <1>2, Zenon DEF Back, Recovers, Class

\* What the reader has done with the first n properties: it is where the next
\* one begins and has all of them, or it has gone behind the end of a buffer
\* that is too short, in the last property with a type that it has read.
InStep(o, at, n, r) == at = HeadLen(o) + Sums(o)[n] /\ \A i \in 1..n : Back(o, i, r)

RanOut(o, at, n, r) ==
    /\ Len(buf) < Whole(o)
    /\ at = Lost \/ BeyondEnd(at)
    /\ \E last \in 1..n : \A i \in 1..n : (i < last => Back(o, i, r)) /\ (i > last => ~Typed(o.class[i]))

OnTrack(o, at, n, r) == InStep(o, at, n, r) \/ RanOut(o, at, n, r)

ValueStart(f, at) == IF f.computed THEN at ELSE After(at, 1 + Len(f.key))

\* The place of a property in the buffer.
Placed(o, n, f, value) ==
    /\ f \in Fields /\ IsValue(f, value) /\ Len(f.key) \in Nat /\ ValueSize(f, value) \in Nat
    /\ Start(o, n + 1) = HeadLen(o) + Sums(o)[n] /\ Start(o, n + 1) \in Nat
    /\ HeadLen(o) + Sums(o)[n + 1] \in Nat /\ Whole(o) \in Nat
    /\ HeadLen(o) + Sums(o)[n + 1] <= Whole(o)
    /\ f.computed => HeadLen(o) + Sums(o)[n + 1] = Start(o, n + 1)
    /\ ~f.computed => HeadLen(o) + Sums(o)[n + 1] = (Start(o, n + 1) + (1 + Len(f.key))) + ValueSize(f, value)

LEMMA PropertyPlace ==
  ASSUME NEW o \in Objects, NEW n \in 0..(Len(o.class) - 1),
         NEW f, f = o.class[n + 1], NEW value, value = o.values[n + 1]
  PROVE  Placed(o, n, f, value)
<1>1. n + 1 \in 1..Len(o.class) /\ n + 1 \in 0..Len(o.class) /\ (n + 1) - 1 = n /\ Len(o.class) \in Nat
  BY ObjectTypes
<1>2. f \in Fields /\ IsValue(f, value)
  BY <1>1, ObjectTypes
<1>3. Len(f.key) \in Nat /\ ValueSize(f, value) \in Nat
  BY <1>2, FieldTypes, ValueLength
<1>4. FieldSize(f, value) = IF f.computed THEN 0 ELSE 1 + Len(f.key) + ValueSize(f, value)
  BY <1>2, FieldLength, Zenon
<1>5. /\ Sums(o)[n] \in Nat /\ Sums(o)[n + 1] \in Nat
      /\ Sums(o)[n + 1] = Sums(o)[n] + FieldSize(f, value)
  BY NextSum
<1>6. HeadLen(o) \in Nat
  BY HeadLenType
<1>7. Sums(o)[n + 1] <= Sums(o)[Len(o.class)] /\ Sums(o)[Len(o.class)] \in Nat
  <2>1. Len(o.class) \in 0..Len(o.class)
    BY <1>1
  <2> QED
    BY <1>1, <2>1, SumsGrow
<1>8. Start(o, n + 1) = HeadLen(o) + Sums(o)[n]
  BY <1>1 DEF Start
<1>9. Whole(o) = HeadLen(o) + Sums(o)[Len(o.class)]
  BY Zenon DEF Whole
<1>10. PICK h \in Nat, s \in Nat, t \in Nat, w \in Nat, z \in Nat, x \in Nat :
          /\ h = HeadLen(o) /\ s = Sums(o)[n] /\ t = Sums(o)[n + 1] /\ w = Sums(o)[Len(o.class)]
          /\ z = ValueSize(f, value) /\ x = Len(f.key)
  BY <1>3, <1>5, <1>6, <1>7, Zenon
<1>11. CASE f.computed
  <2>1. t = s + 0
    BY <1>4, <1>5, <1>10, <1>11, Zenon
  <2>2. h + t = h + s /\ h + s \in Nat /\ h + w \in Nat
    BY <2>1
  <2>3. h + t <= h + w
    <3>1. t <= w
      BY <1>7, <1>10, Zenon
    <3> QED
      BY <3>1
  <2> QED
    BY <1>2, <1>3, <1>8, <1>9, <1>10, <1>11, <2>2, <2>3, Zenon DEF Placed
<1>12. CASE ~f.computed
  <2>1. t = s + (1 + x + z)
    BY <1>4, <1>5, <1>10, <1>12, Zenon
  <2>2. h + t = ((h + s) + (1 + x)) + z /\ h + s \in Nat /\ h + w \in Nat /\ h + t \in Nat
    BY <2>1
  <2>3. h + t <= h + w
    <3>1. t <= w
      BY <1>7, <1>10, Zenon
    <3> QED
      BY <3>1
  <2> QED
    BY <1>2, <1>3, <1>8, <1>9, <1>10, <1>12, <2>2, <2>3, Zenon DEF Placed
<1> QED
  BY <1>11, <1>12

LEMMA ValueIsSent ==
  ASSUME NEW o \in Objects, NEW n \in 0..(Len(o.class) - 1),
         NEW f, f = o.class[n + 1], NEW value, value = o.values[n + 1],
         NEW b \in Seq(Nat), Sent(o, b, n + 1), ~f.computed
  PROVE  /\ ~NotWritable(f, value)
         /\ Holds(b, Start(o, n + 1) + (1 + Len(f.key)), ValueBytes(f, value))
<1>1. f \in Fields /\ IsValue(f, value) /\ Start(o, n + 1) \in Nat
  <2>1. Placed(o, n, f, value)
    BY PropertyPlace, Zenon
  <2> QED
    BY <2>1, Zenon DEF Placed
<1>2. KeyBytes(f) \in Seq(Nat) /\ Len(KeyBytes(f)) = 1 + Len(f.key)
  BY <1>1, KeyLength
<1>3. ValueBytes(f, value) \in Seq(Nat)
  BY <1>1, ValueLength
<1>4. WrittenBytes(f, value) = KeyBytes(f) \o ValueBytes(f, value)
  BY <1>1, FieldLength, Zenon
<1>5. ~NotWritable(f, value) /\ Holds(b, Start(o, n + 1), WrittenBytes(f, value))
  BY Zenon DEF Sent
<1>6. Holds(b, Start(o, n + 1), KeyBytes(f) \o ValueBytes(f, value))
  BY <1>4, <1>5, Zenon
<1>7. Holds(b, Start(o, n + 1) + Len(KeyBytes(f)), ValueBytes(f, value))
  BY <1>1, <1>2, <1>3, <1>6, HoldsParts, Zenon
<1> QED
  BY <1>2, <1>5, <1>7, Zenon

\* A property without a type, or with a computed key, is passed over.
LEMMA PassesOver ==
  ASSUME NEW o \in Objects, NEW n \in 0..(Len(o.class) - 1),
         NEW f, f = o.class[n + 1], NEW value, value = o.values[n + 1], ~Typed(f),
         buf \in Seq(Nat), NEW r, r[n + 1] = <<>>, NEW at, OnTrack(o, at, n, r)
  PROVE  OnTrack(o, ValueStart(f, at), n + 1, r)
<1>1. /\ f \in Fields /\ Len(f.key) \in Nat /\ ValueSize(f, value) \in Nat
      /\ Start(o, n + 1) = HeadLen(o) + Sums(o)[n] /\ Start(o, n + 1) \in Nat
      /\ f.computed => HeadLen(o) + Sums(o)[n + 1] = Start(o, n + 1)
      /\ ~f.computed => HeadLen(o) + Sums(o)[n + 1] = (Start(o, n + 1) + (1 + Len(f.key))) + ValueSize(f, value)
  <2>1. Placed(o, n, f, value)
    BY PropertyPlace, Zenon
  <2> QED
    BY <2>1, Zenon DEF Placed
<1>2. \A i \in 1..(n + 1) : i \in 1..n \/ i = n + 1
  OBVIOUS
<1>3. Back(o, n + 1, r)
  BY Zenon DEF Back
<1>4. CASE InStep(o, at, n, r)
  <2>1. at = Start(o, n + 1) /\ at # Lost
    BY <1>1, <1>4 DEF InStep, Lost
  <2>2. ValueStart(f, at) = HeadLen(o) + Sums(o)[n + 1]
    <3>1. CASE f.computed
      BY <1>1, <2>1, <3>1, Zenon DEF ValueStart
    <3>2. CASE ~f.computed
      <4>1. ValueSize(f, value) = 0
        <5>1. IsOther(f)
          BY <3>2 DEF Typed, IsOther
        <5> QED
          BY <5>1, OtherValue, Zenon
      <4>2. ValueStart(f, at) = at + (1 + Len(f.key))
        BY <2>1, <3>2, Zenon DEF ValueStart, After
      <4>3. HeadLen(o) + Sums(o)[n + 1] = (at + (1 + Len(f.key))) + 0
        BY <1>1, <2>1, <3>2, <4>1, Zenon
      <4> QED
        BY <1>1, <2>1, <4>2, <4>3
    <3> QED
      BY <3>1, <3>2
  <2>3. \A i \in 1..(n + 1) : Back(o, i, r)
    BY <1>2, <1>3, <1>4, Zenon DEF InStep
  <2> QED
    BY <2>2, <2>3, Zenon DEF OnTrack, InStep
<1>5. CASE RanOut(o, at, n, r)
  <2>1. PICK last \in 1..n : \A i \in 1..n : (i < last => Back(o, i, r)) /\ (i > last => ~Typed(o.class[i]))
    BY <1>5, Zenon DEF RanOut
  <2>2. \A i \in 1..(n + 1) : (i < last => Back(o, i, r)) /\ (i > last => ~Typed(o.class[i]))
    BY <1>2, <1>3, <2>1, Zenon
  <2>3. last \in 1..(n + 1)
    OBVIOUS
  <2>4. ValueStart(f, at) = Lost \/ BeyondEnd(ValueStart(f, at))
    <3>1. CASE f.computed \/ at = Lost
      BY <1>5, <3>1, Zenon DEF ValueStart, After, RanOut
    <3>2. CASE ~f.computed /\ at # Lost
      <4>1. at \in Nat /\ at > Len(buf)
        BY <1>5, <3>2, Zenon DEF RanOut, BeyondEnd
      <4>2. ValueStart(f, at) = at + (1 + Len(f.key))
        BY <3>2, Zenon DEF ValueStart, After
      <4>3. at + (1 + Len(f.key)) \in Nat /\ at + (1 + Len(f.key)) > Len(buf)
        BY <1>1, <4>1, SMTT(30)
      <4> QED
        BY <4>2, <4>3, Zenon DEF BeyondEnd
    <3> QED
      BY <3>1, <3>2
  <2> QED
    BY <1>5, <2>2, <2>3, <2>4, Zenon DEF OnTrack, RanOut
<1> QED
  BY <1>4, <1>5 DEF OnTrack

\* What becomes of the reader when it has tried to read a property.
Onward(o, n, f, value, r, read) ==
    /\ read.ok => OnTrack(o, read.next, n + 1, [r EXCEPT ![n + 1] = <<read.value>>])
    /\ ~read.ok /\ Len(buf) = Whole(o) => ~Carried(f, value)

\* One more property of obj has been assigned.
Added(o, n, r, v, s) ==
    /\ \A i \in 1..n : Back(o, i, s) <=> Back(o, i, r)
    /\ Typed(o.class[n + 1]) /\ Recovers(o.class[n + 1], o.values[n + 1], v) => Back(o, n + 1, s)

LEMMA OneMore ==
  ASSUME NEW o \in Objects, NEW n \in 0..(Len(o.class) - 1),
         NEW r, DOMAIN r = 1..Len(o.class), NEW v
  PROVE  Added(o, n, r, v, [r EXCEPT ![n + 1] = <<v>>])
<1>1. n + 1 \in 1..Len(o.class) /\ \A i \in 1..n : i \in 1..Len(o.class) /\ i # n + 1
  BY ObjectTypes
<1>2. PICK s : s = [r EXCEPT ![n + 1] = <<v>>]
  BY Zenon
<1>3. \A i \in 1..n : s[i] = r[i]
  BY <1>1, <1>2
<1>4. s[n + 1] = <<v>> /\ <<v>> # <<>> /\ <<v>>[1] = v
  BY <1>1, <1>2
<1>5. \A i \in 1..n : Back(o, i, s) <=> Back(o, i, r)
  BY <1>3, Zenon DEF Back
<1>6. Typed(o.class[n + 1]) /\ Recovers(o.class[n + 1], o.values[n + 1], v) => Back(o, n + 1, s)
  BY <1>4, Zenon DEF Back
<1> QED
  BY <1>2, <1>5, <1>6, Zenon DEF Added

LEMMA ReadsOnward ==
  ASSUME NEW o \in Objects, NEW n \in 0..(Len(o.class) - 1),
         NEW f, f = o.class[n + 1], NEW value, value = o.values[n + 1], Typed(f),
         buf \in Seq(Nat), Len(buf) <= Whole(o), Sent(o, buf, n + 1),
         NEW r, DOMAIN r = 1..Len(o.class), NEW at, OnTrack(o, at, n, r)
  PROVE  Onward(o, n, f, value, r, ReadValue(f, ValueStart(f, at)))
<1>1. Placed(o, n, f, value)
  BY PropertyPlace, Zenon
<1>2. ~f.computed
  BY Zenon DEF Typed
<1>3. Len(buf) \in Nat
  OBVIOUS
<1>4. \A i \in 1..(n + 1) : i \in 1..n \/ i = n + 1
  OBVIOUS
<1>5. CASE InStep(o, at, n, r)
  <2>1. PICK p \in Nat : p = Start(o, n + 1) + (1 + Len(f.key))
    <3>1. Start(o, n + 1) \in Nat /\ Len(f.key) \in Nat
      BY <1>1, Zenon DEF Placed
    <3>2. \A x, y \in Nat : x + (1 + y) \in Nat
      OBVIOUS
    <3>3. Start(o, n + 1) + (1 + Len(f.key)) \in Nat
      BY <3>1, <3>2, Zenon
    <3> QED
      BY <3>3, Zenon
  <2>2. ValueStart(f, at) = p
    <3>1. at = Start(o, n + 1)
      BY <1>1, <1>5, Zenon DEF Placed, InStep
    <3>2. at # Lost
      BY <1>1, <3>1 DEF Placed, Lost
    <3> QED
      BY <1>2, <2>1, <3>1, <3>2, Zenon DEF ValueStart, After
  <2>3. ~NotWritable(f, value) /\ Holds(buf, p, ValueBytes(f, value))
    BY <1>2, <2>1, ValueIsSent, Zenon
  <2>4. Reads(f, value, p)
    BY <1>1, <2>3, ReadsValue, Zenon DEF Placed
  <2>5. HeadLen(o) + Sums(o)[n + 1] = p + ValueSize(f, value)
    BY <1>1, <1>2, <2>1, Zenon DEF Placed
  <2>6. PICK e \in Nat : e = p + ValueSize(f, value) /\ e <= Whole(o) /\ Whole(o) \in Nat
    BY <1>1, <2>5, Zenon DEF Placed
  <2>7. CASE e <= Len(buf)
    <3>1. ReadsRight(f, value, p)
      BY <2>4, <2>6, <2>7, Zenon DEF Reads
    <3>2. CASE ReadValue(f, p) = Throws /\ ~Carried(f, value)
      BY <2>2, <3>2, Outcomes, Zenon DEF Onward
    <3>3. CASE ~(ReadValue(f, p) = Throws /\ ~Carried(f, value))
      <4>1. PICK v : ReadValue(f, p) = Assigns(v, e) /\ Recovers(f, value, v)
        BY <2>6, <3>1, <3>3, Zenon DEF ReadsRight
      <4>2. PICK s : s = [r EXCEPT ![n + 1] = <<v>>] /\ Added(o, n, r, v, s)
        BY OneMore, Zenon
      <4>3. /\ \A i \in 1..n : Back(o, i, s) <=> Back(o, i, r)
            /\ Recovers(f, value, v) => Back(o, n + 1, s)
        BY <4>2, Zenon DEF Added
      <4>4. \A i \in 1..(n + 1) : Back(o, i, s)
        BY <1>4, <1>5, <4>1, <4>3, Zenon DEF InStep
      <4>5. InStep(o, e, n + 1, s)
        BY <2>5, <2>6, <4>4, Zenon DEF InStep
      <4>6. ReadValue(f, p).ok /\ ReadValue(f, p).next = e /\ ReadValue(f, p).value = v
        BY <4>1, OutcomeOf, ZenonT(30)
      <4> QED
        BY <2>2, <4>2, <4>5, <4>6, Zenon DEF Onward, OnTrack
    <3> QED
      BY <3>2, <3>3, Zenon
  <2>8. CASE ~(e <= Len(buf))
    <3>1. Len(buf) < Whole(o) /\ e > Len(buf) /\ Len(buf) # Whole(o)
      BY <1>3, <2>6, <2>8
    <3>2. ReadsPast(f, p)
      BY <2>4, <2>6, <3>1, Zenon DEF Reads
    <3>3. CASE ReadValue(f, p) = Throws
      BY <2>2, <3>1, <3>3, Outcomes, Zenon DEF Onward
    <3>4. CASE ReadValue(f, p) # Throws
      <4>1. PICK v, q : ReadValue(f, p) = Assigns(v, q) /\ (q = Lost \/ BeyondEnd(q))
        BY <3>2, <3>4, Zenon DEF ReadsPast
      <4>2. PICK s : s = [r EXCEPT ![n + 1] = <<v>>] /\ Added(o, n, r, v, s)
        BY OneMore, Zenon
      <4>3. \A i \in 1..n : Back(o, i, s) <=> Back(o, i, r)
        BY <4>2, Zenon DEF Added
      <4>4. \A i \in 1..(n + 1) : (i < n + 1 => Back(o, i, s)) /\ (i > n + 1 => ~Typed(o.class[i]))
        <5>1. \A i \in 1..(n + 1) : (i < n + 1 => i \in 1..n) /\ ~(i > n + 1)
          OBVIOUS
        <5> QED
          BY <1>5, <4>3, <5>1, Zenon DEF InStep
      <4>5. n + 1 \in 1..(n + 1)
        OBVIOUS
      <4>6. RanOut(o, q, n + 1, s)
        BY <3>1, <4>1, <4>4, <4>5, Zenon DEF RanOut
      <4>7. ReadValue(f, p).ok /\ ReadValue(f, p).next = q /\ ReadValue(f, p).value = v
        BY <4>1, OutcomeOf, ZenonT(30)
      <4> QED
        BY <2>2, <4>2, <4>6, <4>7, Zenon DEF Onward, OnTrack
    <3> QED
      BY <3>3, <3>4
  <2> QED
    BY <2>7, <2>8
<1>6. CASE RanOut(o, at, n, r)
  <2>1. Len(buf) # Whole(o)
    BY <1>3, <1>6 DEF RanOut
  <2>2. PICK p \in Int : p = ValueStart(f, at) /\ (p = Lost \/ p >= Len(buf))
    <3>1. CASE at = Lost
      <4>1. Lost \in Int
        BY DEF Lost
      <4>2. ValueStart(f, at) = Lost
        BY <1>2, <3>1, Zenon DEF ValueStart, After
      <4> QED
        BY <4>1, <4>2, Zenon
    <3>2. CASE at # Lost
      <4>1. at \in Nat /\ at > Len(buf)
        BY <1>6, <3>2, Zenon DEF RanOut, BeyondEnd
      <4>2. ValueStart(f, at) = at + (1 + Len(f.key))
        BY <1>2, <3>2, Zenon DEF ValueStart, After
      <4>3. at + (1 + Len(f.key)) \in Int /\ at + (1 + Len(f.key)) >= Len(buf)
        BY <1>1, <1>3, <4>1, SMTT(30) DEF Placed
      <4> QED
        BY <4>2, <4>3, Zenon
    <3> QED
      BY <3>1, <3>2
  <2>3. ByteAt(p) = Undefined
    BY <2>2, NoByte, Zenon
  <2>4. ~ReadValue(f, p).ok
    BY <1>1, <2>3, ReadsNothing, Zenon DEF Placed
  <2> QED
    BY <2>1, <2>2, <2>4, Zenon DEF Onward
<1> QED
  BY <1>5, <1>6 DEF OnTrack

-----------------------------------------------------------------------------
(* Writing and cutting the buffer *)

LEMMA SumsOrdered ==
  ASSUME NEW o \in Objects, NEW n \in 0..Len(o.class), NEW k \in 0..n
  PROVE  Sums(o)[k] \in Nat /\ Sums(o)[n] \in Nat /\ Sums(o)[k] <= Sums(o)[n]
<1>1. PICK N \in Nat : N = Len(o.class)
  BY ObjectTypes, Zenon
<1>2. n \in 0..N /\ k \in 0..N /\ k <= n /\ n \in Nat /\ k \in Nat
  BY <1>1
<1>3. PICK F : F = Sums(o)
  OBVIOUS
<1>4. /\ F \in [0..N -> Nat]
      /\ \A j \in 0..(N - 1) : F[j + 1] = F[j] + FieldSize(o.class[j + 1], o.values[j + 1])
  BY <1>1, <1>3, SumsExist, Zenon DEF IsSums
<1>5. \A j \in 1..N : FieldSize(o.class[j], o.values[j]) \in Nat
  BY <1>1, ObjectTypes, FieldLength
<1> DEFINE S == {m \in Nat : k <= m /\ m <= N => F[k] <= F[m]}
<1>6. 0 \in S
  <2>1. k <= 0 => k = 0 /\ F[k] \in Nat
    BY <1>2, <1>4
  <2>2. F[k] \in Nat => F[k] <= F[k]
    OBVIOUS
  <2> QED
    BY <2>1, <2>2
<1>7. ASSUME NEW m \in Nat, m \in S PROVE m + 1 \in S
  <2> SUFFICES ASSUME k <= m + 1, m + 1 <= N PROVE F[k] <= F[m + 1]
    OBVIOUS
  <2>1. CASE k = m + 1
    BY <1>2, <1>4, <2>1
  <2>2. CASE k # m + 1
    <3>1. m \in 0..(N - 1) /\ m + 1 \in 1..N /\ k <= m /\ m <= N
      BY <1>2, <2>2
    <3>2. F[k] <= F[m]
      BY <1>7, <3>1
    <3>3. F[k] \in Nat /\ F[m] \in Nat
      BY <1>2, <1>4, <3>1
    <3>4. PICK x \in Nat : F[m + 1] = F[m] + x
      BY <1>4, <1>5, <3>1
    <3> QED
      BY <3>2, <3>3, <3>4
  <2> QED
    BY <2>1, <2>2
<1> HIDE DEF S
<1>8. n \in S
  BY <1>2, <1>6, <1>7, Upwards, Zenon
<1>9. F[k] <= F[n] /\ F[k] \in Nat /\ F[n] \in Nat
  BY <1>2, <1>4, <1>8 DEF S
<1> QED
  BY <1>3, <1>9, Zenon

\* The buffer after the bytes bs have been stored behind at.
Overlay(b, at, bs) == [i \in DOMAIN b |-> IF i - at \in DOMAIN bs THEN bs[i - at] ELSE b[i]]

LEMMA OverlayBytes ==
  ASSUME NEW b \in Seq(Nat), NEW at \in Nat, NEW bs \in Seq(Nat)
  PROVE  /\ Overlay(b, at, bs) \in Seq(Nat) /\ Len(Overlay(b, at, bs)) = Len(b)
         /\ Holds(Overlay(b, at, bs), at, bs)
         /\ \A p \in Nat : \A cs \in Seq(Nat) : Holds(b, p, cs) /\ p + Len(cs) <= at => Holds(Overlay(b, at, bs), p, cs)
<1>1. PICK N \in Nat : N = Len(b) /\ DOMAIN b = 1..N
  OBVIOUS
<1>2. DOMAIN bs = 1..Len(bs) /\ Len(bs) \in Nat /\ \A j \in 1..Len(bs) : bs[j] \in Nat
  OBVIOUS
<1> DEFINE x(i) == IF i - at \in DOMAIN bs THEN bs[i - at] ELSE b[i]
<1>3. \A i \in 1..N : x(i) \in Nat
  <2>1. \A i \in 1..N : b[i] \in Nat
    BY <1>1
  <2> QED
    BY <1>2, <2>1, Zenon
<1>4. Overlay(b, at, bs) = [i \in 1..N |-> x(i)]
  BY <1>1, Zenon DEF Overlay
<1> HIDE DEF x
<1>5. PICK s \in Seq(Nat) : s = Overlay(b, at, bs) /\ Len(s) = N /\ \A i \in 1..N : s[i] = x(i)
  <2>1. [i \in 1..N |-> x(i)] \in Seq(Nat) /\ Len([i \in 1..N |-> x(i)]) = N
    BY <1>3
  <2>2. \A i \in 1..N : [j \in 1..N |-> x(j)][i] = x(i)
    OBVIOUS
  <2> QED
    BY <1>4, <2>1, <2>2, Zenon
<1>6. Holds(s, at, bs)
  <2> SUFFICES ASSUME NEW i \in 1..Len(bs), at + i <= Len(s) PROVE s[at + i] = bs[i]
    BY Zenon DEF Holds
  <2>1. at + i \in 1..N /\ (at + i) - at = i
    BY <1>5
  <2>2. s[at + i] = x(at + i)
    BY <1>5, <2>1, Zenon
  <2>3. x(at + i) = bs[i]
    BY <1>2, <2>1, Zenon DEF x
  <2> QED
    BY <2>2, <2>3, Zenon
<1>7. ASSUME NEW p \in Nat, NEW cs \in Seq(Nat), Holds(b, p, cs), p + Len(cs) <= at
      PROVE  Holds(s, p, cs)
  <2> SUFFICES ASSUME NEW i \in 1..Len(cs), p + i <= Len(s) PROVE s[p + i] = cs[i]
    BY Zenon DEF Holds
  <2>1. p + i \in 1..N /\ p + i <= Len(b)
    BY <1>1, <1>5
  <2>2. (p + i) - at \notin 1..Len(bs)
    BY <1>2, <1>7
  <2>3. x(p + i) = b[p + i]
    BY <1>2, <2>2, Zenon DEF x
  <2>4. b[p + i] = cs[i]
    BY <1>7, <2>1, Zenon DEF Holds
  <2> QED
    BY <1>5, <2>1, <2>3, <2>4, Zenon
<1> QED
  BY <1>1, <1>5, <1>6, <1>7, Zenon

\* A property is written where the next one begins, and the ones before it
\* stay as they are.
LEMMA WriteKeeps ==
  ASSUME NEW o \in Objects, NEW n \in 0..(Len(o.class) - 1), NEW b \in Seq(Nat),
         ~NotWritable(o.class[n + 1], o.values[n + 1]), \A i \in 1..n : Sent(o, b, i)
  PROVE  LET s == Overlay(b, HeadLen(o) + Sums(o)[n], WrittenBytes(o.class[n + 1], o.values[n + 1]))
         IN  s \in Seq(Nat) /\ Len(s) = Len(b) /\ \A i \in 1..(n + 1) : Sent(o, s, i)
<1>1. n \in Nat /\ n + 1 \in 1..Len(o.class) /\ n \in 0..Len(o.class) /\ Len(o.class) \in Nat /\ (n + 1) - 1 = n
  BY ObjectTypes
<1>2. PICK bs \in Seq(Nat) : bs = WrittenBytes(o.class[n + 1], o.values[n + 1])
  BY <1>1, ObjectTypes, FieldLength
<1>3. PICK at \in Nat : at = HeadLen(o) + Sums(o)[n]
  BY <1>1, SumsGrow, HeadLenType
<1>4. PICK s : s = Overlay(b, at, bs)
  OBVIOUS
<1>5. /\ s \in Seq(Nat) /\ Len(s) = Len(b)
      /\ Holds(s, at, bs)
      /\ \A p \in Nat : \A cs \in Seq(Nat) : Holds(b, p, cs) /\ p + Len(cs) <= at => Holds(s, p, cs)
  BY <1>4, OverlayBytes, Zenon
<1>6. Sent(o, s, n + 1)
  <2>1. Start(o, n + 1) = at
    BY <1>1, <1>3, Zenon DEF Start
  <2> QED
    BY <1>2, <1>5, <2>1, Zenon DEF Sent
<1>7. ASSUME NEW i \in 1..n PROVE Sent(o, s, i)
  <2>1. i - 1 \in 0..(Len(o.class) - 1) /\ (i - 1) + 1 = i /\ i \in 0..n /\ i \in 1..Len(o.class)
    BY <1>1
  <2>2. PICK cs \in Seq(Nat) : cs = WrittenBytes(o.class[i], o.values[i])
    BY <2>1, ObjectTypes, FieldLength
  <2>3. PICK j : j = i - 1 /\ j \in 0..(Len(o.class) - 1) /\ j + 1 = i
    BY <2>1, Zenon
  <2>4. /\ Sums(o)[j] \in Nat /\ Sums(o)[j + 1] \in Nat /\ j + 1 \in 1..Len(o.class)
        /\ Sums(o)[j + 1] = Sums(o)[j] + FieldSize(o.class[j + 1], o.values[j + 1])
        /\ Len(WrittenBytes(o.class[j + 1], o.values[j + 1])) = FieldSize(o.class[j + 1], o.values[j + 1])
    BY <2>3, NextSum, Zenon
  <2>5. Sums(o)[j] \in Nat /\ Sums(o)[i] = Sums(o)[j] + Len(cs)
    BY <2>2, <2>3, <2>4, Zenon
  <2>6. Sums(o)[i] <= Sums(o)[n] /\ Sums(o)[n] \in Nat /\ HeadLen(o) \in Nat
    BY <1>1, <2>1, SumsOrdered, HeadLenType
  <2>7. Start(o, i) = HeadLen(o) + Sums(o)[j]
    BY <2>3, Zenon DEF Start
  <2>8. Start(o, i) \in Nat /\ Start(o, i) + Len(cs) <= at
    <3>1. PICK h \in Nat, x \in Nat, y \in Nat : h = HeadLen(o) /\ x = Sums(o)[j] /\ y = Sums(o)[n]
      BY <2>5, <2>6, Zenon
    <3>2. x + Len(cs) <= y /\ at = h + y /\ Start(o, i) = h + x /\ Len(cs) \in Nat
      <4>1. Len(cs) \in Nat
        OBVIOUS
      <4> QED
        BY <1>3, <2>5, <2>6, <2>7, <3>1, <4>1, Zenon
    <3>3. h + x \in Nat /\ (h + x) + Len(cs) <= h + y
      BY <3>2
    <3> QED
      BY <3>2, <3>3, Zenon
  <2>9. ~NotWritable(o.class[i], o.values[i]) /\ Holds(b, Start(o, i), cs)
    BY <2>2, Zenon DEF Sent
  <2>10. Holds(s, Start(o, i), cs)
    BY <1>5, <2>8, <2>9, Zenon
  <2> QED
    BY <2>2, <2>9, <2>10, Zenon DEF Sent
<1>8. \A i \in 1..(n + 1) : i \in 1..n \/ i = n + 1
  OBVIOUS
<1>9. \A i \in 1..(n + 1) : Sent(o, s, i)
  BY <1>6, <1>7, <1>8, Zenon
<1> QED
  BY <1>2, <1>3, <1>4, <1>5, <1>9, Zenon

LEMMA CutKeeps ==
  ASSUME NEW b \in Seq(Nat), NEW n \in Nat, n <= Len(b)
  PROVE  /\ SubSeq(b, 1, n) \in Seq(Nat) /\ Len(SubSeq(b, 1, n)) = n
         /\ \A p \in Nat : \A bs \in Seq(Nat) : Holds(b, p, bs) => Holds(SubSeq(b, 1, n), p, bs)
<1>1. PICK s \in Seq(Nat) : s = SubSeq(b, 1, n) /\ Len(s) = n /\ \A i \in 1..n : s[i] = b[i]
  <2>1. Len(SubSeq(b, 1, n)) = n
    OBVIOUS
  <2>2. \A i \in 1..n : SubSeq(b, 1, n)[i] = b[i]
    OBVIOUS
  <2>3. SubSeq(b, 1, n) \in Seq(Nat)
    OBVIOUS
  <2> QED
    BY <2>1, <2>2, <2>3, Zenon
<1>2. ASSUME NEW p \in Nat, NEW bs \in Seq(Nat), Holds(b, p, bs) PROVE Holds(s, p, bs)
  <2> SUFFICES ASSUME NEW i \in 1..Len(bs), p + i <= Len(s) PROVE s[p + i] = bs[i]
    BY Zenon DEF Holds
  <2>1. p + i \in 1..n /\ p + i <= Len(b)
    BY <1>1
  <2> QED
    BY <1>1, <1>2, <2>1, Zenon DEF Holds
<1> QED
  BY <1>1, <1>2, Zenon

-----------------------------------------------------------------------------
(* The object is restored *)

RestoreInv ==
    /\ buf \in Seq(Nat)
    /\ phase # "size" => Len(buf) <= _size /\ _size = Whole(object)
    /\ DOMAIN restored = 1..Len(Class)
    /\ \A i \in 1..Len(Class) :
          phase \in {"size", "write", "wire"} \/ i > field => restored[i] = <<>>
    /\ phase = "write" => Len(buf) = _size /\ \A i \in 1..field : Sent(object, buf, i)
    /\ phase \in {"wire", "read"} => \A i \in 1..Len(Class) : Sent(object, buf, i)
    /\ phase = "wire" => field = 0
    /\ phase \in {"read", "decoded"} => OnTrack(object, _offset, field, restored)
    /\ phase = "decoded" => field = Len(Class)
    /\ phase = "refused" => field < Len(Class)
    /\ phase = "failed" => Typed(Field)
    /\ phase = "failed" /\ Len(buf) = _size => ~Carried(Field, Value)
    /\ phase = "refused" => NotWritable(Field, Value)

LEMMA StartRestores == CborInit => RestoreInv
<1> SUFFICES ASSUME CborInit PROVE RestoreInv
  OBVIOUS
<1>1. /\ object \in Objects /\ phase = "size" /\ buf = <<>> /\ Class = object.class
      /\ restored = [i \in DOMAIN Class |-> <<>>]
  BY DEF CborInit, Class
<1>2. DOMAIN Class = 1..Len(Class)
  BY <1>1, ObjectTypes
<1> QED
  BY <1>1, <1>2 DEF RestoreInv

LEMMA WritingRestores ==
  ASSUME RestoreInv, CborInv, CborInv', SizeField \/ Allocate \/ WriteField \/ RefuseField \/ ReturnBuffer
  PROVE  RestoreInv'
<1>1. /\ object \in Objects /\ field \in 0..Len(Class) /\ Len(Class) \in Nat
      /\ object' = object /\ Class' = Class /\ restored' = restored
      /\ buf \in Seq(Nat) /\ DOMAIN restored = 1..Len(Class)
  BY ObjectTypes DEF CborInv, RestoreInv, Class, SizeField, Allocate, WriteField, RefuseField, ReturnBuffer
<1>2. CASE SizeField
  <2>1. phase = "size" /\ phase' = "size" /\ buf' = buf
    BY <1>2 DEF SizeField
  <2> QED
    BY <1>1, <2>1 DEF RestoreInv
<1>3. CASE Allocate
  <2>1. /\ phase = "size" /\ phase' = "write" /\ field' = 0
        /\ buf' = [i \in 1.._size' |-> IF i \in DOMAIN MapHead(Class) THEN MapHead(Class)[i] ELSE 0]
    BY <1>3 DEF Allocate
  <2>2. PICK s \in Nat : s = _size' /\ s = Whole(object)
    <3>1. _size' = Whole(object)
      BY <1>1, <2>1 DEF CborInv
    <3>2. Whole(object) \in Nat
      <4>1. Len(object.class) \in 0..Len(object.class)
        BY <1>1, ObjectTypes
      <4>2. HeadLen(object) \in Nat /\ Sums(object)[Len(object.class)] \in Nat
        BY <1>1, <4>1, HeadLenType, SumsGrow
      <4> QED
        BY <4>2 DEF Whole
    <3> QED
      BY <3>1, <3>2
  <2>3. PICK h \in Seq(Nat) : h = MapHead(Class)
    <3>1. CountHead(5, Len(Class)) \in Seq(Nat)
      BY <1>1, HeadLength
    <3> QED
      BY <3>1 DEF MapHead
  <2>4. buf' = [i \in 1..s |-> IF i \in DOMAIN h THEN h[i] ELSE 0]
    BY <2>1, <2>2, <2>3, Zenon
  <2>5. buf' \in Seq(Nat) /\ Len(buf') = s
    <3>1. \A i \in 1..s : (IF i \in DOMAIN h THEN h[i] ELSE 0) \in Nat
      OBVIOUS
    <3> QED
      BY <2>4, <3>1
  <2>6. 1..field' = {}
    BY <2>1
  <2> QED
    BY <1>1, <2>1, <2>2, <2>5, <2>6 DEF RestoreInv
<1>4. CASE WriteField
  <2>1. /\ phase = "write" /\ phase' = "write" /\ field < Len(Class) /\ field' = field + 1 /\ _size' = _size
        /\ ~NotWritable(object.class[field + 1], object.values[field + 1])
        /\ buf' = Overlay(buf, _offset, WrittenBytes(object.class[field + 1], object.values[field + 1]))
    BY <1>4, Zenon DEF WriteField, Class, Field, Value, Stored, Overlay
  <2>2. /\ Len(buf) = _size /\ _size = Whole(object) /\ \A i \in 1..field : Sent(object, buf, i)
        /\ _offset = HeadLen(object) + Sums(object)[field]
    BY <2>1 DEF RestoreInv, CborInv
  <2>3. field \in 0..(Len(object.class) - 1)
    BY <1>1, <2>1 DEF Class
  <2>4. PICK s : /\ s = Overlay(buf, HeadLen(object) + Sums(object)[field],
                                WrittenBytes(object.class[field + 1], object.values[field + 1]))
                 /\ s \in Seq(Nat) /\ Len(s) = Len(buf) /\ \A i \in 1..(field + 1) : Sent(object, s, i)
    BY <1>1, <2>1, <2>2, <2>3, WriteKeeps, Zenon
  <2>5. buf' = s
    BY <2>1, <2>2, <2>4, Zenon
  <2>6. buf' \in Seq(Nat) /\ Len(buf') = _size' /\ \A i \in 1..field' : Sent(object', buf', i)
    BY <1>1, <2>1, <2>2, <2>4, <2>5, Zenon
  <2>7. Len(buf') <= _size'
    BY <2>6
  <2>8. \A i \in 1..Len(Class') : restored'[i] = <<>>
    BY <1>1, <2>1 DEF RestoreInv
  <2> QED
    BY <1>1, <2>1, <2>2, <2>6, <2>7, <2>8 DEF RestoreInv
<1>5. CASE RefuseField
  <2>1. /\ phase = "write" /\ phase' = "refused" /\ NotWritable(Field, Value) /\ field < Len(Class)
        /\ buf' = buf /\ _size' = _size /\ field' = field
    BY <1>5 DEF RefuseField
  <2>2. NotWritable(Field, Value)'
    BY <1>1, <2>1, Zenon DEF NotWritable, Field, Value, Class
  <2> QED
    BY <1>1, <2>1, <2>2 DEF RestoreInv
<1>6. CASE ReturnBuffer
  <2>1. /\ phase = "write" /\ phase' = "wire" /\ field = Len(Class) /\ field' = 0
        /\ buf' = buf /\ _size' = _size
    BY <1>6 DEF ReturnBuffer
  <2> QED
    BY <1>1, <2>1 DEF RestoreInv
<1> QED
  BY <1>2, <1>3, <1>4, <1>5, <1>6

LEMMA CutRestores ==
  ASSUME RestoreInv, CborInv, CutBuffer
  PROVE  RestoreInv'
<1>1. /\ object \in Objects /\ object' = object /\ Class' = Class /\ restored' = restored
      /\ phase = "wire" /\ phase' = "wire" /\ field' = field /\ _size' = _size
      /\ buf \in Seq(Nat) /\ Len(buf) = _size
  BY DEF CborInv, RestoreInv, Class, CutBuffer
<1>2. PICK n \in Nat : buf' = SubSeq(buf, 1, n) /\ n <= Len(buf)
  <2>1. PICK n \in 0..(_size - 1) : buf' = SubSeq(buf, 1, n)
    BY DEF CutBuffer
  <2>2. Len(buf) \in Nat
    BY <1>1
  <2>3. n \in Nat /\ n <= Len(buf)
    BY <1>1, <2>2
  <2> QED
    BY <2>1, <2>3
<1>3. /\ SubSeq(buf, 1, n) \in Seq(Nat) /\ Len(SubSeq(buf, 1, n)) = n
      /\ \A p \in Nat : \A bs \in Seq(Nat) : Holds(buf, p, bs) => Holds(SubSeq(buf, 1, n), p, bs)
  BY <1>1, <1>2, CutKeeps, Zenon
<1>4. PICK s \in Seq(Nat) : /\ s = buf' /\ Len(s) = n
                            /\ \A p \in Nat : \A bs \in Seq(Nat) : Holds(buf, p, bs) => Holds(s, p, bs)
  BY <1>2, <1>3, Zenon
<1>5. ASSUME NEW i \in 1..Len(Class) PROVE Sent(object, s, i)
  <2>1. Sent(object, buf, i)
    BY <1>1 DEF RestoreInv
  <2>2. PICK j \in 0..(Len(object.class) - 1) : i = j + 1
    <3>1. Len(object.class) \in Nat /\ i \in 1..Len(object.class)
      BY <1>1, ObjectTypes DEF Class
    <3>2. i - 1 \in 0..(Len(object.class) - 1) /\ i = (i - 1) + 1
      BY <3>1
    <3> QED
      BY <3>2
  <2>3. Placed(object, j, object.class[j + 1], object.values[j + 1])
    BY <1>1, PropertyPlace, Zenon
  <2>4. Start(object, i) \in Nat
    BY <2>2, <2>3, Zenon DEF Placed
  <2>5. WrittenBytes(object.class[i], object.values[i]) \in Seq(Nat)
    BY <2>2, <2>3, FieldLength, Zenon DEF Placed
  <2> QED
    BY <1>4, <2>1, <2>4, <2>5, Zenon DEF Sent
<1>6. buf' \in Seq(Nat) /\ Len(buf') <= _size' /\ \A i \in 1..Len(Class') : Sent(object', buf', i)
  <2>1. Len(s) <= Len(buf)
    BY <1>2, <1>4
  <2> QED
    BY <1>1, <1>4, <1>5, <2>1, Zenon
<1> QED
  BY <1>1, <1>6 DEF RestoreInv

\* A fragment of fromCBOR begins.
Reading(o, n, f, value, r, at) ==
    /\ o \in Objects /\ n \in 0..(Len(o.class) - 1)
    /\ o = object /\ n = field /\ f = o.class[n + 1] /\ value = o.values[n + 1]
    /\ f = Field /\ value = Value /\ r = restored /\ at = _offset
    /\ r[n + 1] = <<>> /\ DOMAIN r = 1..Len(o.class)
    /\ OnTrack(o, at, n, r) /\ Sent(o, buf, n + 1) /\ Len(buf) <= Whole(o) /\ Whole(o) = _size

LEMMA ReadingRestores ==
  ASSUME RestoreInv, CborInv, FromCBOR \/ ReadField \/ FailField \/ ReturnObject
  PROVE  RestoreInv'
<1>1. /\ object \in Objects /\ object' = object /\ Class = object.class /\ Class' = Class /\ _size' = _size
      /\ field \in 0..Len(Class) /\ Len(Class) \in Nat
      /\ buf \in Seq(Nat) /\ buf' = buf /\ DOMAIN restored = 1..Len(Class)
  BY ObjectTypes DEF CborInv, RestoreInv, Class, FromCBOR, ReadField, FailField, ReturnObject
<1>2. ASSUME NEW o, NEW at, NEW n, NEW r, OnTrack(o, at, n, r),
             o = object', at = _offset', n = field', r = restored'
      PROVE  OnTrack(object, _offset, field, restored)'
  BY <1>1, <1>2, Zenon DEF OnTrack, InStep, RanOut, BeyondEnd
<1>3. CASE FromCBOR
  <2>1. /\ phase = "wire" /\ phase' = "read" /\ field' = field /\ restored' = restored
        /\ _offset' = HeadLen(object)
    BY <1>1, <1>3 DEF FromCBOR, HeadLen
  <2>2. field = 0
    BY <2>1 DEF RestoreInv
  <2>3. InStep(object, HeadLen(object), 0, restored)
    <3>1. Sums(object)[0] = 0
      BY <1>1, SumsExist DEF IsSums
    <3>2. HeadLen(object) \in Nat
      BY <1>1, HeadLenType
    <3>3. 1..0 = {}
      OBVIOUS
    <3> QED
      BY <3>1, <3>2, <3>3 DEF InStep
  <2>4. OnTrack(object, _offset, field, restored)'
    <3>1. OnTrack(object, HeadLen(object), 0, restored)
      BY <2>3, Zenon DEF OnTrack
    <3> QED
      BY <1>1, <2>1, <2>2, <3>1, Zenon DEF OnTrack, InStep, RanOut, BeyondEnd
  <2> QED
    BY <1>1, <2>1, <2>2, <2>4 DEF RestoreInv
<1>4. ASSUME ReadField \/ FailField
      PROVE  \E o, n, f, value, r, at : Reading(o, n, f, value, r, at)
  <2>1. phase = "read" /\ field < Len(Class)
    BY <1>4 DEF ReadField, FailField
  <2>2. field \in 0..(Len(object.class) - 1) /\ field + 1 \in 1..Len(Class) /\ field + 1 > field
    BY <1>1, <2>1
  <2>3. Field = object.class[field + 1] /\ Value = object.values[field + 1]
    BY Zenon DEF Field, Value, Class
  <2>4. restored[field + 1] = <<>> /\ OnTrack(object, _offset, field, restored) /\ Sent(object, buf, field + 1)
    BY <2>1, <2>2 DEF RestoreInv
  <2>5. Len(buf) <= Whole(object) /\ Whole(object) = _size
    BY <2>1 DEF RestoreInv
  <2> QED
    BY <1>1, <2>2, <2>3, <2>4, <2>5, Zenon DEF Reading
<1>5. CASE ReadField
  <2>1. PICK o, n, f, value, r, at : Reading(o, n, f, value, r, at)
    BY <1>4, <1>5, Zenon
  <2>2. /\ o \in Objects /\ n \in 0..(Len(o.class) - 1)
        /\ o = object /\ n = field /\ f = o.class[n + 1] /\ value = o.values[n + 1]
        /\ f = Field /\ value = Value /\ r = restored /\ at = _offset
        /\ r[n + 1] = <<>> /\ DOMAIN r = 1..Len(o.class)
        /\ OnTrack(o, at, n, r) /\ Sent(o, buf, n + 1) /\ Len(buf) <= Whole(o) /\ Whole(o) = _size
    BY <2>1, Zenon DEF Reading
  <2>3. /\ phase = "read" /\ phase' = "read" /\ field' = n + 1
        /\ ~Typed(f) => _offset' = ValueStart(f, at) /\ restored' = r
        /\ Typed(f) => LET read == ReadValue(f, ValueStart(f, at))
                       IN  /\ read.ok /\ _offset' = read.next
                           /\ restored' = [r EXCEPT ![n + 1] = <<read.value>>]
    BY <1>5, <2>2, Zenon DEF ReadField, ValueStart
  <2>4. OnTrack(object, _offset, field, restored)' /\ DOMAIN restored' = 1..Len(o.class)
        /\ \A i \in 1..Len(o.class) : i > n + 1 => restored'[i] = <<>>
    <3>1. \A i \in 1..Len(o.class) : i > n => r[i] = <<>>
      BY <2>2, <1>1 DEF RestoreInv
    <3>2. \A i \in 1..Len(o.class) : i > n + 1 => i > n /\ i # n + 1
      <4>1. n \in Int
        BY <2>2
      <4> QED
        BY <4>1
    <3>3. CASE ~Typed(f)
      <4>1. OnTrack(o, ValueStart(f, at), n + 1, r)
        BY <1>1, <2>2, <3>3, PassesOver, Zenon
      <4>2. OnTrack(object, _offset, field, restored)'
        BY <1>1, <1>2, <2>2, <2>3, <3>3, <4>1, Zenon
      <4> QED
        BY <2>2, <2>3, <3>1, <3>2, <3>3, <4>2, Zenon
    <3>4. CASE Typed(f)
      <4>1. Onward(o, n, f, value, r, ReadValue(f, ValueStart(f, at)))
        BY <1>1, <2>2, <3>4, ReadsOnward, Zenon
      <4>2. PICK read : read = ReadValue(f, ValueStart(f, at))
        BY Zenon
      <4>3. read.ok /\ _offset' = read.next /\ restored' = [r EXCEPT ![n + 1] = <<read.value>>]
        BY <2>3, <3>4, <4>2, Zenon
      <4>4. OnTrack(o, read.next, n + 1, [r EXCEPT ![n + 1] = <<read.value>>])
        BY <4>1, <4>2, <4>3, Zenon DEF Onward
      <4>5. OnTrack(object, _offset, field, restored)'
        BY <1>1, <1>2, <2>2, <2>3, <4>3, <4>4, Zenon
      <4>6. DOMAIN restored' = 1..Len(o.class) /\ \A i \in 1..Len(o.class) : i # n + 1 => restored'[i] = r[i]
        BY <2>2, <4>3
      <4> QED
        BY <3>1, <3>2, <4>5, <4>6, Zenon
    <3> QED
      BY <3>3, <3>4
  <2>5. \A i \in 1..Len(Class) : Sent(object, buf, i)
    BY <2>3 DEF RestoreInv
  <2> QED
    BY <1>1, <2>2, <2>3, <2>4, <2>5 DEF RestoreInv
<1>6. CASE FailField
  <2>1. PICK o, n, f, value, r, at : Reading(o, n, f, value, r, at)
    BY <1>4, <1>6, Zenon
  <2>2. /\ o \in Objects /\ n \in 0..(Len(o.class) - 1)
        /\ o = object /\ n = field /\ f = o.class[n + 1] /\ value = o.values[n + 1]
        /\ f = Field /\ value = Value /\ r = restored /\ at = _offset
        /\ r[n + 1] = <<>> /\ DOMAIN r = 1..Len(o.class)
        /\ OnTrack(o, at, n, r) /\ Sent(o, buf, n + 1) /\ Len(buf) <= Whole(o) /\ Whole(o) = _size
    BY <2>1, Zenon DEF Reading
  <2>3. /\ phase = "read" /\ phase' = "failed" /\ field' = field /\ restored' = restored
        /\ Typed(f) /\ ~ReadValue(f, After(at, 1 + Len(f.key))).ok
    BY <1>6, <2>2, Zenon DEF FailField
  <2>4. ValueStart(f, at) = After(at, 1 + Len(f.key))
    BY <2>3, Zenon DEF ValueStart, Typed
  <2>5. Onward(o, n, f, value, r, ReadValue(f, ValueStart(f, at)))
    BY <1>1, <2>2, <2>3, ReadsOnward, Zenon
  <2>6. Len(buf) = _size => ~Carried(f, value)
    BY <2>2, <2>3, <2>4, <2>5, Zenon DEF Onward
  <2>7. (Typed(Field) /\ (Len(buf) = _size => ~Carried(Field, Value)))'
    <3>1. Field' = f /\ Value' = value
      BY <1>1, <2>2, <2>3, Zenon DEF Field, Value, Class
    <3>2. Typed(Field)'
      BY <2>3, <3>1, Zenon DEF Typed
    <3>3. Carried(Field, Value)' => Carried(f, value)
      BY <3>1, Zenon DEF Carried, OutsideLimits
    <3> QED
      BY <1>1, <2>6, <3>2, <3>3, Zenon
  <2> QED
    BY <1>1, <2>3, <2>7 DEF RestoreInv
<1>7. CASE ReturnObject
  <2>1. /\ phase = "read" /\ phase' = "decoded" /\ field = Len(Class) /\ field' = field
        /\ _offset' = _offset /\ restored' = restored
    BY <1>7 DEF ReturnObject
  <2>2. OnTrack(object, _offset, field, restored)
    BY <2>1 DEF RestoreInv
  <2>3. OnTrack(object, _offset, field, restored)'
    BY <1>1, <2>1, <2>2, Zenon DEF OnTrack, InStep, RanOut, BeyondEnd
  <2> QED
    BY <1>1, <2>1, <2>3 DEF RestoreInv
<1> QED
  BY <1>3, <1>5, <1>6, <1>7

LEMMA RestoreInvHolds == CborSpec => []RestoreInv
<1>1. CborInit => RestoreInv
  BY StartRestores
<1>2. RestoreInv /\ CborInv /\ CborInv' /\ [CborNext]_cborVars => RestoreInv'
  <2> SUFFICES ASSUME RestoreInv, CborInv, CborInv', [CborNext]_cborVars PROVE RestoreInv'
    OBVIOUS
  <2>1. CASE SizeField \/ Allocate \/ WriteField \/ RefuseField \/ ReturnBuffer
    BY <2>1, WritingRestores
  <2>2. CASE FromCBOR \/ ReadField \/ FailField \/ ReturnObject
    BY <2>2, ReadingRestores
  <2>3. CASE CutBuffer
    BY <2>3, CutRestores
  <2>4. CASE UNCHANGED cborVars
    <3>1. /\ object' = object /\ phase' = phase /\ field' = field /\ _size' = _size
          /\ buf' = buf /\ _offset' = _offset /\ restored' = restored
      BY <2>4 DEF cborVars
    <3>2. Class' = Class /\ Whole(object)' = Whole(object)
      BY <3>1, Zenon DEF Class
    <3>3. OnTrack(object, _offset, field, restored) => OnTrack(object, _offset, field, restored)'
      BY <3>1, Zenon DEF OnTrack, InStep, RanOut, BeyondEnd
    <3>4. /\ Carried(Field, Value)' => Carried(Field, Value)
          /\ Typed(Field) => Typed(Field)'
          /\ NotWritable(Field, Value) => NotWritable(Field, Value)'
      <4>1. Field' = Field /\ Value' = Value
        BY <3>1, Zenon DEF Field, Value, Class
      <4> QED
        BY <4>1, Zenon DEF Carried, Typed, NotWritable, OutsideLimits
    <3> QED
      BY <3>1, <3>2, <3>3, <3>4 DEF RestoreInv
  <2> QED
    BY <2>1, <2>2, <2>3, <2>4 DEF CborNext
<1> QED
  BY <1>1, <1>2, CborInvHolds, PTL DEF CborSpec

\* A buffer that arrives whole gives back every property of the object that
\* has a type, up to unpaired surrogates and the 32 bits of an array element,
\* if each has a value that gets through; a property whose value does not get
\* through (a number that has no signed 32-bit form or is outside its limits,
\* a string whose UTF-8 form is) is where toCBOR or fromCBOR throws.  For
\* every class and object, any keys and limits and strings of any length.
THEOREM ObjectIsRestored == CborSpec => []RoundTrip
<1>1. RestoreInv /\ CborInv => RoundTrip
  <2> SUFFICES ASSUME RestoreInv, CborInv PROVE RoundTrip
    OBVIOUS
  <2>1. object \in Objects /\ field \in 0..Len(Class) /\ DOMAIN Class = 1..Len(Class)
    BY ObjectTypes DEF CborInv, Class
  <2>2. ASSUME phase = "decoded", Len(buf) = _size, NEW i \in DOMAIN Class, Typed(Class[i])
        PROVE  Carried(Class[i], object.values[i]) /\ Restores(i)
    <3>1. ~(Len(buf) < Whole(object)) /\ field = Len(Class)
      <4>1. Len(buf) = Whole(object) /\ Len(buf) \in Nat
        BY <2>2 DEF RestoreInv
      <4> QED
        BY <2>2, <4>1 DEF RestoreInv
    <3>2. OnTrack(object, _offset, field, restored)
      BY <2>2 DEF RestoreInv
    <3>3. Back(object, i, restored)
      BY <2>1, <3>1, <3>2, Zenon DEF OnTrack, InStep, RanOut
    <3> QED
      BY <2>2, <3>3, BackIsRestored, Zenon
  <2>3. phase = "failed" /\ Len(buf) = _size => Typed(Field) /\ ~Carried(Field, Value)
    BY DEF RestoreInv
  <2>4. ASSUME phase = "refused" PROVE Typed(Field) /\ ~Carried(Field, Value)
    <3>1. NotWritable(Field, Value)
      BY <2>4 DEF RestoreInv
    <3>2. ~Field.computed /\ Field.ann = "number" /\ Value[1] \notin -Half..(Half - 1)
      BY <3>1, Zenon DEF NotWritable
    <3>3. "number" # "other"
      OBVIOUS
    <3> QED
      BY <3>2, <3>3, Zenon DEF Typed, Carried
  <2> QED
    BY <2>2, <2>3, <2>4, Zenon DEF RoundTrip
<1> QED
  BY <1>1, RestoreInvHolds, CborInvHolds, PTL

\* A buffer that lost its end never shifts a field: fromCBOR refuses it, or
\* only the last value of the object is not what was sent.
THEOREM CutIsNoticed == CborSpec => []CutOnlyInLastValue
<1>1. RestoreInv /\ CborInv => CutOnlyInLastValue
  <2> SUFFICES ASSUME RestoreInv, CborInv, phase = "decoded", NEW i \in DOMAIN Class, NEW j \in DOMAIN Class,
                      i < j, Typed(Class[i]), Typed(Class[j])
               PROVE  Restores(i)
    BY Zenon DEF CutOnlyInLastValue
  <2>1. Class = object.class /\ DOMAIN Class = 1..Len(Class) /\ field = Len(Class)
    BY ObjectTypes DEF CborInv, RestoreInv, Class
  <2>2. i \in 1..field /\ j \in 1..field
    BY <2>1, Zenon
  <2>3. CASE InStep(object, _offset, field, restored)
    <3>1. Back(object, i, restored)
      BY <2>2, <2>3, Zenon DEF InStep
    <3> QED
      BY <3>1, BackIsRestored, Zenon
  <2>4. CASE RanOut(object, _offset, field, restored)
    <3>1. PICK last \in 1..field : \A k \in 1..field : (k < last => Back(object, k, restored))
                                                      /\ (k > last => ~Typed(object.class[k]))
      BY <2>4, Zenon DEF RanOut
    <3>2. ~(j > last)
      BY <2>1, <2>2, <3>1, Zenon
    <3>3. i < last
      BY <2>2, <3>2
    <3> QED
      <4>1. Back(object, i, restored)
        BY <2>2, <3>1, <3>3, Zenon
      <4> QED
        BY <4>1, BackIsRestored, Zenon
  <2> QED
    <3>1. OnTrack(object, _offset, field, restored)
      BY DEF RestoreInv
    <3> QED
      BY <2>3, <2>4, <3>1, Zenon DEF OnTrack
<1> QED
  BY <1>1, RestoreInvHolds, CborInvHolds, PTL

-----------------------------------------------------------------------------
(* The standard decoder: heads *)

LEMMA TagParts ==
  ASSUME NEW m \in 0..7, NEW i \in 0..31
  PROVE  Tag(m, i) \in Nat /\ Tag(m, i) \div 32 = m /\ Tag(m, i) % 32 = i
  BY DEF Tag

\* The first byte of what the buffer holds, and the others.
LEMMA FirstByte ==
  ASSUME buf \in Seq(Nat), NEW p \in Nat, NEW t \in Nat, NEW s \in Seq(Nat),
         Holds(buf, p, <<t>> \o s), p + 1 <= Len(buf)
  PROVE  buf[p + 1] = t /\ Holds(buf, p + 1, s)
<1>1. <<t>> \in Seq(Nat) /\ Len(<<t>>) = 1 /\ <<t>>[1] = t
  OBVIOUS
<1>2. Holds(buf, p, <<t>>) /\ Holds(buf, p + Len(<<t>>), s)
  BY <1>1, HoldsParts, Zenon
<1>3. Holds(buf, p + 1, s)
  BY <1>1, <1>2, Zenon
<1>4. 1 \in 1..Len(<<t>>)
  BY <1>1
<1>5. buf[p + 1] = <<t>>[1]
  BY <1>2, <1>4, Zenon DEF Holds
<1> QED
  BY <1>1, <1>3, <1>5, Zenon

\* What the decoder takes a head for.
StdHead(p, major, n, next) == StdMajor(p) = major /\ StdCount(p) = n /\ StdBody(p) = next

LEMMA StdShort ==
  ASSUME NEW p \in Nat, NEW major \in 0..7, NEW k \in Nat, k < Inline, buf[p + 1] = Tag(major, k)
  PROVE  StdHead(p, major, k, p + 1)
<1>1. k \in 0..31
  BY RadixTypes
<1>2. StdMajor(p) = major /\ StdInfo(p) = k
  BY <1>1, TagParts, Zenon DEF StdMajor, StdInfo
<1> QED
  BY <1>2, Zenon DEF StdHead, StdCount, StdBody

LEMMA StdLong ==
  ASSUME buf \in Seq(Nat), NEW p \in Nat, NEW major \in 0..7,
         NEW info \in {Inline, Inline + 1, Inline + 2}, NEW w \in {1, 2, 4}, Extension[info] = w,
         NEW k \in Nat, Fits(k, w), buf[p + 1] = Tag(major, info),
         Holds(buf, p + 1, BigEndian(k, w)), (p + 1) + w <= Len(buf)
  PROVE  StdHead(p, major, k, (p + 1) + w)
<1>1. info \in 0..31 /\ ~(info < Inline) /\ p + 1 \in Nat
  BY RadixTypes
<1>2. StdMajor(p) = major /\ StdInfo(p) = info
  BY <1>1, TagParts, Zenon DEF StdMajor, StdInfo
<1>3. DigitsAt(p + 1, w) = k
  BY <1>1, HeldDigits, Zenon
<1>4. StdBody(p) = (p + 1) + w
  BY <1>1, <1>2, Zenon DEF StdBody
<1>5. StdCount(p) = k
  BY <1>1, <1>2, <1>3, Zenon DEF StdCount
<1> QED
  BY <1>2, <1>4, <1>5, Zenon DEF StdHead

\* A count is read as it was written.
LEMMA StdCounted ==
  ASSUME buf \in Seq(Nat), NEW p \in Nat, NEW major \in 0..7, NEW n \in Nat, n < Word,
         Holds(buf, p, CountHead(major, n)), p + HeadSize(n) <= Len(buf)
  PROVE  StdHead(p, major, n, p + HeadSize(n))
<1>1. major \in Nat /\ Len(buf) \in Nat
  OBVIOUS
<1>2. /\ Len(CountHead(major, n)) = HeadSize(n) /\ HeadSize(n) \in Nat /\ HeadSize(n) > 0
      /\ CountHead(major, n) \in Seq(Nat)
  BY <1>1, HeadLength, Zenon
<1>3. p + 1 <= Len(buf)
  BY <1>1, <1>2
<1>4. CASE n < Inline
  <2>1. PICK t \in Nat : t = Tag(major, n)
    BY <1>1, Tags, Zenon
  <2>2. CountHead(major, n) = <<t>>
    BY <1>1, <1>4, <2>1, HeadForms, Zenon
  <2>3. HeadSize(n) = 1 /\ <<t>> = <<t>> \o <<>> /\ <<>> \in Seq(Nat)
    BY <1>2, <2>2
  <2>4. buf[p + 1] = t
    BY <1>3, <2>2, <2>3, FirstByte, Zenon
  <2>5. StdHead(p, major, n, p + 1)
    BY <1>4, <2>1, <2>4, StdShort, Zenon
  <2> QED
    BY <2>3, <2>5, Zenon
<1>5. CASE ~(n < Inline)
  <2>1. PICK info, w : ExtendedBy(major, n, info, w)
    <3>1. n >= Inline
      BY <1>5, RadixTypes
    <3> QED
      BY <1>1, <3>1, HeadForms, Zenon
  <2>2. /\ CountHead(major, n) = <<Tag(major, info)>> \o BigEndian(n, w)
        /\ info \in Nat /\ Extension[info] = w /\ w \in {1, 2, 4} /\ Fits(n, w)
        /\ \/ info = Inline /\ w = 1
           \/ info = Inline + 1 /\ w = 2
           \/ info = Inline + 2 /\ w = 4
    BY <2>1, Zenon DEF ExtendedBy
  <2>3. PICK t \in Nat : t = Tag(major, info)
    BY <1>1, <2>2, Tags, Zenon
  <2>4. PICK d \in Seq(Nat) : d = BigEndian(n, w) /\ Len(d) = w
    BY <2>2, DigitTypes, Zenon
  <2>5. CountHead(major, n) = <<t>> \o d
    BY <2>2, <2>3, <2>4, Zenon
  <2>6. Len(<<t>> \o d) = 1 + Len(d)
    BY HeadAndBytes, Zenon
  <2>7. HeadSize(n) = 1 + w
    BY <1>2, <2>4, <2>5, <2>6, Zenon
  <2>8. (p + 1) + w <= Len(buf) /\ p + HeadSize(n) = (p + 1) + w
    BY <1>1, <2>2, <2>7
  <2>9. buf[p + 1] = t /\ Holds(buf, p + 1, d)
    <3>1. Holds(buf, p, <<t>> \o d)
      BY <2>5, Zenon
    <3> QED
      BY <1>3, <3>1, FirstByte, Zenon
  <2>10. info \in {Inline, Inline + 1, Inline + 2}
    BY <2>2, Zenon
  <2>11. StdHead(p, major, n, (p + 1) + w)
    BY <2>2, <2>3, <2>4, <2>8, <2>9, <2>10, StdLong, Zenon
  <2> QED
    BY <2>8, <2>11, Zenon
<1> QED
  BY <1>4, <1>5

\* A number of five bytes.
LEMMA StdNumberRead ==
  ASSUME buf \in Seq(Nat), NEW p \in Nat, NEW n \in Int, Holds(buf, p, NumberBytes(n)), p + 5 <= Len(buf)
  PROVE  StdMajor(p) \in {0, 1} /\ StdBody(p) = p + 5 /\ Kept(n, StdNumber(p))
<1>1. /\ n >= 0 => n % Word \in Nat /\ n % Word < Word /\ Kept(n, n % Word)
      /\ n < 0 => /\ (-n - 1) % Word \in Nat /\ (-n - 1) % Word < Word
                  /\ Kept(n, -((-n - 1) % Word) - 1)
  BY KeptNumber, Zenon
<1>2. ASSUME NEW m \in {0, 1}, NEW k \in Nat, k < Word,
             NumberBytes(n) = <<Tag(m, Inline + 2)>> \o BigEndian(k, 4)
      PROVE  StdHead(p, m, k, p + 5)
  <2>1. m \in 0..7 /\ m \in Nat /\ Inline + 2 \in Nat /\ 4 \in {1, 2, 4} /\ Inline + 2 \in {Inline, Inline + 1, Inline + 2}
    BY RadixTypes
  <2>2. PICK t \in Nat : t = Tag(m, Inline + 2)
    BY <2>1, Tags, Zenon
  <2>3. PICK d \in Seq(Nat) : d = BigEndian(k, 4) /\ Len(d) = 4
    BY <2>1, DigitTypes, Zenon
  <2>4. Holds(buf, p, <<t>> \o d)
    BY <1>2, <2>2, <2>3, Zenon
  <2>5. p + 1 <= Len(buf) /\ (p + 1) + 4 <= Len(buf) /\ (p + 1) + 4 = p + 5
    OBVIOUS
  <2>6. buf[p + 1] = t /\ Holds(buf, p + 1, d)
    BY <2>4, <2>5, FirstByte, Zenon
  <2>7. Fits(k, 4)
    BY <1>2 DEF Fits
  <2>8. Extension[Inline + 2] = 4
    BY ExtensionOf, Zenon
  <2>9. StdHead(p, m, k, (p + 1) + 4)
    BY <2>1, <2>2, <2>3, <2>5, <2>6, <2>7, <2>8, StdLong, Zenon
  <2> QED
    BY <2>5, <2>9, Zenon
<1>3. CASE n >= 0
  <2>1. PICK k \in Nat : k = n % Word /\ k < Word /\ Kept(n, k)
    BY <1>1, <1>3, Zenon
  <2>2. NumberBytes(n) = <<Tag(0, Inline + 2)>> \o BigEndian(k, 4)
    BY <1>3, <2>1, Zenon DEF NumberBytes
  <2>3. StdHead(p, 0, k, p + 5)
    <3>1. 0 \in {0, 1}
      OBVIOUS
    <3> QED
      BY <1>2, <2>1, <2>2, <3>1, Zenon
  <2>4. StdNumber(p) = k
    BY <2>3, Zenon DEF StdNumber, StdHead
  <2> QED
    BY <2>1, <2>3, <2>4, Zenon DEF StdHead
<1>4. CASE n < 0
  <2>1. PICK k \in Nat : k = (-n - 1) % Word /\ k < Word /\ Kept(n, -k - 1)
    BY <1>1, <1>4, Zenon
  <2>2. NumberBytes(n) = <<Tag(1, Inline + 2)>> \o BigEndian(k, 4)
    <3>1. ~(n >= 0)
      BY <1>4
    <3> QED
      BY <2>1, <3>1, Zenon DEF NumberBytes
  <2>3. StdHead(p, 1, k, p + 5)
    <3>1. 1 \in {0, 1}
      OBVIOUS
    <3> QED
      BY <1>2, <2>1, <2>2, <3>1, Zenon
  <2>4. StdNumber(p) = -k - 1
    <3>1. StdNumber(p) = -1 - k
      <4>1. 1 # 0
        OBVIOUS
      <4> QED
        BY <2>3, <4>1, Zenon DEF StdNumber, StdHead
    <3>2. -1 - k = -k - 1
      OBVIOUS
    <3> QED
      BY <3>1, <3>2, Zenon
  <2> QED
    BY <2>1, <2>3, <2>4, Zenon DEF StdHead
<1> QED
  BY <1>3, <1>4

-----------------------------------------------------------------------------
(* The standard decoder: the elements of an array *)

\* The element k of an array lies in the buffer where it was written.
LEMMA ElementHeld ==
  ASSUME buf \in Seq(Nat), NEW p \in Nat, NEW value \in Seq(Int),
         Holds(buf, p, ArrayBytes(value)), p + 5 * Len(value) <= Len(buf), NEW k \in 1..Len(value)
  PROVE  /\ p + 5 * (k - 1) \in Nat /\ (p + 5 * (k - 1)) + 5 <= Len(buf)
         /\ (p + 5 * (k - 1)) + 5 = p + 5 * k
         /\ value[k] \in Int /\ Holds(buf, p + 5 * (k - 1), NumberBytes(value[k]))
<1>1. PICK n \in Nat : n = Len(value)
  OBVIOUS
<1>2. /\ Len(ArrayBytes(value)) = 5 * n
      /\ \A j \in 1..n : \A i \in 1..5 : ArrayBytes(value)[5 * (j - 1) + i] = NumberBytes(value[j])[i]
  BY <1>1, ArrayElements, Zenon
<1>3. \A i \in 1..(5 * n) : p + i <= Len(buf) => buf[p + i] = ArrayBytes(value)[i]
  BY <1>2, Zenon DEF Holds
<1>4. PICK q \in Nat : q = p + 5 * (k - 1)
  <2>1. p + 5 * (k - 1) \in Nat
    OBVIOUS
  <2> QED
    BY <2>1
<1>5. value[k] \in Int /\ k \in 1..n /\ Len(buf) \in Nat
  BY <1>1
<1>6. q + 5 <= Len(buf) /\ q + 5 = p + 5 * k
  BY <1>1, <1>4, <1>5
<1>7. Len(NumberBytes(value[k])) = 5
  BY <1>5, NumberLength, Zenon
<1>8. ASSUME NEW i \in 1..5 PROVE buf[q + i] = NumberBytes(value[k])[i]
  <2>1. 5 * (k - 1) + i \in 1..(5 * n) /\ p + (5 * (k - 1) + i) = q + i /\ q + i <= Len(buf)
    BY <1>4, <1>5, <1>6
  <2>2. p + (5 * (k - 1) + i) <= Len(buf)
    BY <2>1, Zenon
  <2>3. buf[p + (5 * (k - 1) + i)] = ArrayBytes(value)[5 * (k - 1) + i]
    BY <1>3, <2>1, <2>2, Zenon
  <2>4. ArrayBytes(value)[5 * (k - 1) + i] = NumberBytes(value[k])[i]
    BY <1>2, <1>5, Zenon
  <2> QED
    BY <2>1, <2>3, <2>4, Zenon
<1>9. Holds(buf, q, NumberBytes(value[k]))
  BY <1>7, <1>8, Zenon DEF Holds
<1> QED
  BY <1>4, <1>5, <1>6, <1>9, Zenon

\* What the decoder does of an array: the elements up to one of them.
ElementStep(start, f, i) ==
    IF i = 0 THEN Assigns(<<>>, start)
    ELSE Assigns(Append(f[i - 1].value, StdNumber(f[i - 1].next)), StdBody(f[i - 1].next))

IsElements(start, n, f) == f = [i \in 0..n |-> ElementStep(start, f, i)]

LEMMA ElementsFunction ==
  ASSUME NEW start, NEW n \in Nat
  PROVE  \E f : IsElements(start, n, f)
<1> DEFINE S == {m \in Nat : \E f : f = [i \in 0..m |-> ElementStep(start, f, i)]}
<1>1. 0 \in S
  <2> DEFINE f == [i \in 0..0 |-> Assigns(<<>>, start)]
  <2>1. \A i \in 0..0 : \A g : ElementStep(start, g, i) = Assigns(<<>>, start)
    <3>1. \A i \in 0..0 : i = 0
      OBVIOUS
    <3> QED
      BY <3>1, Zenon DEF ElementStep
  <2>2. f = [i \in 0..0 |-> ElementStep(start, f, i)]
    <3>1. \A g : (\A i \in 0..0 : ElementStep(start, g, i) = Assigns(<<>>, start))
                 => [i \in 0..0 |-> ElementStep(start, g, i)] = [i \in 0..0 |-> Assigns(<<>>, start)]
      OBVIOUS
    <3> QED
      BY <2>1, <3>1, Zenon
  <2> HIDE DEF f
  <2>3. \E h : h = [i \in 0..0 |-> ElementStep(start, h, i)]
    BY <2>2, Zenon
  <2>4. 0 \in Nat
    OBVIOUS
  <2> QED
    BY <2>3, <2>4, Zenon
<1>2. ASSUME NEW m \in Nat, m \in S PROVE m + 1 \in S
  <2>1. PICK f : f = [i \in 0..m |-> ElementStep(start, f, i)]
    BY <1>2
  <2> DEFINE g == [i \in 0..(m + 1) |-> IF i = m + 1 THEN ElementStep(start, f, m + 1) ELSE f[i]]
  <2>2. \A i \in 0..(m + 1) : i # 0 => g[i - 1] = f[i - 1]
    OBVIOUS
  <2>3. \A i \in 0..(m + 1) : g[i] = ElementStep(start, g, i)
    <3> TAKE i \in 0..(m + 1)
    <3>1. ElementStep(start, g, i) = ElementStep(start, f, i)
      <4> HIDE DEF g
      <4> QED
        BY <2>2, Zenon DEF ElementStep
    <3>2. g[i] = ElementStep(start, f, i)
      <4>1. CASE i = m + 1
        BY <4>1
      <4>2. CASE i # m + 1
        <5>1. i \in 0..m /\ g[i] = f[i]
          BY <4>2
        <5>2. f[i] = ElementStep(start, f, i)
          BY <2>1, <5>1, Zenon
        <5> QED
          BY <5>1, <5>2, Zenon
      <4> QED
        BY <4>1, <4>2
    <3> QED
      BY <3>1, <3>2, Zenon
  <2>4. g = [i \in 0..(m + 1) |-> g[i]]
    OBVIOUS
  <2> HIDE DEF g
  <2>5. g = [i \in 0..(m + 1) |-> ElementStep(start, g, i)]
    BY <2>3, <2>4
  <2>6. m + 1 \in Nat
    OBVIOUS
  <2> QED
    BY <2>5, <2>6, Zenon
<1> HIDE DEF S
<1>3. n \in S
  BY <1>1, <1>2, Upwards, Zenon
<1> QED
  BY <1>3, Zenon DEF S, IsElements

\* One more value behind others, whatever they are.
Values(v, m) == \E T : v \in Seq(T) /\ Len(v) = m
Longer(v, m, w, s) == Values(s, m + 1) /\ s[m + 1] = w /\ \A i \in 1..m : s[i] = v[i]

LEMMA Appended ==
  ASSUME NEW S, NEW s \in Seq(S), NEW x
  PROVE  Longer(s, Len(s), x, Append(s, x))
<1> DEFINE T == S \cup {x}
<1>1. s \in Seq(T) /\ x \in T
  <2>1. Len(s) \in Nat /\ s = [i \in 1..Len(s) |-> s[i]] /\ \A i \in 1..Len(s) : s[i] \in S
    OBVIOUS
  <2>2. \A i \in 1..Len(s) : s[i] \in T
    BY <2>1
  <2> HIDE DEF T
  <2>3. [i \in 1..Len(s) |-> s[i]] \in Seq(T)
    BY <2>1, <2>2
  <2>4. s \in Seq(T)
    BY <2>1, <2>3, Zenon
  <2>5. x \in T
    BY DEF T
  <2> QED
    BY <2>4, <2>5
<1> HIDE DEF T
<1>2. Append(s, x) \in Seq(T) /\ Len(s) \in Nat /\ Len(Append(s, x)) = Len(s) + 1
  BY <1>1
<1>3. Append(s, x)[Len(s) + 1] = x /\ \A i \in 1..Len(s) : Append(s, x)[i] = s[i]
  BY <1>1
<1>4. Values(Append(s, x), Len(s) + 1)
  BY <1>2, Zenon DEF Values
<1> QED
  BY <1>3, <1>4, Zenon DEF Longer

\* Every element is read where the one before it ended.
LEMMA StdElements ==
  ASSUME buf \in Seq(Nat), NEW p \in Nat, NEW value \in Seq(Int),
         Holds(buf, p, ArrayBytes(value)), p + 5 * Len(value) <= Len(buf),
         NEW f, IsElements(p, Len(value), f)
  PROVE  \E r : /\ f[Len(value)] = Assigns(r, p + 5 * Len(value))
                /\ \A k \in 1..Len(value) : SameNumber(value[k], r[k])
<1> DEFINE N == Len(value)
           Read(m, r) == /\ r \in Seq(Int) /\ Len(r) = m /\ f[m] = Assigns(r, p + 5 * m)
                         /\ \A k \in 1..m : SameNumber(value[k], r[k])
           S == {m \in Nat : m <= N => \E r : Read(m, r)}
<1>1. N \in Nat
  OBVIOUS
<1>2. \A m \in 0..N : f[m] = ElementStep(p, f, m)
  BY Zenon DEF IsElements
<1>3. 0 \in S
  <2>1. 0 \in 0..N /\ p + 5 * 0 = p
    BY <1>1
  <2>2. f[0] = Assigns(<<>>, p)
    BY <1>2, <2>1, Zenon DEF ElementStep
  <2>3. <<>> \in Seq(Int) /\ Len(<<>>) = 0 /\ 1..0 = {} /\ 0 \in Nat
    OBVIOUS
  <2>4. Read(0, <<>>)
    BY <2>1, <2>2, <2>3, Zenon
  <2> HIDE DEF Read
  <2> QED
    BY <2>3, <2>4, Zenon
<1>4. ASSUME NEW m \in Nat, m \in S PROVE m + 1 \in S
  <2> SUFFICES ASSUME m + 1 <= N PROVE \E r : Read(m + 1, r)
    OBVIOUS
  <2>1. m <= N /\ m + 1 \in 0..N /\ (m + 1) - 1 = m /\ m + 1 # 0 /\ m + 1 \in 1..N
    BY <1>1
  <2>2. PICK r : Read(m, r)
    BY <1>4, <2>1, Zenon
  <2>3. PICK q \in Nat : /\ q = p + 5 * m /\ q + 5 <= Len(buf) /\ q + 5 = p + 5 * (m + 1)
                         /\ value[m + 1] \in Int /\ Holds(buf, q, NumberBytes(value[m + 1]))
    <3>1. PICK k \in 1..Len(value) : k = m + 1
      BY <2>1
    <3>2. /\ p + 5 * (k - 1) \in Nat /\ (p + 5 * (k - 1)) + 5 <= Len(buf)
          /\ (p + 5 * (k - 1)) + 5 = p + 5 * k
          /\ value[k] \in Int /\ Holds(buf, p + 5 * (k - 1), NumberBytes(value[k]))
      BY ElementHeld, Zenon
    <3>3. k - 1 = m
      BY <3>1
    <3> QED
      BY <3>1, <3>2, <3>3, Zenon
  <2>4. StdBody(q) = q + 5 /\ Kept(value[m + 1], StdNumber(q))
    BY <2>3, StdNumberRead, Zenon
  <2>5. PICK v \in Int : v = StdNumber(q) /\ SameNumber(value[m + 1], v)
    BY <2>4, Zenon DEF Kept
  <2>6. f[m].value = r /\ f[m].next = q
    <3>1. f[m] = Assigns(r, q)
      BY <2>2, <2>3, Zenon
    <3>2. Assigns(r, q).value = r /\ Assigns(r, q).next = q
      BY ONLY Outcomes, Zenon
    <3> QED
      BY ONLY <3>1, <3>2, Zenon
  <2>7. f[m + 1] = Assigns(Append(r, v), p + 5 * (m + 1))
    BY <1>2, <2>1, <2>3, <2>4, <2>5, <2>6, Zenon DEF ElementStep
  <2>8. PICK s \in Seq(Int) : /\ s = Append(r, v) /\ Len(s) = m + 1 /\ s[m + 1] = v
                              /\ \A k \in 1..m : s[k] = r[k]
    <3>1. r \in Seq(Int) /\ Len(r) = m
      BY <2>2, Zenon
    <3>2. /\ Append(r, v) \in Seq(Int) /\ Len(Append(r, v)) = Len(r) + 1 /\ Append(r, v)[Len(r) + 1] = v
          /\ \A k \in 1..Len(r) : Append(r, v)[k] = r[k]
      BY <3>1
    <3> QED
      BY <3>1, <3>2, Zenon
  <2>9. \A k \in 1..(m + 1) : k \in 1..m \/ k = m + 1
    OBVIOUS
  <2>10. \A k \in 1..(m + 1) : SameNumber(value[k], s[k])
    BY <2>2, <2>5, <2>8, <2>9, Zenon
  <2>11. Read(m + 1, s)
    BY <2>7, <2>8, <2>10, Zenon
  <2> HIDE DEF Read
  <2> QED
    BY <2>11, Zenon
<1> HIDE DEF S, Read
<1>5. N \in S /\ N <= N
  <2>1. \A m \in Nat : m \in S
    BY <1>3, <1>4, Upwards, Zenon
  <2> QED
    BY <1>1, <2>1
<1> QED
  BY <1>5, Zenon DEF S, Read

-----------------------------------------------------------------------------
(* The standard decoder: items *)

\* What an item is taken for, by its tag.
LEMMA StdItems ==
  ASSUME NEW p
  PROVE  /\ StdMajor(p) \in {0, 1} => StdItem(p) = Assigns(<<StdNumber(p)>>, StdBody(p))
         /\ StdMajor(p) = 3 => StdItem(p) = Assigns(ReadString(buf, StdBody(p), StdCount(p)), StdBody(p) + StdCount(p))
         /\ StdMajor(p) = 4 =>
               StdItem(p) = (CHOOSE f : IsElements(StdBody(p), StdCount(p), f))[StdCount(p)]
         /\ StdMajor(p) = 7 /\ StdInfo(p) \in {20, 21} => StdItem(p) = Assigns(<<StdInfo(p) - 20>>, p + 1)
<1>1. 3 \notin {0, 1} /\ 4 \notin {0, 1} /\ 7 \notin {0, 1} /\ 4 # 3 /\ 7 # 3 /\ 7 # 4
      /\ 0 # 3 /\ 0 # 4 /\ 0 # 7 /\ 1 # 3 /\ 1 # 4 /\ 1 # 7
  OBVIOUS
<1>2. ASSUME StdMajor(p) \in {0, 1} PROVE StdItem(p) = Assigns(<<StdNumber(p)>>, StdBody(p))
  <2>1. StdMajor(p) # 3 /\ StdMajor(p) # 4 /\ StdMajor(p) # 7
    BY <1>1, <1>2, Zenon
  <2> QED
    BY <1>2, <2>1, Zenon DEF StdItem
<1>3. ASSUME StdMajor(p) = 3
      PROVE  StdItem(p) = Assigns(ReadString(buf, StdBody(p), StdCount(p)), StdBody(p) + StdCount(p))
  <2>1. StdMajor(p) \notin {0, 1} /\ StdMajor(p) # 4 /\ StdMajor(p) # 7
    BY <1>1, <1>3, Zenon
  <2> QED
    BY <1>3, <2>1, Zenon DEF StdItem
<1>4. ASSUME StdMajor(p) = 4
      PROVE  StdItem(p) = (CHOOSE f : IsElements(StdBody(p), StdCount(p), f))[StdCount(p)]
  <2>1. StdMajor(p) \notin {0, 1} /\ StdMajor(p) # 3 /\ StdMajor(p) # 7
    BY <1>1, <1>4, Zenon
  <2> QED
    BY <1>4, <2>1, Zenon DEF StdItem, IsElements, ElementStep
<1>5. ASSUME StdMajor(p) = 7, StdInfo(p) \in {20, 21} PROVE StdItem(p) = Assigns(<<StdInfo(p) - 20>>, p + 1)
  <2>1. StdMajor(p) \notin {0, 1} /\ StdMajor(p) # 3 /\ StdMajor(p) # 4
    BY <1>1, <1>5, Zenon
  <2> QED
    BY <1>5, <2>1, Zenon DEF StdItem
<1> QED
  BY <1>2, <1>3, <1>4, <1>5, Zenon

-----------------------------------------------------------------------------
(* The standard decoder: values and keys *)

\* What a decoder has to make of a value.
StdRight(f, value, v) ==
    CASE f.ann = "string" -> v = WellFormed(value)
      [] f.ann = "array" -> \A k \in DOMAIN value : SameNumber(value[k], v[k])
      [] OTHER -> v = value

StdReads(f, value, p) ==
    \E v : StdItem(p) = Assigns(v, p + ValueSize(f, value)) /\ StdRight(f, value, v)

LEMMA StdBoolean ==
  ASSUME buf \in Seq(Nat), NEW p \in Nat, NEW f, IsBoolean(f), NEW value, IsValue(f, value),
         Holds(buf, p, ValueBytes(f, value)), p + ValueSize(f, value) <= Len(buf)
  PROVE  StdReads(f, value, p)
<1>1. ValueSize(f, value) = 1 /\ value \in {<<0>>, <<1>>}
      /\ ValueBytes(f, value) = <<Tag(7, IF value = <<0>> THEN 20 ELSE 21)>>
  BY BooleanValue, Zenon
<1>2. PICK i : /\ i = (IF value = <<0>> THEN 20 ELSE 21) /\ i \in {20, 21}
               /\ i \in Nat /\ i \in 0..31 /\ <<i - 20>> = value
  <2>1. \A i \in {20, 21} : i \in Nat /\ i \in 0..31
    OBVIOUS
  <2>2. <<20 - 20>> = <<0>> /\ <<21 - 20>> = <<1>> /\ <<0>> # <<1>> /\ 20 \in {20, 21} /\ 21 \in {20, 21}
    OBVIOUS
  <2> QED
    BY <1>1, <2>1, <2>2
<1>3. PICK t \in Nat : t = Tag(7, i)
  <2>1. 7 \in Nat
    OBVIOUS
  <2> QED
    BY <1>2, <2>1, Tags, Zenon
<1>4. <<t>> = <<t>> \o <<>> /\ <<>> \in Seq(Nat)
  OBVIOUS
<1>5. Holds(buf, p, <<t>> \o <<>>) /\ p + 1 <= Len(buf)
  BY <1>1, <1>2, <1>3, <1>4, Zenon
<1>6. buf[p + 1] = t
  BY <1>4, <1>5, FirstByte, Zenon
<1>7. StdMajor(p) = 7 /\ StdInfo(p) = i
  <2>1. 7 \in 0..7
    OBVIOUS
  <2>2. Tag(7, i) \div 32 = 7 /\ Tag(7, i) % 32 = i
    BY <1>2, <2>1, TagParts, Zenon
  <2>3. buf[p + 1] \div 32 = 7 /\ buf[p + 1] % 32 = i
    BY <1>3, <1>6, <2>2, Zenon
  <2> QED
    BY <2>3, Zenon DEF StdMajor, StdInfo
<1>8. StdItem(p) = Assigns(<<i - 20>>, p + 1)
  <2>1. StdInfo(p) \in {20, 21}
    BY <1>2, <1>7, Zenon
  <2>2. StdItem(p) = Assigns(<<StdInfo(p) - 20>>, p + 1)
    BY <1>7, <2>1, StdItems, Zenon
  <2> QED
    BY <1>7, <2>2, Zenon
<1>9. StdRight(f, value, value)
  BY Zenon DEF StdRight, IsBoolean
<1> QED
  BY <1>1, <1>2, <1>8, <1>9, Zenon DEF StdReads

LEMMA StdNumberField ==
  ASSUME buf \in Seq(Nat), NEW p \in Nat, NEW f, IsNumber(f), ~f.computed, NEW value, IsValue(f, value),
         ~NotWritable(f, value), Holds(buf, p, ValueBytes(f, value)), p + ValueSize(f, value) <= Len(buf)
  PROVE  StdReads(f, value, p)
<1>1. ValueSize(f, value) = 5 /\ value \in [1..1 -> Int] /\ ValueBytes(f, value) = NumberBytes(value[1])
  BY NumberValue, Zenon
<1>2. PICK n \in Int : n = value[1] /\ value = <<n>>
  <2>1. value[1] \in Int /\ value = <<value[1]>>
    BY <1>1
  <2> QED
    BY <2>1
<1>3. n >= -Word /\ n < Word
  <2>1. n \in -Half..(Half - 1)
    BY <1>2, Zenon DEF NotWritable, IsNumber
  <2> QED
    BY <2>1, HalfWord, RadixTypes
<1>4. Holds(buf, p, NumberBytes(n)) /\ p + 5 <= Len(buf)
  BY <1>1, <1>2, Zenon
<1>5. StdMajor(p) \in {0, 1} /\ StdBody(p) = p + 5 /\ Kept(n, StdNumber(p))
  BY <1>4, StdNumberRead, Zenon
<1>6. StdNumber(p) = n
  BY <1>3, <1>5, Zenon DEF Kept
<1>7. StdItem(p) = Assigns(value, p + 5)
  BY <1>2, <1>5, <1>6, StdItems, Zenon
<1>8. StdRight(f, value, value)
  BY Zenon DEF StdRight, IsNumber
<1> QED
  BY <1>1, <1>7, <1>8, Zenon DEF StdReads

LEMMA StdText ==
  ASSUME buf \in Seq(Nat), NEW p \in Nat, NEW f, IsString(f), NEW value, IsValue(f, value),
         Holds(buf, p, ValueBytes(f, value)), p + ValueSize(f, value) <= Len(buf)
  PROVE  StdReads(f, value, p)
<1>1. /\ ValueSize(f, value) = HeadSize(Utf8ByteLength(value)) + Utf8ByteLength(value)
      /\ ValueBytes(f, value) = CountHead(3, Utf8ByteLength(value)) \o WriteString(value)
      /\ value \in Seq(Units) /\ Utf8ByteLength(value) < Word
  BY StringValue, Zenon
<1>2. PICK n \in Nat : n = Utf8ByteLength(value) /\ WriteString(value) \in Seq(Nat)
  BY <1>1, WrittenLength, Zenon
<1>3. 3 \in Nat /\ 3 \in 0..7
  OBVIOUS
<1>4. PICK h \in Nat : h = HeadSize(n) /\ Len(CountHead(3, n)) = h /\ CountHead(3, n) \in Seq(Nat)
  BY <1>3, HeadLength, Zenon
<1>5. Holds(buf, p, CountHead(3, n)) /\ Holds(buf, p + h, WriteString(value))
  <2>1. Holds(buf, p, CountHead(3, n) \o WriteString(value))
    BY <1>1, <1>2, Zenon
  <2>2. Holds(buf, p, CountHead(3, n)) /\ Holds(buf, p + Len(CountHead(3, n)), WriteString(value))
    BY <1>2, <1>4, <2>1, HoldsParts, Zenon
  <2> QED
    BY <1>4, <2>2, Zenon
<1>6. /\ p + h \in Nat /\ p + (h + n) = (p + h) + n /\ p + h <= Len(buf) /\ (p + h) + n <= Len(buf)
      /\ ValueSize(f, value) = h + n
  <2>1. ValueSize(f, value) = h + n
    BY <1>1, <1>2, <1>4, Zenon
  <2>2. p + (h + n) <= Len(buf) /\ Len(buf) \in Nat
    BY <2>1
  <2> QED
    BY <2>1, <2>2
<1>7. StdHead(p, 3, n, p + h)
  <2>1. n < Word /\ p + HeadSize(n) <= Len(buf)
    BY <1>1, <1>2, <1>4, <1>6, Zenon
  <2>2. StdHead(p, 3, n, p + HeadSize(n))
    BY <1>3, <1>5, <2>1, StdCounted, Zenon
  <2> QED
    BY <1>4, <2>2, Zenon
<1>8. ReadString(buf, p + h, n) = WellFormed(value)
  BY <1>1, <1>2, <1>5, <1>6, TextRead, Zenon
<1>9. StdItem(p) = Assigns(WellFormed(value), p + (h + n))
  BY <1>6, <1>7, <1>8, StdItems, Zenon DEF StdHead
<1>10. StdRight(f, value, WellFormed(value))
  BY Zenon DEF StdRight, IsString
<1> QED
  BY <1>6, <1>9, <1>10, Zenon DEF StdReads

LEMMA StdArray ==
  ASSUME buf \in Seq(Nat), NEW p \in Nat, NEW f, IsArray(f), NEW value, IsValue(f, value),
         Holds(buf, p, ValueBytes(f, value)), p + ValueSize(f, value) <= Len(buf)
  PROVE  StdReads(f, value, p)
<1>1. /\ ValueSize(f, value) = HeadSize(Len(value)) + 5 * Len(value)
      /\ ValueBytes(f, value) = CountHead(4, Len(value)) \o ArrayBytes(value)
      /\ value \in Seq(Int) /\ Len(value) < Word
  BY ArrayValue, Zenon
<1>2. PICK n \in Nat : n = Len(value)
  BY <1>1
<1>3. 4 \in Nat /\ 4 \in 0..7 /\ ArrayBytes(value) \in Seq(Nat)
  <2>1. 4 \in Nat /\ 4 \in 0..7
    OBVIOUS
  <2>2. ArrayBytes(value) \in Seq(Nat)
    BY <1>1, ArrayElements
  <2> QED
    BY <2>1, <2>2
<1>4. PICK h \in Nat : h = HeadSize(n) /\ Len(CountHead(4, n)) = h /\ CountHead(4, n) \in Seq(Nat)
  BY <1>3, HeadLength, Zenon
<1>5. Holds(buf, p, CountHead(4, n)) /\ Holds(buf, p + h, ArrayBytes(value))
  <2>1. Holds(buf, p, CountHead(4, n) \o ArrayBytes(value))
    BY <1>1, <1>2, Zenon
  <2>2. Holds(buf, p, CountHead(4, n)) /\ Holds(buf, p + Len(CountHead(4, n)), ArrayBytes(value))
    BY <1>3, <1>4, <2>1, HoldsParts, Zenon
  <2> QED
    BY <1>4, <2>2, Zenon
<1>6. /\ p + h \in Nat /\ p + (h + 5 * n) = (p + h) + 5 * n /\ p + h <= Len(buf) /\ (p + h) + 5 * n <= Len(buf)
      /\ ValueSize(f, value) = h + 5 * n
  <2>1. ValueSize(f, value) = h + 5 * n
    BY <1>1, <1>2, <1>4, Zenon
  <2>2. p + (h + 5 * n) <= Len(buf) /\ Len(buf) \in Nat
    BY <2>1
  <2> QED
    BY <2>1, <2>2
<1>7. StdHead(p, 4, n, p + h)
  <2>1. n < Word /\ p + HeadSize(n) <= Len(buf)
    BY <1>1, <1>2, <1>4, <1>6, Zenon
  <2>2. StdHead(p, 4, n, p + HeadSize(n))
    BY <1>3, <1>5, <2>1, StdCounted, Zenon
  <2> QED
    BY <1>4, <2>2, Zenon
<1>8. PICK g : g = (CHOOSE e : IsElements(p + h, n, e)) /\ IsElements(p + h, n, g)
  BY ElementsFunction, Zenon
<1>9. StdItem(p) = g[n]
  <2>1. StdItem(p) = (CHOOSE e : IsElements(StdBody(p), StdCount(p), e))[StdCount(p)]
    BY <1>7, StdItems, Zenon DEF StdHead
  <2> QED
    BY <1>7, <1>8, <2>1, Zenon DEF StdHead
<1>10. PICK r : g[n] = Assigns(r, (p + h) + 5 * n) /\ \A k \in 1..n : SameNumber(value[k], r[k])
  <2>1. IsElements(p + h, Len(value), g) /\ (p + h) + 5 * Len(value) <= Len(buf)
    BY <1>2, <1>6, <1>8, Zenon
  <2>2. PICK q \in Nat : q = p + h
    BY <1>6, Zenon
  <2>3. /\ value \in Seq(Int) /\ Holds(buf, q, ArrayBytes(value)) /\ q + 5 * Len(value) <= Len(buf)
        /\ IsElements(q, Len(value), g)
    BY <1>1, <1>5, <2>1, <2>2, Zenon
  <2>4. \E r : /\ g[Len(value)] = Assigns(r, q + 5 * Len(value))
               /\ \A k \in 1..Len(value) : SameNumber(value[k], r[k])
    BY <2>3, StdElements, ZenonT(30)
  <2> QED
    BY <1>2, <2>2, <2>4, Zenon
<1>11. StdRight(f, value, r)
  <2>1. DOMAIN value = 1..n
    BY <1>1, <1>2
  <2> QED
    BY <1>10, <2>1, Zenon DEF StdRight, IsArray
<1> QED
  BY <1>6, <1>9, <1>10, <1>11, Zenon DEF StdReads

\* Any decoder reads a value where it was written.
LEMMA StdValue ==
  ASSUME buf \in Seq(Nat), NEW p \in Nat, NEW f \in Fields, Typed(f), NEW value, IsValue(f, value),
         ~NotWritable(f, value), Holds(buf, p, ValueBytes(f, value)), p + ValueSize(f, value) <= Len(buf)
  PROVE  StdReads(f, value, p)
<1>1. IsBoolean(f) \/ IsNumber(f) \/ IsString(f) \/ IsArray(f) \/ IsOther(f)
  BY FieldTypes
<1>2. ~f.computed /\ ~IsOther(f)
  <2>1. IsOther(f) => f.ann = "other"
    BY DEF IsOther, Fields, Annotated
  <2> QED
    BY <2>1 DEF Typed
<1>3. CASE IsBoolean(f)
  BY <1>3, StdBoolean, Zenon
<1>4. CASE IsNumber(f)
  BY <1>2, <1>4, StdNumberField, Zenon
<1>5. CASE IsArray(f)
  BY <1>5, StdArray, Zenon
<1>6. CASE IsString(f)
  BY <1>6, StdText, Zenon
<1> QED
  BY <1>1, <1>2, <1>3, <1>4, <1>5, <1>6, Zenon

\* Bytes below 128 are read as the units they are.
LEMMA AsciiRead ==
  ASSUME NEW b \in Seq(Nat), NEW p \in Nat, NEW key \in Seq(Nat), \A i \in 1..Len(key) : key[i] < 128,
         Holds(b, p, key), p + Len(key) <= Len(b)
  PROVE  ReadString(b, p, Len(key)) = key
<1>1. PICK N \in Nat : N = Len(key)
  OBVIOUS
<1>2. PICK end \in Nat : end = p + N /\ end <= Len(b)
  BY <1>1
<1>3. PICK f : IsRead(b, end, f) /\ ReadString(b, p, N) = f[p + 1]
  BY <1>2, ReadFunction, Zenon
<1> DEFINE S == {n \in Nat : n <= N => f[(p + n) + 1] = Rest(key, n + 1)}
<1>4. N \in S
  <2>1. (p + N) + 1 > end /\ (p + N) + 1 \in Nat
    BY <1>2
  <2>2. f[(p + N) + 1] = ReadStep(b, end, f, (p + N) + 1)
    BY <1>3, <2>1, Zenon DEF IsRead
  <2>3. f[(p + N) + 1] = <<>>
    BY <2>1, <2>2, Zenon DEF ReadStep
  <2>4. Rest(key, N + 1) = <<>>
    BY <1>1, RestEnds, Zenon
  <2> QED
    BY <2>3, <2>4, Zenon
<1>5. ASSUME NEW n \in Nat, n + 1 \in S PROVE n \in S
  <2> SUFFICES ASSUME n <= N PROVE f[(p + n) + 1] = Rest(key, n + 1)
    OBVIOUS
  <2>1. CASE n = N
    BY <1>4, <2>1
  <2>2. CASE n # N
    <3>1. /\ n + 1 <= N /\ n + 1 \in 1..Len(key) /\ (n + 1) + 1 \in Nat
          /\ p + (n + 1) = (p + n) + 1 /\ (p + (n + 1)) + 1 = ((p + n) + 1) + 1
          /\ p + (n + 1) <= Len(b) /\ (p + n) + 1 \in Nat /\ ~((p + n) + 1 > end)
      BY <1>1, <1>2, <2>2
    <3>2. f[(p + (n + 1)) + 1] = Rest(key, (n + 1) + 1)
      BY <1>5, <3>1, Zenon
    <3>3. b[(p + n) + 1] = key[n + 1]
      <4>1. b[p + (n + 1)] = key[n + 1]
        BY <3>1, Zenon DEF Holds
      <4> QED
        BY <3>1, <4>1
    <3>4. b[(p + n) + 1] < FirstCode(2)
      <4>1. key[n + 1] < 128
        BY <3>1
      <4> QED
        BY <3>3, <4>1, Widths
    <3>5. f[(p + n) + 1] = ReadStep(b, end, f, (p + n) + 1)
      BY <1>3, <3>1, Zenon DEF IsRead
    <3>6. f[(p + n) + 1] = <<b[(p + n) + 1]>> \o f[((p + n) + 1) + 1]
      <4>1. /\ ~(b[(p + n) + 1] >= FirstCode(2) /\ b[(p + n) + 1] < Mark(2))
            /\ ~(b[(p + n) + 1] >= Mark(2) /\ b[(p + n) + 1] < Mark(3))
            /\ ~(b[(p + n) + 1] >= Mark(3) /\ b[(p + n) + 1] < Mark(4))
        <5>1. b[(p + n) + 1] \in Nat
          BY <3>1, <3>3
        <5> QED
          BY <3>4, <5>1, Widths
      <4> QED
        BY <3>1, <3>4, <3>5, <4>1, Zenon DEF ReadStep
    <3>7. Rest(key, n + 1) = <<key[n + 1]>> \o Rest(key, (n + 1) + 1)
      BY <3>1, RestStep, Zenon
    <3> QED
      BY <3>1, <3>2, <3>3, <3>6, <3>7, Zenon
  <2> QED
    BY <2>1, <2>2
<1>6. 0 \in S
  <2> HIDE DEF S
  <2>1. 0 \in 0..N
    BY <1>1
  <2> QED
    BY <1>4, <1>5, <2>1, Downwards, Zenon
<1>7. f[p + 1] = Rest(key, 1)
  <2>1. 0 <= N /\ (p + 0) + 1 = p + 1 /\ 0 + 1 = 1
    BY <1>1
  <2> QED
    BY <1>6, <2>1, Zenon
<1> QED
  BY <1>1, <1>3, <1>7, RestEnds, Zenon

LEMMA LowByte == ASSUME NEW x \in Nat, x < 128 PROVE x % 256 = x
  OBVIOUS

\* A short key in ASCII is an item of its own, and reads as the key.
LEMMA StdKey ==
  ASSUME buf \in Seq(Nat), NEW p \in Nat, NEW f \in Fields, Len(f.key) < Inline,
         \A i \in DOMAIN f.key : f.key[i] < 128,
         Holds(buf, p, KeyBytes(f)), p + (1 + Len(f.key)) <= Len(buf)
  PROVE  StdItem(p) = Assigns(f.key, p + (1 + Len(f.key)))
<1>1. PICK k \in Nat : k = Len(f.key) /\ k < Inline
  BY FieldTypes, Zenon
<1>2. PICK s \in Seq(Nat) : s = f.key /\ Len(s) = k /\ \A i \in 1..k : s[i] < 128
  <2>5. f.key \in Seq(Units) /\ Len(f.key) \in Nat
    BY FieldTypes
  <2>1. (\A i \in 1..Len(f.key) : f.key[i] \in Nat) /\ DOMAIN f.key = 1..Len(f.key)
    BY <2>5 DEF Units
  <2>2. f.key = [i \in 1..k |-> f.key[i]]
    BY <1>1, <2>1, <2>5
  <2>3. [i \in 1..k |-> f.key[i]] \in Seq(Nat)
    BY <1>1, <2>1
  <2>4. f.key \in Seq(Nat)
    BY <2>2, <2>3, Zenon
  <2> QED
    BY <1>1, <2>1, <2>4, Zenon
<1>3. PICK t \in Nat : t = Tag(3, k) /\ t % 256 = t
  <2>1. Tag(3, k) \in Nat /\ Tag(3, k) < 128
    BY <1>1, RadixTypes DEF Tag
  <2> QED
    BY <2>1, LowByte, Zenon
<1>4. KeyBytes(f) = <<t>> \o s
  <2>1. [i \in 1..k |-> s[i] % 256] = s
    <3>1. \A i \in 1..k : s[i] \in Nat /\ s[i] < 128
      BY <1>2
    <3>2. \A i \in 1..k : s[i] % 256 = s[i]
      BY <3>1, LowByte, Zenon
    <3> QED
      BY <1>2, <3>2
  <2> QED
    BY <1>1, <1>2, <1>3, <2>1, Zenon DEF KeyBytes, KeyHead
<1>5. Holds(buf, p, <<t>> \o s)
  BY <1>4, Zenon
<1>6. buf[p + 1] = Tag(3, k) /\ Holds(buf, p + 1, s)
  <2>1. p + (1 + k) <= Len(buf) /\ Len(buf) \in Nat
    BY <1>1
  <2>2. p + 1 <= Len(buf)
    BY <2>1
  <2> QED
    BY <1>3, <1>5, <2>2, FirstByte, Zenon
<1>7. StdHead(p, 3, k, p + 1)
  <2>1. 3 \in 0..7 /\ k < Inline
    BY <1>1
  <2> QED
    BY <1>6, <2>1, StdShort, Zenon
<1>8. StdItem(p) = Assigns(ReadString(buf, p + 1, k), (p + 1) + k)
  BY <1>7, StdItems, Zenon DEF StdHead
<1>9. (p + 1) + k = p + (1 + k) /\ p + 1 \in Nat /\ (p + 1) + k <= Len(buf)
  <2>1. p + (1 + k) <= Len(buf)
    BY <1>1, Zenon
  <2> QED
    BY <2>1
<1>10. ReadString(buf, p + 1, k) = s
  BY <1>2, <1>6, <1>9, AsciiRead, Zenon
<1> QED
  BY <1>1, <1>2, <1>8, <1>9, <1>10, Zenon

-----------------------------------------------------------------------------
(* The standard decoder: the pairs of the map *)

\* What the decoder does of the map: the first pairs.
SecondItem(p) == StdItem(StdItem(p).next)
PairAt(p) == <<StdItem(p).value, SecondItem(p).value>>

PairStep(f, i) ==
    IF i = 0 THEN Assigns(<<>>, StdBody(0))
    ELSE Assigns(Append(f[i - 1].value, PairAt(f[i - 1].next)), SecondItem(f[i - 1].next).next)

IsPairs(n, f) == f = [i \in 0..n |-> PairStep(f, i)]

LEMMA PairsFunction ==
  ASSUME NEW n \in Nat
  PROVE  \E f : IsPairs(n, f)
<1> DEFINE S == {m \in Nat : \E f : f = [i \in 0..m |-> PairStep(f, i)]}
<1>1. 0 \in S
  <2> DEFINE f == [i \in 0..0 |-> Assigns(<<>>, StdBody(0))]
  <2>1. \A i \in 0..0 : \A g : PairStep(g, i) = Assigns(<<>>, StdBody(0))
    <3>1. \A i \in 0..0 : i = 0
      OBVIOUS
    <3> QED
      BY <3>1, Zenon DEF PairStep
  <2>2. f = [i \in 0..0 |-> PairStep(f, i)]
    <3>1. \A g : (\A i \in 0..0 : PairStep(g, i) = Assigns(<<>>, StdBody(0)))
                 => [i \in 0..0 |-> PairStep(g, i)] = [i \in 0..0 |-> Assigns(<<>>, StdBody(0))]
      OBVIOUS
    <3> QED
      BY <2>1, <3>1, Zenon
  <2> HIDE DEF f
  <2>3. \E h : h = [i \in 0..0 |-> PairStep(h, i)]
    BY <2>2, Zenon
  <2>4. 0 \in Nat
    OBVIOUS
  <2> QED
    BY <2>3, <2>4, Zenon
<1>2. ASSUME NEW m \in Nat, m \in S PROVE m + 1 \in S
  <2>1. PICK f : f = [i \in 0..m |-> PairStep(f, i)]
    BY <1>2
  <2> DEFINE g == [i \in 0..(m + 1) |-> IF i = m + 1 THEN PairStep(f, m + 1) ELSE f[i]]
  <2>2. \A i \in 0..(m + 1) : i # 0 => g[i - 1] = f[i - 1]
    OBVIOUS
  <2>3. \A i \in 0..(m + 1) : g[i] = PairStep(g, i)
    <3> TAKE i \in 0..(m + 1)
    <3>1. PairStep(g, i) = PairStep(f, i)
      <4> HIDE DEF g
      <4> QED
        BY <2>2, Zenon DEF PairStep
    <3>2. g[i] = PairStep(f, i)
      <4>1. CASE i = m + 1
        BY <4>1
      <4>2. CASE i # m + 1
        <5>1. i \in 0..m /\ g[i] = f[i]
          BY <4>2
        <5>2. f[i] = PairStep(f, i)
          BY <2>1, <5>1, Zenon
        <5> QED
          BY <5>1, <5>2, Zenon
      <4> QED
        BY <4>1, <4>2
    <3> QED
      BY <3>1, <3>2, Zenon
  <2>4. g = [i \in 0..(m + 1) |-> g[i]]
    OBVIOUS
  <2> HIDE DEF g
  <2>5. g = [i \in 0..(m + 1) |-> PairStep(g, i)]
    BY <2>3, <2>4
  <2>6. m + 1 \in Nat
    OBVIOUS
  <2> QED
    BY <2>5, <2>6, Zenon
<1> HIDE DEF S
<1>3. n \in S
  BY <1>1, <1>2, Upwards, Zenon
<1> QED
  BY <1>3, Zenon DEF S, IsPairs

LEMMA PairsAreDecoded ==
  ASSUME NEW n \in Nat
  PROVE  \E f : IsPairs(n, f) /\ StdPairs(n) = f[n]
<1>1. PICK f : f = (CHOOSE g : IsPairs(n, g)) /\ IsPairs(n, f)
  BY PairsFunction, Zenon
<1>2. StdPairs(n) = (CHOOSE g : IsPairs(n, g))[n]
  BY Zenon DEF StdPairs, IsPairs, PairStep, PairAt, SecondItem
<1> QED
  BY <1>1, <1>2, Zenon

\* A pair is read where the one before it ended.
LEMMA PairRead ==
  ASSUME NEW o \in Objects, NEW n \in 0..(Len(o.class) - 1),
         NEW f, f = o.class[n + 1], NEW value, value = o.values[n + 1], Portable(f),
         buf \in Seq(Nat), Len(buf) = Whole(o), Sent(o, buf, n + 1)
  PROVE  \E v : /\ SecondItem(HeadLen(o) + Sums(o)[n]) = Assigns(v, HeadLen(o) + Sums(o)[n + 1])
                /\ StdRight(f, value, v)
                /\ StdItem(HeadLen(o) + Sums(o)[n]).value = f.key
<1>1. Typed(f) /\ Len(f.key) < Inline /\ ~f.computed /\ \A i \in DOMAIN f.key : f.key[i] < 128
  BY Zenon DEF Portable, Typed
<1>2. PICK at \in Nat, k \in Nat, z \in Nat, next \in Nat :
          /\ at = HeadLen(o) + Sums(o)[n] /\ at = Start(o, n + 1) /\ k = Len(f.key) /\ z = ValueSize(f, value)
          /\ next = HeadLen(o) + Sums(o)[n + 1] /\ next = (at + (1 + k)) + z /\ next <= Len(buf)
          /\ f \in Fields /\ IsValue(f, value)
  <2>1. Placed(o, n, f, value)
    BY PropertyPlace, Zenon
  <2> QED
    BY <1>1, <2>1, Zenon DEF Placed
<1>3. at + (1 + k) \in Nat /\ at + (1 + k) <= Len(buf)
  <2>1. Len(buf) \in Nat
    OBVIOUS
  <2>2. (at + (1 + k)) + z <= Len(buf)
    BY <1>2, Zenon
  <2> QED
    BY <2>1, <2>2
<1>4. ~NotWritable(f, value) /\ Holds(buf, at + (1 + k), ValueBytes(f, value))
  BY <1>1, <1>2, ValueIsSent, Zenon
<1>5. Holds(buf, at, KeyBytes(f))
  <2>1. KeyBytes(f) \in Seq(Nat) /\ ValueBytes(f, value) \in Seq(Nat)
    BY <1>2, KeyLength, ValueLength
  <2>2. WrittenBytes(f, value) = KeyBytes(f) \o ValueBytes(f, value)
    BY <1>1, <1>2, FieldLength, Zenon
  <2>3. Holds(buf, at, KeyBytes(f) \o ValueBytes(f, value))
    BY <1>2, <2>2, Zenon DEF Sent
  <2> QED
    BY <2>1, <2>3, HoldsParts, Zenon
<1>6. StdItem(at).next = at + (1 + k) /\ StdItem(at).value = f.key
  <2>1. StdItem(at) = Assigns(f.key, at + (1 + k))
    BY <1>1, <1>2, <1>3, <1>5, StdKey, Zenon
  <2>2. PICK q, w : q = at + (1 + k) /\ w = f.key
    BY Zenon
  <2>3. Assigns(w, q).value = w /\ Assigns(w, q).next = q
    BY ONLY Outcomes, Zenon
  <2> QED
    BY <2>1, <2>2, <2>3, Zenon
<1>7. PICK p \in Nat : p = at + (1 + k)
  BY <1>3, Zenon
<1>8. StdReads(f, value, p)
  <2>1. Holds(buf, p, ValueBytes(f, value)) /\ p + ValueSize(f, value) <= Len(buf)
    BY <1>2, <1>4, <1>7, Zenon
  <2> QED
    BY <1>1, <1>2, <1>4, <2>1, StdValue, Zenon
<1>9. PICK v : StdItem(p) = Assigns(v, next) /\ StdRight(f, value, v)
  BY <1>2, <1>7, <1>8, Zenon DEF StdReads
<1>10. SecondItem(at) = Assigns(v, next)
  BY <1>6, <1>7, <1>9, Zenon DEF SecondItem
<1> QED
  BY <1>2, <1>6, <1>9, <1>10, Zenon

\* The pairs of the first properties, and where the next one begins.
PairRight(f, value, w) == w[1] = f.key /\ StdRight(f, value, w[2])

Decoded(o, m, v, c) ==
    /\ Values(v, m) /\ c = Assigns(v, HeadLen(o) + Sums(o)[m])
    /\ \A i \in 1..m : PairRight(o.class[i], o.values[i], v[i])

LEMMA OneMoreValue ==
  ASSUME NEW m, NEW v, Values(v, m), NEW w
  PROVE  Longer(v, m, w, Append(v, w))
<1>1. PICK T : v \in Seq(T) /\ Len(v) = m
  BY Zenon DEF Values
<1>2. Longer(v, Len(v), w, Append(v, w))
  BY <1>1, Appended, Zenon
<1> QED
  BY <1>1, <1>2, Zenon

\* The decoder reads the map to its end.
LEMMA StdReadsMap ==
  ASSUME NEW o \in Objects, buf \in Seq(Nat), Len(buf) = Whole(o), StdBody(0) = HeadLen(o),
         \A i \in 1..Len(o.class) : Sent(o, buf, i) /\ Portable(o.class[i]),
         NEW f, IsPairs(Len(o.class), f)
  PROVE  \E v : Decoded(o, Len(o.class), v, f[Len(o.class)])
<1>1. PICK N \in Nat : N = Len(o.class)
  BY ObjectTypes, Zenon
<1>2. \A m \in 0..N : f[m] = PairStep(f, m)
  BY <1>1, Zenon DEF IsPairs
<1> DEFINE S == {m \in Nat : m <= N => \E v : Decoded(o, m, v, f[m])}
<1>3. 0 \in S
  <2>1. 0 \in 0..N /\ 0 \in Nat /\ 1..0 = {} /\ <<>> \in Seq(Nat) /\ Len(<<>>) = 0
    BY <1>1
  <2>2. f[0] = Assigns(<<>>, HeadLen(o))
    BY <1>2, <2>1, Zenon DEF PairStep
  <2>3. HeadLen(o) = HeadLen(o) + Sums(o)[0]
    <3>1. Sums(o)[0] = 0
      BY SumsExist, Zenon DEF IsSums
    <3>2. HeadLen(o) \in Nat
      BY HeadLenType, Zenon
    <3> QED
      BY <3>1, <3>2
  <2>4. Values(<<>>, 0)
    BY <2>1, Zenon DEF Values
  <2>5. \A i \in 1..0 : PairRight(o.class[i], o.values[i], <<>>[i])
    BY <2>1, Zenon
  <2>6. Decoded(o, 0, <<>>, f[0])
    <3>1. f[0] = Assigns(<<>>, HeadLen(o) + Sums(o)[0])
      BY <2>2, <2>3, Zenon
    <3> QED
      BY <2>4, <2>5, <3>1, Zenon DEF Decoded
  <2> QED
    BY <2>1, <2>6, Zenon
<1>4. ASSUME NEW m \in Nat, m \in S PROVE m + 1 \in S
  <2> SUFFICES ASSUME m + 1 <= N PROVE \E v : Decoded(o, m + 1, v, f[m + 1])
    OBVIOUS
  <2>1. /\ m <= N /\ m + 1 \in 0..N /\ (m + 1) - 1 = m /\ m + 1 # 0 /\ m + 1 \in 1..Len(o.class)
        /\ m \in 0..(Len(o.class) - 1)
    BY <1>1
  <2>2. PICK v : Decoded(o, m, v, f[m])
    BY <1>4, <2>1, Zenon
  <2>3. f[m].value = v /\ f[m].next = HeadLen(o) + Sums(o)[m]
    <3>1. PICK q : q = HeadLen(o) + Sums(o)[m]
      OBVIOUS
    <3>2. f[m] = Assigns(v, q)
      BY <2>2, <3>1, Zenon DEF Decoded
    <3>3. Assigns(v, q).value = v /\ Assigns(v, q).next = q
      BY ONLY Outcomes, Zenon
    <3> QED
      BY <3>1, <3>2, <3>3, Zenon
  <2>4. PICK u : /\ SecondItem(HeadLen(o) + Sums(o)[m]) = Assigns(u, HeadLen(o) + Sums(o)[m + 1])
                 /\ StdRight(o.class[m + 1], o.values[m + 1], u)
                 /\ StdItem(HeadLen(o) + Sums(o)[m]).value = o.class[m + 1].key
    BY <2>1, PairRead, Zenon
  <2>12. PICK w : w = <<o.class[m + 1].key, u>> /\ PairRight(o.class[m + 1], o.values[m + 1], w)
    <3>1. PICK key : key = o.class[m + 1].key
      OBVIOUS
    <3>2. PICK w : w = <<key, u>>
      OBVIOUS
    <3>3. w[1] = key /\ w[2] = u
      BY <3>2
    <3> QED
      BY <2>4, <3>1, <3>2, <3>3, Zenon DEF PairRight
  <2>5. PICK q : q = HeadLen(o) + Sums(o)[m + 1]
    OBVIOUS
  <2>6. PairAt(f[m].next) = w /\ SecondItem(f[m].next).next = q
    <3>1. SecondItem(f[m].next) = Assigns(u, q)
      BY <2>3, <2>4, <2>5, Zenon
    <3>2. Assigns(u, q).value = u /\ Assigns(u, q).next = q
      BY ONLY Outcomes, Zenon
    <3>3. StdItem(f[m].next).value = o.class[m + 1].key
      BY <2>3, <2>4, Zenon
    <3> QED
      BY <2>12, <3>1, <3>2, <3>3, Zenon DEF PairAt
  <2>7. PICK s : s = Append(v, w)
    OBVIOUS
  <2>8. f[m + 1] = Assigns(s, q)
    BY <1>2, <2>1, <2>3, <2>6, <2>7, Zenon DEF PairStep
  <2>9. Values(s, m + 1) /\ s[m + 1] = w /\ \A i \in 1..m : s[i] = v[i]
    <3>1. Values(v, m)
      BY <2>2, Zenon DEF Decoded
    <3>2. Longer(v, m, w, Append(v, w))
      BY <3>1, OneMoreValue, Zenon
    <3> QED
      BY <2>7, <3>2, Zenon DEF Longer
  <2>10. \A i \in 1..(m + 1) : PairRight(o.class[i], o.values[i], s[i])
    <3>1. \A i \in 1..(m + 1) : i \in 1..m \/ i = m + 1
      OBVIOUS
    <3>2. \A i \in 1..m : PairRight(o.class[i], o.values[i], v[i])
      BY <2>2, Zenon DEF Decoded
    <3> QED
      BY <2>9, <2>12, <3>1, <3>2, Zenon
  <2>11. Decoded(o, m + 1, s, f[m + 1])
    BY <2>5, <2>8, <2>9, <2>10, Zenon DEF Decoded
  <2> QED
    BY <2>11, Zenon
<1> HIDE DEF S
<1>5. N \in S /\ N <= N
  <2>1. \A m \in Nat : m \in S
    BY <1>3, <1>4, Upwards, Zenon
  <2> QED
    BY <1>1, <2>1
<1> QED
  BY <1>1, <1>5, Zenon DEF S

-----------------------------------------------------------------------------
(* The text that is written is valid UTF-8 *)

\* What the definition of valid UTF-8 says of the bytes from one on.
Continues(bs, k) == k <= Len(bs) /\ bs[k] \in 128..191
ValidFrom(bs, k, one, two, three, four) ==
    \/ k > Len(bs)
    \/ bs[k] \in 0..127 /\ one
    \/ bs[k] \in 194..223 /\ Continues(bs, k + 1) /\ two
    \/ /\ bs[k] \in 224..239 /\ Continues(bs, k + 1) /\ Continues(bs, k + 2)
       /\ bs[k] = 224 => bs[k + 1] >= 160
       /\ bs[k] = 237 => bs[k + 1] < 160
       /\ three
    \/ /\ bs[k] \in 240..244 /\ Continues(bs, k + 1) /\ Continues(bs, k + 2) /\ Continues(bs, k + 3)
       /\ bs[k] = 240 => bs[k + 1] >= 144
       /\ bs[k] = 244 => bs[k + 1] < 144
       /\ four

ValidStep(bs, f, k) == ValidFrom(bs, k, f[k + 1], f[k + 2], f[k + 3], f[k + 4])

IsValid(bs, f) == f = [k \in Nat |-> ValidStep(bs, f, k)]

LEMMA ValidFunction ==
  ASSUME NEW bs \in Seq(Nat)
  PROVE  \E f : IsValid(bs, f) /\ ValidUtf8(bs) = f[1]
<1> DEFINE From(n) == {i \in Nat : i >= n}
           S == {n \in Nat : \E f : f = [i \in From(n) |-> ValidStep(bs, f, i)]}
           N == Len(bs) + 1
<1>1. N \in Nat /\ N \in S
  <2>1. \A i \in From(N) : \A g : ValidStep(bs, g, i) = TRUE
    <3>1. \A i \in From(N) : i > Len(bs)
      OBVIOUS
    <3> QED
      BY <3>1, Zenon DEF ValidStep, ValidFrom
  <2>2. \A g : (\A i \in From(N) : ValidStep(bs, g, i) = TRUE)
               => [i \in From(N) |-> ValidStep(bs, g, i)] = [i \in From(N) |-> TRUE]
    <3> HIDE DEF From, N
    <3> QED
      BY Zenon
  <2>3. PICK f : f = [i \in From(N) |-> TRUE]
    OBVIOUS
  <2>4. f = [i \in From(N) |-> ValidStep(bs, f, i)]
    BY <2>1, <2>2, <2>3, Zenon
  <2>5. N \in Nat
    OBVIOUS
  <2> QED
    BY <2>4, <2>5, Zenon
<1>2. ASSUME NEW n \in Nat, n + 1 \in S PROVE n \in S
  <2>1. PICK f : f = [i \in From(n + 1) |-> ValidStep(bs, f, i)]
    BY <1>2, Zenon
  <2> DEFINE g == [i \in From(n) |-> IF i = n THEN ValidStep(bs, f, n) ELSE f[i]]
  <2>2. \A i \in From(n) : g[i + 1] = f[i + 1] /\ g[i + 2] = f[i + 2]
                          /\ g[i + 3] = f[i + 3] /\ g[i + 4] = f[i + 4]
    <3>1. \A i \in From(n) : /\ i + 1 \in From(n) /\ i + 1 # n /\ i + 2 \in From(n) /\ i + 2 # n
                             /\ i + 3 \in From(n) /\ i + 3 # n /\ i + 4 \in From(n) /\ i + 4 # n
      OBVIOUS
    <3> HIDE DEF From
    <3> QED
      BY <3>1, Zenon
  <2>3. \A i \in From(n) : g[i] = ValidStep(bs, g, i)
    <3> TAKE i \in From(n)
    <3>1. ValidStep(bs, g, i) = ValidStep(bs, f, i)
      <4> HIDE DEF g, From
      <4>1. g[i + 1] = f[i + 1] /\ g[i + 2] = f[i + 2] /\ g[i + 3] = f[i + 3] /\ g[i + 4] = f[i + 4]
        BY <2>2, Zenon
      <4> QED
        BY ONLY <4>1, Zenon DEF ValidStep
    <3>2. g[i] = ValidStep(bs, f, i)
      <4>1. CASE i = n
        <5> HIDE DEF From
        <5> QED
          BY <4>1, Zenon
      <4>2. CASE i # n
        <5>1. i \in From(n + 1)
          BY <4>2
        <5>2. g[i] = f[i]
          <6> HIDE DEF From
          <6> QED
            BY <4>2, Zenon
        <5>3. f[i] = ValidStep(bs, f, i)
          <6> HIDE DEF From
          <6> QED
            BY <2>1, <5>1, Zenon
        <5> QED
          BY <5>2, <5>3, Zenon
      <4> QED
        BY <4>1, <4>2
    <3> HIDE DEF g
    <3> QED
      BY <3>1, <3>2, Zenon
  <2>4. g = [i \in From(n) |-> g[i]]
    <3> HIDE DEF From
    <3> QED
      BY Zenon
  <2> HIDE DEF g
  <2>5. g = [i \in From(n) |-> ValidStep(bs, g, i)]
    <3> HIDE DEF From
    <3>1. [i \in From(n) |-> g[i]] = [i \in From(n) |-> ValidStep(bs, g, i)]
      BY <2>3, Zenon
    <3> QED
      BY <2>4, <3>1, Zenon
  <2> QED
    BY <2>5, Zenon
<1> HIDE DEF S
<1>3. 0 \in S
  <2>1. \A n \in 0..N : n \in S
    BY <1>1, <1>2, Downwards, Zenon
  <2> QED
    BY <1>1, <2>1
<1>4. PICK f : f = [i \in Nat |-> ValidStep(bs, f, i)]
  <2>1. From(0) = Nat
    OBVIOUS
  <2>2. \E f : f = [i \in From(0) |-> ValidStep(bs, f, i)]
    BY <1>3, Zenon DEF S
  <2> HIDE DEF From
  <2> QED
    BY <2>1, <2>2, Zenon
<1> DEFINE p == CHOOSE h : h = [i \in Nat |-> ValidStep(bs, h, i)]
<1>5. ValidUtf8(bs) = p[1]
  BY Zenon DEF ValidUtf8, ValidStep, ValidFrom, Continues
<1>6. p = [i \in Nat |-> ValidStep(bs, p, i)]
  BY <1>4, Zenon
<1> HIDE DEF p
<1> QED
  BY <1>5, <1>6, Zenon DEF IsValid

\* The characters that Unicode has.
Scalar(c) == c \in Nat /\ c <= LastCode /\ ~HighSurrogate(c) /\ ~LowSurrogate(c)

LEMMA ScalarsAreWritten ==
  ASSUME NEW str \in Seq(Units), NEW i \in 1..Len(str), NEW c \in Nat, NEW k, c <= LastCode, Character(str, i, c, k)
  PROVE  Scalar(c)
<1>1. CASE Paired(str, i) /\ c = CodePoint(str[i], str[i + 1])
  <2>1. c >= FirstCode(4)
    BY <1>1, CodeUnits
  <2> QED
    BY <2>1, Widths, SMT DEF Scalar, HighSurrogate, LowSurrogate
<1>2. CASE c = Replacement
  BY <1>2, SMT DEF Scalar, HighSurrogate, LowSurrogate, Replacement
<1>3. CASE ~(HighSurrogate(str[i]) \/ LowSurrogate(str[i])) /\ c = str[i]
  BY <1>3, Zenon DEF Scalar
<1> QED
  BY <1>1, <1>2, <1>3, Zenon DEF Character

\* The first byte of a character and the second are as they should be.
WellShaped(c) ==
    /\ \A k \in 0..2 : Continuation(c, k) \in 128..191
    /\ c < FirstCode(2) => c \in 0..127
    /\ c >= FirstCode(2) /\ c < FirstCode(3) => Mark(2) + Shift(c, 1) \in 194..223
    /\ c >= FirstCode(3) /\ c < FirstCode(4) =>
          /\ Mark(3) + Shift(c, 2) \in 224..239
          /\ Mark(3) + Shift(c, 2) = 224 => Continuation(c, 1) >= 160
          /\ Mark(3) + Shift(c, 2) = 237 => Continuation(c, 1) < 160
    /\ c >= FirstCode(4) =>
          /\ Mark(4) + Shift(c, 3) \in 240..244
          /\ Mark(4) + Shift(c, 3) = 240 => Continuation(c, 2) >= 144
          /\ Mark(4) + Shift(c, 3) = 244 => Continuation(c, 2) < 144

LEMMA ScalarBytes ==
  ASSUME NEW c, Scalar(c)
  PROVE  WellShaped(c)
<1>1. c \in Nat /\ c < 1114112 /\ ~(c >= 55296 /\ c < 57344)
  BY SMT DEF Scalar, LastCode, HighSurrogate, LowSurrogate
<1>2. /\ Continuation(c, 0) = 128 + (c % 64) /\ Continuation(c, 1) = 128 + ((c \div 64) % 64)
      /\ Continuation(c, 2) = 128 + ((c \div 4096) % 64)
  BY <1>1, SMT DEF Continuation, Shift
<1>3. /\ Shift(c, 1) = c \div 64 /\ Shift(c, 2) = c \div 4096 /\ Shift(c, 3) = c \div 262144
  BY SMT DEF Shift
<1>4. \A k \in 0..2 : Continuation(c, k) \in 128..191
  <2>1. \A x \in Nat : 128 + (x % 64) \in 128..191
    BY SMT
  <2>2. c \in Nat /\ c \div 64 \in Nat /\ c \div 4096 \in Nat
    BY <1>1, SMT
  <2>3. \A k \in 0..2 : k = 0 \/ k = 1 \/ k = 2
    OBVIOUS
  <2> QED
    BY <1>2, <2>1, <2>2, <2>3, SMT
<1>5. c < FirstCode(2) => c \in 0..127
  BY <1>1, Widths, SMT
<1>6. c >= FirstCode(2) /\ c < FirstCode(3) => Mark(2) + Shift(c, 1) \in 194..223
  <2>1. c >= 128 /\ c < 2048 => 192 + (c \div 64) \in 194..223
    BY <1>1, SMT
  <2> QED
    BY <1>3, <2>1, Widths, SMT
<1>7. ASSUME c >= FirstCode(3), c < FirstCode(4)
      PROVE  /\ Mark(3) + Shift(c, 2) \in 224..239
             /\ Mark(3) + Shift(c, 2) = 224 => Continuation(c, 1) >= 160
             /\ Mark(3) + Shift(c, 2) = 237 => Continuation(c, 1) < 160
  <2>1. c >= 2048 /\ c < 65536
    BY <1>7, Widths, SMT
  <2>2. 224 + (c \div 4096) \in 224..239
    BY <1>1, <2>1, SMT
  <2>3. 224 + (c \div 4096) = 224 => 128 + ((c \div 64) % 64) >= 160
    BY <1>1, <2>1, SMT
  <2>4. 224 + (c \div 4096) = 237 => 128 + ((c \div 64) % 64) < 160
    BY <1>1, <2>1, SMT
  <2> QED
    BY <1>2, <1>3, <2>2, <2>3, <2>4, Widths, SMT
<1>8. ASSUME c >= FirstCode(4)
      PROVE  /\ Mark(4) + Shift(c, 3) \in 240..244
             /\ Mark(4) + Shift(c, 3) = 240 => Continuation(c, 2) >= 144
             /\ Mark(4) + Shift(c, 3) = 244 => Continuation(c, 2) < 144
  <2>1. c >= 65536
    BY <1>8, Widths, SMT
  <2>2. 240 + (c \div 262144) \in 240..244
    BY <1>1, <2>1, SMT
  <2>3. 240 + (c \div 262144) = 240 => 128 + ((c \div 4096) % 64) >= 144
    BY <1>1, <2>1, SMT
  <2>4. 240 + (c \div 262144) = 244 => 128 + ((c \div 4096) % 64) < 144
    BY <1>1, <2>1, SMT
  <2> QED
    BY <1>2, <1>3, <2>2, <2>3, <2>4, Widths, SMT
<1> QED
  BY <1>4, <1>5, <1>6, <1>7, <1>8, Zenon DEF WellShaped

\* The bytes of a character are valid where valid text follows them.
ValidAt(bs, f, p) == p \in Nat /\ f[p + 1]

LEMMA ValidCharacter ==
  ASSUME NEW bs \in Seq(Nat), NEW f, IsValid(bs, f), NEW p \in Nat, NEW c \in Nat, Scalar(c),
         NEW u, u = Utf8Bytes(c), Holds(bs, p, u), p + Len(u) <= Len(bs), ValidAt(bs, f, p + Len(u))
  PROVE  ValidAt(bs, f, p)
<1>1. f[p + 1] = ValidFrom(bs, p + 1, f[(p + 1) + 1], f[(p + 1) + 2], f[(p + 1) + 3], f[(p + 1) + 4])
  <2>1. p + 1 \in Nat
    OBVIOUS
  <2> QED
    BY <2>1, Zenon DEF IsValid, ValidStep
<1>2. \A i \in 1..Len(u) : p + i <= Len(bs) => bs[p + i] = u[i]
  BY Zenon DEF Holds
<1>3. /\ \A k \in 0..2 : Continuation(c, k) \in 128..191
      /\ c < FirstCode(2) => c \in 0..127
      /\ c >= FirstCode(2) /\ c < FirstCode(3) => Mark(2) + Shift(c, 1) \in 194..223
      /\ c >= FirstCode(3) /\ c < FirstCode(4) =>
            /\ Mark(3) + Shift(c, 2) \in 224..239
            /\ Mark(3) + Shift(c, 2) = 224 => Continuation(c, 1) >= 160
            /\ Mark(3) + Shift(c, 2) = 237 => Continuation(c, 1) < 160
      /\ c >= FirstCode(4) =>
            /\ Mark(4) + Shift(c, 3) \in 240..244
            /\ Mark(4) + Shift(c, 3) = 240 => Continuation(c, 2) >= 144
            /\ Mark(4) + Shift(c, 3) = 244 => Continuation(c, 2) < 144
  <2>1. WellShaped(c)
    BY ScalarBytes, Zenon
  <2> QED
    BY <2>1, Zenon DEF WellShaped
<1>4. /\ (p + 1) + 1 = p + 2 /\ (p + 1) + 2 = p + 3 /\ (p + 1) + 3 = p + 4 /\ (p + 1) + 4 = p + 5
      /\ (p + 2) + 1 = p + 3 /\ (p + 3) + 1 = p + 4 /\ (p + 4) + 1 = p + 5
      /\ 0 \in 0..2 /\ 1 \in 0..2 /\ 2 \in 0..2
  OBVIOUS
<1>5. CASE c < FirstCode(2)
  <2>1. u = <<c>>
    BY <1>5, BytesOfCharacter, Zenon
  <2>2. Len(u) = 1 /\ u[1] = c
    BY <2>1
  <2>3. 1 \in 1..Len(u) /\ p + 1 <= Len(bs)
    BY <2>2
  <2>4. bs[p + 1] = c
    BY <1>2, <2>2, <2>3, Zenon
  <2>5. f[(p + 1) + 1]
    BY <2>2, Zenon DEF ValidAt
  <2>6. bs[p + 1] \in 0..127
    BY <1>3, <1>5, <2>4, Zenon
  <2>7. f[p + 1]
    BY <1>1, <2>5, <2>6, Zenon DEF ValidFrom
  <2> QED
    BY <2>7, Zenon DEF ValidAt
<1>6. CASE c >= FirstCode(2) /\ c < FirstCode(3)
  <2>1. PICK x, y : x = Mark(2) + Shift(c, 1) /\ y = Continuation(c, 0)
    OBVIOUS
  <2>2. u = <<x, y>>
    BY <1>6, <2>1, BytesOfCharacter, Zenon
  <2>3. Len(u) = 2 /\ u[1] = x /\ u[2] = y
    BY <2>2
  <2>4. 1 \in 1..Len(u) /\ 2 \in 1..Len(u) /\ p + 1 <= Len(bs) /\ p + 2 <= Len(bs)
    BY <2>3
  <2>5. bs[p + 1] = x /\ bs[p + 2] = y
    BY <1>2, <2>3, <2>4, Zenon
  <2>6. f[p + 3]
    BY <1>4, <2>3, Zenon DEF ValidAt
  <2>7. x \in 194..223 /\ y \in 128..191
    BY <1>3, <1>4, <1>6, <2>1, ZenonT(30)
  <2>8. bs[p + 1] \in 194..223 /\ Continues(bs, (p + 1) + 1) /\ f[(p + 1) + 2]
    BY <1>4, <2>4, <2>5, <2>6, <2>7, ZenonT(60) DEF Continues
  <2>9. f[p + 1]
    BY <1>1, <2>8, Zenon DEF ValidFrom
  <2> QED
    BY <2>9, Zenon DEF ValidAt
<1>7. CASE c >= FirstCode(3) /\ c < FirstCode(4)
  <2>1. PICK x, y, z : x = Mark(3) + Shift(c, 2) /\ y = Continuation(c, 1) /\ z = Continuation(c, 0)
    OBVIOUS
  <2>2. u = <<x, y, z>>
    BY <1>7, <2>1, BytesOfCharacter, Zenon
  <2>3. Len(u) = 3 /\ u[1] = x /\ u[2] = y /\ u[3] = z
    BY <2>2
  <2>4. /\ 1 \in 1..Len(u) /\ 2 \in 1..Len(u) /\ 3 \in 1..Len(u)
        /\ p + 1 <= Len(bs) /\ p + 2 <= Len(bs) /\ p + 3 <= Len(bs)
    BY <2>3
  <2>5. bs[p + 1] = x /\ bs[p + 2] = y /\ bs[p + 3] = z
    BY <1>2, <2>3, <2>4, Zenon
  <2>6. f[p + 4]
    BY <1>4, <2>3, Zenon DEF ValidAt
  <2>7. /\ x \in 224..239 /\ y \in 128..191 /\ z \in 128..191
        /\ x = 224 => y >= 160
        /\ x = 237 => y < 160
    BY <1>3, <1>4, <1>7, <2>1, ZenonT(30)
  <2>8. /\ bs[p + 1] \in 224..239 /\ Continues(bs, (p + 1) + 1) /\ Continues(bs, (p + 1) + 2)
        /\ bs[p + 1] = 224 => bs[(p + 1) + 1] >= 160
        /\ bs[p + 1] = 237 => bs[(p + 1) + 1] < 160
        /\ f[(p + 1) + 3]
    BY <1>4, <2>4, <2>5, <2>6, <2>7, ZenonT(60) DEF Continues
  <2>9. f[p + 1]
    BY <1>1, <2>8, Zenon DEF ValidFrom
  <2> QED
    BY <2>9, Zenon DEF ValidAt
<1>8. CASE c >= FirstCode(4)
  <2>1. PICK x, y, z, v : /\ x = Mark(4) + Shift(c, 3) /\ y = Continuation(c, 2) /\ z = Continuation(c, 1)
                          /\ v = Continuation(c, 0)
    OBVIOUS
  <2>2. u = <<x, y, z, v>>
    BY <1>8, <2>1, BytesOfCharacter, Zenon
  <2>3. Len(u) = 4 /\ u[1] = x /\ u[2] = y /\ u[3] = z /\ u[4] = v
    BY <2>2
  <2>4. /\ 1 \in 1..Len(u) /\ 2 \in 1..Len(u) /\ 3 \in 1..Len(u) /\ 4 \in 1..Len(u)
        /\ p + 1 <= Len(bs) /\ p + 2 <= Len(bs) /\ p + 3 <= Len(bs) /\ p + 4 <= Len(bs)
    BY <2>3
  <2>5. bs[p + 1] = x /\ bs[p + 2] = y /\ bs[p + 3] = z /\ bs[p + 4] = v
    BY <1>2, <2>3, <2>4, Zenon
  <2>6. f[p + 5]
    BY <1>4, <2>3, Zenon DEF ValidAt
  <2>7. /\ x \in 240..244 /\ y \in 128..191 /\ z \in 128..191 /\ v \in 128..191
        /\ x = 240 => y >= 144
        /\ x = 244 => y < 144
    BY <1>3, <1>4, <1>8, <2>1, ZenonT(30)
  <2>8. /\ bs[p + 1] \in 240..244 /\ Continues(bs, (p + 1) + 1) /\ Continues(bs, (p + 1) + 2)
        /\ Continues(bs, (p + 1) + 3)
        /\ bs[p + 1] = 240 => bs[(p + 1) + 1] >= 144
        /\ bs[p + 1] = 244 => bs[(p + 1) + 1] < 144
        /\ f[(p + 1) + 4]
    BY <1>4, <2>4, <2>5, <2>6, <2>7, ZenonT(60) DEF Continues
  <2>9. f[p + 1]
    BY <1>1, <2>8, Zenon DEF ValidFrom
  <2> QED
    BY <2>9, Zenon DEF ValidAt
<1> QED
  BY <1>5, <1>6, <1>7, <1>8, Widths, SMT

\* Wherever the bytes v end, the text is valid from their first byte on.
Validates(bs, f, v) == \A p \in Nat : Holds(bs, p, v) /\ p + Len(v) = Len(bs) => ValidAt(bs, f, p)

LEMMA ValidStepBack ==
  ASSUME NEW bs \in Seq(Nat), NEW f, IsValid(bs, f), NEW c \in Nat, Scalar(c), NEW v \in Seq(Nat),
         Validates(bs, f, v)
  PROVE  Validates(bs, f, Utf8Bytes(c) \o v)
<1>1. PICK u \in Seq(Nat) : u = Utf8Bytes(c)
  BY BytesAreWhole, Zenon
<1> SUFFICES ASSUME NEW p \in Nat, Holds(bs, p, u \o v), p + Len(u \o v) = Len(bs) PROVE ValidAt(bs, f, p)
  BY <1>1, Zenon DEF Validates
<1>2. Holds(bs, p, u) /\ Holds(bs, p + Len(u), v)
  BY HoldsParts, Zenon
<1>3. Len(u) \in Nat /\ Len(v) \in Nat /\ Len(u \o v) = Len(u) + Len(v) /\ Len(bs) \in Nat
  OBVIOUS
<1>4. p + Len(u) \in Nat /\ (p + Len(u)) + Len(v) = Len(bs) /\ p + Len(u) <= Len(bs)
  BY <1>3
<1>5. ValidAt(bs, f, p + Len(u))
  BY <1>2, <1>4, Zenon DEF Validates
<1> QED
  BY <1>1, <1>2, <1>4, <1>5, ValidCharacter, ZenonT(30)

LEMMA WrittenTextIsValid ==
  ASSUME NEW str \in Seq(Units)
  PROVE  ValidUtf8(WriteString(str))
<1>1. PICK w : IsWrite(str, w) /\ WriteString(str) = w[1]
  BY WriteFunction, Zenon DEF IsWrite
<1>2. PICK l : IsLength(str, l)
  BY LengthFunction, Zenon DEF IsLength
<1>3. \A i \in Nat : i > 0 => w[i] \in Seq(Nat)
  BY <1>1, <1>2, LoopsAgree
<1>4. PICK bs \in Seq(Nat) : bs = WriteString(str)
  BY WrittenLength, Zenon
<1>5. PICK f : IsValid(bs, f) /\ ValidUtf8(bs) = f[1]
  BY ValidFunction, Zenon
<1> DEFINE N == Len(str)
           S == {n \in Nat : \A i \in Nat : i > n /\ i <= N + 1 /\ ~Second(str, i) => Validates(bs, f, w[i])}
<1>6. N \in Nat
  OBVIOUS
<1>7. Validates(bs, f, w[N + 1])
  <2>1. N + 1 \in Nat /\ N + 1 > N
    BY <1>6
  <2>2. w[N + 1] = WriteStep(str, w, N + 1)
    BY <1>1, <2>1, Zenon DEF IsWrite
  <2>3. w[N + 1] = <<>>
    BY <2>1, <2>2, Zenon DEF WriteStep
  <2> SUFFICES ASSUME NEW p \in Nat, p + Len(w[N + 1]) = Len(bs) PROVE ValidAt(bs, f, p)
    BY Zenon DEF Validates
  <2>4. p + 1 > Len(bs) /\ p + 1 \in Nat
    BY <2>3
  <2>5. f[p + 1] = ValidFrom(bs, p + 1, f[(p + 1) + 1], f[(p + 1) + 2], f[(p + 1) + 3], f[(p + 1) + 4])
    BY <1>5, <2>4, Zenon DEF IsValid, ValidStep
  <2> QED
    BY <2>4, <2>5, Zenon DEF ValidAt, ValidFrom
<1>8. N + 1 \in S /\ N + 1 \in Nat
  <2>1. N + 1 \in Nat /\ \A i \in Nat : ~(i > N + 1 /\ i <= N + 1)
    BY <1>6
  <2> QED
    BY <2>1, Zenon
<1>9. ASSUME NEW n \in Nat, n + 1 \in S PROVE n \in S
  <2> SUFFICES ASSUME NEW i \in Nat, i > n, i <= N + 1, ~Second(str, i) PROVE Validates(bs, f, w[i])
    BY Zenon
  <2>1. CASE i > n + 1
    BY <1>9, <2>1, Zenon
  <2>2. CASE i = N + 1
    BY <1>7, <2>2, Zenon
  <2>3. CASE i = n + 1 /\ i # N + 1
    <3>1. i \in 1..Len(str)
      BY <2>3
    <3>2. PICK c \in Nat, k \in {1, 2} : w[i] = Utf8Bytes(c) \o w[i + k] /\ Character(str, i, c, k)
      <4>1. BothTake(str, l, w, i)
        BY <1>1, <1>2, <3>1, OneCharacter, Zenon
      <4> QED
        BY <4>1, Zenon DEF BothTake
    <3>3. i + k \in 1..(Len(str) + 1) /\ ~Second(str, i + k) /\ c <= LastCode
      BY <3>1, <3>2, CharacterRestored, Zenon
    <3>4. i + k \in Nat /\ i + k > n + 1 /\ i + k <= N + 1 /\ i + k > 0
      BY <2>3, <3>3
    <3>5. Validates(bs, f, w[i + k])
      BY <1>9, <3>3, <3>4, Zenon
    <3>6. PICK v \in Seq(Nat) : v = w[i + k]
      BY <1>3, <3>4, Zenon
    <3>7. Scalar(c)
      BY <3>1, <3>2, <3>3, ScalarsAreWritten, Zenon
    <3>8. Validates(bs, f, v)
      BY <3>5, <3>6, Zenon
    <3>9. Validates(bs, f, Utf8Bytes(c) \o v)
      BY <1>5, <3>7, <3>8, ValidStepBack, ZenonT(30)
    <3> QED
      BY <3>2, <3>6, <3>9, Zenon
  <2>4. i > n + 1 \/ i = N + 1 \/ (i = n + 1 /\ i # N + 1)
    BY <1>6
  <2> QED
    BY <2>1, <2>2, <2>3, <2>4, Zenon
<1>10. 0 \in S
  <2> HIDE DEF S
  <2>1. 0 \in 0..(N + 1)
    BY <1>6
  <2> QED
    BY <1>8, <1>9, <2>1, Downwards, Zenon
<1>11. Validates(bs, f, w[1])
  <2>1. 1 \in Nat /\ 1 > 0 /\ 1 <= N + 1 /\ ~(1 > 1)
    BY <1>6
  <2> QED
    BY <1>10, <2>1, Zenon DEF Second
<1>12. ValidAt(bs, f, 0)
  <2>1. 0 \in Nat /\ Len(bs) \in Nat
    OBVIOUS
  <2>2. 0 + Len(bs) = Len(bs) /\ \A i \in 1..Len(bs) : 0 + i = i
    BY <2>1
  <2>3. Holds(bs, 0, bs)
    BY <2>2, Zenon DEF Holds
  <2> QED
    BY <1>1, <1>4, <1>11, <2>1, <2>2, <2>3, Zenon DEF Validates
<1>13. 0 + 1 = 1
  OBVIOUS
<1> QED
  BY <1>4, <1>5, <1>12, <1>13, Zenon DEF ValidAt

-----------------------------------------------------------------------------
(* Any decoder reads the object *)

\* The map header stays where it was written.
HeadInv == phase \in {"write", "wire"} => Holds(buf, 0, MapHead(Class))

LEMMA HeadTypes ==
  ASSUME NEW o \in Objects
  PROVE  /\ MapHead(o.class) \in Seq(Nat) /\ HeadLen(o) \in Nat
         /\ Sums(o)[Len(o.class)] \in Nat /\ Whole(o) \in Nat /\ HeadLen(o) <= Whole(o)
<1>1. PICK n \in Nat : n = Len(o.class)
  BY ObjectTypes, Zenon
<1>2. CountHead(5, n) \in Seq(Nat)
  <2>1. 5 \in Nat
    OBVIOUS
  <2> QED
    BY <2>1, HeadLength, Zenon
<1>3. Sums(o)[n] \in Nat /\ HeadLen(o) \in Nat
  <2>1. n \in 0..Len(o.class)
    BY <1>1
  <2> QED
    BY <1>1, <2>1, SumsGrow, HeadLenType
<1>4. Whole(o) = HeadLen(o) + Sums(o)[n]
  BY <1>1, Zenon DEF Whole
<1>5. Whole(o) \in Nat /\ HeadLen(o) <= Whole(o)
  BY <1>3, <1>4
<1> QED
  BY <1>1, <1>2, <1>3, <1>5, Zenon DEF MapHead

LEMMA HeadInvHolds == CborSpec => []HeadInv
<1>1. CborInit => HeadInv
  BY DEF CborInit, HeadInv
<1>2. HeadInv /\ RestoreInv /\ CborInv /\ [CborNext]_cborVars => HeadInv'
  <2> SUFFICES ASSUME HeadInv, RestoreInv, CborInv, [CborNext]_cborVars PROVE HeadInv'
    OBVIOUS
  <2>1. object \in Objects /\ buf \in Seq(Nat) /\ field \in 0..Len(Class) /\ Class = object.class
    BY DEF CborInv, RestoreInv, Class
  <2>2. PICK h \in Seq(Nat) : h = MapHead(Class) /\ Len(h) = HeadLen(object)
    BY <2>1, HeadTypes, Zenon DEF HeadLen
  <2>3. CASE Allocate
    <3>1. /\ object' = object /\ buf' = [i \in 1.._size' |-> IF i \in DOMAIN h THEN h[i] ELSE 0]
      BY <2>2, <2>3 DEF Allocate
    <3>2. Class' = Class /\ MapHead(Class') = h
      BY <2>2, <3>1, Zenon DEF Class
    <3>3. PICK s : s = _size'
      OBVIOUS
    <3>4. buf' = [i \in 1..s |-> IF i \in DOMAIN h THEN h[i] ELSE 0]
      BY <3>1, <3>3, Zenon
    <3>5. s \in Nat
      <4>1. _size' = _size + Len(h)
        BY <2>2, <2>3 DEF Allocate
      <4>2. _size = Sums(object)[Len(object.class)]
        BY <2>1, <2>3 DEF Allocate, CborInv
      <4>3. _size \in Nat
        BY <2>1, <4>2, HeadTypes, Zenon
      <4> QED
        BY <3>3, <4>1, <4>3
    <3>6. PICK b : b = buf'
      OBVIOUS
    <3>7. Holds(b, 0, h)
      <4> SUFFICES ASSUME NEW i \in 1..Len(h), 0 + i <= Len(b) PROVE b[0 + i] = h[i]
        BY Zenon DEF Holds
      <4>1. Len(b) = s
        BY <3>4, <3>5, <3>6
      <4>2. i \in 1..s /\ 0 + i = i /\ i \in DOMAIN h
        BY <3>5, <4>1
      <4>3. b[i] = h[i]
        BY <3>4, <3>6, <4>2, Zenon
      <4> QED
        BY <4>2, <4>3, Zenon
    <3> QED
      BY <3>2, <3>6, <3>7, Zenon DEF HeadInv, Holds
  <2>4. CASE WriteField
    <3>1. /\ phase = "write" /\ object' = object /\ field < Len(Class)
          /\ buf' = Overlay(buf, _offset, WrittenBytes(object.class[field + 1], object.values[field + 1]))
      BY <2>4, Zenon DEF WriteField, Class, Field, Value, Stored, Overlay
    <3>2. Holds(buf, 0, h)
      BY <2>2, <3>1 DEF HeadInv
    <3>3. field \in 0..(Len(object.class) - 1) /\ field + 1 \in 1..Len(object.class)
      <4>1. Len(object.class) \in Nat
        BY <2>1, ObjectTypes
      <4> QED
        BY <2>1, <3>1, <4>1
    <3>4. PICK bs \in Seq(Nat) : bs = WrittenBytes(object.class[field + 1], object.values[field + 1])
      BY <2>1, <3>3, ObjectTypes, FieldLength
    <3>5. PICK at \in Nat : at = _offset /\ 0 + Len(h) <= at
      <4>1. _offset = HeadLen(object) + Sums(object)[field]
        BY <3>1 DEF CborInv
      <4>2. Sums(object)[field] \in Nat
        BY <2>1, <3>3, NextSum, Zenon
      <4>3. Len(h) \in Nat
        OBVIOUS
      <4>4. _offset \in Nat /\ 0 + Len(h) <= _offset
        BY <2>2, <4>1, <4>2, <4>3
      <4> QED
        BY <4>4, Zenon
    <3>6. \A p \in Nat : \A cs \in Seq(Nat) : Holds(buf, p, cs) /\ p + Len(cs) <= at
                                              => Holds(Overlay(buf, at, bs), p, cs)
      BY <2>1, OverlayBytes, Zenon
    <3>7. 0 \in Nat
      OBVIOUS
    <3>8. Holds(Overlay(buf, at, bs), 0, h)
      BY <3>2, <3>5, <3>6, <3>7, Zenon
    <3>9. PICK b : b = buf' /\ Holds(b, 0, h)
      BY <3>1, <3>4, <3>5, <3>8, Zenon
    <3>10. MapHead(Class') = h
      BY <2>2, <3>1, Zenon DEF Class
    <3> QED
      BY <3>9, <3>10, Zenon DEF HeadInv, Holds
  <2>5. CASE CutBuffer
    <3>1. phase = "wire" /\ object' = object /\ Len(buf) = _size
      BY <2>5 DEF CutBuffer
    <3>2. Holds(buf, 0, h)
      BY <2>2, <3>1 DEF HeadInv
    <3>3. PICK n \in Nat : buf' = SubSeq(buf, 1, n) /\ n <= Len(buf)
      <4>1. PICK n \in 0..(_size - 1) : buf' = SubSeq(buf, 1, n)
        BY <2>5 DEF CutBuffer
      <4>2. Len(buf) \in Nat
        BY <2>1
      <4>3. n \in Nat /\ n <= Len(buf)
        BY <3>1, <4>2
      <4> QED
        BY <4>1, <4>3
    <3>4. \A p \in Nat : \A bs \in Seq(Nat) : Holds(buf, p, bs) => Holds(SubSeq(buf, 1, n), p, bs)
      BY <2>1, <3>3, CutKeeps, Zenon
    <3>5. 0 \in Nat
      OBVIOUS
    <3>6. PICK b : b = buf' /\ Holds(b, 0, h)
      BY <3>2, <3>3, <3>4, <3>5, Zenon
    <3>7. MapHead(Class') = h
      BY <2>2, <3>1, Zenon DEF Class
    <3> QED
      BY <3>6, <3>7, Zenon DEF HeadInv, Holds
  <2>6. CASE SizeField \/ RefuseField \/ FromCBOR \/ ReadField \/ FailField \/ ReturnObject
    BY <2>6 DEF HeadInv, SizeField, RefuseField, FromCBOR, ReadField, FailField, ReturnObject
  <2>7. CASE ReturnBuffer \/ UNCHANGED cborVars
    <3>1. /\ object' = object /\ buf' = buf
          /\ (phase \in {"write", "wire"} \/ phase' \notin {"write", "wire"})
      BY <2>7 DEF ReturnBuffer, cborVars
    <3>2. Class' = Class
      BY <3>1, Zenon DEF Class
    <3> QED
      BY <3>1, <3>2, Zenon DEF HeadInv, Holds
  <2> QED
    BY <2>3, <2>4, <2>5, <2>6, <2>7, Zenon DEF CborNext
<1> QED
  BY <1>1, <1>2, CborInvHolds, RestoreInvHolds, PTL DEF CborSpec

\* A class whose properties all have a type and a short key in ASCII is written
\* as one CBOR map that any decoder reads to its end, with the keys and the
\* values that were sent, every string of it valid UTF-8.  For every such class
\* and object; of other keys nothing is claimed.
THEOREM AnyDecoderAgrees == CborSpec => []StandardDecoderAgrees
<1>1. HeadInv /\ RestoreInv /\ CborInv => StandardDecoderAgrees
  <2> SUFFICES ASSUME HeadInv, RestoreInv, CborInv, phase = "wire", Len(buf) = _size,
                      \A i \in DOMAIN Class : Portable(Class[i])
               PROVE  LET map == StdPairs(StdCount(0))
                      IN  /\ StdMajor(0) = 5 /\ StdCount(0) = Len(Class)
                          /\ map.next = Len(buf)
                          /\ \A i \in DOMAIN Class :
                                LET value == object.values[i]
                                    read == map.value[i][2]
                                IN  /\ map.value[i][1] = Class[i].key
                                    /\ CASE Class[i].ann = "string" ->
                                              read = WellFormed(value) /\ ValidUtf8(WriteString(value))
                                         [] Class[i].ann = "array" ->
                                              \A k \in DOMAIN value : SameNumber(value[k], read[k])
                                         [] OTHER -> read = value
    BY Zenon DEF StandardDecoderAgrees
  <2>1. PICK o \in Objects : o = object /\ Class = o.class
    BY DEF CborInv, Class
  <2>2. PICK N \in Nat : N = Len(o.class) /\ N < Word /\ DOMAIN Class = 1..N
    <3>1. Len(o.class) \in Nat /\ DOMAIN o.class = 1..Len(o.class)
      BY ObjectTypes
    <3>2. Len(o.class) < Word
      BY CborAssumption, Zenon
    <3> QED
      BY <2>1, <3>1, <3>2, Zenon
  <2>3. buf \in Seq(Nat) /\ Len(buf) = Whole(o) /\ \A i \in 1..N : Sent(o, buf, i)
    BY <2>1, <2>2 DEF RestoreInv
  <2>4. Holds(buf, 0, CountHead(5, N))
    <3>1. Holds(buf, 0, MapHead(Class))
      BY DEF HeadInv
    <3> QED
      BY <2>1, <2>2, <3>1, Zenon DEF MapHead
  <2>5. 5 \in Nat /\ 5 \in 0..7 /\ 0 \in Nat
    OBVIOUS
  <2>6. PICK h \in Nat : h = HeadLen(o) /\ h = HeadSize(N) /\ h <= Len(buf)
    <3>1. HeadLen(o) = Len(CountHead(5, N))
      BY <2>2, Zenon DEF HeadLen, MapHead
    <3>2. Len(CountHead(5, N)) = HeadSize(N)
      BY <2>5, HeadLength, Zenon
    <3> QED
      BY <2>3, <3>1, <3>2, HeadTypes, Zenon
  <2>7. 0 + h = h
    OBVIOUS
  <2>8. StdHead(0, 5, N, h)
    <3>1. 0 + HeadSize(N) <= Len(buf)
      BY <2>6, <2>7, Zenon
    <3>2. StdHead(0, 5, N, 0 + HeadSize(N))
      BY <2>2, <2>3, <2>4, <2>5, <3>1, StdCounted, Zenon
    <3> QED
      BY <2>6, <2>7, <3>2, Zenon
  <2>9. PICK f : IsPairs(N, f) /\ StdPairs(N) = f[N]
    BY PairsAreDecoded, Zenon
  <2>10. PICK v : Decoded(o, N, v, f[N])
    <3>1. \A i \in 1..Len(o.class) : Sent(o, buf, i) /\ Portable(o.class[i])
      BY <2>1, <2>2, <2>3, Zenon
    <3>2. StdBody(0) = HeadLen(o) /\ IsPairs(Len(o.class), f)
      BY <2>2, <2>6, <2>8, <2>9, Zenon DEF StdHead
    <3>3. \E v : Decoded(o, Len(o.class), v, f[Len(o.class)])
      BY <2>3, <3>1, <3>2, StdReadsMap, Zenon
    <3> QED
      BY <2>2, <3>3, Zenon
  <2>11. PICK m : m = StdPairs(StdCount(0))
    OBVIOUS
  <2>12. m.value = v /\ m.next = Len(buf)
    <3>1. PICK q : q = HeadLen(o) + Sums(o)[N] /\ q = Len(buf)
      BY <2>2, <2>3, Zenon DEF Whole
    <3>2. m = Assigns(v, q)
      BY <2>8, <2>9, <2>10, <2>11, <3>1, Zenon DEF Decoded, StdHead
    <3>3. Assigns(v, q).value = v /\ Assigns(v, q).next = q
      BY ONLY Outcomes, Zenon
    <3> QED
      BY <3>1, <3>2, <3>3, Zenon
  <2>13. StdMajor(0) = 5 /\ StdCount(0) = Len(Class)
    BY <2>1, <2>2, <2>8, Zenon DEF StdHead
  <2>14. ASSUME NEW i \in DOMAIN Class, NEW value, value = object.values[i]
         PROVE  LET read == m.value[i][2]
                IN  /\ m.value[i][1] = Class[i].key
                    /\ CASE Class[i].ann = "string" -> read = WellFormed(value) /\ ValidUtf8(WriteString(value))
                         [] Class[i].ann = "array" -> \A k \in DOMAIN value : SameNumber(value[k], read[k])
                         [] OTHER -> read = value
    <3>1. m.value[i][1] = Class[i].key /\ StdRight(Class[i], value, m.value[i][2])
      BY <2>1, <2>2, <2>10, <2>12, <2>14, Zenon DEF Decoded, PairRight
    <3>2. ASSUME Class[i].ann = "string" PROVE ValidUtf8(WriteString(value))
      <4>1. IsValue(Class[i], value)
        BY <2>1, <2>2, <2>14, ObjectTypes, Zenon
      <4>2. value \in Seq(Units)
        BY <3>2, <4>1 DEF IsValue
      <4> QED
        BY <4>2, WrittenTextIsValid, Zenon
    <3>3. "array" # "string"
      OBVIOUS
    <3> QED
      BY <3>1, <3>2, <3>3, Zenon DEF StdRight
  <2> QED
    BY <2>11, <2>12, <2>13, <2>14, Zenon
<1> QED
  BY <1>1, HeadInvHolds, RestoreInvHolds, CborInvHolds, PTL

=============================================================================
