------------------------- MODULE TimeoutHeap_proofs -------------------------
(***************************************************************************)
(* Proofs about the timeout heap, for any number of slots and places and   *)
(* any set of instants.                                                    *)
(***************************************************************************)
EXTENDS TimeoutHeap, FiniteSetTheorems, TLAPS

-----------------------------------------------------------------------------
(* The shape of the heap *)

LEMMA ParentIsAbove ==
  ASSUME NEW i \in Nat, i > 0
  PROVE  /\ Parent(i) \in Nat /\ Parent(i) < i
         /\ i = Left(Parent(i)) \/ i = Right(Parent(i))
  BY DEF Parent, Left, Right

LEMMA ChildHasOneParent ==
  ASSUME NEW p \in Nat, NEW c \in Nat, c = Left(p) \/ c = Right(p)
  PROVE  c > 0 /\ p < c /\ Parent(c) = p
  BY DEF Parent, Left, Right

LEMMA LiveTypes ==
  ASSUME TypeOK
  PROVE  /\ heap_size \in Nat /\ HeapMax \in Nat /\ heap_size <= HeapMax
         /\ \A p \in Live : /\ p \in Places /\ p \in Nat /\ p < heap_size
                            /\ heap_expires[p] \in Int /\ heap_slots[p] \in Slots
                            /\ 0 \in Live
  BY HeapAssumption DEF TypeOK, Live, Places

\* In an ordered heap nothing is due before place 0: of the places that were, the
\* first has a parent that is not, and that is not due after it.
LEMMA RootIsEarliest ==
  ASSUME TypeOK, \A p \in Live : \A c \in Below(p) : Ordered(p, c),
         NEW q \in Live
  PROVE  heap_expires[0] <= heap_expires[q]
<1> DEFINE T == {p \in Live : heap_expires[p] < heap_expires[0]}
<1> SUFFICES ASSUME T # {} PROVE FALSE
  <2>1. heap_expires[0] \in Int /\ heap_expires[q] \in Int
    BY LiveTypes
  <2>2. ~(heap_expires[0] <= heap_expires[q]) => q \in T
    BY <2>1
  <2> QED
    BY <2>2
<1>1. T \subseteq Nat
  BY DEF Live
<1>2. PICK x \in T : \A y \in T : ~(<<y, x>> \in OpToRel(<, Nat))
  BY <1>1, NatLessThanWellFounded, WFMin
<1>3. x \in Nat /\ x > 0 /\ x < heap_size
  BY HeapAssumption DEF Live, TypeOK, Places
<1>4. Parent(x) \in Live /\ x \in Below(Parent(x)) /\ Parent(x) < x
  BY <1>3, ParentIsAbove DEF TypeOK, Live, Below
<1>5. Parent(x) \notin T
  BY <1>1, <1>2, <1>4 DEF OpToRel
<1>6. Ordered(Parent(x), x)
  BY <1>4
<1> QED
  BY <1>3, <1>4, <1>5, <1>6, HeapAssumption DEF TypeOK, Live, Places, Ordered

-----------------------------------------------------------------------------
(* Swapping two places *)

\* A swap keeps the types and the two maps inverse to each other.
LEMMA SwapKeepsPlaces ==
  ASSUME TypeOK, PlacesMatch, NEW i \in Live, NEW j \in Live, HeapSwap(i, j),
         UNCHANGED <<heap_size, history>>
  PROVE  /\ heap_slots' \in [Places -> Slots]
         /\ heap_expires' \in [Places -> Int]
         /\ slot_to_heap_idx' \in [Slots -> -1 .. HeapMax - 1]
         /\ PlacesMatch'
<1>1. heap_slots' \in [Places -> Slots] /\ heap_expires' \in [Places -> Int]
  BY LiveTypes DEF TypeOK, HeapSwap, Swapped
<1>2. slot_to_heap_idx' \in [Slots -> -1 .. HeapMax - 1]
  BY LiveTypes DEF TypeOK, HeapSwap, Live
<1>3. Live' = Live /\ timed' = timed /\ added' = added
  BY DEF Live, history
<1>4. \A p \in Live : heap_slots'[p] = IF p = i THEN heap_slots[j]
                                      ELSE IF p = j THEN heap_slots[i] ELSE heap_slots[p]
  BY LiveTypes DEF TypeOK, HeapSwap, Swapped
<1>5. /\ heap_slots[i] \in Slots /\ heap_slots[j] \in Slots
      /\ heap_slots[i] = heap_slots[j] => i = j
  BY LiveTypes DEF PlacesMatch
<1>6. \A s \in Slots : slot_to_heap_idx'[s] = IF s = heap_slots[j] THEN i
                                 ELSE IF s = heap_slots[i] THEN j ELSE slot_to_heap_idx[s]
  BY <1>5 DEF TypeOK, HeapSwap
<1>7. \A p \in Live : heap_slots'[p] \in timed /\ slot_to_heap_idx'[heap_slots'[p]] = p
  BY <1>4, <1>5, <1>6, LiveTypes DEF PlacesMatch
<1>8. \A s \in timed : slot_to_heap_idx'[s] \in Live /\ heap_slots'[slot_to_heap_idx'[s]] = s
  BY <1>4, <1>5, <1>6 DEF PlacesMatch, TypeOK
<1>9. \A s \in added \ timed : slot_to_heap_idx'[s] = -1
  BY <1>6 DEF PlacesMatch, TypeOK
<1> QED
  BY <1>1, <1>2, <1>3, <1>7, <1>8, <1>9 DEF PlacesMatch

\* A swap exchanges two deadlines.
LEMMA SwapExpires ==
  ASSUME TypeOK, NEW i \in Live, NEW j \in Live, HeapSwap(i, j)
  PROVE  /\ heap_expires'[i] = heap_expires[j]
         /\ heap_expires'[j] = heap_expires[i]
         /\ \A p \in Places \ {i, j} : heap_expires'[p] = heap_expires[p]
  BY HeapAssumption DEF TypeOK, HeapSwap, Swapped, Live, Places

-----------------------------------------------------------------------------
(* The loops *)

\* heap_sift_up's swap: the place moves to the parent's, and the old place of it
\* is in order with its children, which were in order with its parent.
LEMMA SiftUpSwap ==
  ASSUME IInv, pc = "up", BeforeParent, HeapSwap(idx, Parent(idx)),
         idx' = Parent(idx), UNCHANGED <<pc, then_down, heap_size, history, reply>>
  PROVE  IInv'
<1> DEFINE q == Parent(idx)
<1>1. idx \in Live /\ q \in Live /\ idx \in Below(q) /\ q < idx
  BY LiveTypes, ParentIsAbove DEF IInv, OrderExceptAtIdx, BeforeParent, Live, Below
<1>2. Live' = Live /\ \A p : Below(p)' = Below(p)
  BY DEF Live, Below
<1>3. /\ heap_expires'[idx] = heap_expires[q] /\ heap_expires'[q] = heap_expires[idx]
      /\ \A p \in Live \ {idx, q} : heap_expires'[p] = heap_expires[p]
  BY <1>1, SwapExpires, LiveTypes DEF IInv
<1>4. heap_expires[idx] < heap_expires[q]
  BY DEF BeforeParent
<1>5. \A p \in Live : \A c \in Below(p) : c \in Live /\ p < c /\ p = Parent(c)
  BY LiveTypes, ChildHasOneParent DEF IInv, Below
<1>6. TypeOK' /\ PlacesMatch'
  BY <1>1, SwapKeepsPlaces, LiveTypes DEF IInv, TypeOK, history
<1>7. \A p \in Live : \A c \in Below(p) : c # q => heap_expires'[p] <= heap_expires'[c]
  <2> SUFFICES ASSUME NEW p \in Live, NEW c \in Below(p), c # q
               PROVE  heap_expires'[p] <= heap_expires'[c]
    OBVIOUS
  <2>1. CASE p = idx
    BY <2>1, <1>1, <1>3, <1>5, LiveTypes DEF IInv, OrderExceptAtIdx, Ordered
  <2>2. CASE p = q /\ c = idx
    BY <2>2, <1>1, <1>3, <1>4, LiveTypes DEF IInv
  <2>3. CASE p = q /\ c # idx
    BY <2>3, <1>1, <1>3, <1>4, <1>5, LiveTypes DEF IInv, OrderExceptAtIdx, Ordered
  <2>4. CASE p # q /\ p # idx
    BY <2>4, <1>1, <1>3, <1>5, LiveTypes DEF IInv, OrderExceptAtIdx, Ordered
  <2> QED
    BY <2>1, <2>2, <2>3, <2>4
<1>8. \A p \in Live : q \in Below(p) =>
         \A c \in Below(q) : heap_expires'[p] <= heap_expires'[c]
  <2> SUFFICES ASSUME NEW p \in Live, q \in Below(p), NEW c \in Below(q)
               PROVE  heap_expires'[p] <= heap_expires'[c]
    OBVIOUS
  <2>1. Ordered(p, q) /\ (c # idx => Ordered(q, c))
    <3>1. p # idx /\ q # idx
      BY <1>1, <1>5, LiveTypes DEF IInv
    <3> QED
      BY <3>1, <1>1 DEF IInv, OrderExceptAtIdx
  <2> QED
    BY <2>1, <1>1, <1>3, <1>5, LiveTypes DEF IInv, Ordered
<1>9. OrderExceptAtIdx'
  BY <1>1, <1>2, <1>7, <1>8 DEF IInv, OrderExceptAtIdx, Ordered
<1> QED
  BY <1>6, <1>9 DEF IInv, HeapInOrder

\* heap_sift_up's end: the edge above idx is in order too.
LEMMA SiftUpEnd ==
  ASSUME IInv, pc = "up", ~BeforeParent, UNCHANGED <<arrays, heap_size, history, reply>>,
         \/ pc' = "down" /\ idx' = then_down /\ then_down' = -1 /\ then_down # -1
         \/ pc' = "idle" /\ then_down = -1 /\ UNCHANGED <<idx, then_down>>
  PROVE  IInv'
<1>1. Live' = Live /\ \A p : Below(p)' = Below(p)
  BY DEF Live, Below
<1>2. \A p \in Live : \A c \in Below(p) : c \in Live /\ p < c /\ p = Parent(c) /\ c > 0
  BY LiveTypes, ChildHasOneParent DEF IInv, Below
<1>3. \A p \in Live : idx \in Below(p) => Ordered(p, idx)
  BY <1>2, LiveTypes DEF IInv, BeforeParent, Ordered
<1>4. \A p \in Live : p # then_down => \A c \in Below(p) : Ordered(p, c)
  BY <1>3 DEF IInv, OrderExceptAtIdx
<1>5. TypeOK' /\ PlacesMatch'
  <2>1. then_down # -1 => then_down \in Places
    BY LiveTypes DEF IInv, OrderExceptAtIdx
  <2>2. -1 \in -1 .. HeapMax - 1
    BY HeapAssumption
  <2>3. TypeOK'
    BY <2>1, <2>2 DEF IInv, TypeOK, arrays, history
  <2> QED
    BY <2>3, <1>1 DEF IInv, PlacesMatch, arrays, history
<1>6. \A p, c : Ordered(p, c)' <=> Ordered(p, c)
  BY DEF arrays, Ordered
<1>7. ASSUME then_down # -1
      PROVE  \A p \in Live : then_down \in Below(p) =>
                \A c \in Below(then_down) : Ordered(p, c)
  <2> SUFFICES ASSUME NEW p \in Live, then_down \in Below(p),
                      NEW c \in Below(then_down)
               PROVE  Ordered(p, c)
    OBVIOUS
  <2>1. then_down \in Live
    BY <1>7 DEF IInv, OrderExceptAtIdx
  <2>2. CASE idx = then_down
    BY <2>2 DEF IInv, OrderExceptAtIdx
  <2>3. CASE idx # then_down
    <3>1. Ordered(p, then_down) /\ Ordered(then_down, c)
      BY <2>1, <2>3, <1>2, <1>3, <1>4 DEF IInv, OrderExceptAtIdx
    <3> QED
      BY <3>1, <2>1, <1>2, LiveTypes DEF IInv, Ordered
  <2> QED
    BY <2>2, <2>3
<1>8. CASE pc' = "down" /\ idx' = then_down /\ then_down' = -1 /\ then_down # -1
  <2>1. then_down \in Live
    BY <1>8 DEF IInv, OrderExceptAtIdx
  <2>2. OrderExceptAtIdx'
    BY <1>8, <2>1, <1>1, <1>4, <1>6, <1>7 DEF OrderExceptAtIdx
  <2> QED
    BY <1>8, <2>2, <1>5 DEF IInv, HeapInOrder
<1>9. CASE pc' = "idle" /\ then_down = -1 /\ UNCHANGED <<idx, then_down>>
  <2>1. HeapInOrder'
    BY <1>9, <1>1, <1>2, <1>4, <1>6, LiveTypes DEF IInv, HeapInOrder
  <2> QED
    BY <1>9, <2>1, <1>5 DEF IInv, OrderExceptAtIdx
<1> QED
  BY <1>8, <1>9

\* What heap_sift_down chooses is no later than the place and its children.
LEMMA SmallestIsLeast ==
  ASSUME TypeOK, NEW i \in Live
  PROVE  /\ Smallest(i) = i \/ Smallest(i) \in Below(i)
         /\ heap_expires[Smallest(i)] <= heap_expires[i]
         /\ Smallest(i) # i => heap_expires[Smallest(i)] < heap_expires[i]
         /\ \A c \in Below(i) : heap_expires[Smallest(i)] <= heap_expires[c]
<1>1. i \in Nat /\ Left(i) \in Nat /\ Right(i) \in Nat
  BY LiveTypes DEF Left, Right
<1>2. \A c \in Nat : c < heap_size => c \in Live
  BY LiveTypes DEF Live
<1> QED
  BY <1>1, <1>2, LiveTypes DEF Smallest, SmallerOf, Below

\* heap_sift_down's swap.
LEMMA SiftDownSwap ==
  ASSUME IInv, pc = "down", Smallest(idx) # idx, HeapSwap(idx, Smallest(idx)),
         idx' = Smallest(idx), UNCHANGED <<pc, then_down, heap_size, history, reply>>
  PROVE  IInv'
<1> DEFINE m == Smallest(idx)
<1>1. idx \in Live /\ m \in Below(idx) /\ m \in Live
  BY SmallestIsLeast DEF IInv, OrderExceptAtIdx, Below
<1>2. Live' = Live /\ \A p : Below(p)' = Below(p)
  BY DEF Live, Below
<1>3. /\ heap_expires'[idx] = heap_expires[m] /\ heap_expires'[m] = heap_expires[idx]
      /\ \A p \in Live \ {idx, m} : heap_expires'[p] = heap_expires[p]
  BY <1>1, SwapExpires, LiveTypes DEF IInv
<1>4. /\ heap_expires[m] < heap_expires[idx]
      /\ \A c \in Below(idx) : heap_expires[m] <= heap_expires[c]
  BY <1>1, SmallestIsLeast DEF IInv
<1>5. \A p \in Live : \A c \in Below(p) : c \in Live /\ p < c /\ p = Parent(c)
  BY LiveTypes, ChildHasOneParent DEF IInv, Below
<1>6. TypeOK' /\ PlacesMatch'
  BY <1>1, SwapKeepsPlaces, LiveTypes DEF IInv, TypeOK, history
<1>7. \A p \in Live \ {m} : \A c \in Below(p) : heap_expires'[p] <= heap_expires'[c]
  <2> SUFFICES ASSUME NEW p \in Live \ {m}, NEW c \in Below(p)
               PROVE  heap_expires'[p] <= heap_expires'[c]
    OBVIOUS
  <2>1. CASE p = idx /\ c = m
    BY <2>1, <1>1, <1>3, <1>4, LiveTypes DEF IInv
  <2>2. CASE p = idx /\ c # m
    BY <2>2, <1>1, <1>3, <1>4, <1>5, LiveTypes DEF IInv
  <2>3. CASE p # idx /\ c = idx
    BY <2>3, <1>1, <1>3, <1>5, LiveTypes DEF IInv, OrderExceptAtIdx, Ordered
  <2>4. CASE p # idx /\ c # idx
    BY <2>4, <1>1, <1>3, <1>5, LiveTypes DEF IInv, OrderExceptAtIdx, Ordered
  <2> QED
    BY <2>1, <2>2, <2>3, <2>4
<1>8. \A p \in Live : m \in Below(p) =>
         \A c \in Below(m) : heap_expires'[p] <= heap_expires'[c]
  <2> SUFFICES ASSUME NEW p \in Live, m \in Below(p), NEW c \in Below(m)
               PROVE  heap_expires'[p] <= heap_expires'[c]
    OBVIOUS
  <2>1. p = idx /\ c # idx /\ c # m /\ Ordered(m, c)
    BY <1>1, <1>5, LiveTypes DEF IInv, OrderExceptAtIdx
  <2> QED
    BY <2>1, <1>1, <1>3, <1>5, LiveTypes DEF IInv, Ordered
<1>9. OrderExceptAtIdx'
  BY <1>1, <1>2, <1>7, <1>8 DEF IInv, OrderExceptAtIdx, Ordered
<1> QED
  BY <1>6, <1>9 DEF IInv, HeapInOrder

\* heap_sift_down's end.
LEMMA SiftDownEnd ==
  ASSUME IInv, pc = "down", Smallest(idx) = idx, pc' = "idle",
         UNCHANGED <<arrays, idx, then_down, heap_size, history, reply>>
  PROVE  IInv'
<1>1. Live' = Live /\ \A p : Below(p)' = Below(p)
  BY DEF Live, Below
<1>2. idx \in Live /\ \A c \in Below(idx) : Ordered(idx, c)
  BY SmallestIsLeast DEF IInv, OrderExceptAtIdx, Ordered
<1>3. \A p, c : Ordered(p, c)' <=> Ordered(p, c)
  BY DEF arrays, Ordered
<1>4. TypeOK' /\ PlacesMatch'
  BY <1>1 DEF IInv, TypeOK, PlacesMatch, arrays, history
<1>5. HeapInOrder'
  BY <1>1, <1>2, <1>3 DEF IInv, HeapInOrder, OrderExceptAtIdx
<1> QED
  BY <1>4, <1>5 DEF IInv, OrderExceptAtIdx

-----------------------------------------------------------------------------
(* The calls *)

\* Between calls the whole heap is in order.
LEMMA IdleOrdered ==
  ASSUME IInv, pc = "idle"
  PROVE  /\ \A p \in Live : \A c \in Below(p) : /\ c \in Live /\ p < c
                                                   /\ heap_expires[p] <= heap_expires[c]
         /\ then_down = -1
  BY LiveTypes, ChildHasOneParent DEF IInv, HeapInOrder, OrderExceptAtIdx, Ordered, Below

\* A slot is found in the heap exactly when it has a timer.
LEMMA InHeapIsTimed ==
  ASSUME IInv, NEW s \in added
  PROVE  /\ InHeap(s) <=> s \in timed
         /\ InHeap(s) => slot_to_heap_idx[s] \in Live
  BY LiveTypes DEF IInv, TypeOK, PlacesMatch, InHeap, Live

\* There is a place for every slot: full, the heap would hold every slot but `s' in
\* at least as many places as there are slots.
LEMMA RoomForSlot ==
  ASSUME IInv, NEW s \in Slots \ timed
  PROVE  heap_size < HeapMax
<1> SUFFICES ASSUME heap_size >= HeapMax PROVE FALSE
  BY LiveTypes DEF IInv
<1> DEFINE f == [p \in Live |-> heap_slots[p]]
           S == Slots \ {s}
<1>1. heap_size \in Nat /\ MaxConn \in Nat /\ heap_size >= MaxConn /\ heap_size > 0
  BY HeapAssumption, LiveTypes DEF IInv
<1>2. IsFiniteSet(Live) /\ Cardinality(Live) = heap_size
  BY <1>1, FS_Interval DEF Live
<1>3. IsFiniteSet(S) /\ Cardinality(S) = MaxConn - 1
  <2>1. 0 \in Int /\ MaxConn - 1 \in Int /\ ~(0 > MaxConn - 1) /\ (MaxConn - 1) - 0 + 1 = MaxConn
    BY HeapAssumption
  <2>2. IsFiniteSet(Slots) /\ Cardinality(Slots) = MaxConn
    BY <2>1, FS_Interval DEF Slots
  <2> QED
    BY <2>2, FS_RemoveElement
<1>4. f \in [Live -> S]
  BY LiveTypes DEF IInv, PlacesMatch
<1>5. Cardinality(S) < Cardinality(Live)
  BY <1>1, <1>2, <1>3
<1> HIDE DEF f, S
<1>6. PICK x \in Live, y \in Live : x # y /\ f[x] = f[y]
  BY ONLY <1>2, <1>3, <1>4, <1>5, FS_PigeonHole
<1> QED
  BY <1>6 DEF IInv, PlacesMatch, f

LEMMA AddKeeps ==
  ASSUME IInv, NEW s \in Slots, NEW t \in Times, Add(s, t)
  PROVE  IInv' /\ reply' = 0
<1>0. PICK n : n = heap_size
  OBVIOUS
<1>1. pc = "idle" /\ s \notin timed /\ then_down = -1
  BY IdleOrdered DEF Add
<1>2. n < HeapMax /\ n \in Nat /\ HeapMax \in Nat /\ t \in Int
  BY <1>0, <1>1, RoomForSlot, LiveTypes, HeapAssumption DEF IInv
<1>3. /\ heap_slots' = [heap_slots EXCEPT ![n] = s]
      /\ heap_expires' = [heap_expires EXCEPT ![n] = t]
      /\ slot_to_heap_idx' = [slot_to_heap_idx EXCEPT ![s] = n]
      /\ heap_size' = n + 1 /\ pc' = "up" /\ idx' = n /\ then_down' = -1 /\ reply' = 0
      /\ added' = added \cup {s} /\ timed' = timed \cup {s}
  BY <1>0, <1>2 DEF Add
<1>4. n \in Places /\ n \in -1 .. HeapMax - 1 /\ -1 \in -1 .. HeapMax - 1 /\ n + 1 \in 0 .. HeapMax
  BY <1>2 DEF Places
<1>5. TypeOK'
  BY <1>2, <1>3, <1>4 DEF IInv, TypeOK
<1>6. Live' = Live \cup {n} /\ n \notin Live
  BY <1>0, <1>2, <1>3 DEF Live
<1>7. PlacesMatch'
  <2>1. \A p \in Live : heap_slots'[p] = heap_slots[p] /\ heap_slots[p] # s
    BY <1>1, <1>3, <1>6, LiveTypes DEF IInv, TypeOK, PlacesMatch
  <2>2. heap_slots'[n] = s /\ slot_to_heap_idx'[s] = n
    BY <1>3, <1>4 DEF IInv, TypeOK
  <2>3. \A r \in Slots \ {s} : slot_to_heap_idx'[r] = slot_to_heap_idx[r]
    BY <1>3 DEF IInv, TypeOK
  <2> QED
    BY <2>1, <2>2, <2>3, <1>3, <1>6, LiveTypes DEF IInv, TypeOK, PlacesMatch
<1>8. \A p \in Live' : \A c \in Below(p)' : c # n => heap_expires'[p] <= heap_expires'[c]
  <2> SUFFICES ASSUME NEW p \in Live', NEW c \in Below(p)', c # n
               PROVE  heap_expires'[p] <= heap_expires'[c]
    OBVIOUS
  <2>1. c \in Live /\ (c = Left(p) \/ c = Right(p))
    BY <1>6 DEF Below
  <2>2. p \in Live
    BY <2>1, <1>0, <1>2, <1>6, LiveTypes DEF IInv, Left, Right, Live
  <2>3. c \in Below(p)
    BY <2>1 DEF Below
  <2>4. heap_expires[p] <= heap_expires[c]
    BY <2>2, <2>3, <1>1, IdleOrdered
  <2> QED
    BY <2>1, <2>2, <2>4, <1>3, <1>6 DEF IInv, TypeOK
<1>9. Below(n)' = {}
  BY <1>2, <1>3 DEF Below, Live, Left, Right
<1>10. OrderExceptAtIdx'
  BY <1>3, <1>6, <1>8, <1>9 DEF OrderExceptAtIdx, Ordered
<1> QED
  BY <1>3, <1>5, <1>7, <1>10 DEF IInv, HeapInOrder

LEMMA TouchKeeps ==
  ASSUME IInv, NEW s \in Slots, NEW t \in Times, Touch(s, t)
  PROVE  IInv'
<1>1. pc = "idle" /\ s \in added /\ then_down = -1
  BY IdleOrdered DEF Touch
<1>2. Live' = Live /\ \A p : Below(p)' = Below(p)
  BY DEF Touch, Live, Below
<1>3. CASE ~InHeap(s)
  <2>1. UNCHANGED <<arrays, pc, idx, then_down, heap_size, history>> /\ reply' = -1
    BY <1>3 DEF Touch, arrays
  <2>2. TypeOK' /\ PlacesMatch'
    BY <2>1, <1>2 DEF IInv, TypeOK, PlacesMatch, arrays, history
  <2>3. HeapInOrder' /\ OrderExceptAtIdx'
    BY <2>1, <1>1, <1>2 DEF IInv, HeapInOrder, OrderExceptAtIdx, Ordered, arrays
  <2> QED
    BY <2>2, <2>3 DEF IInv
<1>4. CASE InHeap(s)
  <2> DEFINE k == slot_to_heap_idx[s]
  <2>1. k \in Live /\ t \in Int /\ heap_expires[k] \in Int /\ k \in Places
    BY <1>1, <1>4, InHeapIsTimed, LiveTypes, HeapAssumption DEF IInv
  <2>2. /\ heap_expires' = [heap_expires EXCEPT ![k] = t] /\ idx' = k /\ reply' = 0
        /\ pc' = IF t < heap_expires[k] THEN "up" ELSE "down"
        /\ UNCHANGED <<heap_slots, slot_to_heap_idx, heap_size, then_down, added, timed>>
    BY <1>4 DEF Touch, history
  <2>3. TypeOK'
    BY <2>1, <2>2 DEF IInv, TypeOK
  <2>4. PlacesMatch'
    BY <2>2, <1>2 DEF IInv, PlacesMatch
  <2>5. heap_expires'[k] = t /\ \A p \in Live \ {k} : heap_expires'[p] = heap_expires[p]
    BY <2>1, <2>2, LiveTypes DEF IInv, TypeOK
  <2>6. \A p \in Live \ {k} : \A c \in Below(p) \ {k} : heap_expires'[p] <= heap_expires'[c]
    BY <2>5, <1>1, IdleOrdered
  <2>7. \A p \in Live : k \in Below(p) =>
           \A c \in Below(k) : heap_expires'[p] <= heap_expires'[c]
    <3> SUFFICES ASSUME NEW p \in Live, k \in Below(p), NEW c \in Below(k)
                 PROVE  heap_expires'[p] <= heap_expires'[c]
      OBVIOUS
    <3>1. /\ p < k /\ k < c /\ c \in Live
          /\ heap_expires[p] <= heap_expires[k] /\ heap_expires[k] <= heap_expires[c]
      BY <2>1, <1>1, IdleOrdered
    <3> QED
      BY <3>1, <2>1, <2>5, LiveTypes DEF IInv
  <2>8. CASE t < heap_expires[k]
    <3>1. \A c \in Below(k) : heap_expires'[k] <= heap_expires'[c]
      BY <2>8, <2>1, <2>5, <1>1, IdleOrdered, LiveTypes DEF IInv
    <3> QED
      BY <3>1, <2>8, <2>1, <2>2, <2>3, <2>4, <2>6, <2>7, <1>1, <1>2
      DEF IInv, HeapInOrder, OrderExceptAtIdx, Ordered
  <2>9. CASE ~(t < heap_expires[k])
    <3>1. \A p \in Live \ {k} : k \in Below(p) => heap_expires'[p] <= heap_expires'[k]
      BY <2>9, <2>1, <2>5, <1>1, IdleOrdered, LiveTypes DEF IInv
    <3> QED
      BY <3>1, <2>9, <2>1, <2>2, <2>3, <2>4, <2>6, <2>7, <1>1, <1>2
      DEF IInv, HeapInOrder, OrderExceptAtIdx, Ordered
  <2> QED
    BY <2>8, <2>9
<1> QED
  BY <1>3, <1>4

\* timeout_remove's body, for the slot of any place.
LEMMA TakeOutKeeps ==
  ASSUME IInv, pc = "idle", NEW s \in timed, TakeOut(s),
         added' = added, timed' = timed \ {s}, reply' \in Int
  PROVE  IInv'
<1>0. PICK k, last : k = slot_to_heap_idx[s] /\ last = heap_size - 1
  OBVIOUS
<1>1. k \in Live /\ last \in Live /\ heap_slots[k] = s /\ s \in Slots /\ k <= last
  BY <1>0, LiveTypes DEF IInv, TypeOK, PlacesMatch, Live
<1>2. /\ heap_slots' = Swapped(heap_slots, k, last)
      /\ heap_expires' = Swapped(heap_expires, k, last)
      /\ slot_to_heap_idx' = [slot_to_heap_idx EXCEPT ![heap_slots[last]] = k, ![s] = -1]
      /\ heap_size' = last
      /\ \/ k < last /\ pc' = "up" /\ idx' = k /\ then_down' = k
         \/ k >= last /\ UNCHANGED <<pc, idx, then_down>>
  BY <1>0 DEF TakeOut
<1>3. Live' = Live \ {last} /\ \A p : Below(p)' = Below(p) \ {last}
  BY <1>0, <1>2, LiveTypes DEF IInv, Live, Below
<1>4. \A p \in Live' : /\ heap_slots'[p] = IF p = k THEN heap_slots[last] ELSE heap_slots[p]
                       /\ heap_expires'[p] = IF p = k THEN heap_expires[last] ELSE heap_expires[p]
  BY <1>1, <1>2, <1>3, LiveTypes DEF IInv, TypeOK, Swapped
<1>5. \A r \in Slots : slot_to_heap_idx'[r] =
         IF r = s THEN -1 ELSE IF r = heap_slots[last] THEN k ELSE slot_to_heap_idx[r]
  BY <1>0, <1>1, <1>2, LiveTypes DEF IInv, TypeOK
<1>6. TypeOK'
  <2>1. heap_slots' \in [Places -> Slots] /\ heap_expires' \in [Places -> Int]
    BY <1>1, <1>2, LiveTypes DEF IInv, TypeOK, Swapped
  <2>2. k \in -1 .. HeapMax - 1 /\ -1 \in -1 .. HeapMax - 1 /\ k \in Places /\ last \in 0 .. HeapMax
    BY <1>1, LiveTypes DEF IInv, Places
  <2>3. slot_to_heap_idx' \in [Slots -> -1 .. HeapMax - 1]
    BY <1>2, <2>2 DEF IInv, TypeOK
  <2> QED
    BY <2>1, <2>2, <2>3, <1>2 DEF IInv, TypeOK
<1>7. PlacesMatch'
  <2>1. \A p \in Live' : heap_slots'[p] \in timed' /\ slot_to_heap_idx'[heap_slots'[p]] = p
    BY <1>0, <1>1, <1>3, <1>4, <1>5, LiveTypes DEF IInv, PlacesMatch
  <2>2. \A r \in timed' : slot_to_heap_idx'[r] \in Live' /\ heap_slots'[slot_to_heap_idx'[r]] = r
    <3> SUFFICES ASSUME NEW r \in timed'
                 PROVE  slot_to_heap_idx'[r] \in Live' /\ heap_slots'[slot_to_heap_idx'[r]] = r
      OBVIOUS
    <3>1. r # s /\ r \in timed /\ r \in Slots
      BY DEF IInv, TypeOK
    <3>2. CASE r = heap_slots[last]
      <4>1. k # last
        BY <3>1, <3>2, <1>1
      <4> QED
        BY <4>1, <3>1, <3>2, <1>1, <1>3, <1>4, <1>5
    <3>3. CASE r # heap_slots[last]
      BY <3>1, <3>3, <1>0, <1>1, <1>3, <1>4, <1>5 DEF IInv, PlacesMatch
    <3> QED
      BY <3>2, <3>3
  <2>3. \A r \in added' \ timed' : slot_to_heap_idx'[r] = -1
    <3> SUFFICES ASSUME NEW r \in added' \ timed' PROVE slot_to_heap_idx'[r] = -1
      OBVIOUS
    <3>1. heap_slots[last] \in timed /\ r \in Slots
      BY <1>1 DEF IInv, PlacesMatch, TypeOK
    <3> QED
      BY <3>1, <1>5 DEF IInv, PlacesMatch
  <2> QED
    BY <2>1, <2>2, <2>3 DEF PlacesMatch
<1>8. \A p \in Live' \ {k} : \A c \in Below(p)' \ {k} : heap_expires'[p] <= heap_expires'[c]
  BY <1>3, <1>4, IdleOrdered
<1>9. CASE k < last
  <2>1. \A p \in Live' : k \in Below(p)' =>
           \A c \in Below(k)' : heap_expires'[p] <= heap_expires'[c]
    <3> SUFFICES ASSUME NEW p \in Live', k \in Below(p)', NEW c \in Below(k)'
                 PROVE  heap_expires'[p] <= heap_expires'[c]
      OBVIOUS
    <3>1. p \in Live /\ k \in Below(p) /\ c \in Below(k) /\ c # last
      BY <1>3
    <3>2. /\ p < k /\ k < c /\ c \in Live'
          /\ heap_expires[p] <= heap_expires[k] /\ heap_expires[k] <= heap_expires[c]
      BY <3>1, <1>1, <1>3, IdleOrdered
    <3> QED
      <4>1. p \in Int /\ k \in Int /\ c \in Int /\ c \in Live
        BY <3>1, <3>2, <1>1, <1>3, LiveTypes DEF IInv
      <4>2. heap_expires'[p] = heap_expires[p] /\ heap_expires'[c] = heap_expires[c]
        BY <4>1, <3>2, <1>4
      <4> QED
        BY <4>1, <4>2, <3>1, <3>2, <1>1, LiveTypes DEF IInv
  <2>2. pc' = "up" /\ idx' = k /\ then_down' = k /\ k \in Live'
    BY <1>1, <1>2, <1>3, <1>9, LiveTypes DEF IInv
  <2>3. OrderExceptAtIdx'
    BY <2>1, <2>2, <1>8 DEF OrderExceptAtIdx, Ordered
  <2> QED
    BY <2>2, <2>3, <1>6, <1>7 DEF IInv, HeapInOrder
<1>10. CASE k >= last
  <2>1. k = last /\ pc' = "idle" /\ then_down' = -1
    BY <1>1, <1>2, <1>10, IdleOrdered, LiveTypes DEF IInv
  <2>2. HeapInOrder'
    BY <2>1, <1>3, <1>8 DEF HeapInOrder, Ordered
  <2> QED
    BY <2>1, <2>2, <1>6, <1>7 DEF IInv, OrderExceptAtIdx
<1> QED
  BY <1>1, <1>9, <1>10, LiveTypes DEF IInv

\* A call that changes nothing but its reply.
LEMMA ReplyKeeps ==
  ASSUME IInv, UNCHANGED <<arrays, heap_size, pc, idx, then_down, added>>,
         timed' = timed, reply' \in Int
  PROVE  IInv'
<1>1. Live' = Live /\ \A p : Below(p)' = Below(p)
  BY DEF Live, Below
<1>2. TypeOK' /\ PlacesMatch'
  BY <1>1 DEF IInv, TypeOK, PlacesMatch, arrays
<1>3. \A p, c : Ordered(p, c)' <=> Ordered(p, c)
  BY DEF arrays, Ordered
<1>4. HeapInOrder' /\ OrderExceptAtIdx'
  BY <1>1, <1>3 DEF IInv, HeapInOrder, OrderExceptAtIdx
<1> QED
  BY <1>2, <1>4 DEF IInv

LEMMA RemoveKeeps ==
  ASSUME IInv, NEW s \in Slots, RemoveTimer(s)
  PROVE  IInv'
<1>1. pc = "idle" /\ s \in added /\ added' = added /\ timed' = timed \ {s}
  BY DEF RemoveTimer
<1>2. CASE ~InHeap(s)
  <2>1. timed' = timed
    BY <1>1, <1>2, InHeapIsTimed
  <2> QED
    BY <1>2, <2>1, ReplyKeeps DEF RemoveTimer
<1>3. CASE InHeap(s)
  BY <1>1, <1>3, InHeapIsTimed, TakeOutKeeps DEF RemoveTimer
<1> QED
  BY <1>2, <1>3

\* The slot at place 0 has a timer and is recorded at place 0.
LEMMA RootSlot ==
  ASSUME IInv, heap_size > 0
  PROVE  /\ heap_slots[0] \in timed /\ heap_slots[0] \in Slots
         /\ slot_to_heap_idx[heap_slots[0]] = 0 /\ InHeap(heap_slots[0])
<1>1. 0 \in Live
  BY LiveTypes DEF IInv, Live
<1> QED
  BY <1>1, LiveTypes DEF IInv, PlacesMatch, InHeap

\* A poll either takes out the slot at place 0 or only replies -1.
LEMMA PollCases ==
  ASSUME IInv, NEW now \in Times, Poll(now)
  PROVE  \/ /\ heap_size > 0 /\ heap_expires[0] <= now
            /\ reply' = heap_slots[0] /\ TakeOut(heap_slots[0])
            /\ timed' = timed \ {heap_slots[0]}
         \/ /\ heap_size = 0 \/ heap_expires[0] > now
            /\ reply' = -1 /\ timed' = timed
            /\ UNCHANGED <<arrays, heap_size, pc, idx, then_down>>
<1>1. CASE heap_size = 0 \/ heap_expires[0] > now
  <2>1. -1 \notin timed
    BY DEF IInv, TypeOK, Slots
  <2>2. now \in Int /\ (heap_size > 0 => heap_expires[0] \in Int)
    BY HeapAssumption, LiveTypes DEF IInv, Live
  <2>3. ~(heap_size > 0 /\ heap_expires[0] <= now)
    BY <1>1, <2>2
  <2> QED
    BY <1>1, <2>1, <2>3 DEF Poll
<1>2. CASE ~(heap_size = 0 \/ heap_expires[0] > now)
  <2>1. heap_size > 0 /\ heap_expires[0] <= now /\ reply' = heap_slots[0]
    BY <1>2 DEF Poll
  <2> QED
    BY <1>2, <2>1, RootSlot DEF Poll
<1> QED
  BY <1>1, <1>2

LEMMA PollKeeps ==
  ASSUME IInv, NEW now \in Times, Poll(now)
  PROVE  IInv'
<1>1. pc = "idle" /\ added' = added
  BY DEF Poll
<1>2. CASE reply' = -1 /\ timed' = timed /\ UNCHANGED <<arrays, heap_size, pc, idx, then_down>>
  BY <1>1, <1>2, ReplyKeeps
<1>3. CASE /\ heap_size > 0 /\ reply' = heap_slots[0] /\ TakeOut(heap_slots[0])
           /\ timed' = timed \ {heap_slots[0]}
  BY <1>1, <1>3, RootSlot, TakeOutKeeps DEF Slots
<1> QED
  BY <1>2, <1>3, PollCases

LEMMA InitHolds ==
  ASSUME Init
  PROVE  IInv
<1>1. 0 \in Places /\ 0 \in Slots /\ Live = {} /\ 0 \in -1 .. HeapMax - 1 /\ -1 \in -1 .. HeapMax - 1
      /\ 0 \in 0 .. HeapMax
  BY HeapAssumption DEF Init, Places, Slots, Live
<1> QED
  BY <1>1 DEF Init, IInv, TypeOK, PlacesMatch, HeapInOrder, OrderExceptAtIdx

LEMMA NextKeeps ==
  ASSUME IInv, [Next]_vars
  PROVE  IInv'
<1>1. ASSUME NEW s \in Slots, NEW t \in Times, Add(s, t) PROVE IInv'
  BY <1>1, AddKeeps
<1>2. ASSUME NEW s \in Slots, NEW t \in Times, Touch(s, t) PROVE IInv'
  BY <1>2, TouchKeeps
<1>3. ASSUME NEW s \in Slots, RemoveTimer(s) PROVE IInv'
  BY <1>3, RemoveKeeps
<1>4. ASSUME NEW now \in Times, Poll(now) PROVE IInv'
  BY <1>4, PollKeeps
<1>5. CASE SiftUp
  BY <1>5, SiftUpSwap, SiftUpEnd DEF SiftUp
<1>6. CASE SiftDown
  BY <1>6, SiftDownSwap, SiftDownEnd DEF SiftDown
<1>7. CASE UNCHANGED vars
  <2>1. reply' \in Int
    BY <1>7 DEF vars, IInv, TypeOK
  <2> QED
    BY <1>7, <2>1, ReplyKeeps DEF vars, history
<1> QED
  BY <1>1, <1>2, <1>3, <1>4, <1>5, <1>6, <1>7 DEF Next

-----------------------------------------------------------------------------
(* Theorems *)

\* In every state, between calls and inside the loops, the maps between slots and
\* places are inverse and at most the edges at idx are out of order.
THEOREM Invariance == Spec => []IInv
  BY InitHolds, NextKeeps, PTL DEF Spec

THEOREM TypeCorrect == Spec => []TypeOK
<1>1. IInv => TypeOK
  BY DEF IInv
<1> QED
  BY <1>1, Invariance, PTL

\* Between calls no connection expires before its parent in the heap.
THEOREM OrderedBetweenCalls == Spec => []HeapInOrder
<1>1. IInv => HeapInOrder
  BY DEF IInv
<1> QED
  BY <1>1, Invariance, PTL

\* timeout_add never returns -1, which acceptConnections would not notice.
THEOREM AddSucceeds == Spec => NeverRefused
<1>1. IInv /\ [Next]_vars => [\A s \in Slots, t \in Times : Add(s, t) => reply' = 0]_vars
  BY AddKeeps
<1> QED
  BY <1>1, Invariance, PTL DEF Spec, NeverRefused

-----------------------------------------------------------------------------
(* The heap is a table of deadlines *)

\* A swap moves a slot and its deadline together.
LEMMA SwapKeepsTable ==
  ASSUME IInv, NEW i \in Live, NEW j \in Live, HeapSwap(i, j), timed' = timed
  PROVE  Deadline' = Deadline
<1> SUFFICES ASSUME NEW s \in timed
             PROVE  heap_expires'[slot_to_heap_idx'[s]] = heap_expires[slot_to_heap_idx[s]]
  BY DEF Deadline
<1>1. s \in Slots /\ slot_to_heap_idx[s] \in Live /\ heap_slots[slot_to_heap_idx[s]] = s
  BY DEF IInv, TypeOK, PlacesMatch
<1>2. slot_to_heap_idx'[s] = IF s = heap_slots[j] THEN i
                             ELSE IF s = heap_slots[i] THEN j ELSE slot_to_heap_idx[s]
  BY <1>1 DEF IInv, TypeOK, HeapSwap
<1>3. \A p \in Live : slot_to_heap_idx[heap_slots[p]] = p
  BY DEF IInv, PlacesMatch
<1> QED
  BY <1>1, <1>2, <1>3, SwapExpires, LiveTypes DEF IInv

\* The slot at place 0, if any, is one of those due first.
LEMMA RootIsFirst ==
  ASSUME IInv, pc = "idle", heap_size > 0
  PROVE  /\ Deadline[heap_slots[0]] = heap_expires[0]
         /\ \A r \in timed : Deadline[heap_slots[0]] <= Deadline[r]
<1>1. \A q \in Live : heap_expires[0] <= heap_expires[q]
  BY RootIsEarliest DEF IInv, HeapInOrder
<1> QED
  BY <1>1, RootSlot DEF IInv, PlacesMatch, Deadline

\* timeout_remove's body takes one slot out of the table.
LEMMA TakeOutTable ==
  ASSUME IInv, NEW s \in timed, TakeOut(s), timed' = timed \ {s}
  PROVE  Deadline' = [r \in timed \ {s} |-> Deadline[r]]
<1> SUFFICES ASSUME NEW r \in timed \ {s}
             PROVE  heap_expires'[slot_to_heap_idx'[r]] = heap_expires[slot_to_heap_idx[r]]
  BY DEF Deadline
<1>1. PICK k, last : k = slot_to_heap_idx[s] /\ last = heap_size - 1
  OBVIOUS
<1>2. /\ k \in Live /\ last \in Live /\ heap_slots[k] = s /\ s \in Slots /\ r \in Slots
      /\ slot_to_heap_idx[r] \in Live /\ heap_slots[slot_to_heap_idx[r]] = r
  BY <1>1, LiveTypes DEF IInv, TypeOK, PlacesMatch, Live
<1>3. slot_to_heap_idx'[r] = IF r = heap_slots[last] THEN k ELSE slot_to_heap_idx[r]
  BY <1>1, <1>2 DEF TakeOut, IInv, TypeOK
<1>4. heap_expires' = Swapped(heap_expires, k, last)
  BY <1>1 DEF TakeOut
<1>5. CASE r = heap_slots[last]
  <2>1. slot_to_heap_idx[r] = last
    BY <1>2, <1>5 DEF IInv, PlacesMatch
  <2> QED
    BY <2>1, <1>2, <1>3, <1>4, <1>5, LiveTypes DEF IInv, TypeOK, Swapped
<1>6. CASE r # heap_slots[last]
  <2>1. slot_to_heap_idx[r] # last /\ slot_to_heap_idx[r] # k
    BY <1>2, <1>6
  <2> QED
    BY <2>1, <1>2, <1>3, <1>4, <1>6, LiveTypes DEF IInv, TypeOK, Swapped
<1> QED
  BY <1>5, <1>6

LEMMA AddTable ==
  ASSUME IInv, NEW s \in Slots, NEW t \in Times, Add(s, t)
  PROVE  /\ s \notin timed
         /\ Deadline' = [r \in timed \cup {s} |-> IF r = s THEN t ELSE Deadline[r]]
<1>1. s \notin timed /\ heap_size < HeapMax
  BY RoomForSlot DEF Add
<1>2. /\ heap_expires' = [heap_expires EXCEPT ![heap_size] = t]
      /\ slot_to_heap_idx' = [slot_to_heap_idx EXCEPT ![s] = heap_size]
      /\ timed' = timed \cup {s}
  BY <1>1, LiveTypes DEF Add, IInv
<1>3. \A r \in timed : slot_to_heap_idx[r] \in Live /\ slot_to_heap_idx[r] # heap_size /\ r \in Slots
  BY LiveTypes DEF IInv, PlacesMatch, TypeOK
<1>4. heap_size \in Places
  BY <1>1, LiveTypes DEF IInv, Places
<1>5. \A r \in timed \cup {s} : heap_expires'[slot_to_heap_idx'[r]] =
         IF r = s THEN t ELSE heap_expires[slot_to_heap_idx[r]]
  BY <1>1, <1>2, <1>3, <1>4, LiveTypes DEF IInv, TypeOK
<1> QED
  BY <1>1, <1>2, <1>5 DEF Deadline

LEMMA TouchTable ==
  ASSUME IInv, NEW s \in Slots, NEW t \in Times, Touch(s, t)
  PROVE  \/ s \in timed /\ reply' = 0 /\ Deadline' = [Deadline EXCEPT ![s] = t]
         \/ s \notin timed /\ reply' = -1 /\ Deadline' = Deadline
<1>1. s \in added /\ timed' = timed /\ slot_to_heap_idx' = slot_to_heap_idx
  BY DEF Touch, history
<1>2. CASE ~InHeap(s)
  BY <1>1, <1>2, InHeapIsTimed DEF Touch, Deadline
<1>3. CASE InHeap(s)
  <2>1. /\ s \in timed /\ reply' = 0
        /\ heap_expires' = [heap_expires EXCEPT ![slot_to_heap_idx[s]] = t]
    BY <1>1, <1>3, InHeapIsTimed DEF Touch
  <2>2. \A r \in timed : /\ slot_to_heap_idx[r] \in Live /\ slot_to_heap_idx[r] \in Places
                         /\ slot_to_heap_idx[r] = slot_to_heap_idx[s] => r = s
    BY <2>1, LiveTypes DEF IInv, PlacesMatch
  <2>3. \A r \in timed : heap_expires'[slot_to_heap_idx[r]] =
           IF r = s THEN t ELSE heap_expires[slot_to_heap_idx[r]]
    BY <2>1, <2>2 DEF IInv, TypeOK
  <2> QED
    BY <2>1, <2>3, <1>1 DEF Deadline
<1> QED
  BY <1>2, <1>3

LEMMA RemoveTable ==
  ASSUME IInv, NEW s \in Slots, RemoveTimer(s)
  PROVE  \/ s \in timed /\ reply' = 0 /\ Deadline' = [r \in timed \ {s} |-> Deadline[r]]
         \/ s \notin timed /\ reply' = -1 /\ Deadline' = Deadline
<1>1. s \in added /\ timed' = timed \ {s}
  BY DEF RemoveTimer
<1>2. CASE ~InHeap(s)
  <2>1. s \notin timed /\ timed' = timed
    BY <1>1, <1>2, InHeapIsTimed
  <2> QED
    BY <1>2, <2>1 DEF RemoveTimer, Deadline, arrays
<1>3. CASE InHeap(s)
  <2>1. s \in timed
    BY <1>1, <1>3, InHeapIsTimed
  <2> QED
    BY <1>1, <1>3, <2>1, TakeOutTable DEF RemoveTimer
<1> QED
  BY <1>2, <1>3

LEMMA PollTable ==
  ASSUME IInv, NEW now \in Times, Poll(now)
  PROVE  \/ \E s \in timed : /\ \A r \in timed : Deadline[s] <= Deadline[r]
                             /\ Deadline[s] <= now /\ reply' = s
                             /\ Deadline' = [r \in timed \ {s} |-> Deadline[r]]
         \/ /\ \A s \in timed : ~(Deadline[s] <= now)
            /\ reply' = -1 /\ Deadline' = Deadline
<1>1. pc = "idle"
  BY DEF Poll
<1>2. CASE /\ heap_size > 0 /\ heap_expires[0] <= now
           /\ reply' = heap_slots[0] /\ TakeOut(heap_slots[0])
           /\ timed' = timed \ {heap_slots[0]}
  BY <1>1, <1>2, RootSlot, RootIsFirst, TakeOutTable
<1>3. CASE /\ heap_size = 0 \/ heap_expires[0] > now
           /\ reply' = -1 /\ timed' = timed
           /\ UNCHANGED <<arrays, heap_size, pc, idx, then_down>>
  <2>1. Deadline' = Deadline
    BY <1>3 DEF Deadline, arrays
  <2>2. ASSUME NEW s \in timed PROVE ~(Deadline[s] <= now)
    <3>1. slot_to_heap_idx[s] \in Live /\ 0 \in Live /\ heap_size > 0
      BY LiveTypes DEF IInv, PlacesMatch
    <3>2. heap_expires[0] <= heap_expires[slot_to_heap_idx[s]]
      BY <3>1, <1>1, RootIsEarliest DEF IInv, HeapInOrder
    <3>3. heap_expires[0] > now /\ now \in Int
      BY <3>1, <1>3, HeapAssumption, LiveTypes DEF IInv
    <3> QED
      BY <3>1, <3>2, <3>3, LiveTypes DEF IInv, Deadline
  <2> QED
    BY <1>3, <2>1, <2>2
<1> QED
  BY <1>2, <1>3, PollCases

\* Each step is a step of the table, or leaves it and the reply alone.
LEMMA StepRefines ==
  ASSUME IInv, [Next]_vars
  PROVE  [Table!Next]_(Table!vars)
<1>1. DOMAIN Deadline = timed
  BY DEF Deadline
<1>2. ASSUME NEW s \in Slots, NEW t \in Times, Add(s, t) PROVE Table!Add(s, t)
  BY <1>1, <1>2, AddKeeps, AddTable DEF Table!Add, Table!Timed
<1>3. ASSUME NEW s \in Slots, NEW t \in Times, Touch(s, t) PROVE Table!Touch(s, t)
  BY <1>1, <1>3, TouchTable DEF Table!Touch, Table!Timed
<1>4. ASSUME NEW s \in Slots, RemoveTimer(s) PROVE Table!RemoveTimer(s)
  BY <1>1, <1>4, RemoveTable DEF Table!RemoveTimer, Table!Timed, Table!Without
<1>5. ASSUME NEW now \in Times, Poll(now) PROVE Table!Poll(now)
  <2>1. CASE \E s \in timed : /\ \A r \in timed : Deadline[s] <= Deadline[r]
                              /\ Deadline[s] <= now /\ reply' = s
                              /\ Deadline' = [r \in timed \ {s} |-> Deadline[r]]
    BY <1>1, <2>1 DEF Table!Poll, Table!Due, Table!Earliest, Table!Timed, Table!Without
  <2>2. CASE /\ \A s \in timed : ~(Deadline[s] <= now)
             /\ reply' = -1 /\ Deadline' = Deadline
    BY <1>1, <2>2 DEF Table!Poll, Table!Due, Table!Earliest, Table!Timed
  <2> QED
    BY <1>5, <2>1, <2>2, PollTable
<1>6. ASSUME SiftUp \/ SiftDown PROVE UNCHANGED Table!vars
  <2>1. timed' = timed /\ reply' = reply
    BY <1>6 DEF SiftUp, SiftDown, history
  <2>2. CASE UNCHANGED arrays
    BY <2>1, <2>2 DEF Table!vars, Deadline, arrays
  <2>3. CASE pc = "up" /\ BeforeParent /\ HeapSwap(idx, Parent(idx))
    <3>1. idx \in Live /\ Parent(idx) \in Live
      BY <2>3, LiveTypes, ParentIsAbove DEF IInv, OrderExceptAtIdx, BeforeParent, Live
    <3> QED
      BY <3>1, <2>1, <2>3, SwapKeepsTable DEF Table!vars
  <2>4. CASE pc = "down" /\ Smallest(idx) # idx /\ HeapSwap(idx, Smallest(idx))
    <3>1. idx \in Live /\ Smallest(idx) \in Live
      BY <2>4, SmallestIsLeast DEF IInv, OrderExceptAtIdx, Below
    <3> QED
      BY <3>1, <2>1, <2>4, SwapKeepsTable DEF Table!vars
  <2> QED
    BY <1>6, <2>2, <2>3, <2>4 DEF SiftUp, SiftDown
<1>7. ASSUME UNCHANGED vars PROVE UNCHANGED Table!vars
  BY <1>7 DEF vars, arrays, history, Table!vars, Deadline
<1> QED
  BY <1>2, <1>3, <1>4, <1>5, <1>6, <1>7 DEF Next, Table!Next

LEMMA InitRefines ==
  ASSUME Init
  PROVE  Table!Init
  BY DEF Init, Table!Init, Deadline

\* The heap implements the table of deadlines: a call changes it as TimerTable says,
\* timeout_poll hands over a slot that is due first, and the loops change nothing.
THEOREM Refinement == Spec => ImplementsTimerTable
  BY InitRefines, StepRefines, Invariance, PTL DEF Spec, Table!Spec, ImplementsTimerTable
=============================================================================
