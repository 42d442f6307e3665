---------------------------- MODULE TimeoutHeap -----------------------------
(***************************************************************************)
(* timeout.ohn: the binary min-heap of connection deadlines, with the map  *)
(* back from a slot to its place in the heap.  A call of the public API is *)
(* an action that does the writes before the sifting; every iteration of a *)
(* sifting loop is an action of its own, so the arrays are seen in each    *)
(* state they pass through.  One thread runs it: the next call starts when *)
(* `pc' is "idle" again.                                                   *)
(***************************************************************************)
EXTENDS Integers

CONSTANTS
    MaxConn,    \* loop.ohn's MAX_CONN: slots are 0..MaxConn-1
    HeapMax,    \* HEAP_MAX
    Times       \* the instants deadlines and clock readings come from

ASSUME HeapAssumption ==
    /\ MaxConn \in Nat \ {0}
    /\ HeapMax \in Nat
    /\ MaxConn <= HeapMax
    /\ Times \subseteq Int

Slots == 0 .. MaxConn - 1
Places == 0 .. HeapMax - 1

VARIABLES
    heap_slots,         \* place -> slot
    heap_expires,       \* place -> deadline
    slot_to_heap_idx,   \* slot -> place, -1 once removed, 0 before its first use
    heap_size,
    pc,                 \* "idle", or the loop that runs: "up" or "down"
    idx,                \* the loop's variable idx
    then_down,          \* where heap_sift_down starts after heap_sift_up, or -1
    added,              \* history: slots that were ever given a timer
    timed,              \* history: slots given one and neither removed nor polled since
    reply               \* the last call's return value

arrays == <<heap_slots, heap_expires, slot_to_heap_idx>>
history == <<added, timed>>
vars == <<arrays, heap_size, pc, idx, then_down, history, reply>>

Init ==
    /\ heap_slots = [p \in Places |-> 0]
    /\ heap_expires = [p \in Places |-> 0]
    /\ slot_to_heap_idx = [s \in Slots |-> 0]
    /\ heap_size = 0
    /\ pc = "idle" /\ idx = 0 /\ then_down = -1
    /\ added = {} /\ timed = {} /\ reply = 0

-----------------------------------------------------------------------------
(* heap_swap, and the loops that use it.                                   *)

Swapped(f, i, j) == [f EXCEPT ![i] = f[j], ![j] = f[i]]

HeapSwap(i, j) ==
    /\ heap_slots' = Swapped(heap_slots, i, j)
    /\ heap_expires' = Swapped(heap_expires, i, j)
    /\ slot_to_heap_idx' = [slot_to_heap_idx EXCEPT ![heap_slots[i]] = j,
                                                    ![heap_slots[j]] = i]

Parent(i) == (i - 1) \div 2
Left(i) == 2 * i + 1
Right(i) == 2 * i + 2

BeforeParent == idx > 0 /\ heap_expires[idx] < heap_expires[Parent(idx)]

SiftUp ==
    /\ pc = "up"
    /\ \/ /\ BeforeParent
          /\ HeapSwap(idx, Parent(idx))
          /\ idx' = Parent(idx)
          /\ UNCHANGED <<pc, then_down>>
       \/ /\ ~BeforeParent /\ then_down # -1
          /\ pc' = "down" /\ idx' = then_down /\ then_down' = -1
          /\ UNCHANGED arrays
       \/ /\ ~BeforeParent /\ then_down = -1
          /\ pc' = "idle"
          /\ UNCHANGED <<arrays, idx, then_down>>
    /\ UNCHANGED <<heap_size, history, reply>>

\* Of `i' and its children, the one that has to stand at `i'.
SmallerOf(i, c) == IF c < heap_size /\ heap_expires[c] < heap_expires[i] THEN c ELSE i
Smallest(i) == SmallerOf(SmallerOf(i, Left(i)), Right(i))

SiftDown ==
    /\ pc = "down"
    /\ \/ /\ Smallest(idx) # idx
          /\ HeapSwap(idx, Smallest(idx))
          /\ idx' = Smallest(idx)
          /\ UNCHANGED pc
       \/ /\ Smallest(idx) = idx
          /\ pc' = "idle"
          /\ UNCHANGED <<arrays, idx>>
    /\ UNCHANGED <<heap_size, then_down, history, reply>>

-----------------------------------------------------------------------------
(* The public API.                                                         *)

InHeap(s) == slot_to_heap_idx[s] >= 0 /\ slot_to_heap_idx[s] < heap_size

\* Fault: a heap that keeps its last place empty.
StingyAdd(s, t) ==
    /\ pc = "idle" /\ s \notin timed
    /\ added' = added \cup {s}
    /\ timed' = timed \cup {s}
    /\ \/ /\ heap_size >= HeapMax - 1
          /\ reply' = -1
          /\ UNCHANGED <<arrays, heap_size, pc, idx, then_down>>
       \/ /\ heap_size < HeapMax - 1
          /\ heap_slots' = [heap_slots EXCEPT ![heap_size] = s]
          /\ heap_expires' = [heap_expires EXCEPT ![heap_size] = t]
          /\ slot_to_heap_idx' = [slot_to_heap_idx EXCEPT ![s] = heap_size]
          /\ heap_size' = heap_size + 1
          /\ pc' = "up" /\ idx' = heap_size /\ then_down' = -1
          /\ reply' = 0

\* timeout_add; acceptConnections calls it for a slot that was idle, so has no timer.
Add(s, t) ==
    /\ pc = "idle" /\ s \notin timed
    /\ added' = added \cup {s}
    /\ timed' = timed \cup {s}
    /\ \/ /\ heap_size >= HeapMax
          /\ reply' = -1
          /\ UNCHANGED <<arrays, heap_size, pc, idx, then_down>>
       \/ /\ heap_size < HeapMax
          /\ heap_slots' = [heap_slots EXCEPT ![heap_size] = s]
          /\ heap_expires' = [heap_expires EXCEPT ![heap_size] = t]
          /\ slot_to_heap_idx' = [slot_to_heap_idx EXCEPT ![s] = heap_size]
          /\ heap_size' = heap_size + 1
          /\ pc' = "up" /\ idx' = heap_size /\ then_down' = -1
          /\ reply' = 0

\* Fault: the new deadline is compared the wrong way round.
ReversedTouch(s, t) ==
    /\ pc = "idle" /\ s \in added /\ InHeap(s)
    /\ heap_expires' = [heap_expires EXCEPT ![slot_to_heap_idx[s]] = t]
    /\ pc' = IF t > heap_expires[slot_to_heap_idx[s]] THEN "up" ELSE "down"
    /\ idx' = slot_to_heap_idx[s]
    /\ reply' = 0
    /\ UNCHANGED <<heap_slots, slot_to_heap_idx, heap_size, then_down, history>>

\* timeout_touch; the loop touches only slots that it added before.
Touch(s, t) ==
    /\ pc = "idle" /\ s \in added
    /\ \/ /\ ~InHeap(s)
          /\ reply' = -1
          /\ UNCHANGED <<heap_expires, pc, idx>>
       \/ /\ InHeap(s)
          /\ heap_expires' = [heap_expires EXCEPT ![slot_to_heap_idx[s]] = t]
          /\ pc' = IF t < heap_expires[slot_to_heap_idx[s]] THEN "up" ELSE "down"
          /\ idx' = slot_to_heap_idx[s]
          /\ reply' = 0
    /\ UNCHANGED <<heap_slots, slot_to_heap_idx, heap_size, then_down, history>>

\* Fault: a removal that leaves the slot's place recorded.
ForgetfulTakeOut(s) ==
    LET p == slot_to_heap_idx[s]
        last == heap_size - 1
    IN  /\ HeapSwap(p, last)
        /\ heap_size' = last
        /\ \/ p < last /\ pc' = "up" /\ idx' = p /\ then_down' = p
           \/ p >= last /\ UNCHANGED <<pc, idx, then_down>>

\* The body of timeout_remove for a slot that is in the heap.
TakeOut(s) ==
    LET p == slot_to_heap_idx[s]
        last == heap_size - 1
    IN  /\ heap_slots' = Swapped(heap_slots, p, last)
        /\ heap_expires' = Swapped(heap_expires, p, last)
        /\ slot_to_heap_idx' =
              [slot_to_heap_idx EXCEPT ![heap_slots[last]] = p, ![s] = -1]
        /\ heap_size' = last
        /\ \/ p < last /\ pc' = "up" /\ idx' = p /\ then_down' = p
           \/ p >= last /\ UNCHANGED <<pc, idx, then_down>>

\* timeout_remove; called for slots that were added before, and, when the slot
\* expired, a second time after timeout_poll has removed it.
RemoveTimer(s) ==
    /\ pc = "idle" /\ s \in added
    /\ \/ ~InHeap(s) /\ reply' = -1 /\ UNCHANGED <<arrays, heap_size, pc, idx, then_down>>
       \/ InHeap(s) /\ reply' = 0 /\ TakeOut(s)
    /\ timed' = timed \ {s}
    /\ UNCHANGED added

\* timeout_poll
Poll(now) ==
    /\ pc = "idle"
    /\ \/ /\ heap_size = 0 \/ heap_expires[0] > now
          /\ reply' = -1
          /\ UNCHANGED <<arrays, heap_size, pc, idx, then_down>>
       \/ /\ heap_size > 0 /\ heap_expires[0] <= now
          /\ reply' = heap_slots[0]
          /\ IF InHeap(heap_slots[0]) THEN TakeOut(heap_slots[0])
             ELSE UNCHANGED <<arrays, heap_size, pc, idx, then_down>>
    /\ timed' = timed \ {reply'}
    /\ UNCHANGED added

Next ==
    \/ \E s \in Slots, t \in Times : Add(s, t) \/ Touch(s, t)
    \/ \E s \in Slots : RemoveTimer(s)
    \/ \E now \in Times : Poll(now)
    \/ SiftUp
    \/ SiftDown

Spec == Init /\ [][Next]_vars

-----------------------------------------------------------------------------
(* Properties.                                                             *)

TypeOK ==
    /\ heap_slots \in [Places -> Slots]
    /\ heap_expires \in [Places -> Int]
    /\ slot_to_heap_idx \in [Slots -> -1 .. HeapMax - 1]
    /\ heap_size \in 0 .. HeapMax
    /\ pc \in {"idle", "up", "down"}
    /\ idx \in Places
    /\ then_down \in -1 .. HeapMax - 1
    /\ timed \subseteq added /\ added \subseteq Slots
    /\ reply \in Int

Live == 0 .. heap_size - 1

Ordered(p, c) == heap_expires[p] <= heap_expires[c]
Below(p) == {Left(p), Right(p)} \cap Live

\* Every place of the heap holds a slot with a timer and is the place recorded
\* for it; every slot with a timer has a place; the others are marked -1.
PlacesMatch ==
    /\ \A p \in Live : heap_slots[p] \in timed /\ slot_to_heap_idx[heap_slots[p]] = p
    /\ \A s \in timed : slot_to_heap_idx[s] \in Live /\ heap_slots[slot_to_heap_idx[s]] = s
    /\ \A s \in added \ timed : slot_to_heap_idx[s] = -1

\* Between calls no place expires before its parent: timeout_poll looks at
\* place 0 alone (timeout.ohn:144).
HeapInOrder ==
    pc = "idle" => \A p \in Live : \A c \in Below(p) : Ordered(p, c)

\* What the loops keep: only the edges that meet at idx may be out of order, and
\* the children of idx are not due before its parent.
OrderExceptAtIdx ==
    /\ pc = "up" =>
          /\ idx \in Live
          /\ then_down # -1 => then_down \in Live
          /\ \A p \in Live : \A c \in Below(p) :
                (c # idx /\ (p # idx \/ idx # then_down)) => Ordered(p, c)
    /\ pc = "down" =>
          /\ idx \in Live
          /\ then_down = -1
          /\ \A p \in Live \ {idx} : \A c \in Below(p) : Ordered(p, c)
    /\ pc = "idle" => then_down = -1
    /\ pc # "idle" =>
          \A p \in Live : idx \in Below(p) =>
             \A c \in Below(idx) : Ordered(p, c)

\* The inductive invariant.
IInv == TypeOK /\ PlacesMatch /\ HeapInOrder /\ OrderExceptAtIdx

\* No timer is ever refused: acceptConnections ignores what timeout_add returns
\* (loop.ohn:172), so a refused one would be a connection that is never evicted.
NeverRefused == [][\A s \in Slots, t \in Times : Add(s, t) => reply' = 0]_vars

\* The table of deadlines the heap stands for; every call changes it as
\* TimerTable says, and the loops do not change it.
Deadline == [s \in timed |-> heap_expires[slot_to_heap_idx[s]]]

Table == INSTANCE TimerTable WITH deadline <- Deadline

ImplementsTimerTable == Table!Spec
=============================================================================
