----------------------------- MODULE SlottedPage -----------------------------
(***************************************************************************)
(* The slotted pages of packages-llvm/db.ohn/src/db.ohn: slot headers grow *)
(* up from the page header and tuples grow down from the end of the page.  *)
(* A page is a sequence of 32-bit words, 1024 in the code.  Nothing checks *)
(* that a tuple still fits; the bound on the inserts lets the model fill   *)
(* the page and one tuple more.                                            *)
(***************************************************************************)
EXTENDS Integers, Sequences, FiniteSets

CONSTANTS
    PageWords,   \* words of a page
    Rids, Hashes, Payloads,   \* what tuples are made of
    MaxInserts   \* bound on the inserts, of the model only

VARIABLES
    words,       \* the page
    inserted     \* history: the tuples, in the order of their insertion

pageVars == <<words, inserted>>

HEADER_WORDS == 4        \* magic, lba, NumSlots, FreeSpaceOffset
SLOT_WORDS == 2
TUPLE_WORDS == 4         \* rid_high, rid_low, hash, val

ASSUME PageAssumption ==
    /\ PageWords \in Nat /\ MaxInserts \in Nat
    \* the inserts do not leave the page
    /\ TUPLE_WORDS * MaxInserts <= PageWords
    /\ HEADER_WORDS + SLOT_WORDS * MaxInserts <= PageWords

NumSlots == words[2]
FreeSpaceOffset == words[3]

\* sys_frame_write_i32 for the words of a sequence, from a word of the page.
WriteWords(page, at, values) ==
    [w \in DOMAIN page |-> IF w - at + 1 \in DOMAIN values THEN values[w - at + 1] ELSE page[w]]

\* db_page_init leaves the rest of the page as it is.
PageInit ==
    /\ words = WriteWords([w \in 0..(PageWords - 1) |-> 0], 0, <<728581, 0, 0, PageWords>>)
    /\ inserted = <<>>

\* db_slot_insert: the tuple, its slot, then the header.
SlotInsert(tuple) ==
    LET newFreeSpace == FreeSpaceOffset - TUPLE_WORDS
        withTuple == WriteWords(words, newFreeSpace, tuple)
        withSlot == WriteWords(withTuple, HEADER_WORDS + NumSlots * SLOT_WORDS,
                               <<newFreeSpace, TUPLE_WORDS>>)
    IN  /\ Len(inserted) < MaxInserts
        /\ words' = WriteWords(withSlot, 2, <<NumSlots + 1, newFreeSpace>>)
        /\ inserted' = Append(inserted, tuple)

PageNext == \E high, low \in Rids, h \in Hashes, v \in Payloads : SlotInsert(<<high, low, h, v>>)

PageSpec == PageInit /\ [][PageNext]_pageVars

\* Fault: rid_low is not compared.
SlotMatchesLoosely(i, key) ==
    LET at == words[HEADER_WORDS + i * SLOT_WORDS]
    IN  \A k \in {1, 3} : at + k - 1 \in DOMAIN words /\ words[at + k - 1] = key[k]

\* db_tuple_search: the payload of the first slot that matches, or -1.
SlotMatches(i, key) ==
    LET at == words[HEADER_WORDS + i * SLOT_WORDS]
    IN  \A k \in 1..3 : at + k - 1 \in DOMAIN words /\ words[at + k - 1] = key[k]

TupleSearch(key) ==
    LET found == {i \in 0..(NumSlots - 1) : SlotMatches(i, key)}
        first == CHOOSE i \in found : \A j \in found : i <= j
    IN  IF found = {} THEN -1 ELSE words[words[HEADER_WORDS + first * SLOT_WORDS] + 3]

-----------------------------------------------------------------------------
\* As long as the tuples fit beside the header and their slots, a search
\* finds the payload of the first tuple that was inserted under a key, and
\* nothing under a key that was never inserted; one insert more and the tuple
\* lies over the slots of earlier ones.
Fits(count) == HEADER_WORDS + count * (SLOT_WORDS + TUPLE_WORDS) <= PageWords

SearchFindsInserted ==
    Fits(Len(inserted)) =>
        \A high, low \in Rids, h \in Hashes :
            LET matches == {i \in DOMAIN inserted : SubSeq(inserted[i], 1, 3) = <<high, low, h>>}
            IN  TupleSearch(<<high, low, h>>) =
                    IF matches = {} THEN -1
                    ELSE inserted[CHOOSE i \in matches : \A j \in matches : i <= j][4]

=============================================================================
