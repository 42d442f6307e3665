---------------------------- MODULE BinaryLayout ----------------------------
(***************************************************************************)
(* The @binaryLayout class transform of                                    *)
(* core/src/plugins/babel-plugin-binary-layout.js.  The transform walks    *)
(* over the elements of a class in order; a property with a known type is  *)
(* given the next bytes of a packet and becomes a getter, every other      *)
(* element stays as it was.  One element is one step.  The getters it      *)
(* generates, which run later and on buffers of any length, are the        *)
(* operators BytesRead and GetterFails.                                  *)
(***************************************************************************)
EXTENDS Integers, Sequences

CONSTANTS
    Types,      \* the names in TYPE_SIZES
    TYPE_SIZES, \* bytes of an element of each
    NoType,     \* no type is annotated
    OtherType,  \* a name that is not in TYPE_SIZES
    Elements,   \* the elements a class body may have
    MaxElements \* bound on the elements of a class, of the model only

\* An annotation: the decorators @type and @size, or TypeScript's type[n].
NoSize == -1
Annotations == [type : Types \cup {NoType, OtherType}, size : Nat \cup {NoSize}]

ASSUME LayoutAssumption ==
    /\ TYPE_SIZES \in [Types -> Nat \ {0}]
    /\ NoType \notin Types /\ OtherType \notin Types
    \* a property or a method, and what its decorators and its type say
    /\ Elements \subseteq [property : BOOLEAN, decorators : Annotations, ts : Annotations]
    /\ MaxElements \in Nat

VARIABLES
    elements,       \* the class body before the transform
    visited,        \* how many elements have been visited
    currentOffset,  \* currentOffset: the first byte that is still free
    getters,        \* the getters, in the order they will be appended
    keptElements,   \* the elements that stay, by index
    layoutDone      \* constructor, factory and getters have been injected

layoutVars == <<elements, visited, currentOffset, getters, keptElements, layoutDone>>

LayoutInit ==
    /\ elements \in UNION {[1..n -> Elements] : n \in 0..MaxElements}
    /\ visited = 0
    /\ currentOffset = 0
    /\ getters = <<>>
    /\ keptElements = {}
    /\ layoutDone = FALSE

-----------------------------------------------------------------------------
\* What TypeScript says wins over the decorators, part by part; a property
\* without a size has one element.
TypeName(e) == IF e.ts.type # NoType THEN e.ts.type ELSE e.decorators.type
Size(e) == CASE e.ts.size # NoSize -> e.ts.size
             [] e.ts.size = NoSize /\ e.decorators.size # NoSize -> e.decorators.size
             [] OTHER -> 1

HasLayout(e) == e.property /\ TypeName(e) \in Types
\* Fault: elements are counted instead of bytes.
TotalElements(e) == Size(e)

TotalBytes(e) == TYPE_SIZES[TypeName(e)] * Size(e)

\* A property with a known type: it takes the next bytes.
PlaceField ==
    /\ visited < Len(elements)
    /\ LET e == elements[visited + 1]
       IN  /\ HasLayout(e)
           /\ getters' = Append(getters, [element |-> visited + 1, type |-> TypeName(e),
                                          size |-> Size(e), offset |-> currentOffset])
           /\ currentOffset' = currentOffset + TotalBytes(e)
    /\ visited' = visited + 1
    /\ UNCHANGED <<elements, keptElements, layoutDone>>

\* A method, or a property without a valid type.
SkipElement ==
    /\ visited < Len(elements)
    /\ ~HasLayout(elements[visited + 1])
    /\ keptElements' = keptElements \cup {visited + 1}
    /\ visited' = visited + 1
    /\ UNCHANGED <<elements, currentOffset, getters, layoutDone>>

\* The factory and the constructor go in front, the getters behind.
InjectMembers ==
    /\ visited = Len(elements)
    /\ ~layoutDone
    /\ layoutDone' = TRUE
    /\ UNCHANGED <<elements, visited, currentOffset, getters, keptElements>>

LayoutNext == PlaceField \/ SkipElement \/ InjectMembers

LayoutSpec == LayoutInit /\ [][LayoutNext]_layoutVars

-----------------------------------------------------------------------------
(***************************************************************************)
(* The generated getters, on a buffer of n bytes.                          *)
(***************************************************************************)
FieldBytes(g) == TYPE_SIZES[g.type] * g.size
FieldEnd(g) == g.offset + FieldBytes(g)
AtMost(a, b) == IF a <= b THEN a ELSE b

\* One element is read through the DataView, several through a slice of the
\* buffer, which is cut off where the buffer ends.
BytesRead(g, n) ==
    IF g.size = 1 THEN g.offset .. FieldEnd(g) - 1
    ELSE g.offset .. AtMost(FieldEnd(g), n) - 1

\* Fault: the slice has no end.
SliceToTheEnd(g, n) == IF n <= g.offset THEN 0 ELSE n - g.offset

SliceLength(g, n) == IF n <= g.offset THEN 0 ELSE AtMost(FieldEnd(g), n) - g.offset

\* The DataView throws at the end of the buffer; a typed array throws when
\* the slice is not a whole number of elements.
GetterFails(g, n) ==
    IF g.size = 1 THEN FieldEnd(g) > n
    ELSE SliceLength(g, n) % TYPE_SIZES[g.type] # 0

\* The number of elements a getter that does not fail returns.
GetterLength(g, n) == IF g.size = 1 THEN 1 ELSE SliceLength(g, n) \div TYPE_SIZES[g.type]

-----------------------------------------------------------------------------
(***************************************************************************)
(* Properties                                                              *)
(***************************************************************************)
Tiled ==
    /\ getters = <<>> => currentOffset = 0
    /\ getters # <<>> => getters[1].offset = 0 /\ currentOffset = FieldEnd(getters[Len(getters)])
    /\ \A k \in 2..Len(getters) : getters[k].offset = FieldEnd(getters[k - 1])

Accounted ==
    /\ \A k \in DOMAIN getters : HasLayout(elements[getters[k].element])
    /\ \A k \in 2..Len(getters) : getters[k - 1].element < getters[k].element
    /\ {getters[k].element : k \in DOMAIN getters} \cup keptElements = 1..visited
    /\ \A k \in keptElements : ~HasLayout(elements[k])

\* The fields tile the packet: each begins where the one before it ends, the
\* first at 0, and currentOffset is the end of the last.  So no two fields
\* share a byte, no byte between them is lost, and what a class adds at its
\* end moves no earlier field.  Every visited element is either kept or the
\* source of exactly one field, in the order of the class (the loop removes
\* elements from the body it walks over), and is kept only without a type.
FieldsTilePacket == Tiled /\ Accounted

\* What a getter returns on a buffer of any length.  It is complete exactly
\* when all its bytes are there, it never contains a byte of another field,
\* and on a shorter buffer it fails or returns fewer elements, never more.
GettersReadTheirField ==
    \A k \in DOMAIN getters : \A n \in 0..(currentOffset + 1) :
        LET g == getters[k]
            complete == ~GetterFails(g, n) /\ GetterLength(g, n) = g.size
        IN  /\ complete <=> FieldEnd(g) <= n \/ g.size = 0
            /\ ~GetterFails(g, n) => GetterLength(g, n) <= g.size
            /\ \A j \in DOMAIN getters \ {k} :
                  BytesRead(g, n) \cap BytesRead(getters[j], n) = {}

=============================================================================
