------------------------------ MODULE MCCborAot ------------------------------
(***************************************************************************)
(* Instances of CborAot.                                                   *)
(***************************************************************************)
EXTENDS CborAot

Rep(x, k) == [j \in 1..k |-> x]
UpTo(S, k) == UNION {[1..m -> S] : m \in 0..k}

\* Objects of @cbor classes: every property type at the boundaries of its
\* heads, digits, surrogates and limits; and several properties together,
\* with keys that are long, computed or not ASCII.
Fd(k, ann) == [key |-> Rep(97, k), computed |-> FALSE, ann |-> ann, min |-> <<>>, max |-> <<>>]
One(f, v) == [class |-> <<f>>, values |-> <<v>>]
Many(S, k) == {[class |-> [j \in 1..k |-> p[j][1]], values |-> [j \in 1..k |-> p[j][2]]] : p \in [1..k -> S]}

MCUnits == {0, 127, 128, 2047, 2048, 55295, 55296, 56319, 56320, 57343, 57344, 65535}
MCTexts == {One(Fd(1, "string"), v) : v \in UpTo(MCUnits, 2) \cup UpTo({127, 128, 55296, 56320}, 3)}
           \cup {One([Fd(2, "string") EXCEPT !.max = <<2>>], v) : v \in UpTo({127, 128, 55296, 56320}, 2)}
           \cup {One(Fd(1, "string"), Rep(97, 17))}
MCNumbers == {One(f, <<v>>) :
                f \in {[Fd(1, "number") EXCEPT !.min = <<0>>], [Fd(1, "number") EXCEPT !.max = <<5>>],
                       Fd(3, "number")},
                v \in {-Half - 1, -Half, -1, 0, 5, Half - 1, Half}}
MCArrays == {One(Fd(1, "array"), v) : v \in UpTo({-Word - 1, -1, 0, Word - 1, Word}, 2)
                                            \cup {Rep(-2, 4), Rep(2, 17)}}
MCParts == {<<Fd(1, "boolean"), <<0>>>>, <<Fd(1, "boolean"), <<1>>>>,
            <<Fd(1, "number"), <<-1>>>>, <<Fd(1, "number"), <<5>>>>,
            <<Fd(1, "string"), <<>>>>, <<Fd(1, "string"), <<128, 55296, 56320>>>>,
            <<Fd(3, "string"), Rep(97, 4)>>,
            <<Fd(1, "array"), <<>>>>, <<Fd(1, "array"), <<3, -4, 7>>>>, <<Fd(4, "array"), Rep(1, 16)>>,
            <<[Fd(1, "string") EXCEPT !.key = <<233>>], <<97>>>>, <<[Fd(1, "number") EXCEPT !.key = <<97, 8364>>], <<5>>>>,
            <<Fd(1, "other"), <<>>>>, <<[Fd(1, "number") EXCEPT !.computed = TRUE], <<5>>>>}
MCFlag == {<<Fd(1, "boolean"), <<1>>>>}
MCNoObject == [class |-> <<>>, values |-> <<>>]
MCObjects == MCTexts \cup MCNumbers \cup MCArrays
             \cup Many(MCParts, 2) \cup Many(MCFlag, 5) \cup Many(MCFlag, 17) \cup Many(MCFlag, 0)

\* Objects of a class as docs/api/ohn-zod.md writes it, with the limits of its
\* example, but with a type: numbers on both sides of 2^31.
MCUint32 == [Fd(2, "number") EXCEPT !.min = <<0>>, !.max = <<Word - 1>>]
MCZodObjects == {[class |-> Rep(MCUint32, k), values |-> p] :
                    k \in {2}, p \in [1..2 -> {<<v>> : v \in {0, 1, 5, Half - 1, Half, Word - 2, Word - 1}}]}

=============================================================================
