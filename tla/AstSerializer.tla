---------------------------- MODULE AstSerializer ----------------------------
(***************************************************************************)
(* The binary syntax tree of compiler/src/shim/serializer.js, and a reader *)
(* that walks over it by the lengths in the headers, as the validation in  *)
(* compiler/src/shim/test_serializer.js does.  A node is eight bytes of    *)
(* header (type, flags, length of the whole subtree), a payload and its    *)
(* children; nothing marks where a child begins, so a length that is off   *)
(* by one byte leads the reader into the middle of a node.                 *)
(*                                                                         *)
(* A syntax tree of the Babel parser is the sequence of its nodes, each    *)
(* after those it refers to and the root last; a reference is a place in   *)
(* the sequence.  Statements are [type, body], declarations [type, kind,   *)
(* declarations], literals [type, size] where size is the number of bytes  *)
(* of a string.                                                            *)
(***************************************************************************)
EXTENDS Integers, Sequences, SequencesExt

CONSTANTS
    Programs    \* the syntax trees given to compileCode

VARIABLES
    tree,       \* the syntax tree
    bytes,      \* serialize(tree)
    offset,     \* the reader's position in bytes
    ends,       \* where the nodes it is inside of end, outermost first
    visits      \* history: what it has read, in order

astVars == <<tree, bytes, offset, ends, visits>>

NODE_TYPES == [Program |-> 0, VariableDeclaration |-> 1, NumericLiteral |-> 2,
               StringLiteral |-> 3, BlockStatement |-> 4]
VAR_KINDS == [var |-> 0, let |-> 1, const |-> 2]

HeaderSize == 8
None == 0

UInt16(n) == <<n % 256, n \div 256>>
UInt32(n) == UInt16(n % 65536) \o UInt16(n \div 65536)
Filler(n) == [k \in 1..n |-> 255]
LengthAnd(n) == UInt32(n) \o Filler(n)

-----------------------------------------------------------------------------
(***************************************************************************)
(* serialize                                                               *)
(***************************************************************************)
\* Only the first declarator counts; its name is inlined if it is an
\* identifier, and its initializer becomes the only child.
FirstDeclarator(n) == n.declarations[1]

Payload(n) ==
    CASE n.type = "VariableDeclaration" /\ n.declarations # <<>> ->
            IF FirstDeclarator(n).identifier THEN LengthAnd(FirstDeclarator(n).size) ELSE <<>>
      [] n.type = "NumericLiteral" -> Filler(8)
      [] n.type = "StringLiteral" -> LengthAnd(n.size)
      [] OTHER -> <<>>

Children(n) ==
    CASE n.type \in {"Program", "BlockStatement"} -> n.body
      [] n.type = "VariableDeclaration" /\ n.declarations # <<>> ->
            IF FirstDeclarator(n).init # None THEN <<FirstDeclarator(n).init>> ELSE <<>>
      [] OTHER -> <<>>

Flags(n) ==
    IF n.type = "VariableDeclaration" /\ n.kind \in DOMAIN VAR_KINDS THEN VAR_KINDS[n.kind] ELSE 0

\* Fault: the length of a node leaves its children out.
NodeBytesShallow(n, children) ==
    UInt16(NODE_TYPES[n.type]) \o UInt16(Flags(n))
        \o UInt32(HeaderSize + Len(Payload(n))) \o Payload(n) \o children

\* totalLength = 8 + payload.length + childrenBuffer.length
NodeBytes(n, children) ==
    UInt16(NODE_TYPES[n.type]) \o UInt16(Flags(n))
        \o UInt32(HeaderSize + Len(Payload(n)) + Len(children)) \o Payload(n) \o children

\* An expression statement stands for its expression; a node of another
\* type is left out with a warning.  `done` has what serialize returns for
\* the nodes before this one.
Serialize(n, done) ==
    CASE n.type = "ExpressionStatement" -> done[n.expression]
      [] n.type \in DOMAIN NODE_TYPES ->
            NodeBytes(n, FlattenSeq([k \in DOMAIN Children(n) |-> done[Children(n)[k]]]))
      [] OTHER -> <<>>

\* The bytes of every node of a tree.
Serialized(t) ==
    LET done[i \in 0..Len(t)] ==
            IF i = 0 THEN <<>> ELSE Append(done[i - 1], Serialize(t[i], done[i - 1]))
    IN  done[Len(t)]

-----------------------------------------------------------------------------
(***************************************************************************)
(* Syntax trees.  serialize throws when a length does not fit 32 bits, so  *)
(* a tree that it returns bytes for has fewer.                             *)
(***************************************************************************)
Declarators == [identifier : BOOLEAN, size : Nat, init : Nat]
Nodes ==
    [type : {"Program", "BlockStatement"}, body : Seq(Nat)]
        \cup [type : {"VariableDeclaration"}, kind : STRING, declarations : Seq(Declarators)]
        \cup [type : {"NumericLiteral"}]
        \cup [type : {"StringLiteral"}, size : Nat]
        \cup [type : {"ExpressionStatement"}, expression : Nat]
        \cup [type : STRING \ (DOMAIN NODE_TYPES \cup {"ExpressionStatement"})]

RefersBack(t, i) ==
    /\ t[i].type = "ExpressionStatement" => t[i].expression \in 1..(i - 1)
    /\ \A k \in DOMAIN Children(t[i]) : Children(t[i])[k] \in 1..(i - 1)

ASSUME AstAssumption ==
    \A t \in Programs :
        /\ t \in Seq(Nodes) \ {<<>>}
        /\ \A i \in DOMAIN t : RefersBack(t, i)
        /\ Len(Last(Serialized(t))) \div 65536 < 65536

-----------------------------------------------------------------------------
(***************************************************************************)
(* The reader                                                              *)
(***************************************************************************)
ReadUInt16(k) == bytes[k + 1] + 256 * bytes[k + 2]
ReadUInt32(k) == ReadUInt16(k) + 65536 * ReadUInt16(k + 2)

NodeType == ReadUInt16(offset)
NodeFlags == ReadUInt16(offset + 2)
NodeLength == ReadUInt32(offset + 4)
Container == NodeType \in {NODE_TYPES.Program, NODE_TYPES.BlockStatement}

AstInit ==
    /\ tree \in Programs
    /\ bytes = Last(Serialized(tree))
    /\ offset = 0
    /\ ends = <<Len(bytes)>>
    /\ visits = <<>>

\* A node: into a program or a block, over anything else.
ReadNode ==
    /\ ends # <<>>
    /\ offset < Last(ends)
    /\ visits' = Append(visits, [type |-> NodeType, flags |-> NodeFlags, depth |-> Len(ends)])
    /\ IF Container
       THEN offset' = offset + HeaderSize /\ ends' = Append(ends, offset + NodeLength)
       ELSE offset' = offset + NodeLength /\ ends' = ends
    /\ UNCHANGED <<tree, bytes>>

\* The end of a program or a block: while (currentChildOffset < rootLength).
LeaveNode ==
    /\ ends # <<>>
    /\ offset >= Last(ends)
    /\ ends' = Front(ends)
    /\ UNCHANGED <<tree, bytes, offset, visits>>

AstNext == ReadNode \/ LeaveNode

AstSpec == AstInit /\ [][AstNext]_astVars

-----------------------------------------------------------------------------
(***************************************************************************)
(* Properties                                                              *)
(***************************************************************************)
Nested ==
    /\ \A k \in 2..Len(ends) : ends[k] <= ends[k - 1]
    /\ ends # <<>> => offset <= Last(ends)
    /\ ends = <<>> => offset = Len(bytes)

\* What a program says to a reader that does not look into declarations: its
\* supported statements in order, with blocks opened; of a node by its depth.
Says(n, done) ==
    [depth \in Nat |->
        CASE n.type = "ExpressionStatement" -> done[n.expression][depth]
          [] n.type \in DOMAIN NODE_TYPES ->
                <<[type |-> NODE_TYPES[n.type], flags |-> Flags(n), depth |-> depth]>>
                \o IF n.type \in {"Program", "BlockStatement"}
                   THEN FlattenSeq([k \in DOMAIN n.body |-> done[n.body[k]][depth + 1]]) ELSE <<>>
          [] OTHER -> <<>>]

Outlines(t) ==
    LET done[i \in 0..Len(t)] == IF i = 0 THEN <<>> ELSE Append(done[i - 1], Says(t[i], done[i - 1]))
    IN  done[Len(t)]

Outline(t) == Last(Outlines(t))[1]

\* A node never reaches beyond the node it is in, and when the reader comes
\* to the end of a node it stands on it exactly: the two assertions of the
\* validation, for trees of any shape.  Skipping by lengths finds exactly the
\* supported statements of the program at their depths, whatever payloads,
\* dropped nodes and empty blocks lie between them.
WalkFindsStatements ==
    /\ Nested
    /\ IsPrefix(visits, Outline(tree))
    /\ ends = <<>> => visits = Outline(tree)

=============================================================================
