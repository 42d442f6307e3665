---------------------------- MODULE MCComponents ----------------------------
(***************************************************************************)
(* The components that do not interact with others: the heap of timers,    *)
(* the scanners of the packages, the class transforms of the core, the     *)
(* serializer and the scripts of the compiler.  Each is checked on its     *)
(* own: subject names the one that runs, the others stay in one of their   *)
(* initial states.                                                         *)
(***************************************************************************)
EXTENDS CookieScanner, UuidPool, WsFrame, BinaryLayout, AstSerializer, MCCborAot, CompileCli, TimeoutHeap

VARIABLE subject

partVars == <<subject, vars, cookieVars, uuidVars, frameVars, layoutVars, astVars, cborVars, toolVars>>

-----------------------------------------------------------------------------
\* WebSocket frames: payloads of every form of the length, with and without
\* a mask.
MCPayload(k) == [j \in 1..k |-> IF j % 3 = 0 THEN 1 ELSE 0]
MCNoFrame == [fin |-> TRUE, opcode |-> 1, mask |-> <<>>, payload |-> <<>>]
MCFrames == {[fin |-> k % 2 = 0, opcode |-> 1 + (k % 2), mask |-> m, payload |-> MCPayload(k)] :
                k \in 0..5, m \in {<<>>, <<1, 0, 1, 1>>, <<0, 1, 1, 0>>}}

\* Class bodies: a property typed by decorators, by TypeScript or by both,
\* with sizes 0, 1 and more, or a method.
MCSizes == [u8 |-> 1, f32 |-> 4]
MCMember(p, dt, ds, tt, ts) ==
    [property |-> p, decorators |-> [type |-> dt, size |-> ds], ts |-> [type |-> tt, size |-> ts]]
MCElements ==
    {MCMember(TRUE, d[1], d[2], t[1], t[2]) :
        d \in {<<"none", NoSize>>, <<"u8", NoSize>>, <<"u8", 3>>, <<"f32", 2>>, <<"none", 0>>},
        t \in {<<"none", NoSize>>, <<"f32", NoSize>>, <<"u8", 2>>, <<"string", NoSize>>, <<"f32", 0>>}}
    \cup {MCMember(FALSE, "u8", 2, "none", NoSize)}

\* Programs: statements of every kind, alone, in pairs and in nested blocks.
\* They share a stock of nodes; a program uses some of them.
MCDeclare(kind, ds) == [type |-> "VariableDeclaration", kind |-> kind, declarations |-> ds]
MCDeclarator(ident, k, init) == [identifier |-> ident, size |-> k, init |-> init]
MCExpr(e) == [type |-> "ExpressionStatement", expression |-> e]
MCStock ==
    <<[type |-> "NumericLiteral"], [type |-> "StringLiteral", size |-> 0],
      [type |-> "StringLiteral", size |-> 3], [type |-> "StringLiteral", size |-> 260],
      [type |-> "FunctionDeclaration"], MCExpr(1), MCExpr(2), MCExpr(3), MCExpr(5),
      MCDeclare("const", <<MCDeclarator(TRUE, 2, 1)>>),
      MCDeclare("let", <<MCDeclarator(TRUE, 1, None), MCDeclarator(TRUE, 1, 1)>>),
      MCDeclare("var", <<MCDeclarator(FALSE, 0, 4)>>)>>
MCSimple == 5..12
MCBlock(b) == <<[type |-> "BlockStatement", body |-> b]>>
MCProgram(b) == <<[type |-> "Program", body |-> b]>>
MCNoProgram == MCProgram(<<>>)
MCPrograms ==
    {MCStock \o p :
        p \in {MCProgram(b) : b \in UpTo(MCSimple, 3)}
              \cup {MCBlock(b) \o MCProgram(<<13, y>>) : b \in UpTo(MCSimple, 2), y \in MCSimple}
              \cup {MCBlock(b) \o MCBlock(<<13>>) \o MCProgram(<<14>>) : b \in UpTo(MCSimple, 2)}
              \cup {MCBlock(b) \o MCBlock(<<13, y>>) \o MCProgram(<<14, 6>>) :
                        b \in UpTo(MCSimple, 2), y \in MCSimple}}
    \cup {MCNoProgram}

\* What a killed cleanDir may have removed: the lexer from under the parser,
\* frontend/, the generator, or everything but frontend/.
MCRemovals == {{LEXER}, {LEXER, PARSER}, {GENERATOR}, {ARENA, EMITTER, GENERATOR}}

\* Compilers: the first sources describe one that reproduces itself.  A
\* comment added to the lexer is not generated; another emitter generates
\* everything in another form, another arena itself only; another generator
\* does so while it is itself in the form that Babel gives it, and so does not
\* reproduce itself.
MCGenerated == 0..5
MCForm(c, f) ==
    IF c = Babel THEN 0
    ELSE IF \/ c[EMITTER] % 2 = 1
            \/ f = ARENA /\ c[ARENA] % 2 = 1
            \/ c[GENERATOR] = 1
         THEN 2 ELSE 1
MCEmit(c, f, v) == 2 * MCForm(c, f) + (IF f = LEXER THEN 0 ELSE v)

-----------------------------------------------------------------------------
Subjects == {"heap", "cookie", "uuid", "frame", "layout", "ast", "cbor", "tool"}

\* The inputs of the parts that do not run are the empty ones.
PartsInit ==
    /\ subject \in Subjects
    /\ subject # "cookie" => header = <<>> /\ CookieInit
    /\ subject # "frame" => sent = <<MCNoFrame>> /\ FrameInit
    /\ subject # "layout" => elements = <<>> /\ LayoutInit
    /\ subject # "ast" => tree = MCNoProgram /\ AstInit
    /\ subject # "cbor" => object = MCNoObject /\ CborInit
    /\ Init /\ UuidInit /\ ToolInit
    /\ subject = "cookie" => CookieInit
    /\ subject = "frame" => FrameInit
    /\ subject = "layout" => LayoutInit
    /\ subject = "ast" => AstInit
    /\ subject = "cbor" => CborInit

PartsNext ==
    \/ /\ subject = "heap" /\ Next
       /\ UNCHANGED <<subject, cookieVars, uuidVars, frameVars, layoutVars, astVars, cborVars, toolVars>>
    \/ /\ subject = "cookie" /\ CookieNext
       /\ UNCHANGED <<subject, vars, uuidVars, frameVars, layoutVars, astVars, cborVars, toolVars>>
    \/ /\ subject = "uuid" /\ UuidNext
       /\ UNCHANGED <<subject, vars, cookieVars, frameVars, layoutVars, astVars, cborVars, toolVars>>
    \/ /\ subject = "frame" /\ FrameNext
       /\ UNCHANGED <<subject, vars, cookieVars, uuidVars, layoutVars, astVars, cborVars, toolVars>>
    \/ /\ subject = "layout" /\ LayoutNext
       /\ UNCHANGED <<subject, vars, cookieVars, uuidVars, frameVars, astVars, cborVars, toolVars>>
    \/ /\ subject = "ast" /\ AstNext
       /\ UNCHANGED <<subject, vars, cookieVars, uuidVars, frameVars, layoutVars, cborVars, toolVars>>
    \/ /\ subject = "cbor" /\ CborNext
       /\ UNCHANGED <<subject, vars, cookieVars, uuidVars, frameVars, layoutVars, astVars, toolVars>>
    \/ /\ subject = "tool" /\ ToolNext
       /\ UNCHANGED <<subject, vars, cookieVars, uuidVars, frameVars, layoutVars, astVars, cborVars>>

PartsSpec == PartsInit /\ [][PartsNext]_partVars

=============================================================================
