------------------------------ MODULE CompileCli ------------------------------
(***************************************************************************)
(* compiler/scripts/compile.js beside bootstrap.js.  compile.js takes the  *)
(* compiler out of .bootstrap/stage2 if it finds a parser there, and out   *)
(* of the sources if not; nothing tells it whether the bootstrap that      *)
(* wrote stage2 was verified, is still running, or was killed.             *)
(***************************************************************************)
EXTENDS Bootstrap

VARIABLES
    cliStep,    \* what compile.js does next, or how it ended
    target,     \* --target
    origin,     \* where the parser was found: stage2 or source
    code,       \* the files it has required
    output,     \* the state of its output file
    torn,       \* history: stage2 has changed since it was last complete
    foundTorn,  \* history: it was torn when compile.js took its compiler there
    moved       \* history: it has changed between then and the last require

cliHistory == <<torn, foundTorn, moved>>
cliVars == <<cliStep, target, origin, code, output, cliHistory>>
toolVars == <<bootVars, cliVars>>

CliEnded == {"start", "exited", "threw", "compiled"}

CliInit ==
    /\ cliStep = "start"
    /\ target = "js"
    /\ origin = "source"
    /\ code = [f \in SOURCE_FILES |-> Absent]
    /\ output = "absent"
    /\ torn = FALSE /\ foundTorn = FALSE /\ moved = FALSE

ToolInit == BootInit /\ CliInit

\* The process ends early, and its variables with it.
EndsEarly(how) ==
    /\ cliStep' = how
    /\ target' = "js" /\ origin' = "source" /\ code' = [f \in SOURCE_FILES |-> Absent]
    /\ UNCHANGED <<output, cliHistory>>

\* The arguments name a target and an input that exists.
ReadArguments ==
    /\ cliStep = "start"
    /\ \E t \in {"js", "llvm"} :
          /\ target' = t
          /\ cliStep' = IF t = "llvm" THEN "llc" ELSE "find"
    /\ UNCHANGED <<origin, code, output, cliHistory>>

\* llc --version succeeds.
CheckLlvm ==
    /\ cliStep = "llc"
    /\ cliStep' = "find"
    /\ UNCHANGED <<target, origin, code, output, cliHistory>>

\* Another target, no input, or no llc.
ExitWithError ==
    /\ cliStep \in {"start", "llc"}
    /\ EndsEarly("exited")

\* existsSync of stage2/frontend/parser.js, and of nothing else.
FindCompiler ==
    /\ cliStep = "find"
    /\ origin' = IF stage[2][PARSER].state = "absent" THEN "source" ELSE "stage2"
    /\ cliStep' = "parser"
    /\ foundTorn' = (torn /\ origin' = "stage2")
    /\ UNCHANGED <<target, code, output, torn, moved>>

\* Node can require a file that is written to its end and finds what it
\* requires under the names in it.
Loadable(dir, f) ==
    /\ dir[f].state = "fixed" \/ (dir[f].state = "generated" /\ Requires[f] = {})
    /\ \A g \in Requires[f] : dir[g].state \in {"generated", "fixed"}

SourceTree == [f \in SOURCE_FILES |-> [state |-> "fixed", by |-> Babel, src |-> sources[f]]]
Tree(from) == IF from = "stage2" THEN stage[2] ELSE SourceTree

\* require of an entry file, with what it requires.
Require(from, f) ==
    [g \in SOURCE_FILES |-> IF g = f \/ g \in Requires[f] THEN Tree(from)[g] ELSE code[g]]

RequireParser ==
    /\ cliStep = "parser"
    /\ Loadable(Tree(origin), PARSER)
    /\ code' = Require(origin, PARSER)
    /\ cliStep' = "generator"
    /\ UNCHANGED <<target, origin, output, cliHistory>>

\* Fault: every generator is.
GeneratorFromSource == "source"

\* The LLVM generator is always taken from the sources.
GeneratorFrom == IF target = "llvm" THEN "source" ELSE origin

RequireGenerator ==
    /\ cliStep = "generator"
    /\ Loadable(Tree(GeneratorFrom), GENERATOR)
    /\ code' = Require(GeneratorFrom, GENERATOR)
    /\ cliStep' = "generate"
    /\ UNCHANGED <<target, origin, output, cliHistory>>

\* require throws, and nothing catches it.
RequireThrows ==
    /\ \/ cliStep = "parser" /\ ~Loadable(Tree(origin), PARSER)
       \/ cliStep = "generator" /\ ~Loadable(Tree(GeneratorFrom), GENERATOR)
    /\ EndsEarly("threw")

\* What was required is not needed again, and forgotten.
GenerateOutput ==
    /\ cliStep = "generate"
    /\ output' = "generated"
    /\ cliStep' = IF target = "js" THEN "fix" ELSE "compiled"
    /\ origin' = "source" /\ code' = [f \in SOURCE_FILES |-> Absent]
    /\ foundTorn' = FALSE /\ moved' = FALSE
    /\ UNCHANGED <<target, torn>>

FixOutput ==
    /\ cliStep = "fix"
    /\ output' = "fixed"
    /\ cliStep' = "compiled"
    /\ UNCHANGED <<target, origin, code, cliHistory>>

Cli ==
    \/ ReadArguments \/ CheckLlvm \/ ExitWithError \/ FindCompiler \/ RequireParser \/ RequireGenerator
    \/ RequireThrows \/ GenerateOutput \/ FixOutput

\* compile.js has still to require something from stage2.
AwaitsStage2 ==
    \/ cliStep = "parser" /\ origin = "stage2"
    \/ cliStep = "generator" /\ GeneratorFrom = "stage2"

\* What the histories see of a step of the bootstrap: whether it changes
\* stage2, and whether it goes on to the next stage with stage2 complete.
Observed ==
    /\ torn' = ((torn \/ stage'[2] # stage[2]) /\ ~(n = 1 /\ n' = 2))
    /\ moved' = (moved \/ (AwaitsStage2 /\ stage'[2] # stage[2]))
    /\ UNCHANGED <<cliStep, target, origin, code, output, foundTorn>>

ToolNext ==
    \/ BootNext /\ Observed
    \/ Cli /\ UNCHANGED bootVars

ToolSpec == ToolInit /\ [][ToolNext]_toolVars

-----------------------------------------------------------------------------
(***************************************************************************)
(* Properties                                                              *)
(***************************************************************************)
\* compile.js beside a bootstrap.  What it is about to run from stage2 is one
\* whole compiler and not the parser of one and the generator of another,
\* unless stage2 changed between its looking there and its last require from
\* there: what a killed bootstrap left, it runs as a whole or not at all.  And
\* it throws only if it took its compiler from an unfinished stage2, or from
\* one that changed under it: without a parser in stage2, or while a bootstrap
\* compiles stage1 or stage3, or after one was killed there, it does not.
CompilesWithOneCompiler ==
    /\ ~moved /\ cliStep = "generate" /\ origin = "stage2" /\ target = "js" =>
          Whole(code) /\ CompiledBy(code, code[PARSER].by)
    /\ ~moved /\ ~foundTorn => cliStep # "threw"
    /\ cliStep = "compiled" => output = IF target = "js" THEN "fixed" ELSE "generated"

=============================================================================
