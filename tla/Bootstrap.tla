------------------------------ MODULE Bootstrap ------------------------------
(***************************************************************************)
(* compiler/scripts/bootstrap.js: the compiler's five source files are     *)
(* compiled by Babel into stage1/, by stage1 into stage2/ and by stage2    *)
(* into stage3/, and stage2 and stage3 are compared.  The files stay on    *)
(* disk between runs; a run may be killed between any two steps, and the   *)
(* sources may be edited while it runs, because every stage reads them     *)
(* again.                                                                  *)
(*                                                                         *)
(* A compiler is the text of its five files.  What it generates depends on *)
(* that text and on the source it is given, and on nothing else; equal     *)
(* texts have equal hashes and different texts different ones.  Different  *)
(* compilers, and different versions of a source, may well generate the    *)
(* same text: a comment, say, leaves no trace in it.                       *)
(***************************************************************************)
EXTENDS Naturals, FiniteSets

CONSTANTS
    Contents,       \* what can be in a generated file
    Emit(_, _, _),  \* Emit(c, f, v): what c generates for version v of source f
    Removals,       \* bound on the sets of files a killed cleanDir has removed
    MaxEdits,       \* bound on the edits of the sources, of the model only
    MaxRuns         \* bound on the runs of the script, of the model only

\* SOURCE_FILES, in their order, and what each requires.
LEXER == 1
PARSER == 2
ARENA == 3
EMITTER == 4
GENERATOR == 5
SOURCE_FILES == 1..5
Requires == [f \in SOURCE_FILES |-> CASE f = PARSER -> {LEXER, ARENA}
                                      [] f = GENERATOR -> {EMITTER}
                                      [] OTHER -> {}]

\* Babel is not built from the sources.
Babel == <<>>
Compilers == [SOURCE_FILES -> Contents] \cup {Babel}
Version == 0..MaxEdits

ASSUME BootstrapAssumption ==
    /\ MaxEdits \in Nat /\ MaxRuns \in Nat
    /\ Removals \subseteq SUBSET SOURCE_FILES
    /\ \A c \in Compilers, f \in SOURCE_FILES, v \in Version : Emit(c, f, v) \in Contents

\* A file of a stage directory: cut off while it was written, with require
\* paths that still end in .ohn, or with its paths fixed; and which compiler
\* made it of which version of its source, which the file does not tell.
File == [state : {"absent", "partial", "generated", "fixed"}, by : Compilers, src : Version]
Absent == [state |-> "absent", by |-> Babel, src |-> 0]

VARIABLES
    sources,        \* the version of each source on disk
    stage,          \* the directories stage1, stage2 and stage3
    step,           \* what the script does next, or how it ended
    n,              \* the stage it is in: 0, 1 or 2
    compiled,       \* the files of this stage it is done with
    loaded,         \* the compiler it has required
    runs,           \* how often it was started
    startSources,   \* history: the sources when it started
    lateSources     \* history: the sources when it loaded stage2

bootVars == <<sources, stage, step, n, compiled, loaded, runs, startSources, lateSources>>

Ended == {"idle", "verified", "mismatch", "killed"}

First == [f \in SOURCE_FILES |-> 0]

BootInit ==
    /\ sources = First
    /\ stage = [d \in 1..3 |-> [f \in SOURCE_FILES |-> Absent]]
    /\ step = "idle"
    /\ n = 0
    /\ compiled = 0
    /\ loaded = Babel
    /\ runs = 0
    /\ startSources = First
    /\ lateSources = First

\* What is in a file, and the compiler that a directory holds.
Content(f, file) == Emit(file.by, f, file.src)
CompilerIn(dir) == [f \in SOURCE_FILES |-> Content(f, dir[f])]

\* The file that is being compiled, and the directory it goes to.
Current == compiled + 1
Written(file) == [stage EXCEPT ![n + 1][Current] = file]

-----------------------------------------------------------------------------
StartBootstrap ==
    /\ step \in Ended
    /\ runs < MaxRuns
    /\ runs' = runs + 1
    /\ step' = "clean"
    /\ n' = 0
    /\ startSources' = sources
    /\ lateSources' = First
    /\ UNCHANGED <<sources, stage, compiled, loaded>>

\* cleanDir: only the directory of the current stage is emptied.
Clean ==
    /\ step = "clean"
    /\ stage' = [stage EXCEPT ![n + 1] = [f \in SOURCE_FILES |-> Absent]]
    /\ compiled' = 0
    /\ step' = IF n = 0 THEN "file" ELSE "load"
    /\ UNCHANGED <<sources, n, loaded, runs, startSources, lateSources>>

\* The compiler of the stage before is required once, into memory.
Load ==
    /\ step = "load"
    /\ loaded' = CompilerIn(stage[n])
    /\ lateSources' = IF n = 2 THEN sources ELSE lateSources
    /\ step' = "file"
    /\ UNCHANGED <<sources, stage, n, compiled, runs, startSources>>

\* Stage 0: Babel, with the paths fixed before the file is written.
CompileWithBabel ==
    /\ step = "file" /\ n = 0 /\ compiled < 5
    /\ stage' = Written([state |-> "fixed", by |-> Babel, src |-> sources[Current]])
    /\ compiled' = compiled + 1
    /\ UNCHANGED <<sources, step, n, loaded, runs, startSources, lateSources>>

\* A later stage: generate writes the file, then its paths are fixed.
Generate ==
    /\ step = "file" /\ n > 0 /\ compiled < 5
    /\ stage' = Written([state |-> "generated", by |-> loaded, src |-> sources[Current]])
    /\ step' = "fix"
    /\ UNCHANGED <<sources, n, compiled, loaded, runs, startSources, lateSources>>

\* Fault: the paths of the last stage are left alone.
FixPathsOnce ==
    /\ step = "fix"
    /\ stage' = IF n = 1 THEN Written([stage[n + 1][Current] EXCEPT !.state = "fixed"]) ELSE stage
    /\ compiled' = compiled + 1
    /\ step' = "file"
    /\ UNCHANGED <<sources, n, loaded, runs, startSources, lateSources>>

FixPaths ==
    /\ step = "fix"
    /\ stage' = Written([stage[n + 1][Current] EXCEPT !.state = "fixed"])
    /\ compiled' = compiled + 1
    /\ step' = "file"
    /\ UNCHANGED <<sources, n, loaded, runs, startSources, lateSources>>

NextStage ==
    /\ step = "file" /\ compiled = 5
    /\ step' = IF n < 2 THEN "clean" ELSE "verify"
    /\ n' = IF n < 2 THEN n + 1 ELSE n
    /\ UNCHANGED <<sources, stage, compiled, loaded, runs, startSources, lateSources>>

\* The end of the process is that of its variables.
VariablesEnd == n' = 0 /\ compiled' = 0 /\ loaded' = Babel

\* listing the files of a directory, and comparing the bytes of two of them:
\* fixing the paths changes nothing in a file that requires none.
Files(dir) == {f \in SOURCE_FILES : dir[f].state # "absent"}
SameBytes(f, file1, file2) ==
    /\ Content(f, file1) = Content(f, file2)
    /\ file1.state = file2.state \/ (Requires[f] = {} /\ {file1.state, file2.state} = {"generated", "fixed"})

\* Fault: only the files are counted.
SameCount(dir1, dir2) == Cardinality(Files(dir1)) = Cardinality(Files(dir2))

\* verify: as many files, and the same bytes in each.
SameFiles(dir1, dir2) ==
    /\ Cardinality(Files(dir1)) = Cardinality(Files(dir2))
    /\ \A f \in Files(dir1) : f \in Files(dir2) /\ SameBytes(f, dir1[f], dir2[f])

Verify ==
    /\ step = "verify"
    /\ step' = IF SameFiles(stage[2], stage[3]) THEN "verified" ELSE "mismatch"
    /\ VariablesEnd
    /\ UNCHANGED <<sources, stage, runs, startSources, lateSources>>

\* The process is killed: while a directory is emptied, with some of its files
\* gone, for cleanDir promises no order; while a file is written, with a part
\* of it on disk.
Kill ==
    /\ step \notin Ended
    /\ \/ UNCHANGED stage
       \/ /\ step = "clean"
          /\ \E gone \in Removals :
                stage' = [stage EXCEPT ![n + 1] =
                            [f \in SOURCE_FILES |-> IF f \in gone THEN Absent ELSE @[f]]]
       \/ /\ step \in {"file", "fix"} /\ compiled < 5
          /\ stage' = Written([state |-> "partial", by |-> loaded, src |-> sources[Current]])
    /\ step' = "killed"
    /\ VariablesEnd
    /\ startSources' = First /\ lateSources' = First
    /\ UNCHANGED <<sources, runs>>

Total(s) == s[1] + s[2] + s[3] + s[4] + s[5]

\* A source is saved with a content it did not have before.
EditSource ==
    /\ Total(sources) < MaxEdits
    /\ \E f \in SOURCE_FILES : sources' = [sources EXCEPT ![f] = @ + 1]
    /\ UNCHANGED <<stage, step, n, compiled, loaded, runs, startSources, lateSources>>

Script ==
    \/ Clean \/ Load \/ CompileWithBabel \/ Generate \/ FixPaths \/ NextStage \/ Verify

BootNext == StartBootstrap \/ Script \/ Kill \/ EditSource

BootSpec == BootInit /\ [][BootNext]_bootVars

-----------------------------------------------------------------------------
(***************************************************************************)
(* Properties                                                              *)
(***************************************************************************)
Whole(dir) == \A f \in SOURCE_FILES : dir[f].state = "fixed"
CompiledBy(dir, c) == \A f \in SOURCE_FILES : dir[f].by = c

\* What a compiler makes of the sources, and whether what the sources
\* describe, compiled with itself, gives itself.
BuiltBy(c, s) == [f \in SOURCE_FILES |-> Emit(c, f, s[f])]
Reproduces(s) ==
    LET two == BuiltBy(BuiltBy(Babel, s), s)
    IN  BuiltBy(two, s) = two

\* A verdict of success stands for a fixed point: every file of stage2 and
\* stage3 is there with its paths fixed, and the compiler in stage2 makes
\* exactly its own text of every source, as this was at some time after stage2
\* was complete.  No more: verify compares bytes, so an edit that leaves no
\* trace in them goes unnoticed, and stage2 need not come from the sources that
\* stage1 came from.
VerifiedIsFixedPoint ==
    step = "verified" =>
        /\ Whole(stage[2]) /\ Whole(stage[3])
        /\ \A f \in SOURCE_FILES :
              LET v == stage[3][f].src
              IN  /\ lateSources[f] <= v /\ v <= sources[f]
                  /\ Emit(CompilerIn(stage[2]), f, v) = CompilerIn(stage[2])[f]

\* Whatever a killed run left behind, a run that ends finds the stages equal,
\* unless a source was edited while it was running or the sources describe a
\* compiler that does not reproduce itself.
MismatchOnlyAfterEdit == step = "mismatch" => sources # startSources \/ ~Reproduces(sources)

=============================================================================
