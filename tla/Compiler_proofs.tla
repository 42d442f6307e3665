---------------------------- MODULE Compiler_proofs ----------------------------
(***************************************************************************)
(* Proofs about the compiler's scripts: the bootstrap, for any number of   *)
(* runs and edits, and the binary syntax tree, for programs of any size.   *)
(*                                                                         *)
(* The bootstrap: a file of a stage is what the compiler of the stage      *)
(* before makes of a version of its source that was on disk during the run *)
(* (for stage3: since stage2 was loaded), and which is the only one if     *)
(* there was no edit.  So equal bytes at the end are those of a compiler   *)
(* that generates itself.                                                  *)
(***************************************************************************)
EXTENDS CompileCli, AstSerializer, WellFoundedInduction, TLAPS

VersionVectors == [SOURCE_FILES -> Version]
Running == {"clean", "load", "file", "fix", "verify"}

BootTypeOK ==
    /\ sources \in VersionVectors
    /\ stage \in [1..3 -> [SOURCE_FILES -> File]]
    /\ step \in Ended \cup Running
    /\ n \in 0..2
    /\ compiled \in 0..5
    /\ loaded \in Compilers
    /\ startSources \in VersionVectors
    /\ lateSources \in VersionVectors

\* Which compiler made a file of each stage, and of what.
InRun(d, f) == startSources[f] <= stage[d][f].src /\ stage[d][f].src <= sources[f]
Stage1File(f) == stage[1][f].by = Babel /\ InRun(1, f)
Stage2File(f) == stage[2][f].by = CompilerIn(stage[1]) /\ InRun(2, f)
Stage3File(f) == stage[3][f].by = CompilerIn(stage[2]) /\ InRun(3, f) /\ lateSources[f] <= stage[3][f].src
Fixed(d, f) == stage[d][f].state = "fixed"

\* What the script knows at each place.
PlaceInv ==
    /\ step \in Ended => n = 0 /\ compiled = 0
    /\ step = "load" => n > 0 /\ compiled = 0
    /\ step = "fix" => n > 0 /\ compiled < 5
    /\ step = "verify" => n = 2

StagesInv ==
    /\ n = 0 /\ step = "file" => \A f \in 1..compiled : Stage1File(f)
    /\ n > 0 => \A f \in SOURCE_FILES : Stage1File(f)
    /\ n = 2 /\ step \in {"file", "fix"} => \A f \in SOURCE_FILES : lateSources[f] <= sources[f]
    /\ n = 1 /\ step \in {"file", "fix"} =>
          /\ loaded = CompilerIn(stage[1])
          /\ \A f \in 1..compiled : Fixed(2, f) /\ Stage2File(f)
          /\ step = "fix" => Stage2File(Current)
    /\ n = 2 => \A f \in SOURCE_FILES : Fixed(2, f) /\ Stage2File(f)
    /\ n = 2 /\ step \in {"file", "fix"} =>
          /\ loaded = CompilerIn(stage[2])
          /\ \A f \in 1..compiled : Fixed(3, f) /\ Stage3File(f)
          /\ step = "fix" => Stage3File(Current)
    /\ step = "verify" => \A f \in SOURCE_FILES : Fixed(3, f) /\ Stage3File(f)

\* The verdict, which stays true until the next run.
VerdictInv ==
    /\ \A f \in SOURCE_FILES : startSources[f] <= sources[f]
    /\ VerifiedIsFixedPoint
    /\ MismatchOnlyAfterEdit

BootInv == BootTypeOK /\ PlaceInv /\ StagesInv /\ VerdictInv

-----------------------------------------------------------------------------
(* Files and versions *)

Stages == [1..3 -> [SOURCE_FILES -> File]]

LEMMA FileTypes ==
  ASSUME NEW F \in File
  PROVE  F.src \in Version /\ F.src \in Nat /\ F.by \in Compilers
  BY BootstrapAssumption DEF File, Version

LEMMA AbsentFile == Absent \in File /\ First \in VersionVectors /\ 0 \in Version
  BY BootstrapAssumption DEF Absent, File, Compilers, Version, First, VersionVectors

LEMMA SourceTypes ==
  ASSUME BootTypeOK, NEW f \in SOURCE_FILES
  PROVE  /\ sources[f] \in Nat /\ startSources[f] \in Nat /\ lateSources[f] \in Nat
         /\ sources[f] \in Version /\ startSources[f] \in Version
  BY BootstrapAssumption DEF BootTypeOK, VersionVectors, Version

LEMMA StageTypes ==
  ASSUME BootTypeOK, NEW d \in 1..3
  PROVE  /\ CompilerIn(stage[d]) \in Compilers
         /\ \A f \in SOURCE_FILES : /\ CompilerIn(stage[d])[f] = Content(f, stage[d][f])
                                    /\ stage[d][f] \in File /\ stage[d][f].src \in Nat
<1>1. \A f \in SOURCE_FILES : stage[d][f] \in File
  BY DEF BootTypeOK
<1>2. ASSUME NEW f \in SOURCE_FILES PROVE Content(f, stage[d][f]) \in Contents
  BY <1>1, FileTypes, BootstrapAssumption DEF Content
<1> QED
  BY <1>1, <1>2, FileTypes DEF CompilerIn, Compilers

\* Only the current file of the current stage is written.
LEMMA WritesOneFile ==
  ASSUME BootTypeOK, compiled < 5, NEW F \in File
  PROVE  /\ Written(F) \in Stages
         /\ Current \in SOURCE_FILES /\ Written(F)[n + 1][Current] = F
         /\ \A d \in 1..3 : d # n + 1 => Written(F)[d] = stage[d]
         /\ \A f \in SOURCE_FILES : f # Current => Written(F)[n + 1][f] = stage[n + 1][f]
         /\ \A f \in 1..compiled : f \in SOURCE_FILES /\ f # Current
<1>1. n + 1 \in 1..3 /\ Current \in SOURCE_FILES /\ compiled \in 0..4
  BY DEF BootTypeOK, Current, SOURCE_FILES
<1>2. \A f \in 1..compiled : f \in SOURCE_FILES /\ f # Current
  BY <1>1 DEF SOURCE_FILES, Current
<1>3. stage \in Stages
  BY DEF BootTypeOK, Stages
<1> HIDE DEF Current
<1> QED
  BY <1>1, <1>2, <1>3 DEF Written, Stages

\* While the script runs there is no verdict to keep.
LEMMA NoVerdict ==
  ASSUME VerdictInv, step' \notin {"verified", "mismatch"},
         UNCHANGED sources, startSources' = startSources \/ startSources' = First \/ startSources' = sources,
         BootTypeOK
  PROVE  VerdictInv'
<1>1. \A f \in SOURCE_FILES : First[f] <= sources[f] /\ sources[f] <= sources[f]
  BY SourceTypes DEF First
<1> QED
  BY <1>1 DEF VerdictInv, VerifiedIsFixedPoint, MismatchOnlyAfterEdit

-----------------------------------------------------------------------------
(* The steps of the script *)

LEMMA StartKeeps ==
  ASSUME BootInv, StartBootstrap
  PROVE  BootInv'
<1>1. BootTypeOK'
  BY AbsentFile DEF StartBootstrap, BootInv, BootTypeOK, Running
<1>2. PlaceInv' /\ StagesInv'
  BY DEF StartBootstrap, PlaceInv, StagesInv, Ended
<1>3. VerdictInv'
  BY NoVerdict DEF StartBootstrap, BootInv
<1> QED
  BY <1>1, <1>2, <1>3 DEF BootInv

LEMMA CleanKeeps ==
  ASSUME BootInv, Clean
  PROVE  BootInv'
<1>1. /\ step = "clean" /\ step' = (IF n = 0 THEN "file" ELSE "load") /\ compiled' = 0
      /\ stage' = [stage EXCEPT ![n + 1] = [f \in SOURCE_FILES |-> Absent]]
      /\ UNCHANGED <<sources, n, loaded, runs, startSources, lateSources>>
  BY DEF Clean
<1>2. n + 1 \in 1..3 /\ n \in 0..2
  BY DEF BootInv, BootTypeOK
<1>3. [f \in SOURCE_FILES |-> Absent] \in [SOURCE_FILES -> File]
  BY AbsentFile
<1>4. /\ stage' \in [1..3 -> [SOURCE_FILES -> File]]
      /\ \A d \in 1..3 : d # n + 1 => stage'[d] = stage[d]
  BY <1>1, <1>2, <1>3 DEF BootInv, BootTypeOK
<1>5. BootTypeOK'
  BY <1>1, <1>4 DEF BootInv, BootTypeOK, Running
<1>6. PlaceInv'
  BY <1>1, <1>2 DEF PlaceInv, Ended
<1>7. StagesInv'
  <2>1. CASE n = 0
    BY <1>1, <2>1 DEF StagesInv
  <2>2. CASE n = 1
    BY <1>1, <1>4, <2>2 DEF StagesInv, BootInv, Stage1File, InRun
  <2>3. CASE n = 2
    BY <1>1, <1>4, <2>3 DEF StagesInv, BootInv, Stage1File, Stage2File, InRun, Fixed, CompilerIn, Content
  <2> QED
    BY <1>2, <2>1, <2>2, <2>3
<1>8. VerdictInv'
  BY <1>1, NoVerdict DEF BootInv
<1> QED
  BY <1>5, <1>6, <1>7, <1>8 DEF BootInv

LEMMA LoadKeeps ==
  ASSUME BootInv, Load
  PROVE  BootInv'
<1>1. /\ step = "load" /\ step' = "file" /\ loaded' = CompilerIn(stage[n])
      /\ lateSources' = IF n = 2 THEN sources ELSE lateSources
      /\ UNCHANGED <<sources, stage, n, runs, startSources>>
      /\ UNCHANGED compiled
  BY DEF Load
<1>2. n \in {1, 2}
  BY <1>1 DEF BootInv, BootTypeOK, PlaceInv
<1>3. BootTypeOK'
  BY <1>1, <1>2, StageTypes DEF BootInv, BootTypeOK, Running
<1>4. PlaceInv'
  BY <1>1 DEF PlaceInv, Ended
<1>5. compiled = 0 /\ 1..0 = {}
  BY <1>1 DEF BootInv, PlaceInv
<1>6. CASE n = 1
  <2>1. loaded' = CompilerIn(stage[1])'
    BY <1>1, <1>6 DEF CompilerIn, Content
  <2>2. StagesInv'
    BY <1>1, <1>5, <1>6, <2>1 DEF BootInv, StagesInv, Stage1File, InRun
  <2> QED
    BY <1>1, <1>3, <1>4, <2>2, NoVerdict DEF BootInv
<1>7. CASE n = 2
  <2>1. loaded' = CompilerIn(stage[2])'
    BY <1>1, <1>7 DEF CompilerIn, Content
  <2>2. \A f \in SOURCE_FILES : lateSources'[f] <= sources'[f]
    BY <1>1, <1>7, SourceTypes DEF BootInv
  <2>3. StagesInv'
    BY <1>1, <1>5, <1>7, <2>1, <2>2
       DEF BootInv, StagesInv, Stage1File, Stage2File, InRun, Fixed, CompilerIn, Content
  <2> QED
    BY <1>1, <1>3, <1>4, <2>3, NoVerdict DEF BootInv
<1> QED
  BY <1>2, <1>6, <1>7

LEMMA BabelKeeps ==
  ASSUME BootInv, CompileWithBabel
  PROVE  BootInv'
<1> DEFINE F == [state |-> "fixed", by |-> Babel, src |-> sources[Current]]
<1>1. /\ step = "file" /\ n = 0 /\ compiled < 5 /\ stage' = Written(F) /\ compiled' = compiled + 1
      /\ UNCHANGED <<sources, step, n, loaded, runs, startSources, lateSources>>
  BY DEF CompileWithBabel
<1>2. Current \in SOURCE_FILES /\ compiled \in 0..4
  BY <1>1 DEF BootInv, BootTypeOK, Current, SOURCE_FILES
<1>3. F \in File /\ F.src = sources[Current] /\ F.by = Babel
  BY <1>2, SourceTypes DEF File, Compilers, BootInv
<1> HIDE DEF F
<1>4. /\ stage' \in Stages /\ stage'[1][Current] = F
      /\ \A f \in SOURCE_FILES : f # Current => stage'[1][f] = stage[1][f]
      /\ \A f \in 1..compiled : f \in SOURCE_FILES /\ f # Current
  BY <1>1, <1>3, WritesOneFile DEF BootInv
<1>5. BootTypeOK'
  BY <1>1, <1>2, <1>4 DEF BootInv, BootTypeOK, Stages
<1>6. PlaceInv'
  BY <1>1 DEF PlaceInv, Ended
<1>7. 1..(compiled + 1) = (1..compiled) \cup {Current}
  BY <1>2 DEF Current
<1>8. /\ startSources[Current] <= sources[Current] /\ sources[Current] <= sources[Current]
  BY <1>2, SourceTypes DEF BootInv, VerdictInv
<1>9. \A f \in 1..(compiled + 1) : Stage1File(f)'
  BY <1>1, <1>3, <1>4, <1>7, <1>8 DEF BootInv, StagesInv, Stage1File, InRun
<1>10. StagesInv'
  BY <1>1, <1>9 DEF StagesInv
<1>11. VerdictInv'
  BY <1>1, NoVerdict DEF BootInv
<1> QED
  BY <1>5, <1>6, <1>10, <1>11 DEF BootInv

\* The file of a later stage, before and after its paths are fixed.
LEMMA LaterFile ==
  ASSUME BootInv, n > 0, step \in {"file", "fix"}, compiled < 5,
         NEW F \in File, F.by = loaded,
         startSources[Current] <= F.src, F.src <= sources[Current],
         n = 2 => lateSources[Current] <= F.src,
         stage' = Written(F), step' \in {"file", "fix"},
         IF step' = "fix" THEN compiled' = compiled
                          ELSE compiled' = compiled + 1 /\ F.state = "fixed",
         UNCHANGED <<sources, n, loaded, runs, startSources, lateSources>>
  PROVE  BootInv'
<1>1. /\ stage' \in Stages /\ Current \in SOURCE_FILES /\ stage'[n + 1][Current] = F
      /\ \A d \in 1..3 : d # n + 1 => stage'[d] = stage[d]
      /\ \A f \in 1..compiled : f \in SOURCE_FILES /\ f # Current
      /\ \A f \in 1..compiled : stage'[n + 1][f] = stage[n + 1][f]
  BY WritesOneFile DEF BootInv
<1>2. n \in {1, 2} /\ compiled \in 0..4
  BY DEF BootInv, BootTypeOK
<1>3. BootTypeOK'
  BY <1>1, <1>2 DEF BootInv, BootTypeOK, Stages, Running
<1>4. PlaceInv'
  BY <1>2 DEF PlaceInv, Ended
<1>5. 1..(compiled + 1) = (1..compiled) \cup {Current}
  BY <1>2 DEF Current
<1>6. \A f \in 1..compiled' : f \in 1..compiled \/ (f = Current /\ F.state = "fixed")
  BY <1>5
<1>7. step' = "fix" => Current' = Current
  BY DEF Current
<1>8. CASE n = 1
  <2>1. stage'[1] = stage[1] /\ stage'[2][Current] = F
        /\ \A f \in 1..compiled : stage'[2][f] = stage[2][f]
    BY <1>1, <1>8
  <2>2. CompilerIn(stage[1])' = CompilerIn(stage[1]) /\ loaded = CompilerIn(stage[1])
    BY <1>8, <2>1 DEF CompilerIn, Content, BootInv, StagesInv
  <2>3. F.by = CompilerIn(stage[1])
    BY <1>8, <2>2
  <2>4. /\ stage'[2][Current].by = CompilerIn(stage[1])'
        /\ startSources'[Current] <= stage'[2][Current].src /\ stage'[2][Current].src <= sources'[Current]
        /\ stage'[2][Current].state = F.state
    BY <2>1, <2>2, <2>3
  <2>5. \A f \in 1..compiled : Fixed(2, f)' /\ Stage2File(f)'
    BY <1>8, <2>1, <2>2 DEF BootInv, StagesInv, Fixed, Stage2File, InRun
  <2>6. \A f \in 1..compiled' : Fixed(2, f)' /\ Stage2File(f)'
    BY <1>6, <2>4, <2>5 DEF Fixed, Stage2File, InRun
  <2>7. step' = "fix" => Stage2File(Current)'
    BY <1>7, <2>4 DEF Stage2File, InRun
  <2>8. StagesInv'
    BY <1>8, <2>1, <2>2, <2>6, <2>7 DEF BootInv, StagesInv, Stage1File, InRun
  <2> QED
    BY <1>3, <1>4, <2>8, NoVerdict DEF BootInv
<1>9. CASE n = 2
  <2>1. stage'[1] = stage[1] /\ stage'[2] = stage[2] /\ stage'[3][Current] = F
        /\ \A f \in 1..compiled : stage'[3][f] = stage[3][f]
    BY <1>1, <1>9
  <2>2. /\ CompilerIn(stage[1])' = CompilerIn(stage[1]) /\ CompilerIn(stage[2])' = CompilerIn(stage[2])
        /\ loaded = CompilerIn(stage[2])
    BY <1>9, <2>1 DEF CompilerIn, Content, BootInv, StagesInv
  <2>3. F.by = CompilerIn(stage[2]) /\ lateSources[Current] <= F.src
    BY <1>9, <2>2
  <2>4. /\ stage'[3][Current].by = CompilerIn(stage[2])'
        /\ startSources'[Current] <= stage'[3][Current].src /\ stage'[3][Current].src <= sources'[Current]
        /\ lateSources'[Current] <= stage'[3][Current].src
        /\ stage'[3][Current].state = F.state
    BY <2>1, <2>2, <2>3
  <2>5. \A f \in 1..compiled : Fixed(3, f)' /\ Stage3File(f)'
    BY <1>9, <2>1, <2>2 DEF BootInv, StagesInv, Fixed, Stage3File, InRun
  <2>6. \A f \in 1..compiled' : Fixed(3, f)' /\ Stage3File(f)'
    BY <1>6, <2>4, <2>5 DEF Fixed, Stage3File, InRun
  <2>7. step' = "fix" => Stage3File(Current)'
    BY <1>7, <2>4 DEF Stage3File, InRun
  <2>8. StagesInv'
    BY <1>9, <2>1, <2>2, <2>6, <2>7 DEF BootInv, StagesInv, Stage1File, Stage2File, InRun, Fixed
  <2> QED
    BY <1>3, <1>4, <2>8, NoVerdict DEF BootInv
<1> QED
  BY <1>2, <1>8, <1>9

LEMMA GenerateKeeps ==
  ASSUME BootInv, Generate
  PROVE  BootInv'
<1>1. /\ step = "file" /\ n > 0 /\ compiled < 5 /\ step' = "fix" /\ compiled' = compiled
      /\ UNCHANGED <<sources, n, loaded, runs, startSources, lateSources>>
  BY DEF Generate
<1>2. Current \in SOURCE_FILES
  BY <1>1 DEF BootInv, BootTypeOK, Current, SOURCE_FILES
<1>3. PICK F \in File : F = [state |-> "generated", by |-> loaded, src |-> sources[Current]]
  BY <1>2, SourceTypes DEF File, BootInv, BootTypeOK
<1>4. F.by = loaded /\ F.src = sources[Current] /\ F.src <= sources[Current] /\ startSources[Current] <= F.src
  BY <1>2, <1>3, FileTypes DEF BootInv, VerdictInv
<1>5. stage' = Written(F)
  BY <1>3 DEF Generate
<1>6. n = 2 => lateSources[Current] <= F.src
  BY <1>1, <1>2, <1>4 DEF BootInv, StagesInv
<1> QED
  BY <1>1, <1>4, <1>5, <1>6, LaterFile

LEMMA FixPathsKeeps ==
  ASSUME BootInv, FixPaths
  PROVE  BootInv'
<1>1. /\ step = "fix" /\ step' = "file" /\ compiled' = compiled + 1
      /\ UNCHANGED <<sources, n, loaded, runs, startSources, lateSources>>
      /\ n \in {1, 2} /\ compiled < 5
  BY DEF FixPaths, BootInv, PlaceInv, BootTypeOK
<1>2. Current \in SOURCE_FILES
  BY <1>1 DEF BootInv, BootTypeOK, Current, SOURCE_FILES
<1>3. stage[n + 1][Current] \in File
  BY <1>1, <1>2 DEF BootInv, BootTypeOK
<1>4. PICK F \in File : F = [stage[n + 1][Current] EXCEPT !.state = "fixed"]
  BY <1>3 DEF File
<1>5. F.by = stage[n + 1][Current].by /\ F.src = stage[n + 1][Current].src /\ F.state = "fixed"
  BY <1>3, <1>4 DEF File
<1>6. stage' = Written(F)
  BY <1>4 DEF FixPaths
<1>7. /\ F.by = loaded /\ startSources[Current] <= F.src /\ F.src <= sources[Current]
      /\ n = 2 => lateSources[Current] <= F.src
  <2>1. CASE n = 1
    <3>1. Stage2File(Current) /\ loaded = CompilerIn(stage[1])
      BY <1>1, <2>1 DEF BootInv, StagesInv
    <3> QED
      BY <1>5, <2>1, <3>1 DEF Stage2File, InRun
  <2>2. CASE n = 2
    <3>1. Stage3File(Current) /\ loaded = CompilerIn(stage[2])
      BY <1>1, <2>2 DEF BootInv, StagesInv
    <3> QED
      BY <1>5, <2>2, <3>1 DEF Stage3File, InRun
  <2> QED
    BY <1>1, <2>1, <2>2
<1> QED
  BY <1>1, <1>5, <1>6, <1>7, LaterFile

LEMMA NextStageKeeps ==
  ASSUME BootInv, NextStage
  PROVE  BootInv'
<1>1. /\ step = "file" /\ compiled = 5
      /\ step' = (IF n < 2 THEN "clean" ELSE "verify")
      /\ n' = (IF n < 2 THEN n + 1 ELSE n)
      /\ UNCHANGED <<sources, stage, compiled, loaded, runs, startSources, lateSources>>
  BY DEF NextStage
<1>2. n \in 0..2 /\ 1..compiled = SOURCE_FILES
  BY <1>1 DEF BootInv, BootTypeOK, SOURCE_FILES
<1>3. BootTypeOK'
  BY <1>1, <1>2 DEF BootInv, BootTypeOK, Running
<1>4. PlaceInv'
  BY <1>1, <1>2 DEF PlaceInv, Ended
<1>5. StagesInv'
  <2>1. CASE n = 0
    BY <1>1, <1>2, <2>1 DEF BootInv, StagesInv, Stage1File, InRun
  <2>2. CASE n = 1
    BY <1>1, <1>2, <2>2 DEF BootInv, StagesInv, Stage1File, Stage2File, InRun, Fixed, CompilerIn, Content
  <2>3. CASE n = 2
    BY <1>1, <1>2, <2>3
       DEF BootInv, StagesInv, Stage1File, Stage2File, Stage3File, InRun, Fixed, CompilerIn, Content
  <2> QED
    BY <1>2, <2>1, <2>2, <2>3
<1>6. VerdictInv'
  BY <1>1, NoVerdict DEF BootInv
<1> QED
  BY <1>3, <1>4, <1>5, <1>6 DEF BootInv

LEMMA KillKeeps ==
  ASSUME BootInv, Kill
  PROVE  BootInv'
<1>1. /\ step' = "killed" /\ n' = 0 /\ compiled' = 0 /\ loaded' = Babel
      /\ startSources' = First /\ lateSources' = First /\ UNCHANGED <<sources, runs>>
  BY DEF Kill, VariablesEnd
<1>2. n \in 0..2 /\ n + 1 \in 1..3 /\ stage \in [1..3 -> [SOURCE_FILES -> File]]
  BY DEF BootInv, BootTypeOK
<1>3. stage' \in [1..3 -> [SOURCE_FILES -> File]]
  <2>1. CASE UNCHANGED stage
    BY <1>2, <2>1
  <2>2. ASSUME NEW gone \in Removals,
               stage' = [stage EXCEPT ![n + 1] = [f \in SOURCE_FILES |-> IF f \in gone THEN Absent ELSE @[f]]]
        PROVE  stage' \in [1..3 -> [SOURCE_FILES -> File]]
    <3>1. Absent \in File
      BY AbsentFile
    <3>2. [f \in SOURCE_FILES |-> IF f \in gone THEN Absent ELSE stage[n + 1][f]] \in [SOURCE_FILES -> File]
      BY <1>2, <3>1
    <3> QED
      BY <1>2, <2>2, <3>2
  <2>3. ASSUME compiled < 5, stage' = Written([state |-> "partial", by |-> loaded, src |-> sources[Current]])
        PROVE  stage' \in [1..3 -> [SOURCE_FILES -> File]]
    <3>1. Current \in SOURCE_FILES
      BY <2>3 DEF BootInv, BootTypeOK, Current, SOURCE_FILES
    <3>2. [state |-> "partial", by |-> loaded, src |-> sources[Current]] \in File
      BY <3>1, SourceTypes DEF File, BootInv, BootTypeOK
    <3> QED
      BY <2>3, <3>2, WritesOneFile DEF BootInv, Stages
  <2> QED
    BY <2>1, <2>2, <2>3 DEF Kill
<1>4. BootTypeOK'
  BY <1>1, <1>3, AbsentFile DEF BootInv, BootTypeOK, Ended, Compilers
<1>5. PlaceInv' /\ StagesInv'
  BY <1>1 DEF PlaceInv, StagesInv
<1>6. VerdictInv'
  BY <1>1, NoVerdict DEF BootInv
<1> QED
  BY <1>4, <1>5, <1>6 DEF BootInv

\* A source that is saved gets a later version; what was compiled before is
\* not later than it.
LEMMA EditKeeps ==
  ASSUME BootInv, EditSource
  PROVE  BootInv'
<1>1. PICK g \in SOURCE_FILES :
        /\ sources' = [sources EXCEPT ![g] = @ + 1] /\ Total(sources) < MaxEdits
        /\ UNCHANGED <<stage, step, n, compiled, loaded, runs, startSources, lateSources>>
  BY DEF EditSource
<1>2. /\ sources' \in VersionVectors
      /\ \A f \in SOURCE_FILES : sources[f] \in Nat /\ sources[f] <= sources'[f]
      /\ sources'[g] = sources[g] + 1
  <2>1. /\ \A f \in SOURCE_FILES : sources[f] \in Nat /\ sources[f] \in 0..MaxEdits
        /\ MaxEdits \in Nat /\ sources \in [SOURCE_FILES -> 0..MaxEdits]
    BY SourceTypes, BootstrapAssumption DEF BootInv, BootTypeOK, VersionVectors, Version
  <2>2. sources[1] \in Nat /\ sources[2] \in Nat /\ sources[3] \in Nat /\ sources[4] \in Nat /\ sources[5] \in Nat
    BY <2>1 DEF SOURCE_FILES
  <2>3. \A f \in SOURCE_FILES : sources[f] < MaxEdits
    BY <1>1, <2>1, <2>2 DEF Total, SOURCE_FILES
  <2>4. sources[g] + 1 \in 0..MaxEdits
    BY <2>1, <2>3
  <2> QED
    BY <1>1, <2>1, <2>4 DEF VersionVectors, Version
<1>3. BootTypeOK'
  BY <1>1, <1>2 DEF BootInv, BootTypeOK
<1>4. PlaceInv'
  BY <1>1 DEF BootInv, PlaceInv
<1>5. \A f \in SOURCE_FILES : /\ stage[1][f].src \in Nat /\ stage[2][f].src \in Nat /\ stage[3][f].src \in Nat
                              /\ lateSources[f] \in Nat /\ startSources[f] \in Nat /\ sources'[f] \in Nat
  <2>1. BootTypeOK /\ BootTypeOK'
    BY <1>3 DEF BootInv
  <2>2. \A f \in SOURCE_FILES : lateSources[f] \in Nat /\ startSources[f] \in Nat /\ sources[f] \in Nat
    BY <2>1, SourceTypes
  <2>3. \A f \in SOURCE_FILES : sources'[f] \in Nat
    BY <1>1, <1>2, <2>2
  <2> QED
    BY <2>1, <2>2, <2>3, StageTypes
<1>6. 1..compiled \subseteq SOURCE_FILES /\ (step = "fix" => Current \in SOURCE_FILES)
  BY DEF BootInv, BootTypeOK, PlaceInv, SOURCE_FILES, Current
<1>7. \A f \in SOURCE_FILES : /\ Stage1File(f) => Stage1File(f)'
                              /\ Stage2File(f) => Stage2File(f)'
                              /\ Stage3File(f) => Stage3File(f)'
                              /\ Fixed(2, f) => Fixed(2, f)'
                              /\ Fixed(3, f) => Fixed(3, f)'
  BY <1>1, <1>2, <1>5 DEF Stage1File, Stage2File, Stage3File, InRun, Fixed, CompilerIn, Content
<1>8. \A f \in SOURCE_FILES : lateSources[f] <= sources[f] => lateSources'[f] <= sources'[f]
  BY <1>1, <1>2, <1>5
<1>9. CompilerIn(stage[1])' = CompilerIn(stage[1]) /\ CompilerIn(stage[2])' = CompilerIn(stage[2]) /\ Current' = Current
  BY <1>1 DEF CompilerIn, Content, Current
<1>10. StagesInv'
  BY <1>1, <1>6, <1>7, <1>8, <1>9 DEF BootInv, StagesInv
<1>11. VerdictInv'
  <2>1. \A f \in SOURCE_FILES : startSources'[f] <= sources'[f]
    BY <1>1, <1>2, <1>5 DEF BootInv, VerdictInv
  <2>2. VerifiedIsFixedPoint'
    <3>1. \A f \in SOURCE_FILES : stage[3][f].src <= sources[f] => stage[3][f].src <= sources'[f]
      BY <1>2, <1>5
    <3> QED
      BY <1>1, <3>1 DEF BootInv, VerdictInv, VerifiedIsFixedPoint, Whole, CompilerIn, Content
  <2>3. sources' # startSources'
    <3>1. startSources[g] < sources'[g]
      BY <1>2, <1>5 DEF BootInv, VerdictInv
    <3>2. sources'[g] # startSources[g]
      BY <1>5, <3>1
    <3> QED
      BY <1>1, <3>2
  <2> QED
    BY <2>1, <2>2, <2>3 DEF VerdictInv, MismatchOnlyAfterEdit
<1> QED
  BY <1>3, <1>4, <1>10, <1>11 DEF BootInv

-----------------------------------------------------------------------------
(* The verdict *)

\* All stages are complete when they are compared.
LEMMA AllCompiled ==
  ASSUME BootInv, step = "verify"
  PROVE  \A f \in SOURCE_FILES :
            /\ Stage1File(f) /\ Stage2File(f) /\ Stage3File(f) /\ Fixed(2, f) /\ Fixed(3, f)
            /\ f \in Files(stage[2]) /\ f \in Files(stage[3])
<1>1. n = 2
  BY DEF BootInv, PlaceInv
<1>2. ASSUME NEW f \in SOURCE_FILES
      PROVE  /\ Fixed(2, f) => f \in Files(stage[2])
             /\ Fixed(3, f) => f \in Files(stage[3])
  BY DEF Fixed, Files
<1> QED
  BY <1>1, <1>2 DEF BootInv, StagesInv

LEMMA EqualStages ==
  ASSUME BootInv, step = "verify", SameFiles(stage[2], stage[3]), NEW f \in SOURCE_FILES
  PROVE  /\ lateSources[f] <= stage[3][f].src /\ stage[3][f].src <= sources[f]
         /\ Emit(CompilerIn(stage[2]), f, stage[3][f].src) = CompilerIn(stage[2])[f]
<1>1. Content(f, stage[2][f]) = Content(f, stage[3][f])
  BY AllCompiled DEF SameFiles, SameBytes
<1>2. Content(f, stage[3][f]) = Emit(CompilerIn(stage[2]), f, stage[3][f].src)
  BY AllCompiled DEF Stage3File, Content
<1>3. CompilerIn(stage[2])[f] = Content(f, stage[2][f])
  BY StageTypes DEF BootInv
<1> QED
  BY <1>1, <1>2, <1>3, AllCompiled DEF Stage3File, InRun

\* Without an edit every stage was compiled from the sources of the start.
LEMMA UneditedStages ==
  ASSUME BootInv, step = "verify", sources = startSources, Reproduces(sources)
  PROVE  SameFiles(stage[2], stage[3])
<1> DEFINE one == BuiltBy(Babel, sources)
           two == BuiltBy(one, sources)
<1>1. ASSUME NEW f \in SOURCE_FILES
      PROVE  /\ stage[1][f].src = sources[f] /\ stage[2][f].src = sources[f] /\ stage[3][f].src = sources[f]
  <2>1. /\ stage[1][f].src \in Nat /\ stage[2][f].src \in Nat /\ stage[3][f].src \in Nat
        /\ sources[f] \in Nat
    BY StageTypes, SourceTypes DEF BootInv
  <2> QED
    BY <2>1, AllCompiled DEF Stage1File, Stage2File, Stage3File, InRun
<1>2. CompilerIn(stage[1]) = one
  <2>1. \A f \in SOURCE_FILES : Content(f, stage[1][f]) = Emit(Babel, f, sources[f])
    BY <1>1, AllCompiled DEF Stage1File, Content
  <2> QED
    BY <2>1 DEF CompilerIn, BuiltBy
<1>3. CompilerIn(stage[2]) = two
  <2>1. \A f \in SOURCE_FILES : Content(f, stage[2][f]) = Emit(one, f, sources[f])
    BY <1>1, <1>2, AllCompiled DEF Stage2File, Content
  <2> HIDE DEF one
  <2> QED
    BY <2>1 DEF CompilerIn, BuiltBy
<1>4. BuiltBy(two, sources) = two
  BY DEF Reproduces
<1> HIDE DEF one, two
<1>5. ASSUME NEW f \in SOURCE_FILES PROVE SameBytes(f, stage[2][f], stage[3][f])
  <2>1. Content(f, stage[3][f]) = Emit(two, f, sources[f])
    BY <1>1, <1>3, AllCompiled DEF Stage3File, Content
  <2>2. Content(f, stage[2][f]) = two[f]
    BY <1>3 DEF CompilerIn
  <2>3. two[f] = Emit(two, f, sources[f])
    BY <1>4 DEF BuiltBy
  <2> QED
    BY <2>1, <2>2, <2>3, AllCompiled DEF SameBytes, Fixed
<1>6. Files(stage[2]) = SOURCE_FILES /\ Files(stage[3]) = SOURCE_FILES
  BY AllCompiled DEF Files
<1> QED
  BY <1>5, <1>6 DEF SameFiles

LEMMA VerifyKeeps ==
  ASSUME BootInv, Verify
  PROVE  BootInv'
<1>1. /\ step = "verify" /\ step' = (IF SameFiles(stage[2], stage[3]) THEN "verified" ELSE "mismatch")
      /\ n' = 0 /\ compiled' = 0 /\ loaded' = Babel
      /\ UNCHANGED <<sources, stage, runs, startSources, lateSources>>
  BY DEF Verify, VariablesEnd
<1>2. BootTypeOK'
  BY <1>1 DEF BootInv, BootTypeOK, Ended, Compilers
<1>3. PlaceInv' /\ StagesInv'
  BY <1>1 DEF PlaceInv, StagesInv
<1>4. VerifiedIsFixedPoint'
  <2> SUFFICES ASSUME step' = "verified" PROVE VerifiedIsFixedPoint'
    BY DEF VerifiedIsFixedPoint
  <2>1. Whole(stage[2]) /\ Whole(stage[3])
    BY <1>1, AllCompiled DEF Whole, Fixed
  <2>2. \A f \in SOURCE_FILES :
           /\ lateSources[f] <= stage[3][f].src /\ stage[3][f].src <= sources[f]
           /\ Emit(CompilerIn(stage[2]), f, stage[3][f].src) = CompilerIn(stage[2])[f]
    BY <1>1, EqualStages
  <2> QED
    BY <1>1, <2>1, <2>2 DEF VerifiedIsFixedPoint, Whole, CompilerIn
<1>5. MismatchOnlyAfterEdit'
  BY <1>1, UneditedStages DEF MismatchOnlyAfterEdit
<1> QED
  BY <1>1, <1>2, <1>3, <1>4, <1>5 DEF BootInv, VerdictInv

LEMMA BootStarts == BootInit => BootInv
<1> SUFFICES ASSUME BootInit PROVE BootInv
  OBVIOUS
<1>1. First \in VersionVectors
  BY AbsentFile
<1>2. Absent \in File
  BY AbsentFile
<1>3. BootTypeOK
  BY <1>1, <1>2 DEF BootInit, BootTypeOK, Ended, Compilers
<1>4. PlaceInv /\ StagesInv /\ VerdictInv
  BY DEF BootInit, PlaceInv, StagesInv, VerdictInv, VerifiedIsFixedPoint, MismatchOnlyAfterEdit, First
<1> QED
  BY <1>3, <1>4 DEF BootInv

LEMMA BootKeeps ==
  ASSUME BootInv, [BootNext]_bootVars
  PROVE  BootInv'
<1>1. CASE UNCHANGED bootVars
  <2> USE <1>1 DEF bootVars
  <2>1. BootTypeOK' /\ PlaceInv'
    BY DEF BootInv, BootTypeOK, PlaceInv
  <2>2. StagesInv'
    BY DEF BootInv, StagesInv, Stage1File, Stage2File, Stage3File, InRun, Fixed, CompilerIn, Content, Current
  <2>3. VerdictInv'
    BY DEF BootInv, VerdictInv, VerifiedIsFixedPoint, MismatchOnlyAfterEdit, Whole, CompilerIn, Content
  <2> QED
    BY <2>1, <2>2, <2>3 DEF BootInv
<1> QED
  BY <1>1, StartKeeps, CleanKeeps, LoadKeeps, BabelKeeps, GenerateKeeps, FixPathsKeeps, NextStageKeeps,
     VerifyKeeps, KillKeeps, EditKeeps DEF BootNext, Script

LEMMA BootInvHolds == BootSpec => []BootInv
  BY BootStarts, BootKeeps, PTL DEF BootSpec

\* A verdict of success means a compiler that generates its own text, for any
\* compilers, any number of runs and kills before it and any edits meanwhile.
THEOREM VerifiedMeansFixedPoint == BootSpec => []VerifiedIsFixedPoint
<1>1. BootInv => VerifiedIsFixedPoint
  BY DEF BootInv, VerdictInv
<1> QED
  BY <1>1, BootInvHolds, PTL

\* A run that nobody disturbs, on sources that reproduce themselves, does not
\* fail, whatever killed runs left behind.
THEOREM MismatchMeansEdit == BootSpec => []MismatchOnlyAfterEdit
<1>1. BootInv => MismatchOnlyAfterEdit
  BY DEF BootInv, VerdictInv
<1> QED
  BY <1>1, BootInvHolds, PTL

-----------------------------------------------------------------------------
(***************************************************************************)
(* compile.js beside the bootstrap.  The argument: the files of stage2 are *)
(* written in their order, all by one compiler, and a file that is cut off *)
(* or has its paths unfixed is the last one there.  So a stage2 whose      *)
(* generator can be required, and which has the files of the parser, is a  *)
(* whole compiler; and a stage2 that has not changed since it was last     *)
(* complete is one if it has a parser.                                     *)
(***************************************************************************)
OneWriter == \A f, g \in Files(stage[2]) : stage[2][f].by = stage[2][g].by
InOrder ==
    \A f \in SOURCE_FILES : stage[2][f].state \in {"partial", "generated"} =>
        \A g \in Files(stage[2]) : g <= f
Unwritten ==
    n = 1 /\ step \in {"load", "file", "fix"} =>
        \A f \in Files(stage[2]) : f <= compiled \/ (step = "fix" /\ f = Current)
StageInv == OneWriter /\ InOrder /\ Unwritten

CompleteUnlessTorn == ~torn => Files(stage[2]) = {} \/ Whole(stage[2])

CliRunning == {"llc", "find", "parser", "generator", "generate", "fix"}

CliTypeOK ==
    /\ cliStep \in CliEnded \cup CliRunning
    /\ target \in {"js", "llvm"}
    /\ origin \in {"stage2", "source"}
    /\ code \in [SOURCE_FILES -> File]
    /\ torn \in BOOLEAN /\ foundTorn \in BOOLEAN /\ moved \in BOOLEAN

\* What compile.js has found, as long as stage2 does not change under it.
FromStage2(files) == \A f \in files : code[f] = stage[2][f]
OneCode == Whole(code) /\ CompiledBy(code, code[PARSER].by)
CliKnows ==
    /\ AwaitsStage2 /\ ~foundTorn => Whole(stage[2])
    /\ AwaitsStage2 /\ cliStep = "generator" =>
          Loadable(stage[2], PARSER) /\ FromStage2({LEXER, PARSER, ARENA})
    /\ cliStep = "generate" /\ origin = "stage2" /\ target = "js" => OneCode
FixesJs == cliStep = "fix" => target = "js" /\ output = "generated"

ToolInv ==
    /\ BootInv
    /\ StageInv
    /\ CompleteUnlessTorn
    /\ CliTypeOK
    /\ ~moved => CliKnows
    /\ FixesJs
    /\ CompilesWithOneCompiler

LEMMA StageFiles ==
  ASSUME BootTypeOK, NEW f \in Files(stage[2])
  PROVE  f \in SOURCE_FILES /\ stage[2][f] \in File /\ stage[2][f].state \in {"partial", "generated", "fixed"}
<1>1. f \in SOURCE_FILES /\ stage[2][f].state # "absent"
  BY DEF Files
<1>2. stage[2][f] \in File
  BY <1>1 DEF BootTypeOK
<1> QED
  BY <1>1, <1>2 DEF File

\* A file of stage2 that is written comes after the others, by the same
\* compiler.
LEMMA OneMoreFile ==
  ASSUME BootInv, StageInv, n = 1, step \in {"file", "fix"}, compiled < 5,
         NEW F \in File, F.by = loaded, F.state # "absent", stage' = Written(F)
  PROVE  /\ OneWriter' /\ InOrder'
         /\ \A f \in Files(stage'[2]) : f <= compiled \/ f = Current
<1>1. /\ Current \in SOURCE_FILES /\ stage'[2][Current] = F
      /\ \A f \in SOURCE_FILES : f # Current => stage'[2][f] = stage[2][f]
  BY WritesOneFile DEF BootInv
<1>2. compiled \in 0..4 /\ Current = compiled + 1
  BY DEF BootInv, BootTypeOK, Current
<1>3. ASSUME NEW f \in Files(stage'[2]), f # Current
      PROVE  f \in 1..compiled /\ stage'[2][f].by = loaded /\ stage'[2][f].state = "fixed"
  <2>1. f \in Files(stage[2]) /\ f \in SOURCE_FILES /\ stage'[2][f] = stage[2][f]
    BY <1>1, <1>3 DEF Files
  <2>2. f \in 1..compiled
    BY <1>2, <1>3, <2>1 DEF StageInv, Unwritten, SOURCE_FILES
  <2> QED
    BY <2>1, <2>2 DEF BootInv, StagesInv, Fixed, Stage2File
<1>4. \A f \in Files(stage'[2]) : stage'[2][f].by = loaded
  BY <1>1, <1>3
<1>5. \A f \in Files(stage'[2]) : f <= compiled \/ f = Current
  BY <1>2, <1>3
<1>6. ASSUME NEW f \in SOURCE_FILES, stage'[2][f].state \in {"partial", "generated"}
      PROVE  \A g \in Files(stage'[2]) : g <= f
  <2>1. f \in Files(stage'[2])
    BY <1>6 DEF Files
  <2>2. f = Current
    BY <1>3, <1>6, <2>1
  <2> QED
    BY <1>2, <1>3, <2>2
<1> QED
  BY <1>4, <1>5, <1>6 DEF OneWriter, InOrder

LEMMA StageKept ==
  ASSUME BootInv, StageInv, BootNext
  PROVE  StageInv'
<1>1. n \in 0..2 /\ BootTypeOK
  BY DEF BootInv, BootTypeOK
<1>2. ASSUME stage'[2] = stage[2], Unwritten' PROVE StageInv'
  BY <1>2 DEF StageInv, OneWriter, InOrder
<1>3. CASE StartBootstrap
  BY <1>2, <1>3 DEF StartBootstrap, Unwritten
<1>4. CASE Clean
  <2>1. /\ stage' = [stage EXCEPT ![n + 1] = [f \in SOURCE_FILES |-> Absent]] /\ n' = n
    BY <1>4 DEF Clean
  <2>2. n + 1 \in 1..3 /\ stage \in [1..3 -> [SOURCE_FILES -> File]]
    BY <1>1 DEF BootTypeOK
  <2>3. CASE n = 1
    <3>1. \A f \in SOURCE_FILES : stage'[2][f] = Absent
      BY <2>1, <2>2, <2>3
    <3>2. Files(stage'[2]) = {} /\ \A f \in SOURCE_FILES : stage'[2][f].state = "absent"
      BY <3>1 DEF Files, Absent
    <3> QED
      BY <3>2 DEF StageInv, OneWriter, InOrder, Unwritten
  <2>4. CASE n # 1
    BY <1>1, <1>2, <2>1, <2>2, <2>4 DEF Unwritten
  <2> QED
    BY <2>3, <2>4
<1>5. CASE Load
  BY <1>2, <1>5 DEF Load, StageInv, Unwritten
<1>6. CASE CompileWithBabel
  <2>1. PICK F : /\ F = [state |-> "fixed", by |-> Babel, src |-> sources[Current]]
                 /\ n = 0 /\ n' = 0 /\ compiled < 5 /\ stage' = Written(F)
    BY <1>6 DEF CompileWithBabel
  <2>2. F \in File
    <3>1. Current \in SOURCE_FILES
      BY <1>1, <2>1 DEF BootTypeOK, Current, SOURCE_FILES
    <3> QED
      BY <1>1, <2>1, <3>1, SourceTypes DEF File, Compilers
  <2>3. stage'[2] = stage[2]
    BY <1>1, <2>1, <2>2, WritesOneFile
  <2> QED
    BY <1>2, <2>1, <2>3 DEF Unwritten
<1>7. ASSUME NEW F \in File, F.by = loaded, F.state # "absent", stage' = Written(F),
             step \in {"file", "fix"}, compiled < 5,
             \/ n' = n /\ step' = "fix" /\ compiled' = compiled
             \/ n' = n /\ compiled' = compiled + 1
             \/ n' = 0,
             n > 0 \/ n' = 0
      PROVE  StageInv'
  <2>1. compiled \in 0..4 /\ Current = compiled + 1
    BY <1>1, <1>7 DEF BootTypeOK, Current
  <2>2. CASE n = 1
    <3>1. /\ OneWriter' /\ InOrder'
          /\ \A f \in Files(stage'[2]) : f <= compiled \/ f = Current
      BY <1>7, <2>2, OneMoreFile
    <3>2. step' = "fix" /\ compiled' = compiled => Current' = Current
      BY DEF Current
    <3>3. \A f \in Files(stage'[2]) : f \in SOURCE_FILES
      BY DEF Files
    <3>4. Unwritten'
      BY <1>7, <2>1, <3>1, <3>2, <3>3 DEF Unwritten, SOURCE_FILES
    <3> QED
      BY <3>1, <3>4 DEF StageInv
  <2>3. CASE n # 1
    <3>1. stage'[2] = stage[2]
      BY <1>1, <1>7, <2>3, WritesOneFile
    <3>2. n' # 1
      BY <1>7, <2>3
    <3> QED
      BY <1>2, <3>1, <3>2 DEF Unwritten
  <2> QED
    BY <2>2, <2>3
<1>8. CASE Generate
  <2>1. /\ step = "file" /\ n > 0 /\ compiled < 5 /\ step' = "fix" /\ n' = n /\ compiled' = compiled
    BY <1>8 DEF Generate
  <2>2. Current \in SOURCE_FILES
    BY <1>1, <2>1 DEF BootTypeOK, Current, SOURCE_FILES
  <2>3. PICK F \in File : F = [state |-> "generated", by |-> loaded, src |-> sources[Current]]
    BY <1>1, <2>2, SourceTypes DEF File, BootTypeOK
  <2>4. F.by = loaded /\ F.state # "absent" /\ stage' = Written(F)
    BY <1>8, <2>3 DEF Generate
  <2> QED
    BY <1>7, <2>1, <2>4
<1>9. CASE FixPaths
  <2>1. /\ step = "fix" /\ n \in {1, 2} /\ compiled < 5 /\ n' = n /\ compiled' = compiled + 1
    BY <1>9 DEF FixPaths, BootInv, PlaceInv, BootTypeOK
  <2>2. stage[n + 1][Current] \in File
    BY <1>1, <2>1 DEF BootTypeOK, Current, SOURCE_FILES
  <2>3. PICK F \in File : F = [stage[n + 1][Current] EXCEPT !.state = "fixed"]
    BY <2>2 DEF File
  <2>4. F.by = stage[n + 1][Current].by /\ F.state # "absent" /\ stage' = Written(F)
    BY <1>9, <2>2, <2>3 DEF FixPaths, File
  <2>5. stage[n + 1][Current].by = loaded
    BY <2>1 DEF BootInv, StagesInv, Stage2File, Stage3File
  <2> QED
    BY <1>7, <2>1, <2>4, <2>5
<1>10. CASE NextStage \/ Verify
  <2>1. stage' = stage /\ (n' # 1 \/ step' = "clean")
    BY <1>1, <1>10 DEF NextStage, Verify, VariablesEnd
  <2> QED
    BY <1>2, <2>1 DEF Unwritten
<1>11. CASE Kill
  <2>1. n' = 0
    BY <1>11 DEF Kill, VariablesEnd
  <2>2. CASE UNCHANGED stage
    BY <1>2, <2>1, <2>2 DEF Unwritten
  <2>3. ASSUME NEW gone \in Removals,
               stage' = [stage EXCEPT ![n + 1] = [f \in SOURCE_FILES |-> IF f \in gone THEN Absent ELSE @[f]]]
        PROVE  StageInv'
    <3>1. n + 1 \in 1..3 /\ stage \in [1..3 -> [SOURCE_FILES -> File]]
      BY <1>1 DEF BootTypeOK
    <3>2. \A f \in SOURCE_FILES : stage'[2][f] = stage[2][f] \/ stage'[2][f] = Absent
      BY <1>1, <2>3, <3>1
    <3>3. \A f \in Files(stage'[2]) : f \in Files(stage[2]) /\ stage'[2][f] = stage[2][f]
      BY <3>2 DEF Files, Absent
    <3>4. OneWriter'
      BY <3>3 DEF StageInv, OneWriter
    <3>5. InOrder'
      BY <3>2, <3>3 DEF StageInv, InOrder, Absent
    <3> QED
      BY <2>1, <3>4, <3>5 DEF StageInv, Unwritten
  <2>4. ASSUME step \in {"file", "fix"}, compiled < 5,
               stage' = Written([state |-> "partial", by |-> loaded, src |-> sources[Current]])
        PROVE  StageInv'
    <3>1. Current \in SOURCE_FILES
      BY <1>1, <2>4 DEF BootTypeOK, Current, SOURCE_FILES
    <3>2. PICK F \in File : F = [state |-> "partial", by |-> loaded, src |-> sources[Current]]
      BY <1>1, <3>1, SourceTypes DEF File, BootTypeOK
    <3>3. F.by = loaded /\ F.state # "absent" /\ stage' = Written(F)
      BY <2>4, <3>2
    <3> QED
      BY <1>7, <2>1, <2>4, <3>3
  <2> QED
    BY <1>11, <2>2, <2>3, <2>4 DEF Kill
<1>12. CASE EditSource
  <2>1. stage' = stage /\ n' = n /\ step' = step /\ compiled' = compiled
    BY <1>12 DEF EditSource
  <2>2. Unwritten'
    BY <2>1 DEF StageInv, Unwritten, Current
  <2> QED
    BY <1>2, <2>1, <2>2
<1> QED
  BY <1>3, <1>4, <1>5, <1>6, <1>8, <1>9, <1>10, <1>11, <1>12 DEF BootNext, Script

\* The files of stage2 are complete when the next stage begins.
LEMMA CompleteKept ==
  ASSUME BootInv, CompleteUnlessTorn, BootNext,
         torn' = ((torn \/ stage'[2] # stage[2]) /\ ~(n = 1 /\ n' = 2)), torn \in BOOLEAN
  PROVE  CompleteUnlessTorn'
<1>1. CASE n = 1 /\ n' = 2
  <2>1. NextStage
    BY <1>1 DEF BootNext, Script, StartBootstrap, Clean, Load, CompileWithBabel, Generate, FixPaths, Verify,
                VariablesEnd, Kill, EditSource
  <2>2. step = "file" /\ compiled = 5 /\ stage' = stage
    BY <2>1 DEF NextStage
  <2>3. \A f \in SOURCE_FILES : Fixed(2, f)
    BY <1>1, <2>2 DEF BootInv, StagesInv, SOURCE_FILES
  <2> QED
    BY <2>2, <2>3 DEF CompleteUnlessTorn, Whole, Fixed
<1>2. CASE ~(n = 1 /\ n' = 2)
  BY <1>2 DEF CompleteUnlessTorn, Whole
<1> QED
  BY <1>1, <1>2

\* The bootstrap beside compile.js.
LEMMA BootBesideCli ==
  ASSUME ToolInv, BootNext, Observed
  PROVE  ToolInv'
<1>1. /\ UNCHANGED <<cliStep, target, origin, code, output, foundTorn>>
      /\ torn' = ((torn \/ stage'[2] # stage[2]) /\ ~(n = 1 /\ n' = 2))
      /\ moved' = (moved \/ (AwaitsStage2 /\ stage'[2] # stage[2]))
      /\ AwaitsStage2' = AwaitsStage2
  BY DEF Observed, AwaitsStage2, GeneratorFrom
<1>2. BootInv' /\ StageInv' /\ CompleteUnlessTorn'
  BY <1>1, BootKeeps, StageKept, CompleteKept DEF ToolInv, CliTypeOK
<1>3. CliTypeOK' /\ FixesJs'
  BY <1>1 DEF ToolInv, CliTypeOK, FixesJs
<1>4. ~moved' => ~moved
  BY <1>1 DEF ToolInv, CliTypeOK
<1>5. CompilesWithOneCompiler'
  BY <1>1, <1>4 DEF ToolInv, CompilesWithOneCompiler, Whole, CompiledBy
<1>6. ~moved' => CliKnows'
  <2> SUFFICES ASSUME ~moved' PROVE CliKnows'
    OBVIOUS
  <2>1. CliKnows /\ (AwaitsStage2 => stage'[2] = stage[2])
    BY <1>1, <1>4 DEF ToolInv
  <2> QED
    BY <1>1, <2>1 DEF CliKnows, FromStage2, OneCode, Whole, CompiledBy, Loadable
<1> QED
  BY <1>2, <1>3, <1>5, <1>6 DEF ToolInv

-----------------------------------------------------------------------------
(* The steps of compile.js *)

LEMMA WholeIsLoadable ==
  ASSUME NEW dir, Whole(dir)
  PROVE  Loadable(dir, PARSER) /\ Loadable(dir, GENERATOR)
  BY DEF Whole, Loadable, Requires, PARSER, GENERATOR, LEXER, ARENA, EMITTER, SOURCE_FILES

\* A stage2 with the files of the parser and of the generator is whole.
LEMMA StageIsOneCompiler ==
  ASSUME BootTypeOK, StageInv, Loadable(stage[2], PARSER), Loadable(stage[2], GENERATOR)
  PROVE  Whole(stage[2]) /\ CompiledBy(stage[2], stage[2][PARSER].by)
<1>1. Requires[PARSER] = {LEXER, ARENA} /\ Requires[GENERATOR] = {EMITTER}
  BY DEF Requires, PARSER, GENERATOR, SOURCE_FILES
<1>2. /\ stage[2][GENERATOR].state = "fixed"
      /\ \A f \in {LEXER, PARSER, ARENA, EMITTER} : stage[2][f].state \in {"generated", "fixed"}
  BY <1>1 DEF Loadable
<1>3. /\ SOURCE_FILES = {LEXER, PARSER, ARENA, EMITTER, GENERATOR}
      /\ \A f \in {LEXER, PARSER, ARENA, EMITTER} : f \in SOURCE_FILES /\ f < GENERATOR
  BY DEF LEXER, PARSER, ARENA, EMITTER, GENERATOR, SOURCE_FILES
<1>4. \A f \in SOURCE_FILES : f \in Files(stage[2])
  BY <1>2, <1>3 DEF Files
<1>5. \A f \in {LEXER, PARSER, ARENA, EMITTER} : ~(GENERATOR <= f)
  BY DEF LEXER, PARSER, ARENA, EMITTER, GENERATOR
<1>6. \A f \in {LEXER, PARSER, ARENA, EMITTER} : stage[2][f].state = "fixed"
  BY <1>2, <1>3, <1>4, <1>5 DEF StageInv, InOrder
<1>7. Whole(stage[2])
  BY <1>2, <1>3, <1>6 DEF Whole
<1> QED
  BY <1>3, <1>4, <1>7 DEF StageInv, OneWriter, CompiledBy

LEMMA SourcesAreLoadable == Loadable(SourceTree, PARSER) /\ Loadable(SourceTree, GENERATOR)
<1>1. \A f \in SOURCE_FILES : SourceTree[f].state = "fixed"
  BY DEF SourceTree
<1> QED
  BY <1>1, WholeIsLoadable DEF Whole

LEMMA RequireTypes ==
  ASSUME BootTypeOK, CliTypeOK, NEW from, NEW f
  PROVE  Require(from, f) \in [SOURCE_FILES -> File]
<1>1. \A g \in SOURCE_FILES : SourceTree[g] \in File /\ stage[2][g] \in File /\ code[g] \in File
  BY SourceTypes DEF SourceTree, BootTypeOK, CliTypeOK, File, Compilers
<1>2. \A g \in SOURCE_FILES : Tree(from)[g] \in File
  BY <1>1 DEF Tree
<1> QED
  BY <1>1, <1>2 DEF Require

LEMMA CliKeeps ==
  ASSUME ToolInv, Cli, UNCHANGED bootVars
  PROVE  ToolInv'
<1>1. /\ stage' = stage /\ sources' = sources /\ step' = step /\ n' = n /\ compiled' = compiled
      /\ torn' = torn
  BY DEF bootVars, Cli, ReadArguments, CheckLlvm, ExitWithError, EndsEarly, FindCompiler, RequireParser,
         RequireGenerator, RequireThrows, GenerateOutput, FixOutput, cliHistory
<1>2. BootInv' /\ StageInv' /\ CompleteUnlessTorn'
  BY <1>1, BootKeeps
     DEF ToolInv, StageInv, OneWriter, InOrder, Unwritten, Current, CompleteUnlessTorn, Whole
<1>3. BootTypeOK /\ CliTypeOK /\ CompilesWithOneCompiler /\ (~moved => CliKnows) /\ FixesJs /\ StageInv
  BY DEF ToolInv, BootInv
<1> DEFINE Goal == CliTypeOK' /\ (~moved' => CliKnows') /\ FixesJs' /\ CompilesWithOneCompiler'
<1> SUFFICES Goal
  BY <1>2 DEF ToolInv
<1>4. CASE ReadArguments \/ CheckLlvm
  <2>1. /\ cliStep' \in {"llc", "find"} /\ target' \in {"js", "llvm"}
        /\ UNCHANGED <<origin, code, output, cliHistory>>
    BY <1>3, <1>4 DEF ReadArguments, CheckLlvm, CliTypeOK
  <2> QED
    BY <1>3, <2>1 DEF CliTypeOK, CliKnows, AwaitsStage2, FixesJs, CompilesWithOneCompiler, CliRunning, cliHistory
<1>5. ASSUME NEW how \in {"exited", "threw"}, EndsEarly(how), how = "threw" => moved \/ foundTorn
      PROVE  Goal
  BY <1>1, <1>3, <1>5, AbsentFile
     DEF EndsEarly, CliTypeOK, CliKnows, AwaitsStage2, FixesJs, CompilesWithOneCompiler, CliEnded, cliHistory
<1>6. CASE ExitWithError
  BY <1>5, <1>6 DEF ExitWithError
<1>7. CASE FindCompiler
  <2>1. /\ cliStep' = "parser" /\ foundTorn' = (torn /\ origin' = "stage2")
        /\ origin' = (IF stage[2][PARSER].state = "absent" THEN "source" ELSE "stage2")
        /\ UNCHANGED <<target, code, output, torn, moved>>
    BY <1>7 DEF FindCompiler
  <2>2. origin' = "stage2" /\ ~foundTorn' => Whole(stage[2])
    <3>1. PARSER \in SOURCE_FILES
      BY DEF PARSER, SOURCE_FILES
    <3> QED
      BY <2>1, <3>1 DEF ToolInv, CompleteUnlessTorn, Files
  <2>3. CliKnows'
    BY <1>1, <2>1, <2>2 DEF CliKnows, AwaitsStage2, Whole
  <2>4. foundTorn' \in BOOLEAN
    BY <2>1
  <2> QED
    BY <1>3, <2>1, <2>3, <2>4 DEF CliTypeOK, FixesJs, CompilesWithOneCompiler, CliRunning
<1>8. CASE RequireParser
  <2>1. /\ cliStep = "parser" /\ cliStep' = "generator" /\ code' = Require(origin, PARSER)
        /\ Loadable(Tree(origin), PARSER)
        /\ UNCHANGED <<target, origin, output, cliHistory>>
    BY <1>8 DEF RequireParser
  <2>2. CliTypeOK'
    BY <1>3, <2>1, RequireTypes DEF CliTypeOK, CliRunning, cliHistory
  <2>3. origin = "stage2" => FromStage2({LEXER, PARSER, ARENA})' /\ Loadable(stage'[2], PARSER)
    <3>1. /\ Requires[PARSER] = {LEXER, ARENA}
          /\ \A g \in {LEXER, PARSER, ARENA} : g \in SOURCE_FILES
      BY DEF Requires, PARSER, GENERATOR, LEXER, ARENA, SOURCE_FILES
    <3>2. \A g \in {LEXER, PARSER, ARENA} : code'[g] = Tree(origin)[g]
      BY <2>1, <3>1 DEF Require
    <3> QED
      BY <1>1, <2>1, <3>2 DEF FromStage2, Tree
  <2>4. ~moved' => CliKnows'
    BY <1>1, <1>3, <2>1, <2>3 DEF CliKnows, AwaitsStage2, GeneratorFrom, Whole, cliHistory
  <2> QED
    BY <1>3, <2>1, <2>2, <2>4 DEF FixesJs, CompilesWithOneCompiler, cliHistory
<1>9. CASE RequireGenerator
  <2>1. /\ cliStep = "generator" /\ cliStep' = "generate" /\ code' = Require(GeneratorFrom, GENERATOR)
        /\ Loadable(Tree(GeneratorFrom), GENERATOR)
        /\ UNCHANGED <<target, origin, output, cliHistory>>
    BY <1>9 DEF RequireGenerator
  <2>2. CliTypeOK'
    BY <1>3, <2>1, RequireTypes DEF CliTypeOK, CliRunning, cliHistory
  <2>3. ASSUME ~moved, origin = "stage2", target = "js"
        PROVE  OneCode'
    <3>1. Loadable(stage[2], PARSER) /\ \A f \in {LEXER, PARSER, ARENA} : code[f] = stage[2][f]
      BY <1>3, <2>1, <2>3 DEF CliKnows, AwaitsStage2, GeneratorFrom, FromStage2
    <3>2. GeneratorFrom = "stage2" /\ Loadable(stage[2], GENERATOR)
      BY <2>1, <2>3 DEF GeneratorFrom, Tree
    <3>3. \A f \in SOURCE_FILES : code'[f] = IF f \in {EMITTER, GENERATOR} THEN stage[2][f] ELSE code[f]
      BY <2>1, <3>2 DEF Require, Tree, Requires, PARSER, GENERATOR, EMITTER, SOURCE_FILES
    <3>4. \A f \in SOURCE_FILES : code'[f] = stage[2][f]
      BY <3>1, <3>3 DEF LEXER, PARSER, ARENA, EMITTER, GENERATOR, SOURCE_FILES
    <3>5. Whole(stage[2]) /\ CompiledBy(stage[2], stage[2][PARSER].by)
      BY <1>3, <3>1, <3>2, StageIsOneCompiler
    <3> QED
      BY <3>4, <3>5 DEF OneCode, Whole, CompiledBy, PARSER, SOURCE_FILES
  <2>4. ~moved' => CliKnows'
    BY <1>1, <2>1, <2>3 DEF CliKnows, AwaitsStage2, cliHistory
  <2>5. CompilesWithOneCompiler'
    BY <2>1, <2>3 DEF CompilesWithOneCompiler, OneCode, Whole, CompiledBy, cliHistory
  <2> QED
    BY <2>1, <2>2, <2>4, <2>5 DEF FixesJs
<1>10. CASE RequireThrows
  <2>1. moved \/ foundTorn
    <3> SUFFICES ASSUME ~moved, ~foundTorn PROVE FALSE
      BY <1>3 DEF CliTypeOK
    <3>1. AwaitsStage2 => Loadable(stage[2], PARSER) /\ Loadable(stage[2], GENERATOR)
      BY <1>3, WholeIsLoadable DEF CliKnows
    <3>2. cliStep = "parser" => Loadable(Tree(origin), PARSER)
      BY <1>3, <3>1, SourcesAreLoadable DEF Tree, AwaitsStage2, CliTypeOK
    <3>3. cliStep = "generator" => Loadable(Tree(GeneratorFrom), GENERATOR)
      BY <1>3, <3>1, SourcesAreLoadable DEF Tree, GeneratorFrom, AwaitsStage2, CliTypeOK
    <3> QED
      BY <1>10, <3>2, <3>3 DEF RequireThrows
  <2> QED
    BY <1>5, <1>10, <2>1 DEF RequireThrows
<1>11. CASE GenerateOutput \/ FixOutput
  <2>1. /\ cliStep' \in {"fix", "compiled"} /\ target' = target /\ torn' = torn
        /\ cliStep' = "fix" => target = "js" /\ output' = "generated"
        /\ cliStep' = "compiled" => output' = IF target = "js" THEN "fixed" ELSE "generated"
    BY <1>3, <1>11 DEF GenerateOutput, FixOutput, FixesJs, CliTypeOK, cliHistory
  <2>2. /\ origin' \in {"stage2", "source"} /\ code' \in [SOURCE_FILES -> File]
        /\ foundTorn' \in BOOLEAN /\ moved' \in BOOLEAN
    BY <1>3, <1>11, AbsentFile DEF GenerateOutput, FixOutput, CliTypeOK, cliHistory
  <2>3. CliTypeOK' /\ FixesJs'
    BY <1>3, <2>1, <2>2 DEF CliTypeOK, FixesJs, CliRunning, CliEnded
  <2> QED
    BY <2>1, <2>3 DEF CliKnows, AwaitsStage2, CompilesWithOneCompiler
<1> QED
  BY <1>4, <1>6, <1>7, <1>8, <1>9, <1>10, <1>11 DEF Cli

LEMMA ToolInvHolds == ToolSpec => []ToolInv
<1>1. ToolInit => ToolInv
  <2> SUFFICES ASSUME ToolInit PROVE ToolInv
    OBVIOUS
  <2>1. BootInv /\ \A f \in SOURCE_FILES : stage[2][f].state = "absent"
    BY BootStarts DEF ToolInit, BootInit, Absent
  <2>2. StageInv /\ CompleteUnlessTorn
    BY <2>1 DEF ToolInit, BootInit, StageInv, OneWriter, InOrder, Unwritten, CompleteUnlessTorn, Files
  <2> QED
    BY <2>1, <2>2, AbsentFile
       DEF ToolInit, CliInit, ToolInv, CliTypeOK, CliKnows, AwaitsStage2, FixesJs, CompilesWithOneCompiler, CliEnded, CliRunning
<1>2. ToolInv /\ [ToolNext]_toolVars => ToolInv'
  <2> SUFFICES ASSUME ToolInv, [ToolNext]_toolVars PROVE ToolInv'
    OBVIOUS
  <2>1. CASE UNCHANGED toolVars
    <3>1. BootInv' /\ stage' = stage
      BY <2>1, BootKeeps DEF ToolInv, toolVars, bootVars
    <3>2. StageInv' /\ CompleteUnlessTorn'
      BY <2>1 DEF toolVars, cliVars, cliHistory, bootVars, ToolInv, StageInv, OneWriter, InOrder, Unwritten, Current,
                  CompleteUnlessTorn, Whole
    <3> QED
      BY <2>1, <3>1, <3>2 DEF toolVars, cliVars, cliHistory, ToolInv, CliTypeOK, CliKnows, AwaitsStage2, GeneratorFrom,
                   FixesJs, CompilesWithOneCompiler, OneCode, FromStage2, Whole, CompiledBy, Loadable
  <2> QED
    BY <2>1, BootBesideCli, CliKeeps DEF ToolNext
<1> QED
  BY <1>1, <1>2, PTL DEF ToolSpec

\* compile.js beside a bootstrap that runs, or was killed, at any point: unless
\* stage2 changed under it, what it runs from there is one whole compiler, and
\* it does not throw unless it took its compiler from an unfinished stage2.
THEOREM OneCompiler == ToolSpec => []CompilesWithOneCompiler
<1>1. ToolInv => CompilesWithOneCompiler
  BY DEF ToolInv
<1> QED
  BY <1>1, ToolInvHolds, PTL

-----------------------------------------------------------------------------
(***************************************************************************)
(* The binary syntax tree, for trees of any size.  The argument: for every *)
(* program or block the reader is inside of, it knows how many of the      *)
(* statements it has passed; the bytes of the others lie between its       *)
(* position and the end of the block, and what it has read so far is what  *)
(* the outline says up to there.  The bytes of a node and what it says     *)
(* are made from those of the nodes it refers to, in the same order.       *)
(***************************************************************************)

LEMMA Upwards ==
  ASSUME NEW S, 0 \in S, \A i \in Nat : i \in S => i + 1 \in S
  PROVE  \A i \in Nat : i \in S
<1> SUFFICES ASSUME NEW b \in Nat, b \notin S PROVE FALSE
  OBVIOUS
<1> DEFINE Q == {d \in Nat : d \notin S}
<1>1. PICK d \in Q : \A y \in Q : ~(<<y, d>> \in OpToRel(<, Nat))
  <2>1. Q \subseteq Nat /\ b \in Q
    OBVIOUS
  <2> QED
    BY <2>1, NatLessThanWellFounded, WFMin
<1>2. d # 0 /\ d - 1 \in Nat /\ (d - 1) + 1 = d
  OBVIOUS
<1>3. d - 1 \in Q
  BY <1>2
<1>4. <<d - 1, d>> \in OpToRel(<, Nat)
  BY <1>2, <1>3 DEF OpToRel
<1> QED
  BY <1>1, <1>3, <1>4

\* A function can be defined by what it does at one place with what it has
\* done at the place before.
Closed(N, A, h) == \A i \in 1..N : \A x \in A : h[<<i, x>>] \in A
Steps(N, A, a, h, f) == f \in [0..N -> A] /\ f[0] = a /\ \A i \in 1..N : f[i] = h[<<i, f[i - 1]>>]

LEMMA StepByStep ==
  ASSUME NEW N \in Nat, NEW A, NEW a \in A, NEW h, Closed(N, A, h)
  PROVE  \E f : Steps(N, A, a, h, f)
<1> USE DEF Closed, Steps
<1> DEFINE P(m) == \E f \in [0..m -> A] : f[0] = a /\ \A i \in 1..m : f[i] = h[<<i, f[i - 1]>>]
           S == {m \in Nat : m <= N => P(m)}
<1>1. 0 \in S
  <2>1. [i \in 0..0 |-> a] \in [0..0 -> A] /\ [i \in 0..0 |-> a][0] = a /\ 1..0 = {}
    OBVIOUS
  <2> QED
    BY <2>1
<1>2. ASSUME NEW m \in Nat, m \in S PROVE m + 1 \in S
  <2> SUFFICES ASSUME m + 1 <= N PROVE P(m + 1)
    OBVIOUS
  <2>1. PICK f \in [0..m -> A] : f[0] = a /\ \A i \in 1..m : f[i] = h[<<i, f[i - 1]>>]
    BY <1>2
  <2>2. m + 1 \in 1..N /\ f[m] \in A /\ h[<<m + 1, f[m]>>] \in A
    BY <2>1
  <2> DEFINE g == [i \in 0..(m + 1) |-> IF i = m + 1 THEN h[<<m + 1, f[m]>>] ELSE f[i]]
  <2>3. g \in [0..(m + 1) -> A] /\ g[0] = a
    BY <2>1, <2>2
  <2>4. ASSUME NEW i \in 1..(m + 1) PROVE g[i] = h[<<i, g[i - 1]>>]
    <3>1. g[i - 1] = f[i - 1] /\ i - 1 \in 0..m
      OBVIOUS
    <3>2. CASE i = m + 1
      <4>1. i - 1 = m /\ g[i] = h[<<m + 1, f[m]>>]
        BY <3>2
      <4> QED
        BY <3>1, <3>2, <4>1
    <3>3. CASE i # m + 1
      <4>1. i \in 1..m /\ g[i] = f[i]
        BY <3>3
      <4> QED
        BY <2>1, <3>1, <4>1
    <3> QED
      BY <3>2, <3>3
  <2> QED
    BY <2>3, <2>4
<1> HIDE DEF S
<1>3. \A m \in Nat : m \in S => m + 1 \in S
  BY <1>2
<1>4. \A m \in Nat : m \in S
  BY <1>1, <1>3, Upwards, Zenon
<1> HIDE DEF P
<1>5. N \in {m \in Nat : m <= N => P(m)}
  BY <1>4 DEF S
<1>6. P(N)
  BY <1>5
<1> QED
  BY <1>6 DEF P

\* A table that gets an entry at every step: no entry changes later.
Grows(N, V, f) ==
    /\ f[0] = <<>>
    /\ \A i \in 1..N : f[i - 1] \in Seq(V) /\ Len(f[i - 1]) = i - 1 =>
                           \E v \in V : f[i] = Append(f[i - 1], v)
Stays(N, V, f) ==
    /\ \A i \in 0..N : f[i] \in Seq(V) /\ Len(f[i]) = i
    /\ \A i \in 0..N : \A j \in 1..i : f[N][j] = f[i][j]

LEMMA EntriesStay ==
  ASSUME NEW N \in Nat, NEW V, NEW f, Grows(N, V, f)
  PROVE  Stays(N, V, f)
<1> USE DEF Grows, Stays
<1> DEFINE P(m) == /\ f[m] \in Seq(V) /\ Len(f[m]) = m
                   /\ \A i \in 0..m : \A j \in 1..i : f[m][j] = f[i][j]
           S == {m \in Nat : m <= N => P(m)}
<1>1. 0 \in S
  <2>1. f[0] \in Seq(V) /\ Len(f[0]) = 0
    OBVIOUS
  <2>2. \A i \in 0..0 : \A j \in 1..i : f[0][j] = f[i][j]
    OBVIOUS
  <2> QED
    BY <2>1, <2>2
<1>2. ASSUME NEW m \in Nat, m \in S PROVE m + 1 \in S
  <2> SUFFICES ASSUME m + 1 <= N PROVE P(m + 1)
    OBVIOUS
  <2>1. P(m) /\ m + 1 \in 1..N /\ (m + 1) - 1 = m
    BY <1>2
  <2>2. PICK v \in V : f[m + 1] = Append(f[m], v)
    BY <2>1
  <2>3. f[m + 1] \in Seq(V) /\ Len(f[m + 1]) = m + 1 /\ \A j \in 1..m : f[m + 1][j] = f[m][j]
    BY <2>1, <2>2
  <2>4. ASSUME NEW i \in 0..(m + 1), NEW j \in 1..i PROVE f[m + 1][j] = f[i][j]
    <3>1. CASE i = m + 1
      BY <3>1
    <3>2. CASE i # m + 1
      <4>1. i \in 0..m /\ j \in 1..m
        BY <3>2
      <4> QED
        BY <2>1, <2>3, <4>1
    <3> QED
      BY <3>1, <3>2
  <2> QED
    BY <2>3, <2>4
<1> HIDE DEF S
<1>3. \A m \in Nat : m \in S
  BY <1>1, <1>2, Upwards, Zenon
<1>4. \A m \in 0..N : P(m)
  <2> SUFFICES ASSUME NEW m \in 0..N PROVE P(m)
    OBVIOUS
  <2>1. m \in Nat /\ m <= N /\ m \in S
    BY <1>3
  <2> QED
    BY <2>1 DEF S
<1>5. N \in 0..N
  OBVIOUS
<1> QED
  BY <1>4, <1>5

-----------------------------------------------------------------------------
(* Joining sequences *)

\* The parts of FlattenSeq(s): what the first k sequences of s make.
Makes(X, s, f) ==
    /\ f \in [0..Len(s) -> Seq(X)]
    /\ f[0] = <<>>
    /\ \A i \in 1..Len(s) : f[i] = f[i - 1] \o s[i]
    /\ FlattenSeq(s) = f[Len(s)]
Parts(X, s) == CHOOSE f : Makes(X, s, f)

LEMMA FlattenParts ==
  ASSUME NEW X, NEW s \in Seq(Seq(X))
  PROVE  Makes(X, s, Parts(X, s))
<1> DEFINE N == Len(s)
           h == [p \in (1..N) \X Seq(X) |-> p[2] \o s[p[1]]]
<1>1. N \in Nat /\ <<>> \in Seq(X) /\ \A i \in 1..N : s[i] \in Seq(X)
  OBVIOUS
<1>2. \A i \in 1..N : \A x \in Seq(X) : h[<<i, x>>] = x \o s[i] /\ h[<<i, x>>] \in Seq(X)
  <2> SUFFICES ASSUME NEW i \in 1..N, NEW x \in Seq(X)
               PROVE  h[<<i, x>>] = x \o s[i] /\ h[<<i, x>>] \in Seq(X)
    OBVIOUS
  <2>1. <<i, x>> \in (1..N) \X Seq(X) /\ h[<<i, x>>] = x \o s[i]
    OBVIOUS
  <2>2. s[i] \in Seq(X)
    OBVIOUS
  <2>3. x \o s[i] \in Seq(X)
    BY <2>2
  <2> QED
    BY <2>1, <2>3
<1> HIDE DEF h
<1>3. PICK f \in [0..N -> Seq(X)] : f[0] = <<>> /\ \A i \in 1..N : f[i] = h[<<i, f[i - 1]>>]
  <2>1. \A i \in 1..N : \A x \in Seq(X) : h[<<i, x>>] \in Seq(X)
    BY <1>2
  <2> DEFINE A == Seq(X)
             a == <<>>
  <2>2. a \in A
    BY <1>1
  <2>4. \A i \in 1..N : \A x \in A : h[<<i, x>>] \in A
    BY <2>1
  <2>5. Closed(N, A, h)
    BY <2>4 DEF Closed
  <2> HIDE DEF N, A, a
  <2>3. PICK f : Steps(N, A, a, h, f)
    BY <1>1, <2>2, <2>5, StepByStep, Zenon
  <2> QED
    BY <2>3, Zenon DEF A, a, Steps
<1>4. \A i \in 1..N : f[i] = f[i - 1] \o s[i]
  <2> SUFFICES ASSUME NEW i \in 1..N PROVE f[i] = f[i - 1] \o s[i]
    OBVIOUS
  <2>1. i - 1 \in 0..N
    BY <1>1
  <2>2. f[i - 1] \in Seq(X)
    BY <1>3, <2>1, Zenon
  <2> QED
    BY <1>2, <1>3, <2>2
<1>5. FlattenSeq(s) = f[N]
  <2>1. CASE N = 0
    <3>1. s = <<>>
      BY <2>1
    <3> QED
      BY <1>3, <2>1, <3>1 DEF FlattenSeq
  <2>2. CASE N # 0
    <3> DEFINE Step(g, i) == IF i = 1 THEN s[i] ELSE g[i - 1] \o s[i]
               Flat(g) == g = [i \in 1..N |-> Step(g, i)]
               r == [i \in 1..N |-> f[i]]
    <3>1. FlattenSeq(s) = (CHOOSE g : Flat(g))[N]
      BY <2>2, Zenon DEF FlattenSeq
    <3>2. Flat(r)
      <4>1. ASSUME NEW i \in 1..N PROVE r[i] = Step(r, i)
        <5>1. CASE i = 1
          <6>1. i - 1 = 0 /\ s[i] \in Seq(X) /\ <<>> \o s[i] = s[i]
            BY <5>1
          <6> QED
            BY <1>3, <1>4, <5>1, <6>1
        <5>2. CASE i # 1
          <6>1. i - 1 \in 1..N /\ r[i - 1] = f[i - 1]
            BY <5>2
          <6> QED
            BY <1>4, <5>2, <6>1
        <5> QED
          BY <5>1, <5>2
      <4>2. r = [i \in 1..N |-> r[i]]
        OBVIOUS
      <4> HIDE DEF r
      <4> QED
        BY <4>1, <4>2
    <3> HIDE DEF r, Flat
    <3>3. PICK g : Flat(g) /\ FlattenSeq(s) = g[N]
      BY <3>1, <3>2
    <3> DEFINE S == {m \in Nat : m + 1 <= N => g[m + 1] = f[m + 1]}
    <3>4. \A i \in 1..N : g[i] = Step(g, i)
      BY <3>3 DEF Flat
    <3>5. 0 \in S
      <4>0. 1 \in 1..N /\ 1 - 1 = 0
        BY <1>1, <2>2
      <4>1. g[1] = s[1] /\ f[1] = <<>> \o s[1] /\ s[1] \in Seq(X)
        <5>1. g[1] = s[1]
          BY <3>4, <4>0
        <5>2. f[1] = f[1 - 1] \o s[1]
          BY <1>4, <4>0
        <5> QED
          BY <1>1, <1>3, <4>0, <5>1, <5>2
      <4>2. <<>> \o s[1] = s[1]
        BY <4>1
      <4> QED
        BY <4>1, <4>2
    <3>6. ASSUME NEW m \in Nat, m \in S PROVE m + 1 \in S
      <4> SUFFICES ASSUME (m + 1) + 1 <= N PROVE g[(m + 1) + 1] = f[(m + 1) + 1]
        OBVIOUS
      <4>1. (m + 1) + 1 \in 1..N /\ (m + 1) + 1 # 1 /\ ((m + 1) + 1) - 1 = m + 1 /\ g[m + 1] = f[m + 1]
        BY <1>1, <3>6
      <4> DEFINE k == (m + 1) + 1
      <4>2. g[k] = Step(g, k) /\ f[k] = f[k - 1] \o s[k]
        BY <1>4, <3>4, <4>1
      <4> QED
        BY <4>1, <4>2
    <3> HIDE DEF S
    <3>7. \A m \in Nat : m \in S
      BY <3>5, <3>6, Upwards, Zenon
    <3>8. N - 1 \in Nat /\ (N - 1) + 1 = N /\ N <= N
      BY <2>2
    <3>9. g[N] = f[N]
      BY <3>7, <3>8 DEF S
    <3> QED
      BY <3>3, <3>9
  <2> QED
    BY <2>1, <2>2
<1>6. Makes(X, s, f)
  BY <1>3, <1>4, <1>5 DEF Makes
<1> QED
  BY <1>6, Zenon DEF Parts

-----------------------------------------------------------------------------
(* Nodes *)

Types == DOMAIN NODE_TYPES
Entries == [type : Nat, flags : Nat, depth : Nat]

LEMMA TypeNumbers ==
  /\ Types = {"Program", "VariableDeclaration", "NumericLiteral", "StringLiteral", "BlockStatement"}
  /\ "ExpressionStatement" \notin Types
  /\ \A ty \in Types : /\ NODE_TYPES[ty] \in 0..4
                       /\ NODE_TYPES[ty] \in {NODE_TYPES.Program, NODE_TYPES.BlockStatement}
                             <=> ty \in {"Program", "BlockStatement"}
  BY DEF Types, NODE_TYPES

LEMMA NodeKinds ==
  ASSUME NEW nd \in Nodes
  PROVE  /\ nd.type = "ExpressionStatement" => nd.expression \in Nat
         /\ nd.type \in {"Program", "BlockStatement"} => nd.body \in Seq(Nat)
         /\ nd.type = "VariableDeclaration" => nd.declarations \in Seq(Declarators)
         /\ nd.type = "StringLiteral" => nd.size \in Nat
<1> DEFINE S1 == [type : {"Program", "BlockStatement"}, body : Seq(Nat)]
           S2 == [type : {"VariableDeclaration"}, kind : STRING, declarations : Seq(Declarators)]
           S3 == [type : {"NumericLiteral"}]
           S4 == [type : {"StringLiteral"}, size : Nat]
           S5 == [type : {"ExpressionStatement"}, expression : Nat]
           S6 == [type : STRING \ (Types \cup {"ExpressionStatement"})]
<1>1. nd \in S1 \/ nd \in S2 \/ nd \in S3 \/ nd \in S4 \/ nd \in S5 \/ nd \in S6
  BY Zenon DEF Nodes, Types
<1>2. CASE nd \in S1
  BY <1>2
<1>3. CASE nd \in S2
  BY <1>3
<1>4. CASE nd \in S3
  BY <1>4
<1>5. CASE nd \in S4
  BY <1>5
<1>6. CASE nd \in S5
  BY <1>6
<1>7. CASE nd \in S6
  <2>1. nd.type \notin Types /\ nd.type # "ExpressionStatement"
    BY <1>7
  <2> QED
    BY <2>1, TypeNumbers
<1> QED
  BY <1>1, <1>2, <1>3, <1>4, <1>5, <1>6, <1>7

\* A sequence of bytes behind another.
LEMMA JoinedBytes ==
  ASSUME NEW s \in Seq(Nat), NEW u \in Seq(Nat)
  PROVE  /\ s \o u \in Seq(Nat) /\ Len(s) \in Nat /\ Len(u) \in Nat /\ Len(s \o u) = Len(s) + Len(u)
         /\ \A j \in 1..Len(s) : (s \o u)[j] = s[j]
         /\ \A j \in 1..Len(u) : (s \o u)[Len(s) + j] = u[j]
  OBVIOUS

LEMMA UInt16Bytes ==
  ASSUME NEW x \in Nat
  PROVE  /\ UInt16(x) \in Seq(Nat) /\ Len(UInt16(x)) = 2
         /\ UInt16(x)[1] = x % 256 /\ UInt16(x)[2] = x \div 256
<1>1. x % 256 \in Nat /\ x \div 256 \in Nat
  OBVIOUS
<1> QED
  BY <1>1 DEF UInt16

LEMMA UInt32Bytes ==
  ASSUME NEW x \in Nat
  PROVE  /\ UInt32(x) \in Seq(Nat) /\ Len(UInt32(x)) = 4
         /\ UInt32(x)[1] = (x % 65536) % 256 /\ UInt32(x)[2] = (x % 65536) \div 256
         /\ UInt32(x)[3] = (x \div 65536) % 256 /\ UInt32(x)[4] = (x \div 65536) \div 256
<1> DEFINE a == x % 65536
           b == x \div 65536
<1>1. a \in Nat /\ b \in Nat
  OBVIOUS
<1> HIDE DEF a, b
<1>2. UInt16(a) \in Seq(Nat) /\ Len(UInt16(a)) = 2 /\ UInt16(a)[1] = a % 256 /\ UInt16(a)[2] = a \div 256
  BY <1>1, UInt16Bytes
<1>3. UInt16(b) \in Seq(Nat) /\ Len(UInt16(b)) = 2 /\ UInt16(b)[1] = b % 256 /\ UInt16(b)[2] = b \div 256
  BY <1>1, UInt16Bytes
<1>4. UInt32(x) = UInt16(a) \o UInt16(b)
  BY DEF UInt32, a, b
<1>5. /\ UInt32(x) \in Seq(Nat) /\ Len(UInt32(x)) = 4
      /\ UInt32(x)[1] = UInt16(a)[1] /\ UInt32(x)[2] = UInt16(a)[2]
      /\ UInt32(x)[3] = UInt16(b)[1] /\ UInt32(x)[4] = UInt16(b)[2]
  <2> DEFINE c == UInt16(a)
             d == UInt16(b)
  <2>1. c \in Seq(Nat) /\ d \in Seq(Nat) /\ Len(c) = 2 /\ Len(d) = 2
    BY <1>2, <1>3
  <2> HIDE DEF c, d
  <2>2. /\ c \o d \in Seq(Nat) /\ Len(c \o d) = Len(c) + Len(d)
        /\ \A j \in 1..Len(c) : (c \o d)[j] = c[j]
        /\ \A j \in 1..Len(d) : (c \o d)[Len(c) + j] = d[j]
    BY <2>1, JoinedBytes, Zenon
  <2>4. 2 + 1 = 3 /\ 2 + 2 = 4 /\ 1 \in 1..2 /\ 2 \in 1..2
    OBVIOUS
  <2>3. /\ c \o d \in Seq(Nat) /\ Len(c \o d) = 4
        /\ (c \o d)[1] = c[1] /\ (c \o d)[2] = c[2] /\ (c \o d)[3] = d[1] /\ (c \o d)[4] = d[2]
    BY <2>1, <2>2, <2>4
  <2> QED
    BY <1>4, <2>3 DEF c, d
<1> QED
  BY <1>2, <1>3, <1>5 DEF a, b

LEMMA LengthAndBytes ==
  ASSUME NEW x \in Nat
  PROVE  LengthAnd(x) \in Seq(Nat)
<1>1. Filler(x) \in Seq(Nat)
  BY DEF Filler
<1>2. UInt32(x) \in Seq(Nat)
  BY UInt32Bytes
<1> QED
  BY <1>1, <1>2 DEF LengthAnd

LEMMA PartsOfNode ==
  ASSUME NEW nd \in Nodes, nd.type \in Types
  PROVE  /\ Payload(nd) \in Seq(Nat) /\ Children(nd) \in Seq(Nat) /\ Flags(nd) \in 0..2
         /\ nd.type \in {"Program", "BlockStatement"} => Payload(nd) = <<>> /\ Children(nd) = nd.body
<1>1. Flags(nd) \in 0..2
  BY DEF Flags, VAR_KINDS
<1>2. Filler(8) \in Seq(Nat)
  BY DEF Filler
<1>3. CASE nd.type \in {"Program", "BlockStatement"}
  <2>1. nd.body \in Seq(Nat) /\ Payload(nd) = <<>> /\ Children(nd) = nd.body
    BY <1>3, NodeKinds DEF Payload, Children
  <2> QED
    BY <1>1, <2>1
<1>4. CASE nd.type = "VariableDeclaration"
  <2>1. nd.declarations \in Seq(Declarators)
    BY <1>4, NodeKinds
  <2>2. CASE nd.declarations = <<>>
    <3>1. Payload(nd) = <<>> /\ Children(nd) = <<>>
      BY <1>4, <2>2 DEF Payload, Children
    <3> QED
      BY <1>1, <1>4, <3>1
  <2>3. CASE nd.declarations # <<>>
    <3>1. FirstDeclarator(nd) \in Declarators
      BY <2>1, <2>3 DEF FirstDeclarator
    <3>2. FirstDeclarator(nd).size \in Nat /\ FirstDeclarator(nd).init \in Nat
      BY <3>1 DEF Declarators
    <3>3. LengthAnd(FirstDeclarator(nd).size) \in Seq(Nat)
      BY <3>2, LengthAndBytes
    <3>4. Payload(nd) = IF FirstDeclarator(nd).identifier THEN LengthAnd(FirstDeclarator(nd).size) ELSE <<>>
      BY <1>4, <2>3 DEF Payload
    <3>5. Children(nd) = IF FirstDeclarator(nd).init # None THEN <<FirstDeclarator(nd).init>> ELSE <<>>
      BY <1>4, <2>3 DEF Children
    <3>6. Payload(nd) \in Seq(Nat)
      BY <3>3, <3>4
    <3>7. Children(nd) \in Seq(Nat)
      BY <3>2, <3>5
    <3> QED
      BY <1>1, <1>4, <3>6, <3>7
  <2> QED
    BY <2>2, <2>3
<1>5. CASE nd.type = "NumericLiteral"
  <2>1. Payload(nd) = Filler(8) /\ Children(nd) = <<>>
    BY <1>5 DEF Payload, Children
  <2> QED
    BY <1>1, <1>2, <1>5, <2>1
<1>6. CASE nd.type = "StringLiteral"
  <2>1. Payload(nd) = LengthAnd(nd.size) /\ Children(nd) = <<>> /\ nd.size \in Nat
    BY <1>6, NodeKinds DEF Payload, Children
  <2>2. LengthAnd(nd.size) \in Seq(Nat)
    BY <2>1, LengthAndBytes
  <2> QED
    BY <1>1, <1>6, <2>1, <2>2
<1> QED
  BY <1>3, <1>4, <1>5, <1>6, TypeNumbers

\* What the bytes of a node hold at each place.
LaidOut(nd, ch, w, total) ==
    /\ w \in Seq(Nat) /\ total \in Nat /\ Len(w) = total
    /\ w[1] = UInt16(NODE_TYPES[nd.type])[1] /\ w[2] = UInt16(NODE_TYPES[nd.type])[2]
    /\ w[3] = UInt16(Flags(nd))[1] /\ w[4] = UInt16(Flags(nd))[2]
    /\ w[5] = UInt32(total)[1] /\ w[6] = UInt32(total)[2]
    /\ w[7] = UInt32(total)[3] /\ w[8] = UInt32(total)[4]
    /\ \A j \in 1..Len(ch) : w[HeaderSize + Len(Payload(nd)) + j] = ch[j]

LEMMA NodeLayout ==
  ASSUME NEW nd \in Nodes, nd.type \in Types, NEW ch \in Seq(Nat),
         NEW w, w = NodeBytes(nd, ch),
         NEW total, total = HeaderSize + Len(Payload(nd)) + Len(ch)
  PROVE  LaidOut(nd, ch, w, total)
<1> DEFINE pl == Payload(nd)
           ty == NODE_TYPES[nd.type]
           h1 == UInt16(ty)
           h2 == UInt16(Flags(nd))
           h3 == UInt32(total)
           j2 == h1 \o h2
           j3 == j2 \o h3
           j4 == j3 \o pl
<1>1. pl \in Seq(Nat) /\ Flags(nd) \in Nat
  <2>1. pl \in Seq(Nat) /\ Flags(nd) \in 0..2
    BY PartsOfNode, Zenon
  <2> HIDE DEF pl
  <2> QED
    BY <2>1
<1>2. ty \in Nat
  BY TypeNumbers
<1>3. Len(pl) \in Nat /\ Len(ch) \in Nat /\ total \in Nat /\ total = HeaderSize + Len(pl) + Len(ch)
  BY <1>1 DEF HeaderSize
<1>4. w = j4 \o ch
  BY DEF NodeBytes
<1>5. h1 \in Seq(Nat) /\ Len(h1) = 2
  BY <1>2, UInt16Bytes
<1>6. h2 \in Seq(Nat) /\ Len(h2) = 2
  BY <1>1, UInt16Bytes
<1>7. h3 \in Seq(Nat) /\ Len(h3) = 4
  BY <1>3, UInt32Bytes
<1> HIDE DEF pl, ty, h1, h2, h3
<1>8. /\ j2 \in Seq(Nat) /\ Len(j2) = Len(h1) + Len(h2)
      /\ \A j \in 1..Len(h1) : j2[j] = h1[j]
      /\ \A j \in 1..Len(h2) : j2[Len(h1) + j] = h2[j]
  BY <1>5, <1>6, JoinedBytes, Zenon
<1> HIDE DEF j2
<1>9. /\ j3 \in Seq(Nat) /\ Len(j3) = Len(j2) + Len(h3)
      /\ \A j \in 1..Len(j2) : j3[j] = j2[j]
      /\ \A j \in 1..Len(h3) : j3[Len(j2) + j] = h3[j]
  BY <1>7, <1>8, JoinedBytes, Zenon
<1> HIDE DEF j3
<1>10. /\ j4 \in Seq(Nat) /\ Len(j4) = Len(j3) + Len(pl)
       /\ \A j \in 1..Len(j3) : j4[j] = j3[j]
  BY <1>1, <1>9, JoinedBytes, Zenon
<1> HIDE DEF j4
<1>11. /\ w \in Seq(Nat) /\ Len(w) = Len(j4) + Len(ch)
       /\ \A j \in 1..Len(j4) : w[j] = j4[j]
       /\ \A j \in 1..Len(ch) : w[Len(j4) + j] = ch[j]
  <2> DEFINE v == j4 \o ch
  <2>1. /\ v \in Seq(Nat) /\ Len(v) = Len(j4) + Len(ch)
        /\ \A j \in 1..Len(j4) : v[j] = j4[j]
        /\ \A j \in 1..Len(ch) : v[Len(j4) + j] = ch[j]
    BY <1>10, JoinedBytes, Zenon
  <2>2. w = v
    BY <1>4
  <2> HIDE DEF v
  <2> QED
    BY <2>1, <2>2, Zenon
<1>12. Len(j2) = 4 /\ Len(j3) = 8 /\ Len(j4) = 8 + Len(pl) /\ Len(w) = total
  BY <1>3, <1>5, <1>6, <1>7, <1>8, <1>9, <1>10, <1>11 DEF HeaderSize
<1>13. \A j \in 1..8 : w[j] = j3[j]
  <2> SUFFICES ASSUME NEW j \in 1..8 PROVE w[j] = j3[j]
    OBVIOUS
  <2>1. j \in 1..Len(j3) /\ j \in 1..Len(j4)
    BY <1>3, <1>12
  <2> QED
    BY <1>10, <1>11, <2>1
<1>14. /\ j2[1] = h1[1] /\ j2[2] = h1[2] /\ j2[3] = h2[1] /\ j2[4] = h2[2]
  <2>1. 2 + 1 = 3 /\ 2 + 2 = 4 /\ 1 \in 1..2 /\ 2 \in 1..2
    OBVIOUS
  <2> QED
    BY <1>5, <1>6, <1>8, <2>1
<1>15. /\ j3[1] = j2[1] /\ j3[2] = j2[2] /\ j3[3] = j2[3] /\ j3[4] = j2[4]
       /\ j3[5] = h3[1] /\ j3[6] = h3[2] /\ j3[7] = h3[3] /\ j3[8] = h3[4]
  <2>1. /\ 4 + 1 = 5 /\ 4 + 2 = 6 /\ 4 + 3 = 7 /\ 4 + 4 = 8
        /\ 1 \in 1..4 /\ 2 \in 1..4 /\ 3 \in 1..4 /\ 4 \in 1..4
    OBVIOUS
  <2> QED
    BY <1>7, <1>9, <1>12, <2>1
<1>16. /\ w[1] = j3[1] /\ w[2] = j3[2] /\ w[3] = j3[3] /\ w[4] = j3[4]
       /\ w[5] = j3[5] /\ w[6] = j3[6] /\ w[7] = j3[7] /\ w[8] = j3[8]
  BY <1>13
<1>17. /\ w[1] = h1[1] /\ w[2] = h1[2] /\ w[3] = h2[1] /\ w[4] = h2[2]
       /\ w[5] = h3[1] /\ w[6] = h3[2] /\ w[7] = h3[3] /\ w[8] = h3[4]
  BY <1>14, <1>15, <1>16
<1>18. \A j \in 1..Len(ch) : w[HeaderSize + Len(pl) + j] = ch[j]
  BY <1>3, <1>11, <1>12 DEF HeaderSize
<1> QED
  BY <1>3, <1>11, <1>12, <1>17, <1>18 DEF pl, ty, h1, h2, h3, LaidOut

-----------------------------------------------------------------------------
(* The tables of a tree *)

SoundTree(t) ==
    /\ t \in Seq(Nodes)
    /\ t # <<>>
    /\ \A i \in 1..Len(t) : RefersBack(t, i)

ChildBytes(nd, d) == [k \in DOMAIN Children(nd) |-> d[Children(nd)[k]]]

LEMMA ChildrenBefore ==
  ASSUME NEW t, SoundTree(t), NEW i \in 1..Len(t)
  PROVE  /\ Len(t) \in Nat /\ t[i] \in Nodes
         /\ t[i].type = "ExpressionStatement" => t[i].expression \in 1..(i - 1)
         /\ t[i].type \in Types =>
               /\ Children(t[i]) \in Seq(1..(i - 1))
               /\ DOMAIN Children(t[i]) = 1..Len(Children(t[i]))
<1>1. t \in Seq(Nodes) /\ Len(t) \in Nat /\ t[i] \in Nodes /\ RefersBack(t, i)
  BY DEF SoundTree
<1>2. t[i].type = "ExpressionStatement" => t[i].expression \in 1..(i - 1)
  BY <1>1 DEF RefersBack
<1>3. ASSUME t[i].type \in Types
      PROVE  Children(t[i]) \in Seq(1..(i - 1)) /\ DOMAIN Children(t[i]) = 1..Len(Children(t[i]))
  <2> DEFINE c == Children(t[i])
  <2>1. c \in Seq(Nat)
    BY <1>1, <1>3, PartsOfNode
  <2>2. \A k \in DOMAIN c : c[k] \in 1..(i - 1)
    BY <1>1 DEF RefersBack
  <2> HIDE DEF c
  <2>3. c \in Seq(1..(i - 1)) /\ DOMAIN c = 1..Len(c)
    BY <2>1, <2>2
  <2> QED
    BY <2>3 DEF c
<1> QED
  BY <1>1, <1>2, <1>3

LEMMA SerializeNode ==
  ASSUME NEW t, SoundTree(t), NEW i \in 1..Len(t), NEW d \in Seq(Seq(Nat)), Len(d) >= i - 1
  PROVE  /\ Serialize(t[i], d) \in Seq(Nat)
         /\ t[i].type \in Types => /\ ChildBytes(t[i], d) \in Seq(Seq(Nat))
                                   /\ Serialize(t[i], d) = NodeBytes(t[i], FlattenSeq(ChildBytes(t[i], d)))
         /\ t[i].type = "ExpressionStatement" => Serialize(t[i], d) = d[t[i].expression]
         /\ t[i].type \notin Types \cup {"ExpressionStatement"} => Serialize(t[i], d) = <<>>
         /\ \A e \in Seq(Seq(Nat)) : Len(e) >= i - 1 /\ (\A j \in 1..(i - 1) : d[j] = e[j])
                                       => Serialize(t[i], e) = Serialize(t[i], d)
<1> DEFINE nd == t[i]
<1>1. nd \in Nodes /\ Len(d) \in Nat /\ i \in Nat
  BY ChildrenBefore
<1>2. CASE nd.type = "ExpressionStatement"
  <2>1. \A e : Serialize(nd, e) = e[nd.expression]
    BY <1>2, TypeNumbers DEF Serialize, Types
  <2>2. nd.expression \in 1..(i - 1)
    BY <1>2, ChildrenBefore
  <2>3. d[nd.expression] \in Seq(Nat)
    BY <1>1, <2>2
  <2>4. \A e : (\A j \in 1..(i - 1) : d[j] = e[j]) => Serialize(nd, e) = Serialize(nd, d)
    BY <2>1, <2>2
  <2>5. Serialize(nd, d) = d[nd.expression] /\ nd.type \notin Types
    BY <1>2, <2>1, TypeNumbers
  <2>6. Serialize(nd, d) \in Seq(Nat)
    BY <2>3, <2>5, Zenon
  <2> QED
    BY <1>2, <2>4, <2>5, <2>6, Zenon
<1>3. CASE nd.type \in Types
  <2>1. \A e : Serialize(nd, e) = NodeBytes(nd, FlattenSeq(ChildBytes(nd, e)))
    <3> SUFFICES ASSUME NEW e PROVE Serialize(nd, e) = NodeBytes(nd, FlattenSeq(ChildBytes(nd, e)))
      OBVIOUS
    <3>1. nd.type # "ExpressionStatement" /\ nd.type \in DOMAIN NODE_TYPES
      BY <1>3, TypeNumbers DEF Types
    <3> DEFINE whole == NodeBytes(nd, FlattenSeq([k \in DOMAIN Children(nd) |-> e[Children(nd)[k]]]))
    <3>2. Serialize(nd, e) = CASE nd.type = "ExpressionStatement" -> e[nd.expression]
                               [] nd.type \in DOMAIN NODE_TYPES -> whole
                               [] OTHER -> <<>>
      BY Zenon DEF Serialize
    <3>3. whole = NodeBytes(nd, FlattenSeq(ChildBytes(nd, e)))
      BY Zenon DEF ChildBytes
    <3> HIDE DEF whole
    <3> QED
      BY <3>1, <3>2, <3>3
  <2>2. Children(nd) \in Seq(1..(i - 1)) /\ DOMAIN Children(nd) = 1..Len(Children(nd))
    BY <1>3, ChildrenBefore
  <2>3. ChildBytes(nd, d) \in Seq(Seq(Nat))
    <3> DEFINE c == Children(nd)
    <3>1. Len(c) \in Nat /\ \A k \in 1..Len(c) : c[k] \in 1..Len(d)
      <4>1. c \in Seq(1..(i - 1))
        BY <2>2, Zenon
      <4> HIDE DEF c
      <4>2. Len(c) \in Nat /\ \A k \in 1..Len(c) : c[k] \in 1..(i - 1)
        BY <4>1
      <4>3. 1..(i - 1) \subseteq 1..Len(d)
        BY <1>1
      <4> QED
        BY <4>2, <4>3
    <3>2. ChildBytes(nd, d) = [k \in 1..Len(c) |-> d[c[k]]]
      BY <2>2 DEF ChildBytes
    <3>3. \A k \in 1..Len(c) : d[c[k]] \in Seq(Nat)
      BY <3>1
    <3> HIDE DEF c
    <3> QED
      BY <3>1, <3>2, <3>3
  <2>4. FlattenSeq(ChildBytes(nd, d)) \in Seq(Nat)
    <3>1. Makes(Nat, ChildBytes(nd, d), Parts(Nat, ChildBytes(nd, d)))
      BY <2>3, FlattenParts
    <3>2. Len(ChildBytes(nd, d)) \in 0..Len(ChildBytes(nd, d))
      BY <2>3
    <3> QED
      BY <3>1, <3>2 DEF Makes
  <2>5. NodeBytes(nd, FlattenSeq(ChildBytes(nd, d))) \in Seq(Nat)
    <3>1. PICK w, total : /\ w = NodeBytes(nd, FlattenSeq(ChildBytes(nd, d)))
                          /\ total = HeaderSize + Len(Payload(nd)) + Len(FlattenSeq(ChildBytes(nd, d)))
      OBVIOUS
    <3>2. w \in Seq(Nat)
      BY <1>1, <1>3, <2>4, <3>1, NodeLayout, Zenon DEF LaidOut
    <3> QED
      BY <3>1, <3>2
  <2>6. ASSUME NEW e \in Seq(Seq(Nat)), \A j \in 1..(i - 1) : d[j] = e[j]
        PROVE  ChildBytes(nd, e) = ChildBytes(nd, d)
    <3>1. \A k \in DOMAIN Children(nd) : Children(nd)[k] \in 1..(i - 1)
      BY <2>2
    <3>2. \A k \in DOMAIN Children(nd) : e[Children(nd)[k]] = d[Children(nd)[k]]
      BY <2>6, <3>1
    <3> QED
      BY <3>2 DEF ChildBytes
  <2>7. nd.type # "ExpressionStatement"
    BY <1>3, TypeNumbers
  <2>8. ASSUME NEW e \in Seq(Seq(Nat)), \A j \in 1..(i - 1) : d[j] = e[j]
        PROVE  Serialize(nd, e) = Serialize(nd, d)
    BY <2>1, <2>6, <2>8
  <2>9. Serialize(nd, d) = NodeBytes(nd, FlattenSeq(ChildBytes(nd, d)))
    BY <2>1
  <2> QED
    <3> DEFINE out(e) == Serialize(nd, e)
    <3>1. out(d) \in Seq(Nat)
      BY <2>5, <2>9
    <3>2. \A e \in Seq(Seq(Nat)) : Len(e) >= i - 1 /\ (\A j \in 1..(i - 1) : d[j] = e[j]) => out(e) = out(d)
      BY <2>8
    <3> HIDE DEF out
    <3>3. nd.type \in Types \cup {"ExpressionStatement"}
      BY <1>3
    <3>4. out(d) = NodeBytes(nd, FlattenSeq(ChildBytes(nd, d)))
      BY <2>9 DEF out
    <3>5. /\ out(d) \in Seq(Nat)
          /\ nd.type \in Types => /\ ChildBytes(nd, d) \in Seq(Seq(Nat))
                                  /\ out(d) = NodeBytes(nd, FlattenSeq(ChildBytes(nd, d)))
          /\ nd.type = "ExpressionStatement" => out(d) = d[nd.expression]
          /\ nd.type \notin Types \cup {"ExpressionStatement"} => out(d) = <<>>
      BY <2>3, <2>7, <3>1, <3>3, <3>4, Zenon
    <3> QED
      BY <3>2, <3>5, Zenon DEF out
<1>4. CASE nd.type \notin Types \cup {"ExpressionStatement"}
  <2>1. \A e : Serialize(nd, e) = <<>>
    BY <1>4 DEF Serialize, Types
  <2>2. nd.type \notin Types /\ nd.type # "ExpressionStatement" /\ <<>> \in Seq(Nat)
    BY <1>4
  <2>3. Serialize(nd, d) \in Seq(Nat) /\ Serialize(nd, d) = <<>>
    BY <2>1, <2>2
  <2>4. \A e : Serialize(nd, e) = Serialize(nd, d)
    BY <2>1
  <2> QED
    BY <2>2, <2>3, <2>4, Zenon
<1> QED
  BY <1>2, <1>3, <1>4

LEMMA SerializedTable ==
  ASSUME NEW t, SoundTree(t)
  PROVE  /\ Serialized(t) \in Seq(Seq(Nat))
         /\ Len(Serialized(t)) = Len(t)
         /\ \A i \in 1..Len(t) : Serialized(t)[i] = Serialize(t[i], Serialized(t))
<1> DEFINE N == Len(t)
           V == Seq(Nat)
           Entry(i, x) == IF Len(x) = i - 1 THEN Serialize(t[i], x) ELSE <<>>
           h == [p \in (1..N) \X Seq(V) |-> Append(p[2], Entry(p[1], p[2]))]
           Table(g) == g = [i \in 0..N |-> IF i = 0 THEN <<>> ELSE Append(g[i - 1], Serialize(t[i], g[i - 1]))]
<1>1. N \in Nat
  BY DEF SoundTree
<1>2. ASSUME NEW i \in 1..N, NEW x \in Seq(V), Len(x) = i - 1
      PROVE  Serialize(t[i], x) \in V
  BY <1>1, <1>2, SerializeNode
<1>3. ASSUME NEW i \in 1..N, NEW x \in Seq(V)
      PROVE  /\ h[<<i, x>>] \in Seq(V)
             /\ Len(x) = i - 1 => h[<<i, x>>] = Append(x, Serialize(t[i], x))
  <2>1. <<>> \in V
    OBVIOUS
  <2>2. Entry(i, x) \in V
    BY <1>2, <2>1
  <2>3. h[<<i, x>>] = Append(x, Entry(i, x))
    <3> HIDE DEF V, Entry
    <3> QED
      OBVIOUS
  <2>4. Len(x) = i - 1 => Entry(i, x) = Serialize(t[i], x)
    OBVIOUS
  <2> HIDE DEF h, V, Entry
  <2>5. Append(x, Entry(i, x)) \in Seq(V)
    BY <2>2
  <2> QED
    BY <2>3, <2>4, <2>5
<1>4. PICK f : Steps(N, Seq(V), <<>>, h, f)
  <2>1. <<>> \in Seq(V)
    OBVIOUS
  <2>2. Closed(N, Seq(V), h)
    <3> HIDE DEF h
    <3> QED
      BY <1>3 DEF Closed
  <2> HIDE DEF h, N, V
  <2> QED
    BY <1>1, <2>1, <2>2, StepByStep, Zenon
<1> HIDE DEF h, V
<1>5. Table(f)
  <2>1. f \in [0..N -> Seq(V)] /\ f[0] = <<>> /\ \A i \in 1..N : f[i] = h[<<i, f[i - 1]>>]
    BY <1>4, Zenon DEF Steps
  <2>2. Grows(N, V, f)
    <3>1. ASSUME NEW i \in 1..N, f[i - 1] \in Seq(V), Len(f[i - 1]) = i - 1
          PROVE  \E v \in V : f[i] = Append(f[i - 1], v)
      <4>1. f[i] = Append(f[i - 1], Serialize(t[i], f[i - 1]))
        BY <1>3, <2>1, <3>1
      <4>2. Serialize(t[i], f[i - 1]) \in V
        BY <1>2, <3>1
      <4> QED
        BY <4>1, <4>2
    <3> QED
      BY <2>1, <3>1 DEF Grows
  <2>3. Stays(N, V, f)
    BY <1>1, <2>2, EntriesStay, Zenon
  <2>4. ASSUME NEW i \in 0..N, i # 0
        PROVE  f[i] = Append(f[i - 1], Serialize(t[i], f[i - 1]))
    <3>1. i \in 1..N /\ i - 1 \in 0..N
      BY <1>1, <2>4
    <3>2. f[i - 1] \in Seq(V) /\ Len(f[i - 1]) = i - 1
      BY <2>3, <3>1 DEF Stays
    <3> QED
      BY <1>3, <2>1, <3>1, <3>2
  <2>5. \A i \in 0..N : f[i] = IF i = 0 THEN <<>> ELSE Append(f[i - 1], Serialize(t[i], f[i - 1]))
    BY <2>1, <2>4
  <2>6. f = [i \in 0..N |-> f[i]]
    BY <2>1
  <2> HIDE DEF N
  <2> QED
    BY <2>5, <2>6
<1>6. Serialized(t) = (CHOOSE g : Table(g))[N]
  BY Zenon DEF Serialized
<1>7. PICK g : Table(g) /\ Serialized(t) = g[N]
  <2> HIDE DEF Table
  <2> QED
    BY <1>5, <1>6
<1>8. g[0] = <<>> /\ \A i \in 1..N : g[i] = Append(g[i - 1], Serialize(t[i], g[i - 1]))
  <2>1. 0 \in 0..N /\ \A i \in 1..N : i \in 0..N /\ i # 0
    BY <1>1
  <2> HIDE DEF N
  <2> QED
    BY <1>7, <2>1
<1> HIDE DEF Table
<1>9. Grows(N, V, g)
  <2>1. ASSUME NEW i \in 1..N, g[i - 1] \in Seq(V), Len(g[i - 1]) = i - 1
        PROVE  \E v \in V : g[i] = Append(g[i - 1], v)
    BY <1>2, <1>8, <2>1
  <2> QED
    BY <1>8, <2>1 DEF Grows
<1>10. Stays(N, V, g)
  BY <1>1, <1>9, EntriesStay, Zenon
<1> DEFINE B == g[N]
<1>11. B \in Seq(V) /\ Len(B) = N
  BY <1>1, <1>10 DEF Stays
<1>12. ASSUME NEW i \in 1..N
       PROVE  B[i] = Serialize(t[i], B)
  <2>1. i \in 0..N /\ i - 1 \in 0..N /\ i \in 1..i /\ i \in Nat
    BY <1>1
  <2>2. g[i - 1] \in Seq(V) /\ Len(g[i - 1]) = i - 1 /\ B[i] = g[i][i]
    BY <1>10, <2>1 DEF Stays
  <2>3. g[i][i] = Serialize(t[i], g[i - 1])
    <3>1. Serialize(t[i], g[i - 1]) \in V
      BY <1>2, <2>2
    <3>2. g[i] = Append(g[i - 1], Serialize(t[i], g[i - 1]))
      BY <1>8
    <3> QED
      BY <2>1, <2>2, <3>1, <3>2
  <2>4. \A j \in 1..(i - 1) : g[i - 1][j] = B[j]
    BY <1>10, <2>1 DEF Stays
  <2>5. Len(B) >= i - 1 /\ Len(g[i - 1]) >= i - 1
    BY <1>1, <1>11, <2>1, <2>2
  <2> HIDE DEF B
  <2>6. Serialize(t[i], B) = Serialize(t[i], g[i - 1])
    BY <1>11, <2>2, <2>4, <2>5, SerializeNode DEF V
  <2> QED
    BY <2>2, <2>3, <2>6
<1> HIDE DEF B
<1>13. Serialized(t) = B
  BY <1>7 DEF B
<1> QED
  BY <1>11, <1>12, <1>13 DEF V

-----------------------------------------------------------------------------
(* The outline, by the same argument *)

Depths == [Nat -> Seq(Entries)]
Entry(nd, m) == [type |-> NODE_TYPES[nd.type], flags |-> Flags(nd), depth |-> m]
IsBlock(nd) == nd.type \in {"Program", "BlockStatement"}
ChildSays(nd, d, m) == [k \in DOMAIN nd.body |-> d[nd.body[k]][m]]
Below(nd, d, m) == IF IsBlock(nd) THEN FlattenSeq(ChildSays(nd, d, m)) ELSE <<>>

LEMMA BlockSays ==
  ASSUME NEW t, SoundTree(t), NEW i \in 1..Len(t), IsBlock(t[i]),
         NEW d \in Seq(Depths), Len(d) >= i - 1, NEW m \in Nat
  PROVE  /\ t[i].body \in Seq(1..(i - 1)) /\ DOMAIN t[i].body = 1..Len(t[i].body)
         /\ ChildSays(t[i], d, m) \in Seq(Seq(Entries))
         /\ FlattenSeq(ChildSays(t[i], d, m)) \in Seq(Entries)
<1> DEFINE nd == t[i]
           c == nd.body
<1>1. nd \in Nodes /\ i \in Nat /\ Len(d) \in Nat /\ nd.type \in Types
  BY ChildrenBefore, TypeNumbers DEF IsBlock
<1>2. Children(nd) = c
  BY <1>1, PartsOfNode DEF IsBlock
<1>3. c \in Seq(1..(i - 1)) /\ DOMAIN c = 1..Len(c)
  BY <1>1, <1>2, ChildrenBefore
<1>4. ChildSays(nd, d, m) = [k \in 1..Len(c) |-> d[c[k]][m]]
  BY <1>3 DEF ChildSays
<1> HIDE DEF c
<1>5. Len(c) \in Nat /\ \A k \in 1..Len(c) : d[c[k]] \in Depths
  BY <1>1, <1>3
<1>6. \A k \in 1..Len(c) : d[c[k]][m] \in Seq(Entries)
  BY <1>5 DEF Depths
<1>7. ChildSays(nd, d, m) \in Seq(Seq(Entries))
  <2> DEFINE X == Seq(Entries)
  <2>1. \A k \in 1..Len(c) : d[c[k]][m] \in X
    BY <1>6
  <2> HIDE DEF X
  <2>2. [k \in 1..Len(c) |-> d[c[k]][m]] \in Seq(X)
    BY <1>5, <2>1
  <2> QED
    BY <1>4, <2>2 DEF X
<1>8. FlattenSeq(ChildSays(nd, d, m)) \in Seq(Entries)
  <2>1. Makes(Entries, ChildSays(nd, d, m), Parts(Entries, ChildSays(nd, d, m)))
    BY <1>7, FlattenParts
  <2>2. Len(ChildSays(nd, d, m)) \in 0..Len(ChildSays(nd, d, m))
    BY <1>7
  <2> QED
    BY <2>1, <2>2 DEF Makes
<1> QED
  BY <1>3, <1>7, <1>8 DEF c

LEMMA EntryType ==
  ASSUME NEW nd \in Nodes, nd.type \in Types, NEW m \in Nat
  PROVE  <<Entry(nd, m)>> \in Seq(Entries)
<1>1. NODE_TYPES[nd.type] \in Nat
  BY TypeNumbers
<1>2. Flags(nd) \in Nat
  <2>1. Flags(nd) \in 0..2
    BY PartsOfNode, Zenon
  <2> QED
    BY <2>1
<1>3. Entry(nd, m) \in Entries
  BY <1>1, <1>2 DEF Entry, Entries
<1> QED
  BY <1>3

LEMMA SaysNode ==
  ASSUME NEW t, SoundTree(t), NEW i \in 1..Len(t), NEW d \in Seq(Depths), Len(d) >= i - 1
  PROVE  /\ Says(t[i], d) \in Depths
         /\ t[i].type \in Types =>
               \A m \in Nat : Says(t[i], d)[m] = <<Entry(t[i], m)>> \o Below(t[i], d, m + 1)
         /\ t[i].type = "ExpressionStatement" => Says(t[i], d) = d[t[i].expression]
         /\ t[i].type \notin Types \cup {"ExpressionStatement"} => \A m \in Nat : Says(t[i], d)[m] = <<>>
         /\ \A e \in Seq(Depths) : Len(e) >= i - 1 /\ (\A j \in 1..(i - 1) : d[j] = e[j])
                                       => Says(t[i], e) = Says(t[i], d)
<1> DEFINE nd == t[i]
<1>1. nd \in Nodes /\ Len(d) \in Nat /\ i \in Nat
  BY ChildrenBefore
<1>2. CASE nd.type = "ExpressionStatement"
  <2>1. \A e : Says(nd, e) = [m \in Nat |-> e[nd.expression][m]]
    BY <1>2, TypeNumbers DEF Says, Types
  <2>2. nd.expression \in 1..(i - 1)
    BY <1>2, ChildrenBefore
  <2>3. d[nd.expression] \in Depths
    BY <1>1, <2>2
  <2>4. Says(nd, d) = d[nd.expression]
    BY <2>1, <2>3 DEF Depths
  <2>5. \A e : (\A j \in 1..(i - 1) : d[j] = e[j]) => Says(nd, e) = Says(nd, d)
    BY <2>1, <2>2
  <2>6. nd.type \notin Types /\ Says(nd, d) \in Depths
    BY <1>2, <2>3, <2>4, TypeNumbers
  <2> QED
    BY <1>2, <2>4, <2>5, <2>6
<1>3. CASE nd.type \in Types
  <2>0. nd.type # "ExpressionStatement"
    BY <1>3, TypeNumbers
  <2>1. \A e : \A m \in Nat : Says(nd, e)[m] = <<Entry(nd, m)>> \o Below(nd, e, m + 1)
    <3> SUFFICES ASSUME NEW e, NEW m \in Nat
                 PROVE  Says(nd, e)[m] = <<Entry(nd, m)>> \o Below(nd, e, m + 1)
      OBVIOUS
    <3> DEFINE rest == IF nd.type \in {"Program", "BlockStatement"}
                       THEN FlattenSeq([k \in DOMAIN nd.body |-> e[nd.body[k]][m + 1]]) ELSE <<>>
               head == [type |-> NODE_TYPES[nd.type], flags |-> Flags(nd), depth |-> m]
    <3>1. Says(nd, e)[m] = CASE nd.type = "ExpressionStatement" -> e[nd.expression][m]
                             [] nd.type \in DOMAIN NODE_TYPES -> <<head>> \o rest
                             [] OTHER -> <<>>
      BY Zenon DEF Says
    <3>2. head = Entry(nd, m) /\ rest = Below(nd, e, m + 1)
      BY Zenon DEF Entry, Below, ChildSays, IsBlock
    <3> HIDE DEF head, rest
    <3>3. Says(nd, e)[m] = <<head>> \o rest
      BY <1>3, <2>0, <3>1 DEF Types
    <3> QED
      BY <3>2, <3>3
  <2>2. \A e : Says(nd, e) = [m \in Nat |-> Says(nd, e)[m]]
    BY DEF Says
  <2>3. ASSUME NEW m \in Nat
        PROVE  Says(nd, d)[m] \in Seq(Entries)
    <3>1. <<Entry(nd, m)>> \in Seq(Entries)
      BY <1>1, <1>3, EntryType
    <3>2. Below(nd, d, m + 1) \in Seq(Entries)
      <4>1. CASE IsBlock(nd)
        BY <4>1, BlockSays DEF Below
      <4>2. CASE ~IsBlock(nd)
        BY <4>2 DEF Below
      <4> QED
        BY <4>1, <4>2
    <3>3. Says(nd, d)[m] = <<Entry(nd, m)>> \o Below(nd, d, m + 1)
      BY <2>1
    <3>4. \A a, b \in Seq(Entries) : a \o b \in Seq(Entries)
      OBVIOUS
    <3> QED
      BY <3>1, <3>2, <3>3, <3>4, Zenon
  <2>4. Says(nd, d) \in Depths
    BY <2>2, <2>3 DEF Depths
  <2>5. ASSUME NEW e \in Seq(Depths), \A j \in 1..(i - 1) : d[j] = e[j]
        PROVE  Says(nd, e) = Says(nd, d)
    <3>1. ASSUME NEW m \in Nat
          PROVE  Below(nd, e, m + 1) = Below(nd, d, m + 1)
      <4>1. CASE IsBlock(nd)
        <5>1. nd.body \in Seq(1..(i - 1)) /\ DOMAIN nd.body = 1..Len(nd.body)
          BY <4>1, BlockSays
        <5>2. \A k \in DOMAIN nd.body : e[nd.body[k]] = d[nd.body[k]]
          BY <2>5, <5>1
        <5>3. ChildSays(nd, e, m + 1) = ChildSays(nd, d, m + 1)
          BY <5>2 DEF ChildSays
        <5> QED
          BY <5>3 DEF Below
      <4>2. CASE ~IsBlock(nd)
        BY <4>2 DEF Below
      <4> QED
        BY <4>1, <4>2
    <3>2. \A m \in Nat : Says(nd, e)[m] = Says(nd, d)[m]
      BY <2>1, <3>1
    <3>3. [m \in Nat |-> Says(nd, e)[m]] = [m \in Nat |-> Says(nd, d)[m]]
      BY <3>2
    <3> QED
      BY <2>2, <3>3, Zenon
  <2> DEFINE out(e) == Says(nd, e)
  <2>6. out(d) \in Depths /\ \A m \in Nat : out(d)[m] = <<Entry(nd, m)>> \o Below(nd, d, m + 1)
    BY <2>1, <2>4
  <2>7. \A e \in Seq(Depths) : Len(e) >= i - 1 /\ (\A j \in 1..(i - 1) : d[j] = e[j]) => out(e) = out(d)
    BY <2>5
  <2>8. nd.type \in Types \cup {"ExpressionStatement"}
    BY <1>3
  <2> HIDE DEF out
  <2>9. /\ out(d) \in Depths
        /\ nd.type \in Types => \A m \in Nat : out(d)[m] = <<Entry(nd, m)>> \o Below(nd, d, m + 1)
        /\ nd.type = "ExpressionStatement" => out(d) = d[nd.expression]
        /\ nd.type \notin Types \cup {"ExpressionStatement"} => \A m \in Nat : out(d)[m] = <<>>
        /\ \A e \in Seq(Depths) : Len(e) >= i - 1 /\ (\A j \in 1..(i - 1) : d[j] = e[j]) => out(e) = out(d)
    BY <2>0, <2>6, <2>7, <2>8, Zenon
  <2> QED
    BY <2>9, Zenon DEF out
<1>4. CASE nd.type \notin Types \cup {"ExpressionStatement"}
  <2>1. \A e : Says(nd, e) = [m \in Nat |-> <<>>]
    BY <1>4 DEF Says, Types
  <2>2. nd.type \notin Types /\ nd.type # "ExpressionStatement" /\ <<>> \in Seq(Entries)
    BY <1>4
  <2>3. Says(nd, d) \in Depths /\ \A m \in Nat : Says(nd, d)[m] = <<>>
    BY <2>1, <2>2 DEF Depths
  <2>4. \A e : Says(nd, e) = Says(nd, d)
    BY <2>1
  <2> QED
    BY <2>2, <2>3, <2>4, Zenon
<1> QED
  BY <1>2, <1>3, <1>4

LEMMA SaysTheSame ==
  ASSUME NEW t, SoundTree(t), NEW i \in 1..Len(t), NEW d \in Seq(Depths), Len(d) >= i - 1,
         NEW e \in Seq(Depths), Len(e) >= i - 1, \A j \in 1..(i - 1) : d[j] = e[j]
  PROVE  Says(t[i], e) = Says(t[i], d)
  BY SaysNode

LEMMA SaysSupported ==
  ASSUME NEW t, SoundTree(t), NEW i \in 1..Len(t), NEW d \in Seq(Depths), Len(d) >= i - 1,
         t[i].type \in Types, NEW m \in Nat
  PROVE  Says(t[i], d)[m] = <<Entry(t[i], m)>> \o Below(t[i], d, m + 1)
  BY SaysNode

LEMMA OutlinesTable ==
  ASSUME NEW t, SoundTree(t)
  PROVE  /\ Outlines(t) \in Seq(Depths)
         /\ Len(Outlines(t)) = Len(t)
         /\ \A i \in 1..Len(t) : Outlines(t)[i] = Says(t[i], Outlines(t))
<1> DEFINE N == Len(t)
           V == Depths
           New(i, x) == IF Len(x) = i - 1 THEN Says(t[i], x) ELSE [m \in Nat |-> <<>>]
           h == [p \in (1..N) \X Seq(V) |-> Append(p[2], New(p[1], p[2]))]
           Table(g) == g = [i \in 0..N |-> IF i = 0 THEN <<>> ELSE Append(g[i - 1], Says(t[i], g[i - 1]))]
<1>1. N \in Nat
  BY DEF SoundTree
<1>2. ASSUME NEW i \in 1..N, NEW x \in Seq(V), Len(x) = i - 1
      PROVE  Says(t[i], x) \in V
  BY <1>1, <1>2, SaysNode
<1>3. ASSUME NEW i \in 1..N, NEW x \in Seq(V)
      PROVE  /\ h[<<i, x>>] \in Seq(V)
             /\ Len(x) = i - 1 => h[<<i, x>>] = Append(x, Says(t[i], x))
  <2>1. [m \in Nat |-> <<>>] \in V
    BY DEF Depths
  <2>2. New(i, x) \in V
    BY <1>2, <2>1
  <2>3. h[<<i, x>>] = Append(x, New(i, x))
    <3> HIDE DEF V, New
    <3> QED
      OBVIOUS
  <2>4. Len(x) = i - 1 => New(i, x) = Says(t[i], x)
    OBVIOUS
  <2> HIDE DEF h, V, New
  <2>5. Append(x, New(i, x)) \in Seq(V)
    BY <2>2
  <2> QED
    BY <2>3, <2>4, <2>5
<1>4. PICK f : Steps(N, Seq(V), <<>>, h, f)
  <2>1. <<>> \in Seq(V)
    OBVIOUS
  <2>2. Closed(N, Seq(V), h)
    <3> HIDE DEF h
    <3> QED
      BY <1>3 DEF Closed
  <2> HIDE DEF h, N, V
  <2> QED
    BY <1>1, <2>1, <2>2, StepByStep, Zenon
<1> HIDE DEF h, V
<1>5. Table(f)
  <2>1. f \in [0..N -> Seq(V)] /\ f[0] = <<>> /\ \A i \in 1..N : f[i] = h[<<i, f[i - 1]>>]
    BY <1>4, Zenon DEF Steps
  <2>2. Grows(N, V, f)
    <3>1. ASSUME NEW i \in 1..N, f[i - 1] \in Seq(V), Len(f[i - 1]) = i - 1
          PROVE  \E v \in V : f[i] = Append(f[i - 1], v)
      <4>1. f[i] = Append(f[i - 1], Says(t[i], f[i - 1]))
        BY <1>3, <2>1, <3>1
      <4>2. Says(t[i], f[i - 1]) \in V
        BY <1>2, <3>1
      <4> QED
        BY <4>1, <4>2
    <3> QED
      BY <2>1, <3>1 DEF Grows
  <2>3. Stays(N, V, f)
    BY <1>1, <2>2, EntriesStay, Zenon
  <2>4. ASSUME NEW i \in 0..N, i # 0
        PROVE  f[i] = Append(f[i - 1], Says(t[i], f[i - 1]))
    <3>1. i \in 1..N /\ i - 1 \in 0..N
      BY <1>1, <2>4
    <3>2. f[i - 1] \in Seq(V) /\ Len(f[i - 1]) = i - 1
      BY <2>3, <3>1 DEF Stays
    <3> QED
      BY <1>3, <2>1, <3>1, <3>2
  <2>5. \A i \in 0..N : f[i] = IF i = 0 THEN <<>> ELSE Append(f[i - 1], Says(t[i], f[i - 1]))
    BY <2>1, <2>4
  <2>6. f = [i \in 0..N |-> f[i]]
    BY <2>1
  <2> HIDE DEF N
  <2> QED
    BY <2>5, <2>6
<1>6. Outlines(t) = (CHOOSE g : Table(g))[N]
  BY Zenon DEF Outlines
<1>7. PICK g : Table(g) /\ Outlines(t) = g[N]
  <2> HIDE DEF Table
  <2> QED
    BY <1>5, <1>6
<1>8. g[0] = <<>> /\ \A i \in 1..N : g[i] = Append(g[i - 1], Says(t[i], g[i - 1]))
  <2>1. 0 \in 0..N /\ \A i \in 1..N : i \in 0..N /\ i # 0
    BY <1>1
  <2> HIDE DEF N
  <2> QED
    BY <1>7, <2>1
<1> HIDE DEF Table
<1>9. Grows(N, V, g)
  <2>1. ASSUME NEW i \in 1..N, g[i - 1] \in Seq(V), Len(g[i - 1]) = i - 1
        PROVE  \E v \in V : g[i] = Append(g[i - 1], v)
    BY <1>2, <1>8, <2>1
  <2> QED
    BY <1>8, <2>1 DEF Grows
<1>10. Stays(N, V, g)
  BY <1>1, <1>9, EntriesStay, Zenon
<1> DEFINE B == g[N]
<1>11. B \in Seq(V) /\ Len(B) = N
  BY <1>1, <1>10 DEF Stays
<1>12. ASSUME NEW i \in 1..N
       PROVE  B[i] = Says(t[i], B)
  <2>1. i \in 0..N /\ i - 1 \in 0..N /\ i \in 1..i /\ i \in Nat
    BY <1>1
  <2>2. g[i - 1] \in Seq(V) /\ Len(g[i - 1]) = i - 1 /\ B[i] = g[i][i]
    BY <1>10, <2>1 DEF Stays
  <2>3. g[i][i] = Says(t[i], g[i - 1])
    <3>1. Says(t[i], g[i - 1]) \in V
      BY <1>2, <2>2
    <3>2. g[i] = Append(g[i - 1], Says(t[i], g[i - 1]))
      BY <1>8
    <3> QED
      BY <2>1, <2>2, <3>1, <3>2
  <2>4. \A j \in 1..(i - 1) : g[i - 1][j] = B[j]
    BY <1>10, <2>1 DEF Stays
  <2>5. Len(B) >= i - 1 /\ Len(g[i - 1]) >= i - 1
    BY <1>1, <1>11, <2>1, <2>2
  <2> HIDE DEF B
  <2>6. Says(t[i], B) = Says(t[i], g[i - 1])
    <3> DEFINE w == g[i - 1]
    <3>1. B \in Seq(Depths) /\ w \in Seq(Depths)
      BY <1>11, <2>2 DEF V
    <3>2. Len(w) >= i - 1 /\ Len(B) >= i - 1 /\ \A j \in 1..(i - 1) : w[j] = B[j]
      BY <2>4, <2>5
    <3> HIDE DEF w
    <3>3. \A e \in Seq(Depths) : Len(e) >= i - 1 /\ (\A j \in 1..(i - 1) : w[j] = e[j])
                                    => Says(t[i], e) = Says(t[i], w)
      BY <3>1, <3>2, SaysTheSame, Zenon
    <3>4. Says(t[i], B) = Says(t[i], w)
      BY <3>1, <3>2, <3>3, Zenon
    <3> QED
      BY <3>4 DEF w
  <2> QED
    BY <2>2, <2>3, <2>6
<1> HIDE DEF B
<1>13. Outlines(t) = B
  BY <1>7 DEF B
<1> QED
  BY <1>11, <1>12, <1>13 DEF V

-----------------------------------------------------------------------------
(* A node that is left out says nothing; every other one stands for one of  *)
(* a supported type, itself or an expression.                               *)

Bytes(i) == Serialized(tree)[i]
Told(i, m) == Outlines(tree)[i][m]
StandsFor(i, r) ==
    /\ r \in 1..Len(tree) /\ tree[r].type \in Types
    /\ Bytes(i) = Bytes(r)
    /\ \A m \in Nat : Told(i, m) = Told(r, m)
LeftOut(i) == Bytes(i) = <<>> /\ \A m \in Nat : Told(i, m) = <<>>

LEMMA NodeTypes ==
  ASSUME SoundTree(tree), NEW i \in 1..Len(tree)
  PROVE  Bytes(i) \in Seq(Nat) /\ \A m \in Nat : Told(i, m) \in Seq(Entries)
<1>1. /\ Serialized(tree) \in Seq(Seq(Nat)) /\ Len(Serialized(tree)) = Len(tree)
  BY SerializedTable, Zenon
<1>2. /\ Outlines(tree) \in Seq(Depths) /\ Len(Outlines(tree)) = Len(tree)
  BY OutlinesTable, Zenon
<1>3. Bytes(i) \in Seq(Nat)
  BY <1>1 DEF Bytes
<1>4. Outlines(tree)[i] \in Depths
  BY <1>2
<1> QED
  BY <1>3, <1>4 DEF Told, Depths

LEMMA EveryNode ==
  ASSUME SoundTree(tree)
  PROVE  \A i \in 1..Len(tree) : LeftOut(i) \/ \E r : StandsFor(i, r)
<1>1. /\ Serialized(tree) \in Seq(Seq(Nat)) /\ Len(Serialized(tree)) = Len(tree)
      /\ \A i \in 1..Len(tree) : Serialized(tree)[i] = Serialize(tree[i], Serialized(tree))
  BY SerializedTable, Zenon
<1>2. /\ Outlines(tree) \in Seq(Depths) /\ Len(Outlines(tree)) = Len(tree)
      /\ \A i \in 1..Len(tree) : Outlines(tree)[i] = Says(tree[i], Outlines(tree))
  BY OutlinesTable, Zenon
<1> DEFINE Good(i) == LeftOut(i) \/ \E r : StandsFor(i, r)
           S == {m \in Nat : \A i \in 1..Len(tree) : i <= m => Good(i)}
<1>3. 0 \in S
  OBVIOUS
<1>4. ASSUME NEW m \in Nat, m \in S PROVE m + 1 \in S
  <2> SUFFICES ASSUME NEW i \in 1..Len(tree), i <= m + 1 PROVE Good(i)
    OBVIOUS
  <2>0. Len(tree) \in Nat /\ i \in Nat
    BY DEF SoundTree
  <2>1. CASE i # m + 1
    <3>1. i <= m
      BY <2>0, <2>1
    <3> QED
      BY <1>4, <3>1
  <2>2. CASE i = m + 1
    <3>0. Len(Serialized(tree)) >= i - 1 /\ Len(Outlines(tree)) >= i - 1
      BY <1>1, <1>2, <2>0
    <3>1. CASE tree[i].type = "ExpressionStatement"
      <4> DEFINE e == tree[i].expression
      <4>1. e \in 1..(i - 1)
        BY <3>1, ChildrenBefore
      <4>2. e \in 1..Len(tree) /\ e <= m
        BY <2>0, <2>2, <4>1
      <4>3. Good(e)
        BY <1>4, <4>2
      <4>4. Bytes(i) = Bytes(e)
        BY <1>1, <3>0, <3>1, SerializeNode DEF Bytes
      <4>5. \A d \in Nat : Told(i, d) = Told(e, d)
        BY <1>2, <3>0, <3>1, SaysNode DEF Told
      <4> HIDE DEF e
      <4>6. CASE LeftOut(e)
        BY <4>4, <4>5, <4>6 DEF LeftOut
      <4>7. ASSUME NEW r, StandsFor(e, r) PROVE StandsFor(i, r)
        BY <4>4, <4>5, <4>7 DEF StandsFor
      <4> QED
        BY <4>3, <4>6, <4>7
    <3>2. CASE tree[i].type \in Types
      <4>1. StandsFor(i, i)
        BY <3>2 DEF StandsFor
      <4> QED
        BY <4>1
    <3>3. CASE tree[i].type \notin Types \cup {"ExpressionStatement"}
      <4>1. Bytes(i) = <<>>
        BY <1>1, <3>0, <3>3, SerializeNode DEF Bytes
      <4>2. \A d \in Nat : Told(i, d) = <<>>
        BY <1>2, <3>0, <3>3, SaysNode DEF Told
      <4> QED
        BY <4>1, <4>2 DEF LeftOut
    <3> QED
      BY <3>1, <3>2, <3>3
  <2> QED
    BY <2>1, <2>2
<1> HIDE DEF S
<1>5. \A m \in Nat : m \in S
  BY <1>3, <1>4, Upwards, Zenon
<1>6. ASSUME NEW i \in 1..Len(tree) PROVE Good(i)
  <2>1. i \in Nat /\ i \in S
    BY <1>5
  <2> HIDE DEF Good
  <2> QED
    BY <2>1 DEF S
<1> QED
  BY <1>6

\* The children of a program or a block.
KidBytes(kids) == [k \in DOMAIN kids |-> Bytes(kids[k])]
KidTold(kids, m) == [k \in DOMAIN kids |-> Told(kids[k], m)]

LEMMA KidTypes ==
  ASSUME SoundTree(tree), NEW kids \in Seq(1..Len(tree))
  PROVE  /\ KidBytes(kids) \in Seq(Seq(Nat)) /\ Len(KidBytes(kids)) = Len(kids)
         /\ \A m \in Nat : KidTold(kids, m) \in Seq(Seq(Entries)) /\ Len(KidTold(kids, m)) = Len(kids)
         /\ \A k \in 1..Len(kids) : KidBytes(kids)[k] = Bytes(kids[k])
         /\ \A m \in Nat : \A k \in 1..Len(kids) : KidTold(kids, m)[k] = Told(kids[k], m)
<1>1. Len(kids) \in Nat /\ DOMAIN kids = 1..Len(kids) /\ \A k \in 1..Len(kids) : kids[k] \in 1..Len(tree)
  OBVIOUS
<1>2. \A k \in 1..Len(kids) : Bytes(kids[k]) \in Seq(Nat) /\ \A m \in Nat : Told(kids[k], m) \in Seq(Entries)
  BY <1>1, NodeTypes
<1>3. KidBytes(kids) \in Seq(Seq(Nat)) /\ Len(KidBytes(kids)) = Len(kids)
  <2> DEFINE X == Seq(Nat)
  <2>1. \A k \in 1..Len(kids) : Bytes(kids[k]) \in X
    BY <1>2
  <2> HIDE DEF X
  <2>2. [k \in 1..Len(kids) |-> Bytes(kids[k])] \in Seq(X) /\ Len([k \in 1..Len(kids) |-> Bytes(kids[k])]) = Len(kids)
    BY <1>1, <2>1
  <2> QED
    BY <1>1, <2>2 DEF KidBytes, X
<1>4. ASSUME NEW m \in Nat
      PROVE  KidTold(kids, m) \in Seq(Seq(Entries)) /\ Len(KidTold(kids, m)) = Len(kids)
  <2> DEFINE X == Seq(Entries)
  <2>1. \A k \in 1..Len(kids) : Told(kids[k], m) \in X
    BY <1>2
  <2> HIDE DEF X
  <2>2. [k \in 1..Len(kids) |-> Told(kids[k], m)] \in Seq(X) /\ Len([k \in 1..Len(kids) |-> Told(kids[k], m)]) = Len(kids)
    BY <1>1, <2>1
  <2> QED
    BY <1>1, <2>2 DEF KidTold, X
<1>5. /\ \A k \in 1..Len(kids) : KidBytes(kids)[k] = Bytes(kids[k])
      /\ \A m \in Nat : \A k \in 1..Len(kids) : KidTold(kids, m)[k] = Told(kids[k], m)
  BY <1>1 DEF KidBytes, KidTold
<1> QED
  BY <1>3, <1>4, <1>5

-----------------------------------------------------------------------------
(* Beginnings of sequences *)

StartsWith(a, b) == Len(a) <= Len(b) /\ \A x \in 1..Len(a) : b[x] = a[x]
Holds(b, p, s) == p + Len(s) <= Len(b) /\ \A x \in 1..Len(s) : b[p + x] = s[x]

LEMMA Associates ==
  ASSUME NEW X, NEW a \in Seq(X), NEW b \in Seq(X), NEW c \in Seq(X)
  PROVE  a \o (b \o c) = (a \o b) \o c
<1> DEFINE left == a \o (b \o c)
           right == (a \o b) \o c
           m == Len(a) + Len(b) + Len(c)
<1>1. Len(a) \in Nat /\ Len(b) \in Nat /\ Len(c) \in Nat
  OBVIOUS
<1>2. left \in Seq(X) /\ Len(left) = m
  OBVIOUS
<1>3. right \in Seq(X) /\ Len(right) = m
  OBVIOUS
<1>4. ASSUME NEW x \in 1..m PROVE left[x] = right[x]
  <2>1. CASE x <= Len(a)
    BY <1>1, <2>1
  <2>2. CASE x > Len(a) /\ x <= Len(a) + Len(b)
    BY <1>1, <2>2
  <2>3. CASE x > Len(a) + Len(b)
    BY <1>1, <2>3
  <2> QED
    BY <1>1, <2>1, <2>2, <2>3
<1> HIDE DEF left, right, m
<1>5. left = right
  BY <1>2, <1>3, <1>4
<1> QED
  BY <1>5 DEF left, right

LEMMA StartsItself == ASSUME NEW X, NEW a \in Seq(X) PROVE StartsWith(a, a)
  BY DEF StartsWith

LEMMA StartsTransitive ==
  ASSUME NEW X, NEW a \in Seq(X), NEW b \in Seq(X), NEW c \in Seq(X),
         StartsWith(a, b), StartsWith(b, c)
  PROVE  StartsWith(a, c)
<1>1. Len(a) \in Nat /\ Len(b) \in Nat /\ Len(c) \in Nat /\ Len(a) <= Len(b) /\ Len(b) <= Len(c)
  BY DEF StartsWith
<1>2. ASSUME NEW x \in 1..Len(a) PROVE c[x] = a[x]
  <2>1. x \in 1..Len(b)
    BY <1>1
  <2> QED
    BY <2>1 DEF StartsWith
<1> QED
  BY <1>1, <1>2 DEF StartsWith

LEMMA StartsJoined ==
  ASSUME NEW X, NEW a \in Seq(X), NEW b \in Seq(X)
  PROVE  StartsWith(a, a \o b)
  BY DEF StartsWith

LEMMA StartsBehind ==
  ASSUME NEW X, NEW a \in Seq(X), NEW b \in Seq(X), NEW c \in Seq(X), StartsWith(b, c)
  PROVE  StartsWith(a \o b, a \o c)
<1>1. /\ Len(a) \in Nat /\ Len(b) \in Nat /\ Len(c) \in Nat /\ Len(b) <= Len(c)
      /\ Len(a \o b) = Len(a) + Len(b) /\ Len(a \o c) = Len(a) + Len(c)
  BY DEF StartsWith
<1>2. ASSUME NEW x \in 1..Len(a \o b) PROVE (a \o c)[x] = (a \o b)[x]
  <2>1. CASE x <= Len(a)
    BY <1>1, <2>1
  <2>2. CASE ~(x <= Len(a))
    <3>1. x - Len(a) \in 1..Len(b) /\ x - Len(a) \in 1..Len(c)
      BY <1>1, <2>2
    <3>2. (a \o b)[x] = b[x - Len(a)] /\ (a \o c)[x] = c[x - Len(a)]
      BY <1>1, <2>2, <3>1
    <3> QED
      BY <3>1, <3>2 DEF StartsWith
  <2> QED
    BY <2>1, <2>2
<1> QED
  BY <1>1, <1>2 DEF StartsWith

LEMMA StartsIsPrefix ==
  ASSUME NEW X, NEW a \in Seq(X), NEW b \in Seq(X), StartsWith(a, b)
  PROVE  IsPrefix(a, b)
<1>1. Len(a) \in Nat /\ Len(b) \in Nat /\ Len(a) <= Len(b)
  BY DEF StartsWith
<1>2. SubSeq(a, 1, Len(a)) = [x \in 1..Len(a) |-> a[x]]
  BY <1>1
<1>3. SubSeq(b, 1, Len(a)) = [x \in 1..Len(a) |-> b[x]]
  BY <1>1
<1>4. [x \in 1..Len(a) |-> a[x]] = [x \in 1..Len(a) |-> b[x]]
  BY DEF StartsWith
<1> QED
  BY <1>1, <1>2, <1>3, <1>4 DEF IsPrefix

Grown(X, s, p) ==
    /\ Len(s) \in Nat /\ p[0] = <<>> /\ FlattenSeq(s) = p[Len(s)]
    /\ \A i \in 0..Len(s) : p[i] \in Seq(X)
    /\ \A i \in 1..Len(s) : s[i] \in Seq(X) /\ p[i] = p[i - 1] \o s[i]
    /\ \A i, j \in 0..Len(s) : i <= j => StartsWith(p[i], p[j])

LEMMA PartsGrow ==
  ASSUME NEW X, NEW s \in Seq(Seq(X)), NEW p, Makes(X, s, p)
  PROVE  Grown(X, s, p)
<1>1. /\ Len(s) \in Nat /\ p[0] = <<>> /\ FlattenSeq(s) = p[Len(s)]
      /\ \A i \in 0..Len(s) : p[i] \in Seq(X)
  <2>1. Len(s) \in Nat
    OBVIOUS
  <2>2. p[0] = <<>> /\ FlattenSeq(s) = p[Len(s)] /\ p \in [0..Len(s) -> Seq(X)]
    BY Zenon DEF Makes
  <2>3. \A i \in 0..Len(s) : p[i] \in Seq(X)
    BY <2>2, Zenon
  <2> QED
    BY <2>1, <2>2, <2>3, Zenon
<1>2. \A i \in 1..Len(s) : s[i] \in Seq(X) /\ p[i] = p[i - 1] \o s[i]
  <2>1. \A i \in 1..Len(s) : s[i] \in Seq(X)
    OBVIOUS
  <2>2. \A i \in 1..Len(s) : p[i] = p[i - 1] \o s[i]
    BY Zenon DEF Makes
  <2> QED
    BY <2>1, <2>2, Zenon
<1> DEFINE S == {d \in Nat : \A i \in 0..Len(s) : i + d <= Len(s) => StartsWith(p[i], p[i + d])}
<1>3. 0 \in S
  <2> SUFFICES ASSUME NEW i \in 0..Len(s) PROVE StartsWith(p[i], p[i + 0])
    OBVIOUS
  <2>1. p[i] \in Seq(X) /\ i + 0 = i
    BY <1>1
  <2> QED
    BY <2>1, StartsItself
<1>4. ASSUME NEW d \in Nat, d \in S PROVE d + 1 \in S
  <2> SUFFICES ASSUME NEW i \in 0..Len(s), i + (d + 1) <= Len(s) PROVE StartsWith(p[i], p[i + (d + 1)])
    OBVIOUS
  <2> DEFINE j == i + (d + 1)
  <2>1. j \in 1..Len(s) /\ j - 1 = i + d /\ i + d \in 0..Len(s)
    BY <1>1
  <2>2. StartsWith(p[i], p[j - 1])
    BY <1>4, <2>1
  <2>3. p[j] = p[j - 1] \o s[j] /\ s[j] \in Seq(X) /\ p[j - 1] \in Seq(X) /\ p[i] \in Seq(X) /\ p[j] \in Seq(X)
    <3>1. p[j] = p[j - 1] \o s[j] /\ s[j] \in Seq(X)
      BY <1>2, <2>1, Zenon
    <3>2. j \in 0..Len(s) /\ j - 1 \in 0..Len(s)
      BY <1>1, <2>1
    <3>3. p[j - 1] \in Seq(X) /\ p[i] \in Seq(X) /\ p[j] \in Seq(X)
      BY <1>1, <3>2, Zenon
    <3> QED
      BY <3>1, <3>3, Zenon
  <2> HIDE DEF j
  <2>4. StartsWith(p[j - 1], p[j])
    BY <2>3, StartsJoined
  <2>5. StartsWith(p[i], p[j])
    BY <2>2, <2>3, <2>4, StartsTransitive
  <2> QED
    BY <2>5 DEF j
<1> HIDE DEF S
<1>5. \A d \in Nat : d \in S
  BY <1>3, <1>4, Upwards, Zenon
<1>6. ASSUME NEW i \in 0..Len(s), NEW j \in 0..Len(s), i <= j PROVE StartsWith(p[i], p[j])
  <2>1. j - i \in Nat /\ i + (j - i) = j /\ j <= Len(s)
    BY <1>1, <1>6
  <2>2. j - i \in S
    BY <1>5, <2>1
  <2> QED
    BY <2>1, <2>2 DEF S
<1> QED
  BY <1>1, <1>2, <1>6, Zenon DEF Grown

\* What lies in a buffer as a whole lies there part by part.
LEMMA HoldsParts ==
  ASSUME NEW s \in Seq(Seq(Nat)), NEW p, Makes(Nat, s, p), NEW b \in Seq(Nat), NEW start \in Nat,
         Holds(b, start, p[Len(s)]), NEW k \in 1..Len(s)
  PROVE  Holds(b, start + Len(p[k - 1]), s[k])
<1>1. /\ Len(s) \in Nat /\ k \in 0..Len(s) /\ k - 1 \in 0..Len(s) /\ Len(s) \in 0..Len(s) /\ k <= Len(s)
  OBVIOUS
<1> DEFINE whole == p[Len(s)]
           done == p[k]
           before == p[k - 1]
           part == s[k]
<1>2. /\ whole \in Seq(Nat) /\ before \in Seq(Nat) /\ part \in Seq(Nat) /\ done = before \o part
      /\ StartsWith(done, whole)
  <2>1. Grown(Nat, s, p)
    BY PartsGrow, Zenon
  <2> QED
    BY <1>1, <2>1, Zenon DEF Grown
<1> HIDE DEF whole, done, before, part
<1>3. /\ done \in Seq(Nat) /\ Len(done) = Len(before) + Len(part)
      /\ Len(before) \in Nat /\ Len(part) \in Nat /\ Len(whole) \in Nat /\ Len(b) \in Nat /\ Len(done) <= Len(whole)
      /\ \A x \in 1..Len(part) : done[Len(before) + x] = part[x]
  <2>1. Len(done) <= Len(whole)
    BY <1>2 DEF StartsWith
  <2>2. /\ before \o part \in Seq(Nat) /\ Len(before \o part) = Len(before) + Len(part)
        /\ Len(before) \in Nat /\ Len(part) \in Nat
        /\ \A x \in 1..Len(part) : (before \o part)[Len(before) + x] = part[x]
    BY <1>2, JoinedBytes, Zenon
  <2>3. Len(whole) \in Nat /\ Len(b) \in Nat
    BY <1>2
  <2>4. \A x \in 1..Len(part) : done[Len(before) + x] = part[x]
    BY <1>2, <2>2, Zenon
  <2>5. done \in Seq(Nat) /\ Len(done) = Len(before) + Len(part)
    BY <1>2, <2>2, Zenon
  <2> QED
    BY <2>1, <2>2, <2>3, <2>4, <2>5, Zenon
<1>4. Holds(b, start, whole)
  BY DEF whole
<1>5. ASSUME NEW x \in 1..Len(part) PROVE b[(start + Len(before)) + x] = part[x]
  <2>1. /\ Len(before) + x \in 1..Len(done) /\ Len(before) + x \in 1..Len(whole)
        /\ (start + Len(before)) + x = start + (Len(before) + x)
    <3>1. /\ Len(done) = Len(before) + Len(part) /\ Len(before) \in Nat /\ Len(part) \in Nat
          /\ Len(whole) \in Nat /\ Len(done) <= Len(whole)
      BY <1>3, Zenon
    <3>2. x \in Nat /\ x >= 1 /\ x <= Len(part)
      BY <3>1
    <3>3. Len(before) + x \in 1..Len(done) /\ Len(before) + x \in 1..Len(whole)
      BY <3>1, <3>2
    <3>4. (start + Len(before)) + x = start + (Len(before) + x)
      BY <3>1, <3>2
    <3> QED
      BY <3>3, <3>4
  <2>2. whole[Len(before) + x] = done[Len(before) + x]
    BY <1>2, <2>1 DEF StartsWith
  <2>3. b[start + (Len(before) + x)] = whole[Len(before) + x]
    BY <1>4, <2>1 DEF Holds
  <2> QED
    BY <1>3, <2>1, <2>2, <2>3
<1>6. (start + Len(before)) + Len(part) <= Len(b)
  BY <1>3, <1>4 DEF Holds
<1> QED
  BY <1>5, <1>6 DEF Holds, before, part

-----------------------------------------------------------------------------
(* What a supported node looks like, and how the reader reads it *)

LEMMA SupportedNode ==
  ASSUME SoundTree(tree), NEW r \in 1..Len(tree), tree[r].type \in Types
  PROVE  /\ \E ch \in Seq(Nat) :
              /\ Bytes(r) = NodeBytes(tree[r], ch)
              /\ IsBlock(tree[r]) => ch = FlattenSeq(KidBytes(tree[r].body))
         /\ IsBlock(tree[r]) =>
              /\ tree[r].body \in Seq(1..Len(tree))
              /\ \A m \in Nat : Told(r, m) = <<Entry(tree[r], m)>> \o FlattenSeq(KidTold(tree[r].body, m + 1))
         /\ ~IsBlock(tree[r]) => \A m \in Nat : Told(r, m) = <<Entry(tree[r], m)>>
<1> DEFINE nd == tree[r]
           B == Serialized(tree)
           O == Outlines(tree)
<1>1. /\ B \in Seq(Seq(Nat)) /\ Len(B) = Len(tree) /\ \A i \in 1..Len(tree) : B[i] = Serialize(tree[i], B)
  BY SerializedTable, Zenon
<1>2. /\ O \in Seq(Depths) /\ Len(O) = Len(tree) /\ \A i \in 1..Len(tree) : O[i] = Says(tree[i], O)
  BY OutlinesTable, Zenon
<1>3. Len(tree) \in Nat /\ r - 1 \in Nat /\ Len(B) >= r - 1 /\ Len(O) >= r - 1 /\ nd \in Nodes
  BY <1>1, <1>2, ChildrenBefore
<1> HIDE DEF B, O
<1>4. ChildBytes(nd, B) \in Seq(Seq(Nat)) /\ B[r] = NodeBytes(nd, FlattenSeq(ChildBytes(nd, B)))
  BY <1>1, <1>3, SerializeNode
<1> DEFINE ch == FlattenSeq(ChildBytes(nd, B))
<1>5. ch \in Seq(Nat)
  <2>1. Makes(Nat, ChildBytes(nd, B), Parts(Nat, ChildBytes(nd, B)))
    BY <1>4, FlattenParts
  <2>2. Len(ChildBytes(nd, B)) \in 0..Len(ChildBytes(nd, B))
    BY <1>4
  <2> QED
    BY <2>1, <2>2 DEF Makes
<1>6. IsBlock(nd) => ch = FlattenSeq(KidBytes(nd.body))
  <2> SUFFICES ASSUME IsBlock(nd) PROVE ch = FlattenSeq(KidBytes(nd.body))
    OBVIOUS
  <2>1. Children(nd) = nd.body
    BY <1>3, PartsOfNode DEF IsBlock
  <2>2. ChildBytes(nd, B) = KidBytes(nd.body)
    BY <2>1 DEF ChildBytes, KidBytes, Bytes, B
  <2> QED
    BY <2>2
<1>7. \A m \in Nat : O[r][m] = <<Entry(nd, m)>> \o Below(nd, O, m + 1)
  <2>1. O[r] = Says(nd, O)
    BY <1>2, Zenon
  <2>2. O \in Seq(Depths) /\ Len(O) >= r - 1
    BY <1>2, <1>3, Zenon
  <2>3. \A m \in Nat : Says(nd, O)[m] = <<Entry(nd, m)>> \o Below(nd, O, m + 1)
    BY <2>2, SaysSupported
  <2> QED
    BY <2>1, <2>3, Zenon
<1>8. ASSUME IsBlock(nd)
      PROVE  /\ nd.body \in Seq(1..Len(tree))
             /\ \A m \in Nat : Told(r, m) = <<Entry(nd, m)>> \o FlattenSeq(KidTold(nd.body, m + 1))
  <2>1. nd.body \in Seq(1..(r - 1))
    BY <1>2, <1>3, <1>8, BlockSays
  <2>2. nd.body \in Seq(1..Len(tree))
    <3>1. 1..(r - 1) \subseteq 1..Len(tree)
      BY <1>3
    <3> QED
      BY <2>1, <3>1
  <2>3. \A m : Below(nd, O, m) = FlattenSeq(KidTold(nd.body, m))
    BY <1>8 DEF Below, ChildSays, KidTold, Told, O
  <2> QED
    BY <1>7, <2>2, <2>3 DEF Told, O
<1>9. ASSUME ~IsBlock(nd), NEW m \in Nat
      PROVE  Told(r, m) = <<Entry(nd, m)>>
  <2>1. <<Entry(nd, m)>> \in Seq(Entries)
    BY <1>3, EntryType
  <2>2. Below(nd, O, m + 1) = <<>>
    BY <1>9 DEF Below
  <2>3. O[r][m] = <<Entry(nd, m)>> \o <<>>
    BY <1>7, <2>2
  <2>4. \A s \in Seq(Entries) : s \o <<>> = s
    OBVIOUS
  <2> QED
    BY <2>1, <2>3, <2>4 DEF Told, O
<1>10. Bytes(r) = NodeBytes(nd, ch)
  BY <1>4 DEF Bytes, B
<1> QED
  BY <1>5, <1>6, <1>8, <1>9, <1>10

LEMMA SupportedHasHeader ==
  ASSUME SoundTree(tree), NEW r \in 1..Len(tree), tree[r].type \in Types
  PROVE  Bytes(r) \in Seq(Nat) /\ Len(Bytes(r)) \in Nat /\ Len(Bytes(r)) >= HeaderSize
<1>1. PICK ch \in Seq(Nat) : Bytes(r) = NodeBytes(tree[r], ch)
  BY SupportedNode
<1>2. tree[r] \in Nodes
  BY ChildrenBefore
<1>3. Payload(tree[r]) \in Seq(Nat)
  BY <1>2, PartsOfNode
<1>4. PICK total : total = HeaderSize + Len(Payload(tree[r])) + Len(ch)
  OBVIOUS
<1>5. Bytes(r) \in Seq(Nat) /\ Len(Bytes(r)) = total
  <2>1. PICK w : w = Bytes(r)
    OBVIOUS
  <2>2. w = NodeBytes(tree[r], ch)
    BY <1>1, <2>1
  <2>3. LaidOut(tree[r], ch, w, total)
    BY <1>2, <1>4, <2>2, NodeLayout, Zenon
  <2>4. w \in Seq(Nat) /\ Len(w) = total
    BY <2>3, Zenon DEF LaidOut
  <2> QED
    BY <2>1, <2>4
<1>6. Len(Payload(tree[r])) \in Nat /\ Len(ch) \in Nat
  BY <1>3
<1> QED
  BY <1>4, <1>5, <1>6 DEF HeaderSize

LEMMA EmptyIsLeftOut ==
  ASSUME SoundTree(tree), NEW i \in 1..Len(tree)
  PROVE  /\ Bytes(i) = <<>> => LeftOut(i)
         /\ Bytes(i) # <<>> => \E r : StandsFor(i, r)
<1>1. LeftOut(i) \/ \E r : StandsFor(i, r)
  BY EveryNode, Zenon
<1>2. ASSUME NEW r, StandsFor(i, r) PROVE Bytes(i) # <<>>
  <2>1. r \in 1..Len(tree) /\ tree[r].type \in Types /\ Bytes(i) = Bytes(r)
    BY <1>2 DEF StandsFor
  <2>2. Len(Bytes(r)) >= HeaderSize
    BY <2>1, SupportedHasHeader
  <2> QED
    BY <2>1, <2>2 DEF HeaderSize
<1>3. LeftOut(i) => Bytes(i) = <<>>
  BY DEF LeftOut
<1> QED
  BY <1>1, <1>2, <1>3, Zenon

LEMMA ReadsBack16 ==
  ASSUME NEW x \in Nat
  PROVE  UInt16(x)[1] + 256 * UInt16(x)[2] = x
<1>1. (x % 256) + 256 * (x \div 256) = x
  OBVIOUS
<1> QED
  BY <1>1 DEF UInt16

LEMMA ReadsBack32 ==
  ASSUME NEW x \in Nat
  PROVE  (UInt32(x)[1] + 256 * UInt32(x)[2]) + 65536 * (UInt32(x)[3] + 256 * UInt32(x)[4]) = x
<1> DEFINE a == x % 65536
           b == x \div 65536
<1>1. a \in Nat /\ b \in Nat /\ a + 65536 * b = x
  OBVIOUS
<1> HIDE DEF a, b
<1>2. (a % 256) + 256 * (a \div 256) = a /\ (b % 256) + 256 * (b \div 256) = b
  BY <1>1
<1>3. /\ UInt32(x)[1] = a % 256 /\ UInt32(x)[2] = a \div 256
      /\ UInt32(x)[3] = b % 256 /\ UInt32(x)[4] = b \div 256
  <2>1. /\ UInt32(x) = UInt16(a) \o UInt16(b)
        /\ UInt16(a) = <<a % 256, a \div 256>> /\ UInt16(b) = <<b % 256, b \div 256>>
    BY DEF UInt32, UInt16, a, b
  <2>2. a % 256 \in Nat /\ a \div 256 \in Nat /\ b % 256 \in Nat /\ b \div 256 \in Nat
    BY <1>1
  <2>3. \A p, q, u, v \in Nat : LET s == <<p, q>> \o <<u, v>> IN s[1] = p /\ s[2] = q /\ s[3] = u /\ s[4] = v
    OBVIOUS
  <2> QED
    BY <2>1, <2>2, <2>3
<1> QED
  BY <1>1, <1>2, <1>3

LEMMA HeaderIsRead ==
  ASSUME SoundTree(tree), NEW r \in 1..Len(tree), tree[r].type \in Types,
         offset \in Nat, Holds(bytes, offset, Bytes(r))
  PROVE  /\ NodeType = NODE_TYPES[tree[r].type] /\ NodeFlags = Flags(tree[r]) /\ NodeLength = Len(Bytes(r))
         /\ Container <=> IsBlock(tree[r])
         /\ IsBlock(tree[r]) =>
              LET inner == FlattenSeq(KidBytes(tree[r].body))
              IN  /\ inner \in Seq(Nat) /\ Len(Bytes(r)) = HeaderSize + Len(inner)
                  /\ Holds(bytes, offset + HeaderSize, inner)
<1> DEFINE nd == tree[r]
           ty == NODE_TYPES[nd.type]
           fl == Flags(nd)
<1>1. PICK ch \in Seq(Nat) : /\ Bytes(r) = NodeBytes(nd, ch)
                             /\ IsBlock(nd) => ch = FlattenSeq(KidBytes(nd.body))
  BY SupportedNode
<1>2. nd \in Nodes
  BY ChildrenBefore
<1>3. PICK total : total = HeaderSize + Len(Payload(nd)) + Len(ch)
  OBVIOUS
<1>4. PICK w : w = Bytes(r)
  OBVIOUS
<1>5. w = NodeBytes(nd, ch)
  BY <1>1, <1>4
<1>16. LaidOut(nd, ch, w, total)
  BY <1>2, <1>3, <1>5, NodeLayout, Zenon
<1>6. /\ w \in Seq(Nat) /\ total \in Nat /\ Len(w) = total
      /\ w[1] = UInt16(ty)[1] /\ w[2] = UInt16(ty)[2]
      /\ w[3] = UInt16(fl)[1] /\ w[4] = UInt16(fl)[2]
      /\ w[5] = UInt32(total)[1] /\ w[6] = UInt32(total)[2]
      /\ w[7] = UInt32(total)[3] /\ w[8] = UInt32(total)[4]
      /\ \A j \in 1..Len(ch) : w[HeaderSize + Len(Payload(nd)) + j] = ch[j]
  BY <1>16 DEF LaidOut
<1>7. ty \in Nat /\ fl \in Nat /\ Payload(nd) \in Seq(Nat) /\ Len(Payload(nd)) \in Nat /\ Len(ch) \in Nat
  <2>1. ty \in Nat
    BY TypeNumbers
  <2>2. fl \in 0..2 /\ Payload(nd) \in Seq(Nat)
    BY <1>2, PartsOfNode, Zenon
  <2> HIDE DEF ty, fl, nd
  <2> QED
    BY <2>1, <2>2
<1>8. \A x \in 1..total : bytes[offset + x] = w[x]
  BY <1>4, <1>6 DEF Holds
<1>9. total >= 8
  BY <1>3, <1>7 DEF HeaderSize
<1>10. /\ bytes[offset + 1] = w[1] /\ bytes[offset + 2] = w[2]
       /\ bytes[(offset + 2) + 1] = w[3] /\ bytes[(offset + 2) + 2] = w[4]
       /\ bytes[(offset + 4) + 1] = w[5] /\ bytes[(offset + 4) + 2] = w[6]
       /\ bytes[((offset + 4) + 2) + 1] = w[7] /\ bytes[((offset + 4) + 2) + 2] = w[8]
  <2>1. /\ (offset + 2) + 1 = offset + 3 /\ (offset + 2) + 2 = offset + 4
        /\ (offset + 4) + 1 = offset + 5 /\ (offset + 4) + 2 = offset + 6
        /\ ((offset + 4) + 2) + 1 = offset + 7 /\ ((offset + 4) + 2) + 2 = offset + 8
    OBVIOUS
  <2>2. /\ 1 \in 1..total /\ 2 \in 1..total /\ 3 \in 1..total /\ 4 \in 1..total
        /\ 5 \in 1..total /\ 6 \in 1..total /\ 7 \in 1..total /\ 8 \in 1..total
    BY <1>6, <1>9
  <2> QED
    BY <1>8, <2>1, <2>2
<1>11. NodeType = ty
  <2>1. NodeType = w[1] + 256 * w[2]
    BY <1>10 DEF NodeType, ReadUInt16
  <2> HIDE DEF ty
  <2> QED
    BY <1>6, <1>7, <2>1, ReadsBack16
<1>12. NodeFlags = fl
  <2>1. NodeFlags = w[3] + 256 * w[4]
    BY <1>10 DEF NodeFlags, ReadUInt16
  <2> HIDE DEF fl
  <2> QED
    BY <1>6, <1>7, <2>1, ReadsBack16
<1>13. NodeLength = total
  <2>1. NodeLength = (w[5] + 256 * w[6]) + 65536 * (w[7] + 256 * w[8])
    BY <1>10 DEF NodeLength, ReadUInt32, ReadUInt16
  <2> QED
    BY <1>6, <2>1, ReadsBack32
<1>14. Container <=> IsBlock(nd)
  BY <1>11, TypeNumbers DEF Container, IsBlock
<1>15. ASSUME IsBlock(nd)
       PROVE  /\ ch = FlattenSeq(KidBytes(nd.body)) /\ Len(Bytes(r)) = HeaderSize + Len(ch)
              /\ Holds(bytes, offset + HeaderSize, ch)
  <2>1. Payload(nd) = <<>>
    BY <1>2, <1>15, PartsOfNode DEF IsBlock
  <2>2. Len(Payload(nd)) = 0 /\ total = HeaderSize + Len(ch)
    BY <1>3, <1>7, <2>1 DEF HeaderSize
  <2>3. \A j \in 1..Len(ch) : w[HeaderSize + j] = ch[j]
    BY <1>6, <2>2 DEF HeaderSize
  <2>4. offset + total <= Len(bytes)
    BY <1>4, <1>6 DEF Holds
  <2>5. \A j \in 1..Len(ch) : bytes[(offset + HeaderSize) + j] = ch[j]
    <3> SUFFICES ASSUME NEW j \in 1..Len(ch) PROVE bytes[(offset + HeaderSize) + j] = ch[j]
      OBVIOUS
    <3>1. HeaderSize + j \in 1..total /\ (offset + HeaderSize) + j = offset + (HeaderSize + j)
      BY <1>7, <2>2 DEF HeaderSize
    <3> QED
      BY <1>8, <2>3, <3>1
  <2>6. (offset + HeaderSize) + Len(ch) <= Len(bytes)
    <3>1. (offset + HeaderSize) + Len(ch) = offset + total
      BY <1>7, <2>2 DEF HeaderSize
    <3> QED
      BY <2>4, <3>1
  <2> QED
    BY <1>1, <1>4, <1>6, <1>15, <2>2, <2>5, <2>6 DEF Holds
<1> QED
  BY <1>4, <1>6, <1>11, <1>12, <1>13, <1>14, <1>15

-----------------------------------------------------------------------------
(* The blocks the reader is inside of *)

\* Of a block: its children, how many of them the reader has passed, where
\* the first one begins, and what had been read before it.
Blocks == [kids : Seq(1..Len(tree)), done : Nat, start : Nat, seen : Seq(Entries)]
All(f) == Len(f.kids)
ByteParts(f) == Parts(Nat, KidBytes(f.kids))
ToldParts(f, d) == Parts(Entries, KidTold(f.kids, d))

\* Where the reader is, and what it has read, when it has passed k children.
Where(f, k) == f.start + Len(ByteParts(f)[k])
SeenAt(f, d, k) == f.seen \o ToldParts(f, d)[k]

BlockFacts(f, d) ==
    /\ All(f) \in Nat
    /\ \A k \in 0..All(f) : Where(f, k) \in Nat /\ SeenAt(f, d, k) \in Seq(Entries)
    /\ \A j, k \in 0..All(f) : j <= k => Where(f, j) <= Where(f, k)
                                         /\ StartsWith(SeenAt(f, d, j), SeenAt(f, d, k))
    /\ Where(f, 0) = f.start /\ SeenAt(f, d, 0) = f.seen
    /\ \A k \in 1..All(f) : /\ f.kids[k] \in 1..Len(tree)
                            /\ Where(f, k) = Where(f, k - 1) + Len(Bytes(f.kids[k]))
                            /\ SeenAt(f, d, k) = SeenAt(f, d, k - 1) \o Told(f.kids[k], d)
    /\ ByteParts(f)[All(f)] = FlattenSeq(KidBytes(f.kids))
    /\ ToldParts(f, d)[All(f)] = FlattenSeq(KidTold(f.kids, d))

LEMMA BlockFactsHold ==
  ASSUME SoundTree(tree), NEW f \in Blocks, NEW d \in Nat
  PROVE  BlockFacts(f, d)
<1> DEFINE kids == f.kids
           s == KidBytes(kids)
           u == KidTold(kids, d)
           p == ByteParts(f)
           q == ToldParts(f, d)
           m == All(f)
<1>1. kids \in Seq(1..Len(tree)) /\ f.start \in Nat /\ f.seen \in Seq(Entries)
  BY DEF Blocks
<1>2. m \in Nat /\ \A k \in 1..m : kids[k] \in 1..Len(tree)
  BY <1>1 DEF All
<1>3. /\ s \in Seq(Seq(Nat)) /\ Len(s) = m /\ \A k \in 1..m : s[k] = Bytes(kids[k])
      /\ u \in Seq(Seq(Entries)) /\ Len(u) = m /\ \A k \in 1..m : u[k] = Told(kids[k], d)
  <2> HIDE DEF s, u
  <2> QED
    BY <1>1, KidTypes DEF s, u, All
<1>4. Grown(Nat, s, p)
  <2>1. Makes(Nat, s, p)
    BY <1>3, FlattenParts DEF ByteParts
  <2> QED
    BY <1>3, <2>1, PartsGrow, Zenon
<1>5. Grown(Entries, u, q)
  <2>1. Makes(Entries, u, q)
    BY <1>3, FlattenParts DEF ToldParts
  <2> QED
    BY <1>3, <2>1, PartsGrow, Zenon
<1> HIDE DEF s, u, p, q, m, kids
<1>6. /\ p[0] = <<>> /\ FlattenSeq(s) = p[m] /\ \A k \in 0..m : p[k] \in Seq(Nat)
      /\ \A k \in 1..m : p[k] = p[k - 1] \o Bytes(kids[k])
      /\ \A j, k \in 0..m : j <= k => StartsWith(p[j], p[k])
  BY <1>3, <1>4 DEF Grown
<1>7. /\ q[0] = <<>> /\ FlattenSeq(u) = q[m] /\ \A k \in 0..m : q[k] \in Seq(Entries)
      /\ \A k \in 1..m : q[k] = q[k - 1] \o Told(kids[k], d)
      /\ \A j, k \in 0..m : j <= k => StartsWith(q[j], q[k])
  BY <1>3, <1>5 DEF Grown
<1>8. \A k \in 0..m : Where(f, k) = f.start + Len(p[k]) /\ SeenAt(f, d, k) = f.seen \o q[k]
  BY DEF Where, SeenAt, p, q
<1>9. ASSUME NEW k \in 0..m
      PROVE  Where(f, k) \in Nat /\ SeenAt(f, d, k) \in Seq(Entries)
  <2>1. p[k] \in Seq(Nat) /\ q[k] \in Seq(Entries)
    BY <1>6, <1>7
  <2>2. Len(p[k]) \in Nat /\ f.seen \o q[k] \in Seq(Entries)
    BY <1>1, <2>1
  <2>3. Where(f, k) = f.start + Len(p[k]) /\ SeenAt(f, d, k) = f.seen \o q[k]
    BY <1>8
  <2>4. f.start + Len(p[k]) \in Nat
    BY <1>1, <2>2
  <2> QED
    BY <2>2, <2>3, <2>4
<1>10. ASSUME NEW j \in 0..m, NEW k \in 0..m, j <= k
       PROVE  Where(f, j) <= Where(f, k) /\ StartsWith(SeenAt(f, d, j), SeenAt(f, d, k))
  <2>1. p[j] \in Seq(Nat) /\ p[k] \in Seq(Nat) /\ q[j] \in Seq(Entries) /\ q[k] \in Seq(Entries)
    BY <1>6, <1>7
  <2>2. StartsWith(p[j], p[k]) /\ StartsWith(q[j], q[k])
    BY <1>6, <1>7, <1>10
  <2>3. Len(p[j]) <= Len(p[k]) /\ Len(p[j]) \in Nat /\ Len(p[k]) \in Nat
    BY <2>1, <2>2 DEF StartsWith
  <2>4. StartsWith(f.seen \o q[j], f.seen \o q[k])
    BY <1>1, <2>1, <2>2, StartsBehind
  <2>5. /\ Where(f, j) = f.start + Len(p[j]) /\ SeenAt(f, d, j) = f.seen \o q[j]
        /\ Where(f, k) = f.start + Len(p[k]) /\ SeenAt(f, d, k) = f.seen \o q[k]
    BY <1>8
  <2>6. f.start + Len(p[j]) <= f.start + Len(p[k])
    BY <1>1, <2>3
  <2> QED
    BY <2>4, <2>5, <2>6
<1>11. Where(f, 0) = f.start /\ SeenAt(f, d, 0) = f.seen
  <2>1. f.seen \o <<>> = f.seen /\ Len(<<>>) = 0
    BY <1>1
  <2>2. Where(f, 0) = f.start + Len(p[0]) /\ SeenAt(f, d, 0) = f.seen \o q[0]
    <3>1. 0 \in 0..m
      BY <1>2
    <3> QED
      BY <1>8, <3>1
  <2>3. Where(f, 0) = f.start + Len(<<>>) /\ SeenAt(f, d, 0) = f.seen \o <<>>
    BY <1>6, <1>7, <2>2
  <2>4. f.start + 0 = f.start
    BY <1>1
  <2> QED
    BY <2>1, <2>3, <2>4
<1>12. ASSUME NEW k \in 1..m
       PROVE  /\ Where(f, k) = Where(f, k - 1) + Len(Bytes(kids[k]))
              /\ SeenAt(f, d, k) = SeenAt(f, d, k - 1) \o Told(kids[k], d)
  <2>1. k \in 0..m /\ k - 1 \in 0..m /\ kids[k] \in 1..Len(tree)
    BY <1>2
  <2>2. p[k - 1] \in Seq(Nat) /\ q[k - 1] \in Seq(Entries)
    BY <1>6, <1>7, <2>1
  <2>3. Bytes(kids[k]) \in Seq(Nat) /\ Told(kids[k], d) \in Seq(Entries)
    BY <2>1, NodeTypes
  <2>4. p[k] = p[k - 1] \o Bytes(kids[k]) /\ q[k] = q[k - 1] \o Told(kids[k], d)
    BY <1>6, <1>7
  <2> DEFINE v == p[k - 1]
             w == Bytes(kids[k])
             x == q[k - 1]
             y == Told(kids[k], d)
  <2>5. /\ Where(f, k) = f.start + Len(v \o w) /\ SeenAt(f, d, k) = f.seen \o (x \o y)
        /\ Where(f, k - 1) = f.start + Len(v) /\ SeenAt(f, d, k - 1) = f.seen \o x
    BY <1>8, <2>1, <2>4
  <2>6. v \in Seq(Nat) /\ w \in Seq(Nat) /\ x \in Seq(Entries) /\ y \in Seq(Entries)
    BY <2>2, <2>3
  <2> HIDE DEF v, w, x, y
  <2>7. Len(v \o w) = Len(v) + Len(w) /\ Len(v) \in Nat /\ Len(w) \in Nat
    BY <2>6
  <2>8. \A a, b, c \in Seq(Entries) : a \o (b \o c) = (a \o b) \o c
    BY Associates
  <2>9. f.seen \o (x \o y) = (f.seen \o x) \o y
    BY <1>1, <2>6, <2>8, Zenon
  <2>10. Where(f, k) = Where(f, k - 1) + Len(w)
    BY <1>1, <2>5, <2>7
  <2> QED
    BY <2>5, <2>9, <2>10 DEF v, w, x, y
<1> QED
  BY <1>2, <1>6, <1>7, <1>9, <1>10, <1>11, <1>12, Zenon DEF BlockFacts, kids, m, p, q, s, u

\* Children that were left out change nothing: the next one that was not
\* lies where the reader is.
NextKept(f, d, j, k) ==
    /\ k \in j..All(f)
    /\ Where(f, k) = Where(f, j) /\ SeenAt(f, d, k) = SeenAt(f, d, j)
    /\ k = All(f) \/ Bytes(f.kids[k + 1]) # <<>>

LEMMA SkipLeftOut ==
  ASSUME SoundTree(tree), NEW f \in Blocks, NEW d \in Nat, NEW j \in 0..All(f)
  PROVE  \E k : NextKept(f, d, j, k)
<1> DEFINE m == All(f)
           S == {c \in Nat : \A i \in 0..m : m - i = c => \E k : NextKept(f, d, i, k)}
<1>1. BlockFacts(f, d) /\ m \in Nat
  BY BlockFactsHold DEF BlockFacts
<1>2. 0 \in S
  <2> SUFFICES ASSUME NEW i \in 0..m, m - i = 0 PROVE NextKept(f, d, i, m)
    OBVIOUS
  <2>1. i = m
    BY <1>1
  <2> QED
    BY <1>1, <2>1 DEF NextKept
<1>3. ASSUME NEW c \in Nat, c \in S PROVE c + 1 \in S
  <2> SUFFICES ASSUME NEW i \in 0..m, m - i = c + 1 PROVE \E k : NextKept(f, d, i, k)
    OBVIOUS
  <2>1. i + 1 \in 0..m /\ i + 1 \in 1..m /\ (i + 1) - 1 = i /\ m - (i + 1) = c
    BY <1>1
  <2>2. /\ f.kids[i + 1] \in 1..Len(tree)
        /\ Where(f, i + 1) = Where(f, i) + Len(Bytes(f.kids[i + 1])) /\ Where(f, i) \in Nat
        /\ SeenAt(f, d, i + 1) = SeenAt(f, d, i) \o Told(f.kids[i + 1], d)
        /\ SeenAt(f, d, i) \in Seq(Entries)
    BY <1>1, <2>1 DEF BlockFacts
  <2>3. CASE Bytes(f.kids[i + 1]) = <<>>
    <3>1. LeftOut(f.kids[i + 1])
      BY <2>2, <2>3, EmptyIsLeftOut
    <3>2. Told(f.kids[i + 1], d) = <<>> /\ Len(<<>>) = 0
      BY <3>1 DEF LeftOut
    <3>3. Where(f, i + 1) = Where(f, i) /\ SeenAt(f, d, i + 1) = SeenAt(f, d, i)
      BY <2>2, <2>3, <3>2
    <3>4. PICK k : NextKept(f, d, i + 1, k)
      BY <1>3, <2>1
    <3>5. k \in i..m
      BY <2>1, <3>4 DEF NextKept
    <3>6. NextKept(f, d, i, k)
      BY <3>3, <3>4, <3>5 DEF NextKept
    <3> QED
      BY <3>6
  <2>4. CASE Bytes(f.kids[i + 1]) # <<>>
    <3>1. i \in i..m
      OBVIOUS
    <3>2. NextKept(f, d, i, i)
      BY <2>4, <3>1 DEF NextKept
    <3> QED
      BY <3>2
  <2> QED
    BY <2>3, <2>4
<1> HIDE DEF S
<1>4. \A c \in Nat : c \in S
  BY <1>2, <1>3, Upwards, Zenon
<1>5. m - j \in Nat /\ m - j \in S
  BY <1>1, <1>4
<1> QED
  BY <1>5 DEF S

-----------------------------------------------------------------------------
(* The invariant *)

BlockOK(f, d, end) ==
    /\ f \in Blocks /\ f.done <= All(f)
    /\ end = Where(f, All(f))
    /\ Holds(bytes, f.start, ByteParts(f)[All(f)])
    /\ StartsWith(SeenAt(f, d, All(f)), Outline(tree))

\* The block g is the child after those that f has passed.
Inside(f, d, g) ==
    /\ f.done < All(f)
    /\ Where(g, All(g)) = Where(f, f.done + 1)
    /\ SeenAt(g, d + 1, All(g)) = SeenAt(f, d, f.done + 1)

WholeTree(f) == Where(f, All(f)) = Len(bytes) /\ SeenAt(f, 1, All(f)) = Outline(tree)

\* The blocks fs are those the reader is inside of, outermost first, when
\* they end at `until`, it is at `place` and has read `seen`.
Walks(fs, until, place, seen) ==
    /\ fs \in Seq(Blocks) /\ Len(fs) = Len(until)
    /\ \A d \in 1..Len(fs) : BlockOK(fs[d], d, until[d])
    /\ \A d \in 1..Len(fs) : d < Len(fs) => Inside(fs[d], d, fs[d + 1])
    /\ fs # <<>> => /\ place = Where(fs[Len(fs)], fs[Len(fs)].done)
                    /\ seen = SeenAt(fs[Len(fs)], Len(fs), fs[Len(fs)].done)
                    /\ WholeTree(fs[1])
    /\ fs = <<>> => place = Len(bytes) /\ seen = Outline(tree)

WalkInv ==
    /\ SoundTree(tree)
    /\ bytes \in Seq(Nat) /\ ends \in Seq(Nat) /\ Outline(tree) \in Seq(Entries)
    /\ \E fs : Walks(fs, ends, offset, visits)

LEMMA SoundPrograms == \A t \in Programs : SoundTree(t)
<1> SUFFICES ASSUME NEW t \in Programs PROVE SoundTree(t)
  OBVIOUS
<1>1. t \in Seq(Nodes) /\ t # <<>> /\ \A i \in DOMAIN t : RefersBack(t, i)
  BY AstAssumption
<1>2. DOMAIN t = 1..Len(t)
  BY <1>1
<1> QED
  BY <1>1, <1>2 DEF SoundTree

LEMMA WalkStarts == AstInit => WalkInv
<1> SUFFICES ASSUME AstInit PROVE WalkInv
  OBVIOUS
<1>1. /\ SoundTree(tree) /\ bytes = Last(Serialized(tree)) /\ offset = 0 /\ ends = <<Len(bytes)>> /\ visits = <<>>
  BY SoundPrograms DEF AstInit
<1> DEFINE N == Len(tree)
           f == [kids |-> <<N>>, done |-> 0, start |-> 0, seen |-> <<>>]
<1>2. N \in Nat /\ N \in 1..N
  BY <1>1 DEF SoundTree
<1>3. Len(Serialized(tree)) = N /\ Len(Outlines(tree)) = N
  BY <1>1, SerializedTable, OutlinesTable, Zenon
<1>4. bytes = Bytes(N) /\ Outline(tree) = Told(N, 1)
  BY <1>1, <1>3 DEF Last, Bytes, Outline, Told
<1>5. bytes \in Seq(Nat) /\ Outline(tree) \in Seq(Entries)
  BY <1>1, <1>2, <1>4, NodeTypes
<1>6. f \in Blocks
  BY <1>2 DEF Blocks
<1>7. All(f) = 1 /\ f.kids[1] = N /\ f.done = 0 /\ f.start = 0 /\ f.seen = <<>>
  BY DEF All
<1> HIDE DEF f, N
<1>8. BlockFacts(f, 1)
  BY <1>1, <1>6, BlockFactsHold
<1>9. /\ Where(f, 0) = 0 /\ SeenAt(f, 1, 0) = <<>>
      /\ Where(f, 1) = Len(bytes) /\ SeenAt(f, 1, 1) = Outline(tree)
  <2>1. 1 \in 1..All(f) /\ 1 - 1 = 0 /\ Len(bytes) \in Nat
    BY <1>5, <1>7
  <2>2. Where(f, 0) = 0 /\ SeenAt(f, 1, 0) = <<>>
    BY <1>7, <1>8 DEF BlockFacts
  <2>3. /\ Where(f, 1) = Where(f, 1 - 1) + Len(Bytes(f.kids[1]))
        /\ SeenAt(f, 1, 1) = SeenAt(f, 1, 1 - 1) \o Told(f.kids[1], 1)
    BY <1>8, <2>1 DEF BlockFacts
  <2>4. Where(f, 1) = 0 + Len(bytes) /\ SeenAt(f, 1, 1) = <<>> \o Outline(tree)
    BY <1>4, <1>7, <2>1, <2>2, <2>3
  <2>5. <<>> \o Outline(tree) = Outline(tree)
    BY <1>5
  <2> QED
    BY <2>1, <2>2, <2>4, <2>5
<1>10. ByteParts(f)[1] = bytes
  <2>1. Makes(Nat, KidBytes(f.kids), ByteParts(f))
    <3>1. f.kids \in Seq(1..Len(tree))
      BY <1>6 DEF Blocks
    <3>2. KidBytes(f.kids) \in Seq(Seq(Nat))
      BY <1>1, <3>1, KidTypes
    <3> QED
      BY <3>2, FlattenParts DEF ByteParts
  <2>2. KidBytes(f.kids) \in Seq(Seq(Nat)) /\ Len(KidBytes(f.kids)) = 1 /\ KidBytes(f.kids)[1] = bytes
    <3>1. f.kids \in Seq(1..Len(tree)) /\ Len(f.kids) = 1 /\ 1 \in 1..Len(f.kids)
      BY <1>6, <1>7 DEF Blocks, All
    <3> QED
      BY <1>1, <1>4, <1>7, <3>1, KidTypes
  <2>3. 1 \in 1..Len(KidBytes(f.kids)) /\ 1 - 1 = 0
    BY <2>2
  <2>4. ByteParts(f)[1] = ByteParts(f)[1 - 1] \o KidBytes(f.kids)[1] /\ ByteParts(f)[0] = <<>>
    BY <2>1, <2>3, Zenon DEF Makes
  <2>5. <<>> \o bytes = bytes
    BY <1>5
  <2> QED
    BY <2>2, <2>3, <2>4, <2>5
<1>11. BlockOK(f, 1, Len(bytes))
  <2>1. Holds(bytes, 0, bytes)
    BY <1>5 DEF Holds
  <2>2. StartsWith(Outline(tree), Outline(tree))
    BY <1>5, StartsItself
  <2> QED
    BY <1>6, <1>7, <1>9, <1>10, <2>1, <2>2 DEF BlockOK
<1>12. Walks(<<f>>, ends, offset, visits)
  <2>1. <<f>> \in Seq(Blocks) /\ Len(<<f>>) = 1 /\ <<f>>[1] = f /\ <<f>> # <<>> /\ 1..1 = {1}
    BY <1>6
  <2>2. Len(ends) = 1 /\ ends[1] = Len(bytes)
    BY <1>1
  <2>3. offset = Where(f, f.done) /\ visits = SeenAt(f, 1, f.done) /\ WholeTree(f)
    BY <1>1, <1>7, <1>9 DEF WholeTree
  <2> DEFINE fs == <<f>>
  <2> HIDE DEF fs
  <2>4. fs \in Seq(Blocks) /\ Len(fs) = 1 /\ fs[1] = f /\ fs # <<>>
    BY <2>1 DEF fs
  <2>5. Walks(fs, ends, offset, visits)
    BY <1>11, <2>1, <2>2, <2>3, <2>4 DEF Walks
  <2> QED
    BY <2>5 DEF fs
<1>13. ends \in Seq(Nat)
  <2>1. Len(bytes) \in Nat
    BY <1>5
  <2> QED
    BY <1>1, <2>1
<1> QED
  BY <1>1, <1>5, <1>12, <1>13 DEF WalkInv

\* All this depends on the tree and its bytes, which no step changes.
LEMMA BlockStays ==
  ASSUME tree' = tree, bytes' = bytes
  PROVE  /\ SoundTree(tree)' = SoundTree(tree) /\ Outline(tree)' = Outline(tree) /\ Blocks' = Blocks
         /\ \A f, k : Where(f, k)' = Where(f, k)
         /\ \A f, d, k : SeenAt(f, d, k)' = SeenAt(f, d, k)
         /\ \A f, d, end : BlockOK(f, d, end)' = BlockOK(f, d, end)
         /\ \A f, d, g : Inside(f, d, g)' = Inside(f, d, g)
         /\ \A f : WholeTree(f)' = WholeTree(f)
<1>1. (\A i : Bytes(i)' = Bytes(i)) /\ (\A i, d : Told(i, d)' = Told(i, d))
  BY DEF Bytes, Told
<1>2. \A kids : KidBytes(kids)' = KidBytes(kids)
  BY <1>1 DEF KidBytes
<1>3. \A kids, d : KidTold(kids, d)' = KidTold(kids, d)
  BY <1>1 DEF KidTold
<1>4. \A f : ByteParts(f)' = ByteParts(f)
  BY <1>2 DEF ByteParts
<1>5. \A f, d : ToldParts(f, d)' = ToldParts(f, d)
  BY <1>3 DEF ToldParts
<1>6. (\A f, k : Where(f, k)' = Where(f, k)) /\ (\A f, d, k : SeenAt(f, d, k)' = SeenAt(f, d, k))
  BY <1>4, <1>5 DEF Where, SeenAt
<1>7. SoundTree(tree)' = SoundTree(tree) /\ Outline(tree)' = Outline(tree) /\ Blocks' = Blocks
  BY DEF Blocks
<1>8. \A f, d, end : BlockOK(f, d, end)' = BlockOK(f, d, end)
  BY <1>4, <1>6, <1>7 DEF BlockOK, All
<1>9. \A f, d, g : Inside(f, d, g)' = Inside(f, d, g)
  BY <1>6 DEF Inside, All
<1>10. \A f : WholeTree(f)' = WholeTree(f)
  BY <1>6, <1>7 DEF WholeTree, All
<1> QED
  BY <1>6, <1>7, <1>8, <1>9, <1>10

-----------------------------------------------------------------------------
(* A step *)

\* The reader has passed k children of the block.
At(f, k) == [f EXCEPT !.done = k]

SameBlock(g, f) ==
    /\ All(g) = All(f) /\ ByteParts(g) = ByteParts(f) /\ g.start = f.start
    /\ \A j : Where(g, j) = Where(f, j)
    /\ \A d, j : SeenAt(g, d, j) = SeenAt(f, d, j)

LEMMA DoneOnly ==
  ASSUME NEW f \in Blocks, NEW k \in Nat
  PROVE  At(f, k) \in Blocks /\ At(f, k).done = k /\ SameBlock(At(f, k), f)
<1>1. /\ At(f, k) \in Blocks /\ At(f, k).done = k
      /\ At(f, k).kids = f.kids /\ At(f, k).start = f.start /\ At(f, k).seen = f.seen
  BY DEF At, Blocks
<1>2. /\ All(At(f, k)) = All(f) /\ ByteParts(At(f, k)) = ByteParts(f)
      /\ \A d : ToldParts(At(f, k), d) = ToldParts(f, d)
  BY <1>1 DEF All, ByteParts, ToldParts
<1> QED
  BY <1>1, <1>2 DEF SameBlock, Where, SeenAt

LEMMA BlockPasses ==
  ASSUME NEW f, NEW d, NEW end, BlockOK(f, d, end), NEW k \in Nat, k <= All(f)
  PROVE  BlockOK(At(f, k), d, end)
<1>1. At(f, k) \in Blocks /\ At(f, k).done = k /\ SameBlock(At(f, k), f)
  BY DoneOnly DEF BlockOK
<1> QED
  BY <1>1 DEF BlockOK, SameBlock

LEMMA OuterStays ==
  ASSUME NEW f \in Blocks, NEW k \in Nat, NEW e, NEW d
  PROVE  /\ Inside(e, d, f) => Inside(e, d, At(f, k))
         /\ WholeTree(f) => WholeTree(At(f, k))
<1>1. SameBlock(At(f, k), f)
  BY DoneOnly
<1> QED
  BY <1>1 DEF Inside, WholeTree, SameBlock

\* The node the reader stands on: the next child that was not left out.
ChildAt(f, d, k, r) ==
    /\ k \in Nat /\ k + 1 \in 1..All(f) /\ r \in 1..Len(tree) /\ tree[r].type \in Types
    /\ offset \in Nat /\ visits \in Seq(Entries)
    /\ offset = Where(f, k) /\ visits = SeenAt(f, d, k)
    /\ Holds(bytes, offset, Bytes(r))
    /\ Where(f, k + 1) = offset + Len(Bytes(r))
    /\ SeenAt(f, d, k + 1) = visits \o Told(r, d)

LEMMA NextChild ==
  ASSUME SoundTree(tree), bytes \in Seq(Nat), NEW d \in Nat, NEW f, NEW end, BlockOK(f, d, end),
         offset = Where(f, f.done), visits = SeenAt(f, d, f.done), offset < end
  PROVE  \E k, r : ChildAt(f, d, k, r)
<1>1. f \in Blocks /\ f.done \in Nat /\ f.done <= All(f) /\ end = Where(f, All(f))
  BY DEF BlockOK, Blocks
<1>2. BlockFacts(f, d) /\ All(f) \in Nat /\ f.done \in 0..All(f)
  <2>1. BlockFacts(f, d)
    BY <1>1, BlockFactsHold
  <2>2. All(f) \in Nat
    BY <2>1 DEF BlockFacts
  <2> QED
    BY <1>1, <2>1, <2>2
<1>3. PICK k : NextKept(f, d, f.done, k)
  BY <1>1, <1>2, SkipLeftOut
<1>4. k \in 0..All(f) /\ k # All(f)
  <2>1. k \in 0..All(f) /\ Where(f, k) = offset
    BY <1>2, <1>3 DEF NextKept
  <2>2. Where(f, k) \in Nat /\ Where(f, All(f)) \in Nat
    BY <1>2, <2>1 DEF BlockFacts
  <2> QED
    BY <1>1, <2>1, <2>2
<1>5. k \in Nat /\ k + 1 \in 1..All(f) /\ (k + 1) - 1 = k
  BY <1>2, <1>4
<1>6. /\ offset = Where(f, k) /\ visits = SeenAt(f, d, k) /\ offset \in Nat /\ visits \in Seq(Entries)
      /\ f.kids[k + 1] \in 1..Len(tree) /\ Bytes(f.kids[k + 1]) # <<>>
      /\ Where(f, k + 1) = offset + Len(Bytes(f.kids[k + 1]))
      /\ SeenAt(f, d, k + 1) = visits \o Told(f.kids[k + 1], d)
  <2>1. Where(f, k) \in Nat /\ SeenAt(f, d, k) \in Seq(Entries)
    BY <1>2, <1>4 DEF BlockFacts
  <2>2. offset = Where(f, k) /\ visits = SeenAt(f, d, k) /\ Bytes(f.kids[k + 1]) # <<>>
    BY <1>3, <1>4 DEF NextKept
  <2>3. /\ f.kids[k + 1] \in 1..Len(tree)
        /\ Where(f, k + 1) = Where(f, (k + 1) - 1) + Len(Bytes(f.kids[k + 1]))
        /\ SeenAt(f, d, k + 1) = SeenAt(f, d, (k + 1) - 1) \o Told(f.kids[k + 1], d)
    BY <1>2, <1>5, Zenon DEF BlockFacts
  <2> QED
    BY <1>5, <2>1, <2>2, <2>3
<1>7. PICK r : StandsFor(f.kids[k + 1], r)
  BY <1>6, EmptyIsLeftOut
<1>8. /\ r \in 1..Len(tree) /\ tree[r].type \in Types
      /\ Bytes(f.kids[k + 1]) = Bytes(r) /\ Told(f.kids[k + 1], d) = Told(r, d)
  BY <1>7 DEF StandsFor
<1>9. Holds(bytes, offset, Bytes(r))
  <2> DEFINE s == KidBytes(f.kids)
             p == ByteParts(f)
  <2>1. f.kids \in Seq(1..Len(tree)) /\ f.start \in Nat /\ Len(f.kids) = All(f)
    BY <1>1 DEF Blocks, All
  <2>2. s \in Seq(Seq(Nat)) /\ Len(s) = All(f) /\ s[k + 1] = Bytes(r)
    BY <1>5, <1>8, <2>1, KidTypes
  <2>3. Makes(Nat, s, p)
    BY <2>2, FlattenParts DEF ByteParts
  <2>4. Holds(bytes, f.start, p[All(f)])
    BY DEF BlockOK
  <2> HIDE DEF s, p
  <2>5. Holds(bytes, f.start + Len(p[(k + 1) - 1]), s[k + 1])
    BY <1>5, <2>1, <2>2, <2>3, <2>4, HoldsParts
  <2>6. offset = f.start + Len(p[k])
    BY <1>6 DEF Where, p
  <2> QED
    BY <1>5, <2>2, <2>5, <2>6
<1>10. ChildAt(f, d, k, r)
  BY <1>5, <1>6, <1>8, <1>9 DEF ChildAt
<1> QED
  BY <1>10

\* Reading the header of a supported node is what the outline says first.
LEMMA ReadsHeader ==
  ASSUME SoundTree(tree), NEW d \in Nat, NEW f, NEW k, NEW r, ChildAt(f, d, k, r), ReadNode, Len(ends) = d
  PROVE  /\ visits' = visits \o <<Entry(tree[r], d)>> /\ visits' \in Seq(Entries)
         /\ tree' = tree /\ bytes' = bytes
         /\ ~IsBlock(tree[r]) => offset' = Where(f, k + 1) /\ ends' = ends /\ visits' = SeenAt(f, d, k + 1)
         /\ IsBlock(tree[r]) => offset' = offset + HeaderSize /\ ends' = Append(ends, Where(f, k + 1))
<1>1. /\ r \in 1..Len(tree) /\ tree[r].type \in Types /\ offset \in Nat /\ Holds(bytes, offset, Bytes(r))
      /\ visits \in Seq(Entries)
  BY DEF ChildAt
<1>2. NodeType = NODE_TYPES[tree[r].type] /\ NodeFlags = Flags(tree[r]) /\ NodeLength = Len(Bytes(r))
  BY <1>1, HeaderIsRead
<1>3. Container <=> IsBlock(tree[r])
  BY <1>1, HeaderIsRead
<1>4. tree[r] \in Nodes
  BY <1>1, ChildrenBefore
<1>5. <<Entry(tree[r], d)>> \in Seq(Entries)
  BY <1>1, <1>4, EntryType
<1>6. visits' = Append(visits, Entry(tree[r], d))
  BY <1>2 DEF ReadNode, Entry
<1>7. visits' = visits \o <<Entry(tree[r], d)>> /\ visits' \in Seq(Entries)
  <2> DEFINE v == Entry(tree[r], d)
  <2>1. v \in Entries
    BY <1>5
  <2> HIDE DEF v
  <2>2. Append(visits, v) = visits \o <<v>> /\ Append(visits, v) \in Seq(Entries)
    BY <1>1, <2>1
  <2> QED
    BY <1>6, <2>2 DEF v
<1>8. tree' = tree /\ bytes' = bytes
  BY DEF ReadNode
<1>9. Where(f, k + 1) = offset + NodeLength /\ SeenAt(f, d, k + 1) = visits \o Told(r, d)
  BY <1>2 DEF ChildAt
<1>10. ASSUME ~IsBlock(tree[r])
       PROVE  offset' = Where(f, k + 1) /\ ends' = ends /\ visits' = SeenAt(f, d, k + 1)
  <2>1. Told(r, d) = <<Entry(tree[r], d)>>
    BY <1>1, <1>10, SupportedNode
  <2>2. offset' = offset + NodeLength /\ ends' = ends
    BY <1>3, <1>10 DEF ReadNode
  <2> QED
    BY <1>7, <1>9, <2>1, <2>2
<1>11. ASSUME IsBlock(tree[r])
       PROVE  offset' = offset + HeaderSize /\ ends' = Append(ends, Where(f, k + 1))
  <2>1. offset' = offset + HeaderSize /\ ends' = Append(ends, offset + NodeLength)
    BY <1>3, <1>11 DEF ReadNode
  <2> QED
    BY <1>9, <2>1
<1> QED
  BY <1>7, <1>8, <1>10, <1>11

Opened(r, read) ==
    [kids |-> tree[r].body, done |-> 0, start |-> offset + HeaderSize, seen |-> read]
GoesInto(f, d, k, r, g) ==
    /\ ChildAt(f, d, k, r) /\ IsBlock(tree[r])
    /\ g = Opened(r, visits \o <<Entry(tree[r], d)>>)
IsInto(f, d, k, r, g) ==
    /\ BlockOK(g, d + 1, Where(f, k + 1)) /\ g \in Blocks /\ g.done = 0
    /\ Inside(At(f, k), d, g)
    /\ Where(g, 0) = offset + HeaderSize /\ SeenAt(g, d + 1, 0) = visits \o <<Entry(tree[r], d)>>

LEMMA OpensBlock ==
  ASSUME SoundTree(tree), bytes \in Seq(Nat), Outline(tree) \in Seq(Entries),
         NEW d \in Nat, NEW f, NEW end, BlockOK(f, d, end), NEW k, NEW r, NEW g, GoesInto(f, d, k, r, g)
  PROVE  IsInto(f, d, k, r, g)
<1> DEFINE v == visits \o <<Entry(tree[r], d)>>
<1>0. ChildAt(f, d, k, r) /\ IsBlock(tree[r]) /\ g = Opened(r, v)
  BY DEF GoesInto
<1>1. /\ r \in 1..Len(tree) /\ tree[r].type \in Types /\ offset \in Nat /\ visits \in Seq(Entries)
      /\ k \in Nat /\ k + 1 \in 1..All(f) /\ Holds(bytes, offset, Bytes(r))
      /\ Where(f, k + 1) = offset + Len(Bytes(r)) /\ SeenAt(f, d, k + 1) = visits \o Told(r, d)
  BY <1>0 DEF ChildAt
<1>2. f \in Blocks
  BY DEF BlockOK
<1>3. BlockFacts(f, d)
  BY <1>2, BlockFactsHold
<1>4. tree[r].body \in Seq(1..Len(tree)) /\ Told(r, d) = <<Entry(tree[r], d)>> \o FlattenSeq(KidTold(tree[r].body, d + 1))
  BY <1>0, <1>1, SupportedNode
<1> DEFINE one == <<Entry(tree[r], d)>>
           told == FlattenSeq(KidTold(tree[r].body, d + 1))
           inner == FlattenSeq(KidBytes(tree[r].body))
<1>5. one \in Seq(Entries) /\ v \in Seq(Entries)
  <2>1. tree[r] \in Nodes
    BY <1>1, ChildrenBefore
  <2>2. one \in Seq(Entries)
    BY <1>1, <2>1, EntryType
  <2>3. v = visits \o one
    OBVIOUS
  <2> HIDE DEF one, v
  <2> QED
    BY <1>1, <2>2, <2>3
<1> HIDE DEF v
<1>6. /\ g.kids = tree[r].body /\ g.done = 0 /\ g.start = offset + HeaderSize /\ g.seen = v
      /\ g \in Blocks
  <2> DEFINE body == tree[r].body
             start == offset + HeaderSize
  <2>1. g = [kids |-> body, done |-> 0, start |-> start, seen |-> v]
    BY <1>0, Zenon DEF Opened
  <2>2. body \in Seq(1..Len(tree)) /\ start \in Nat /\ 0 \in Nat
    BY <1>1, <1>4 DEF HeaderSize
  <2> HIDE DEF body, start
  <2>3. g \in Blocks
    BY <1>5, <2>1, <2>2 DEF Blocks
  <2> QED
    BY <2>1, <2>3 DEF body, start
<1>7. BlockFacts(g, d + 1)
  BY <1>6, BlockFactsHold
<1>8. /\ All(g) \in Nat /\ Where(g, 0) = offset + HeaderSize /\ SeenAt(g, d + 1, 0) = v
      /\ ByteParts(g)[All(g)] = inner /\ ToldParts(g, d + 1)[All(g)] = told
  BY <1>6, <1>7 DEF BlockFacts
<1>9. inner \in Seq(Nat) /\ Len(Bytes(r)) = HeaderSize + Len(inner) /\ Holds(bytes, offset + HeaderSize, inner)
  BY <1>0, <1>1, HeaderIsRead
<1>10. Where(g, All(g)) = Where(f, k + 1)
  <2>1. Where(g, All(g)) = (offset + HeaderSize) + Len(inner)
    BY <1>6, <1>8 DEF Where
  <2>2. Len(inner) \in Nat /\ HeaderSize \in Nat
    BY <1>9 DEF HeaderSize
  <2> HIDE DEF inner
  <2> QED
    BY <1>1, <1>9, <2>1, <2>2
<1>11. SeenAt(g, d + 1, All(g)) = SeenAt(f, d, k + 1)
  <2>1. SeenAt(g, d + 1, All(g)) = (visits \o one) \o told
    BY <1>6, <1>8 DEF SeenAt, v
  <2>2. SeenAt(f, d, k + 1) = visits \o (one \o told)
    BY <1>1, <1>4
  <2>3. told \in Seq(Entries)
    <3> DEFINE u == KidTold(tree[r].body, d + 1)
    <3>1. u \in Seq(Seq(Entries))
      BY <1>4, KidTypes
    <3>2. told = FlattenSeq(u)
      OBVIOUS
    <3> HIDE DEF u, told
    <3>3. Makes(Entries, u, Parts(Entries, u))
      BY <3>1, FlattenParts
    <3>4. Len(u) \in 0..Len(u)
      BY <3>1
    <3> QED
      BY <3>2, <3>3, <3>4 DEF Makes
  <2>4. \A a, b, c \in Seq(Entries) : a \o (b \o c) = (a \o b) \o c
    BY Associates
  <2> HIDE DEF one, told
  <2> QED
    BY <1>1, <1>5, <2>1, <2>2, <2>3, <2>4, Zenon
<1>12. StartsWith(SeenAt(g, d + 1, All(g)), Outline(tree))
  <2>1. k + 1 \in 0..All(f) /\ All(f) \in 0..All(f) /\ k + 1 <= All(f)
    BY <1>1, <1>3 DEF BlockFacts
  <2>2. /\ SeenAt(f, d, k + 1) \in Seq(Entries) /\ SeenAt(f, d, All(f)) \in Seq(Entries)
        /\ StartsWith(SeenAt(f, d, k + 1), SeenAt(f, d, All(f)))
    BY <1>3, <2>1, Zenon DEF BlockFacts
  <2>3. StartsWith(SeenAt(f, d, All(f)), Outline(tree))
    BY DEF BlockOK
  <2> QED
    BY <1>11, <2>2, <2>3, StartsTransitive
<1>13. Holds(bytes, g.start, ByteParts(g)[All(g)])
  BY <1>6, <1>8, <1>9
<1>14. BlockOK(g, d + 1, Where(f, k + 1))
  BY <1>6, <1>8, <1>10, <1>12, <1>13 DEF BlockOK
<1>15. Inside(At(f, k), d, g)
  <2>1. At(f, k).done = k /\ SameBlock(At(f, k), f)
    BY <1>1, <1>2, DoneOnly
  <2>2. k < All(f)
    BY <1>1, <1>3 DEF BlockFacts
  <2> QED
    BY <1>10, <1>11, <2>1, <2>2 DEF Inside, SameBlock
<1> QED
  BY <1>6, <1>8, <1>14, <1>15 DEF IsInto, v

\* The reader has passed more of the innermost block.
LEMMA TopMoves ==
  ASSUME NEW fs, NEW until, NEW place, NEW seen, Walks(fs, until, place, seen), fs # <<>>,
         NEW d, d = Len(fs), NEW k \in Nat, k <= All(fs[d])
  PROVE  Walks([fs EXCEPT ![d] = At(fs[d], k)], until, Where(fs[d], k), SeenAt(fs[d], d, k))
<1> DEFINE f == fs[d]
           gs == [fs EXCEPT ![d] = At(f, k)]
<1>1. fs \in Seq(Blocks) /\ d \in Nat /\ d \in 1..d /\ Len(until) = d /\ f \in Blocks
  BY DEF Walks
<1>2. At(f, k) \in Blocks /\ At(f, k).done = k /\ SameBlock(At(f, k), f)
  BY <1>1, DoneOnly
<1>3. /\ gs \in Seq(Blocks) /\ Len(gs) = d /\ gs[d] = At(f, k) /\ \A j \in 1..d : j # d => gs[j] = fs[j]
      /\ gs # <<>>
  BY <1>1, <1>2
<1> HIDE DEF gs, f
<1>4. ASSUME NEW j \in 1..d PROVE BlockOK(gs[j], j, until[j])
  <2>1. BlockOK(fs[j], j, until[j])
    BY <1>1 DEF Walks
  <2>2. CASE j = d
    BY <1>3, <2>1, <2>2, BlockPasses DEF f
  <2>3. CASE j # d
    BY <1>3, <2>1, <2>3
  <2> QED
    BY <2>2, <2>3
<1>5. ASSUME NEW j \in 1..d, j < d PROVE Inside(gs[j], j, gs[j + 1])
  <2>1. Inside(fs[j], j, fs[j + 1]) /\ j + 1 \in 1..d /\ j # d
    BY <1>1, <1>5 DEF Walks
  <2>2. gs[j] = fs[j]
    BY <1>3, <2>1
  <2>3. CASE j + 1 = d
    BY <1>1, <1>3, <2>1, <2>2, <2>3, OuterStays DEF f
  <2>4. CASE j + 1 # d
    BY <1>3, <2>1, <2>2, <2>4
  <2> QED
    BY <2>3, <2>4
<1>6. WholeTree(gs[1])
  <2>1. WholeTree(fs[1]) /\ 1 \in 1..d
    BY <1>1 DEF Walks
  <2>2. CASE d = 1
    BY <1>1, <1>3, <2>1, <2>2, OuterStays DEF f
  <2>3. CASE d # 1
    BY <1>3, <2>1, <2>3
  <2> QED
    BY <2>2, <2>3
<1>7. Where(f, k) = Where(gs[d], gs[d].done) /\ SeenAt(f, d, k) = SeenAt(gs[d], d, gs[d].done)
  BY <1>2, <1>3 DEF SameBlock
<1> QED
  BY <1>1, <1>3, <1>4, <1>5, <1>6, <1>7 DEF Walks, f, gs

\* The reader goes into a child.
LEMMA TopOpens ==
  ASSUME NEW fs, NEW until \in Seq(Nat), NEW place, NEW seen, Walks(fs, until, place, seen), fs # <<>>,
         NEW d, d = Len(fs), NEW g \in Blocks, NEW end \in Nat,
         BlockOK(g, d + 1, end), Inside(fs[d], d, g)
  PROVE  Walks(Append(fs, g), Append(until, end), Where(g, g.done), SeenAt(g, d + 1, g.done))
<1> DEFINE gs == Append(fs, g)
           new == Append(until, end)
<1>1. fs \in Seq(Blocks) /\ d \in Nat /\ d \in 1..d /\ Len(until) = d
  BY DEF Walks
<1>2. /\ gs \in Seq(Blocks) /\ Len(gs) = d + 1 /\ gs[d + 1] = g /\ \A j \in 1..d : gs[j] = fs[j]
      /\ gs # <<>>
  BY <1>1
<1>3. Len(new) = d + 1 /\ new[d + 1] = end /\ \A j \in 1..d : new[j] = until[j]
  BY <1>1
<1> HIDE DEF gs, new
<1>4. ASSUME NEW j \in 1..(d + 1) PROVE BlockOK(gs[j], j, new[j])
  <2>1. CASE j = d + 1
    BY <1>2, <1>3, <2>1
  <2>2. CASE j # d + 1
    <3>1. j \in 1..d
      BY <1>1, <2>2
    <3>2. BlockOK(fs[j], j, until[j])
      BY <3>1 DEF Walks
    <3> QED
      BY <1>2, <1>3, <3>1, <3>2
  <2> QED
    BY <2>1, <2>2
<1>5. ASSUME NEW j \in 1..(d + 1), j < d + 1 PROVE Inside(gs[j], j, gs[j + 1])
  <2>1. j \in 1..d
    BY <1>1, <1>5
  <2>2. CASE j = d
    BY <1>2, <2>1, <2>2
  <2>3. CASE j # d
    <3>1. j + 1 \in 1..d /\ j < d
      BY <1>1, <2>1, <2>3
    <3>2. Inside(fs[j], j, fs[j + 1])
      BY <2>1, <3>1 DEF Walks
    <3> QED
      BY <1>2, <2>1, <3>1, <3>2
  <2> QED
    BY <2>2, <2>3
<1>6. WholeTree(gs[1])
  <2>1. WholeTree(fs[1]) /\ 1 \in 1..d
    BY <1>1 DEF Walks
  <2> QED
    BY <1>2, <2>1
<1> QED
  BY <1>2, <1>3, <1>4, <1>5, <1>6 DEF Walks, gs, new

\* The reader comes out of the innermost block.
LEMMA TopCloses ==
  ASSUME NEW fs, NEW until \in Seq(Nat), NEW place, NEW seen, Walks(fs, until, place, seen),
         NEW d \in Nat, d > 0, Len(fs) = d + 1
  PROVE  Walks(Front(fs), Front(until), Where(fs[d], fs[d].done), SeenAt(fs[d], d, fs[d].done))
<1> DEFINE gs == Front(fs)
           new == Front(until)
<1>1. fs \in Seq(Blocks) /\ Len(until) = d + 1 /\ d \in 1..d
  BY DEF Walks
<1>2. /\ gs \in Seq(Blocks) /\ Len(gs) = d /\ \A j \in 1..d : gs[j] = fs[j]
      /\ gs # <<>>
  BY <1>1 DEF Front
<1>3. Len(new) = d /\ \A j \in 1..d : new[j] = until[j]
  BY <1>1 DEF Front
<1> HIDE DEF gs, new
<1>4. ASSUME NEW j \in 1..d PROVE BlockOK(gs[j], j, new[j])
  <2>1. j \in 1..(d + 1)
    BY <1>1
  <2>2. BlockOK(fs[j], j, until[j])
    BY <2>1 DEF Walks
  <2> QED
    BY <1>2, <1>3, <2>2
<1>5. ASSUME NEW j \in 1..d, j < d PROVE Inside(gs[j], j, gs[j + 1])
  <2>1. j \in 1..(d + 1) /\ j < d + 1 /\ j + 1 \in 1..d
    BY <1>5
  <2>2. Inside(fs[j], j, fs[j + 1])
    BY <2>1 DEF Walks
  <2> QED
    BY <1>2, <2>1, <2>2
<1>6. WholeTree(gs[1])
  <2>1. WholeTree(fs[1]) /\ 1 \in 1..d
    BY <1>1 DEF Walks
  <2> QED
    BY <1>2, <2>1
<1>7. gs[d] = fs[d]
  BY <1>1, <1>2
<1> QED
  BY <1>2, <1>3, <1>4, <1>5, <1>6, <1>7 DEF Walks, gs, new

\* What the next state walks over, when no step changes the tree.
LEMMA WalksNext ==
  ASSUME tree' = tree, bytes' = bytes, WalkInv, ends' \in Seq(Nat),
         NEW fs, Walks(fs, ends', offset', visits')
  PROVE  WalkInv'
<1>1. /\ SoundTree(tree)' /\ bytes' \in Seq(Nat) /\ Outline(tree)' \in Seq(Entries)
  BY BlockStays DEF WalkInv
<1>2. Walks(fs, ends, offset, visits)'
  BY BlockStays DEF Walks
<1> QED
  BY <1>1, <1>2 DEF WalkInv

LEMMA WalkReads ==
  ASSUME WalkInv, ReadNode
  PROVE  WalkInv'
<1>1. SoundTree(tree) /\ bytes \in Seq(Nat) /\ ends \in Seq(Nat) /\ Outline(tree) \in Seq(Entries)
  BY DEF WalkInv
<1>2. PICK fs : Walks(fs, ends, offset, visits)
  BY DEF WalkInv
<1>3. ends # <<>> /\ offset < Last(ends)
  BY DEF ReadNode
<1> DEFINE d == Len(fs)
           f == fs[d]
           end == ends[d]
<1>4. /\ fs \in Seq(Blocks) /\ d \in Nat /\ d \in 1..d /\ Len(ends) = d /\ fs # <<>> /\ Last(ends) = end
      /\ f \in Blocks
  BY <1>1, <1>2, <1>3 DEF Walks, Last
<1>5. BlockOK(f, d, end) /\ offset = Where(f, f.done) /\ visits = SeenAt(f, d, f.done)
  BY <1>2, <1>4 DEF Walks
<1> HIDE DEF d, f, end
<1>6. PICK k, r : ChildAt(f, d, k, r)
  BY <1>1, <1>3, <1>4, <1>5, NextChild
<1>7. ReadNode /\ Len(ends) = d
  BY <1>4
<1>8. /\ visits' = visits \o <<Entry(tree[r], d)>> /\ visits' \in Seq(Entries)
      /\ tree' = tree /\ bytes' = bytes
      /\ ~IsBlock(tree[r]) => offset' = Where(f, k + 1) /\ ends' = ends /\ visits' = SeenAt(f, d, k + 1)
      /\ IsBlock(tree[r]) => offset' = offset + HeaderSize /\ ends' = Append(ends, Where(f, k + 1))
  BY <1>1, <1>4, <1>6, <1>7, ReadsHeader
<1>9. BlockFacts(f, d)
  BY <1>1, <1>4, BlockFactsHold
<1>10. k \in Nat /\ k + 1 \in Nat /\ k + 1 <= All(f) /\ k <= All(f) /\ Where(f, k + 1) \in Nat
  <2>1. All(f) \in Nat /\ k \in Nat /\ k + 1 \in 1..All(f)
    BY <1>6, <1>9 DEF ChildAt, BlockFacts
  <2>2. k + 1 \in 0..All(f)
    BY <2>1
  <2>3. Where(f, k + 1) \in Nat
    BY <1>9, <2>2 DEF BlockFacts
  <2> QED
    BY <2>1, <2>3
<1>11. CASE ~IsBlock(tree[r])
  <2>1. Walks([fs EXCEPT ![d] = At(f, k + 1)], ends, Where(f, k + 1), SeenAt(f, d, k + 1))
    BY <1>2, <1>4, <1>10, TopMoves DEF f, d
  <2>2. Walks([fs EXCEPT ![d] = At(f, k + 1)], ends', offset', visits')
    BY <1>8, <1>11, <2>1
  <2>3. ends' \in Seq(Nat)
    BY <1>1, <1>8, <1>11
  <2> QED
    BY <1>8, <2>2, <2>3, WalksNext
<1>12. CASE IsBlock(tree[r])
  <2> DEFINE gs == [fs EXCEPT ![d] = At(f, k)]
             v == visits \o <<Entry(tree[r], d)>>
             g == Opened(r, v)
             stop == Where(f, k + 1)
  <2>1. Walks(gs, ends, Where(f, k), SeenAt(f, d, k))
    BY <1>2, <1>4, <1>10, TopMoves DEF f, d
  <2>2. gs # <<>> /\ Len(gs) = d /\ gs[d] = At(f, k)
    <3>1. At(f, k) \in Blocks
      BY <1>4, <1>10, DoneOnly
    <3>2. gs \in Seq(Blocks) /\ Len(gs) = d /\ gs[d] = At(f, k)
      BY <1>4, <3>1 DEF d
    <3> QED
      BY <1>4, <3>2
  <2> HIDE DEF gs
  <2>3. /\ BlockOK(g, d + 1, stop) /\ g \in Blocks /\ g.done = 0 /\ Inside(At(f, k), d, g)
        /\ Where(g, 0) = offset + HeaderSize /\ SeenAt(g, d + 1, 0) = v
    <3>1. GoesInto(f, d, k, r, g)
      BY <1>6, <1>12, Zenon DEF GoesInto
    <3> HIDE DEF v, g
    <3>2. IsInto(f, d, k, r, g)
      BY <1>1, <1>4, <1>5, <3>1, OpensBlock, Zenon
    <3> QED
      BY <3>2 DEF IsInto, v
  <2>6. visits' = v /\ offset' = offset + HeaderSize /\ ends' = Append(ends, stop) /\ stop \in Nat
    BY <1>8, <1>10, <1>12
  <2> HIDE DEF g, v, stop
  <2>4. Walks(Append(gs, g), Append(ends, stop), Where(g, g.done), SeenAt(g, d + 1, g.done))
    BY <1>1, <2>1, <2>2, <2>3, <2>6, TopOpens
  <2>5. Walks(Append(gs, g), ends', offset', visits')
    BY <2>3, <2>4, <2>6
  <2>7. ends' \in Seq(Nat)
    BY <1>1, <2>6
  <2> QED
    BY <1>8, <2>5, <2>7, WalksNext
<1> QED
  BY <1>11, <1>12

LEMMA WalkLeaves ==
  ASSUME WalkInv, LeaveNode
  PROVE  WalkInv'
<1>1. SoundTree(tree) /\ bytes \in Seq(Nat) /\ ends \in Seq(Nat) /\ Outline(tree) \in Seq(Entries)
  BY DEF WalkInv
<1>2. PICK fs : Walks(fs, ends, offset, visits)
  BY DEF WalkInv
<1>3. /\ ends # <<>> /\ offset >= Last(ends) /\ ends' = Front(ends)
      /\ offset' = offset /\ visits' = visits /\ tree' = tree /\ bytes' = bytes
  BY DEF LeaveNode
<1> DEFINE d == Len(fs)
           f == fs[d]
           end == ends[d]
<1>4. /\ fs \in Seq(Blocks) /\ d \in Nat /\ d \in 1..d /\ Len(ends) = d /\ fs # <<>> /\ Last(ends) = end
      /\ f \in Blocks
  BY <1>1, <1>2, <1>3 DEF Walks, Last
<1>5. BlockOK(f, d, end) /\ offset = Where(f, f.done) /\ visits = SeenAt(f, d, f.done)
  BY <1>2, <1>4 DEF Walks
<1>6. ends' \in Seq(Nat)
  BY <1>1, <1>3 DEF Front
<1> HIDE DEF d, f, end
<1>7. BlockFacts(f, d)
  BY <1>1, <1>4, BlockFactsHold
<1>8. /\ All(f) \in Nat /\ f.done \in 0..All(f) /\ end = Where(f, All(f))
  BY <1>4, <1>5, <1>7 DEF BlockOK, BlockFacts, Blocks
<1>9. PICK k : NextKept(f, d, f.done, k)
  BY <1>1, <1>4, <1>8, SkipLeftOut
<1>10. k = All(f)
  <2> SUFFICES ASSUME k # All(f) PROVE FALSE
    OBVIOUS
  <2>1. /\ k \in 0..All(f) /\ Where(f, k) = offset /\ visits = SeenAt(f, d, k)
        /\ Bytes(f.kids[k + 1]) # <<>>
    BY <1>5, <1>8, <1>9 DEF NextKept
  <2>2. /\ k + 1 \in 1..All(f) /\ (k + 1) - 1 = k /\ k + 1 \in 0..All(f) /\ All(f) \in 0..All(f)
        /\ k + 1 <= All(f)
    BY <1>8, <2>1
  <2>3. /\ Where(f, k + 1) = Where(f, (k + 1) - 1) + Len(Bytes(f.kids[k + 1])) /\ f.kids[k + 1] \in 1..Len(tree)
        /\ Where(f, k + 1) <= Where(f, All(f))
        /\ Where(f, k) \in Nat /\ Where(f, k + 1) \in Nat /\ Where(f, All(f)) \in Nat
    BY <1>7, <2>1, <2>2, Zenon DEF BlockFacts
  <2>4. Bytes(f.kids[k + 1]) \in Seq(Nat)
    BY <1>1, <2>3, NodeTypes
  <2>5. Len(Bytes(f.kids[k + 1])) > 0
    BY <2>1, <2>4
  <2> QED
    BY <1>3, <1>4, <1>8, <2>1, <2>2, <2>3, <2>5
<1>11. offset = Where(f, All(f)) /\ visits = SeenAt(f, d, All(f))
  BY <1>5, <1>9, <1>10 DEF NextKept
<1>12. CASE d = 1
  <2>1. offset = Len(bytes) /\ visits = Outline(tree)
    BY <1>2, <1>4, <1>11, <1>12 DEF Walks, WholeTree, f
  <2>2. ends' = <<>>
    BY <1>1, <1>3, <1>4, <1>12 DEF Front
  <2>3. <<>> \in Seq(Blocks) /\ Len(<<>>) = 0
    OBVIOUS
  <2>4. Walks(<<>>, ends', offset', visits')
    BY <1>3, <2>1, <2>2, <2>3 DEF Walks
  <2> QED
    BY <1>3, <1>6, <2>4, WalksNext
<1>13. CASE d # 1
  <2> DEFINE c == d - 1
             gs == Front(fs)
             h == fs[c]
  <2>1. c \in Nat /\ c > 0 /\ d = c + 1 /\ c \in 1..d /\ c < d
    BY <1>4, <1>13
  <2>2. Inside(h, c, f) /\ h \in Blocks
    BY <1>2, <1>4, <2>1 DEF Walks, d, f
  <2> HIDE DEF c, h
  <2>3. Walks(gs, ends', Where(h, h.done), SeenAt(h, c, h.done))
    BY <1>1, <1>2, <1>3, <2>1, TopCloses DEF d, h
  <2>4. gs # <<>> /\ Len(gs) = c /\ gs[c] = h
    BY <1>4, <2>1 DEF Front, d, h
  <2> HIDE DEF gs
  <2>5. h.done + 1 \in Nat /\ h.done + 1 <= All(h)
    <3>1. h.done \in Nat /\ h.done < All(h)
      BY <2>2 DEF Inside, Blocks
    <3>2. All(h) \in Nat
      BY <2>2 DEF All, Blocks
    <3> QED
      BY <3>1, <3>2
  <2>6. Walks([gs EXCEPT ![c] = At(h, h.done + 1)], ends', Where(h, h.done + 1), SeenAt(h, c, h.done + 1))
    BY <2>3, <2>4, <2>5, TopMoves
  <2>7. offset' = Where(h, h.done + 1) /\ visits' = SeenAt(h, c, h.done + 1)
    BY <1>3, <1>11, <2>1, <2>2 DEF Inside
  <2>8. Walks([gs EXCEPT ![c] = At(h, h.done + 1)], ends', offset', visits')
    BY <2>6, <2>7
  <2> QED
    BY <1>3, <1>6, <2>8, WalksNext
<1> QED
  BY <1>12, <1>13

LEMMA WalkInvHolds == AstSpec => []WalkInv
<1>1. WalkInv /\ [AstNext]_astVars => WalkInv'
  <2> SUFFICES ASSUME WalkInv, [AstNext]_astVars PROVE WalkInv'
    OBVIOUS
  <2>1. CASE ReadNode
    BY <2>1, WalkReads
  <2>2. CASE LeaveNode
    BY <2>2, WalkLeaves
  <2>3. CASE UNCHANGED astVars
    <3>1. tree' = tree /\ bytes' = bytes /\ offset' = offset /\ ends' = ends /\ visits' = visits
      BY <2>3 DEF astVars
    <3>2. PICK fs : Walks(fs, ends, offset, visits)
      BY DEF WalkInv
    <3>3. Walks(fs, ends', offset', visits') /\ ends' \in Seq(Nat)
      BY <3>1, <3>2 DEF WalkInv
    <3> QED
      BY <3>1, <3>3, WalksNext
  <2> QED
    BY <2>1, <2>2, <2>3 DEF AstNext
<1> QED
  BY <1>1, WalkStarts, PTL DEF AstSpec

\* A node never reaches beyond the node it is in, and the reader stands on
\* the end of a node exactly when it comes there; what it has found by the
\* lengths in the headers is what the program says.
THEOREM StatementsAreFound == AstSpec => []WalkFindsStatements
<1>1. WalkInv => WalkFindsStatements
  <2> SUFFICES ASSUME WalkInv PROVE WalkFindsStatements
    OBVIOUS
  <2>1. SoundTree(tree) /\ bytes \in Seq(Nat) /\ ends \in Seq(Nat) /\ Outline(tree) \in Seq(Entries)
    BY DEF WalkInv
  <2>2. PICK fs : Walks(fs, ends, offset, visits)
    BY DEF WalkInv
  <2> DEFINE d == Len(fs)
  <2>3. fs \in Seq(Blocks) /\ d \in Nat /\ Len(ends) = d
    BY <2>2 DEF Walks
  <2>4. ASSUME NEW j \in 1..d
        PROVE  /\ fs[j] \in Blocks /\ ends[j] = Where(fs[j], All(fs[j])) /\ fs[j].done \in 0..All(fs[j])
               /\ All(fs[j]) \in Nat /\ BlockFacts(fs[j], j)
    <3>1. BlockOK(fs[j], j, ends[j])
      BY <2>2 DEF Walks
    <3>2. fs[j] \in Blocks /\ BlockFacts(fs[j], j)
      BY <2>1, <3>1, BlockFactsHold DEF BlockOK
    <3>3. fs[j].done <= All(fs[j]) /\ ends[j] = Where(fs[j], All(fs[j]))
      BY <3>1 DEF BlockOK
    <3>4. All(fs[j]) \in Nat
      BY <3>2 DEF BlockFacts
    <3>5. fs[j].done \in Nat
      BY <3>2 DEF Blocks
    <3> QED
      BY <3>2, <3>3, <3>4, <3>5
  <2>5. ASSUME NEW j \in 2..d
        PROVE  ends[j] <= ends[j - 1]
    <3> DEFINE i == j - 1
               f == fs[i]
    <3>1. i \in 1..d /\ j = i + 1 /\ i < d /\ j \in 1..d
      BY <2>3
    <3>2. Inside(f, i, fs[j])
      BY <2>2, <3>1 DEF Walks
    <3>3. ends[j] = Where(f, f.done + 1) /\ f.done < All(f)
      BY <2>4, <3>1, <3>2 DEF Inside
    <3>4. BlockFacts(f, i) /\ All(f) \in Nat /\ f.done \in 0..All(f) /\ ends[i] = Where(f, All(f))
      BY <2>4, <3>1
    <3> HIDE DEF f, i
    <3>5. f.done + 1 \in 0..All(f) /\ All(f) \in 0..All(f) /\ f.done + 1 <= All(f)
      BY <3>3, <3>4
    <3>6. Where(f, f.done + 1) <= Where(f, All(f))
      BY <3>4, <3>5, Zenon DEF BlockFacts
    <3> QED
      BY <3>3, <3>4, <3>6 DEF i
  <2>6. CASE ends = <<>>
    <3>1. fs = <<>>
      BY <2>3, <2>6
    <3>2. offset = Len(bytes) /\ visits = Outline(tree)
      BY <2>2, <3>1 DEF Walks
    <3>3. IsPrefix(visits, Outline(tree))
      BY <2>1, <3>2, StartsItself, StartsIsPrefix
    <3>4. Nested
      BY <2>3, <2>5, <2>6, <3>2 DEF Nested
    <3> QED
      BY <3>2, <3>3, <3>4 DEF WalkFindsStatements
  <2>7. CASE ends # <<>>
    <3> DEFINE f == fs[d]
    <3>1. d \in 1..d /\ fs # <<>> /\ Last(ends) = ends[d]
      BY <2>1, <2>3, <2>7 DEF Last
    <3>2. /\ f \in Blocks /\ ends[d] = Where(f, All(f)) /\ f.done \in 0..All(f) /\ All(f) \in 0..All(f)
          /\ f.done <= All(f) /\ BlockFacts(f, d)
      BY <2>4, <3>1
    <3>3. offset = Where(f, f.done) /\ visits = SeenAt(f, d, f.done)
      BY <2>2, <3>1 DEF Walks
    <3>4. StartsWith(SeenAt(f, d, All(f)), Outline(tree))
      BY <2>2, <3>1 DEF Walks, BlockOK
    <3> HIDE DEF f, d
    <3>5. /\ Where(f, f.done) <= Where(f, All(f)) /\ StartsWith(SeenAt(f, d, f.done), SeenAt(f, d, All(f)))
          /\ SeenAt(f, d, f.done) \in Seq(Entries) /\ SeenAt(f, d, All(f)) \in Seq(Entries)
      BY <3>2, Zenon DEF BlockFacts
    <3>6. StartsWith(visits, Outline(tree)) /\ visits \in Seq(Entries)
      BY <2>1, <3>3, <3>4, <3>5, StartsTransitive
    <3>7. IsPrefix(visits, Outline(tree))
      BY <2>1, <3>6, StartsIsPrefix
    <3>8. Nested
      BY <2>3, <2>5, <2>7, <3>1, <3>2, <3>3, <3>5 DEF Nested
    <3> QED
      BY <2>7, <3>7, <3>8 DEF WalkFindsStatements
  <2> QED
    BY <2>6, <2>7
<1> QED
  BY <1>1, WalkInvHolds, PTL

=============================================================================
