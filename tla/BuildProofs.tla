------------------------------ MODULE BuildProofs ------------------------------
(***************************************************************************)
(* Theorems about BuildGate, for any number of builders, builds and        *)
(* packagings and any outcomes of a build: what the build script vouches   *)
(* for has passed its checks, and what packaging reports is whole.         *)
(***************************************************************************)
EXTENDS BuildGate, TLAPS

\* What the build that stands at a label has looked for in its module file.
Passed(label) ==
  {gate \in Checked :
    \/ gate = "section" /\ label \in {"kcfi", "import", "node", "read", "write", "compare",
                                      "report"}
    \/ gate = "kcfi" /\ label \in {"import", "node", "read", "write", "compare", "report"}
    \/ gate = "import" /\ label \in {"node", "read", "write", "compare", "report"}}

\* The CRCs that agree, on their way from the file (f) to the comparison (c).
CrcPasses(r, f, c) ==
  \/ r.pc = "write" /\ r.read = "agree"
  \/ r.pc = "compare" /\ c[r.dir] = "agree"
  \/ r.pc = "report"
  => "crc" \notin f[r.dir].defects

\* The file a build (r) has linked keeps passing while no other is linked over
\* it, and its CRCs while no other build writes over those.
Right(r, f, c) ==
  /\ r.own => Passed(r.pc) \cap f[r.dir].defects = {}
  /\ r.own /\ r.alone => CrcPasses(r, f, c)

LinkedPasses == \A b \in Builders : Right(build[b], file, crcs)

\* A build that has been alone in its directory still is.
StillAlone ==
  \A b, c \in Builders :
    b # c /\ build[b].alone /\ build[c].pc # "idle" => build[b].dir # build[c].dir

IdleIsIdle == \A b \in Builders : build[b].pc = "idle" => build[b] = Idle

\* What packaging has by the time it runs a command.  A signal takes the
\* stage directory away, and the commands after it fail.
Staged ==
  /\ stage.there /\ package \in {"module", "zip"} => stage.scripts
  /\ stage.there /\ package = "zip" => stage.module.there
  /\ package \in {"unzip", "succeeded"} /\ zip.state = "whole" =>
       zip.scripts /\ zip.module.there
  /\ package = "succeeded" => zip.state = "whole"

BuildInv == TypeOK /\ VouchedIsChecked /\ LinkedPasses /\ StillAlone /\ IdleIsIdle /\ Staged

Labels == {"idle", "prepare", "link", "section", "kcfi", "import", "node", "read", "write",
           "compare", "report"}
Records == [pc: Labels, dir: Dirs, read: {"absent", "agree", "differ"},
            own: BOOLEAN, alone: BOOLEAN]

\* A file that may be vouched for the way it is.
Honest(m) ==
  /\ m.vouched # "no" => m.defects \subseteq {"crc"}
  /\ m.vouched = "alone" => "crc" \notin m.defects

-----------------------------------------------------------------------------
LEMMA NoneIsModule ==
  None \in Modules /\ None.vouched = "no" /\ ~None.there /\ None.defects = {} /\ Honest(None)
BY DEF None, Modules, Honest

LEMMA IdleIsRecord ==
  Idle \in Records /\ Idle.pc = "idle" /\ ~Idle.own /\ ~Idle.alone
BY DEF Idle, Records, Labels, Dirs

\* A build that has no own file, or is not alone, is not changed by losing it.
LEMMA SameRecord ==
  ASSUME NEW r \in Records
  PROVE  /\ ~r.own => [r EXCEPT !.own = FALSE] = r
         /\ ~r.alone => [r EXCEPT !.alone = FALSE] = r
BY DEF Records

LEMMA Types ==
  ASSUME BuildInv
  PROVE  /\ file \in [Dirs -> Modules] /\ crcs \in [Dirs -> {"absent", "agree", "differ"}]
         /\ build \in [Builders -> Records] /\ builds \in 0..MaxBuilds
         /\ \A b \in Builders : build[b] \in Records /\ build[b].dir \in Dirs
         /\ \A d \in Dirs : Honest(file[d])
         /\ Honest(stage.module) /\ Honest(zip.module)
BY DEF BuildInv, TypeOK, VouchedIsChecked, Records, Labels, Honest

LEMMA InitInv == Init => BuildInv
<1> SUFFICES ASSUME Init PROVE BuildInv
  OBVIOUS
<1>1. TypeOK
  BY NoneIsModule, IdleIsRecord, BoundAssumption
     DEF Init, TypeOK, NoStage, NoZip, Records, Labels
<1>2. VouchedIsChecked
  BY NoneIsModule DEF Init, VouchedIsChecked, NoStage, NoZip
<1>3. LinkedPasses /\ StillAlone /\ IdleIsIdle
  BY IdleIsRecord DEF Init, LinkedPasses, StillAlone, IdleIsIdle, Right
<1>4. Staged
  BY DEF Init, Staged, NoStage
<1> QED BY <1>1, <1>2, <1>3, <1>4 DEF BuildInv

-----------------------------------------------------------------------------
(* The build.                                                              *)

LEMMA NothingPassed ==
  ASSUME NEW r \in Records, NEW f, NEW c, r.pc \in {"idle", "prepare", "link", "section"}
  PROVE  Right(r, f, c)
BY DEF Right, Passed, CrcPasses

\* A step of a build that is under way: it goes on to a label or ends (r),
\* and writes at most to its own crc_check or vouches for its file.
LEMMA BuildStep ==
  ASSUME BuildInv, NEW b \in Builders, NEW r \in Records,
         build[b].pc # "idle", build' = [build EXCEPT ![b] = r],
         \/ r = Idle
         \/ /\ r.dir = build[b].dir /\ r.own = build[b].own
            /\ r.alone = build[b].alone /\ r.pc # "idle",
         UNCHANGED <<builds, package, stage, zip, packages>>,
         file' \in [Dirs -> Modules],
         \A d \in Dirs : file'[d].defects = file[d].defects /\ Honest(file'[d]),
         crcs' \in [Dirs -> {"absent", "agree", "differ"}],
         \A d \in Dirs : d # build[b].dir => crcs'[d] = crcs[d],
         Right(r, file', crcs')
  PROVE  BuildInv'
<1>1. TypeOK'
  <2>1. build' \in [Builders -> Records]
    BY Types
  <2> QED BY <2>1 DEF BuildInv, TypeOK, Records, Labels
<1>2. VouchedIsChecked'
  BY Types DEF VouchedIsChecked, Honest
<1>3. ASSUME NEW c \in Builders PROVE Right(build'[c], file', crcs')
  <2>1. CASE c = b
    BY <2>1, Types
  <2>2. CASE c # b
    <3>1. build'[c] = build[c] /\ build[c].dir \in Dirs
      BY <2>2, Types
    <3>2. file'[build[c].dir].defects = file[build[c].dir].defects
      BY <3>1
    <3>3. Right(build[c], file, crcs)
      BY DEF BuildInv, LinkedPasses
    <3>4. build[c].alone => crcs'[build[c].dir] = crcs[build[c].dir]
      BY <2>2, <3>1 DEF BuildInv, StillAlone
    <3>5. build[c].own => Passed(build[c].pc) \cap file'[build[c].dir].defects = {}
      BY <3>2, <3>3 DEF Right
    <3>6. build[c].own /\ build[c].alone => CrcPasses(build[c], file', crcs')
      BY <3>2, <3>3, <3>4 DEF Right, CrcPasses
    <3> QED BY <3>1, <3>5, <3>6 DEF Right
  <2> QED BY <2>1, <2>2
<1>4. StillAlone'
  BY Types, IdleIsRecord DEF BuildInv, StillAlone
<1>5. IdleIsIdle'
  BY Types DEF BuildInv, IdleIsIdle
<1>6. Staged'
  BY DEF BuildInv, Staged
<1> QED BY <1>1, <1>2, <1>3, <1>4, <1>5, <1>6 DEF BuildInv, LinkedPasses

\* A build ends, and leaves the files as they are.
LEMMA EndKeeps ==
  ASSUME BuildInv, NEW b \in Builders, build[b].pc # "idle", BuildEnds(b),
         UNCHANGED <<file, crcs>>
  PROVE  BuildInv'
<1>1. PICK r \in Records : r = Idle /\ r.pc = "idle"
  BY IdleIsRecord
<1>2. Right(r, file', crcs')
  BY <1>1, NothingPassed
<1>3. build' = [build EXCEPT ![b] = r] /\ UNCHANGED <<builds, package, stage, zip, packages>>
  BY <1>1 DEF BuildEnds, packaging
<1>4. /\ file' \in [Dirs -> Modules] /\ crcs' \in [Dirs -> {"absent", "agree", "differ"}]
      /\ \A d \in Dirs : file'[d].defects = file[d].defects /\ Honest(file'[d])
      /\ \A d \in Dirs : d # build[b].dir => crcs'[d] = crcs[d]
  <2>1. file' = file /\ crcs' = crcs
    OBVIOUS
  <2> QED BY <2>1, Types
<1> QED BY <1>1, <1>2, <1>3, <1>4, BuildStep

\* A build goes on, and leaves the files as they are.
LEMMA GoKeeps ==
  ASSUME BuildInv, NEW b \in Builders, NEW label \in Labels \ {"idle", "write"},
         build[b].pc # "idle", BuildGoes(b, label), UNCHANGED <<file, crcs>>,
         build[b].own => Passed(label) \cap file[build[b].dir].defects = {},
         /\ build[b].own /\ build[b].alone
         /\ (label = "compare" /\ crcs[build[b].dir] = "agree") \/ label = "report"
         => "crc" \notin file[build[b].dir].defects
  PROVE  BuildInv'
<1> DEFINE r == [build[b] EXCEPT !.pc = label]
<1>1. r \in Records /\ r.pc = label /\ r.dir = build[b].dir /\ r.own = build[b].own
        /\ r.alone = build[b].alone
  BY Types DEF Records
<1>2. build' = [build EXCEPT ![b] = r] /\ UNCHANGED <<builds, package, stage, zip, packages>>
  BY DEF BuildGoes, packaging
<1> HIDE DEF r
<1>3. Right(r, file', crcs')
  BY <1>1 DEF Right, CrcPasses
<1> QED BY <1>1, <1>2, <1>3, BuildStep, Types

\* A check goes on when it finds nothing; a file that is gone has no defects.
LEMMA CheckKeeps ==
  ASSUME BuildInv, NEW b \in Builders,
         CheckSections(b) \/ CheckKcfi(b) \/ CheckImports(b) \/ FindNode(b)
  PROVE  BuildInv'
<1>1. ASSUME NEW gate \in {"section", "kcfi", "import", "node"},
             NEW next \in {"kcfi", "import", "node", "read"},
             build[b].pc = gate, UNCHANGED <<file, crcs>>,
             \/ BuildEnds(b)
             \/ BuildGoes(b, next) /\ (gate = "node" \/ {gate} \cap ModuleFile(b).defects = {}),
             Passed(next) \subseteq Passed(gate) \cup ({gate} \ {"node"})
      PROVE  BuildInv'
  <2>1. build[b].own => Passed(gate) \cap file[build[b].dir].defects = {}
    BY <1>1 DEF BuildInv, LinkedPasses, Right
  <2>2. CASE BuildEnds(b)
    BY <1>1, <2>2, EndKeeps
  <2>3. CASE BuildGoes(b, next) /\ (gate = "node" \/ {gate} \cap ModuleFile(b).defects = {})
    <3>1. build[b].own => Passed(next) \cap file[build[b].dir].defects = {}
      BY <1>1, <2>1, <2>3 DEF ModuleFile
    <3>2. next \in Labels \ {"idle", "write"} /\ next # "compare" /\ next # "report"
      BY DEF Labels
    <3> QED BY <1>1, <2>3, <3>1, <3>2, GoKeeps
  <2> QED BY <1>1, <2>2, <2>3
<1>2. /\ Passed("kcfi") \subseteq Passed("section") \cup {"section"}
      /\ Passed("import") \subseteq Passed("kcfi") \cup {"kcfi"}
      /\ Passed("node") \subseteq Passed("import") \cup {"import"}
      /\ Passed("read") \subseteq Passed("node")
  BY DEF Passed
<1>3. CASE CheckSections(b)
  BY <1>1, <1>2, <1>3 DEF CheckSections, CheckWith, BuildAt
<1>4. CASE CheckKcfi(b)
  BY <1>1, <1>2, <1>4 DEF CheckKcfi, CheckWith, BuildAt
<1>5. CASE CheckImports(b)
  BY <1>1, <1>2, <1>5 DEF CheckImports, BuildAt
<1>6. CASE FindNode(b)
  BY <1>1, <1>2, <1>6 DEF FindNode, BuildAt
<1> QED BY <1>3, <1>4, <1>5, <1>6

\* The CRCs of the module file go by way of crc_check into the comparison.
LEMMA CrcKeeps ==
  ASSUME BuildInv, NEW b \in Builders, ReadCrcs(b) \/ WriteCrcs(b) \/ CompareCrcs(b)
  PROVE  BuildInv'
<1>1. /\ build[b] \in Records /\ build[b].dir \in Dirs
      /\ build[b].own => Passed(build[b].pc) \cap file[build[b].dir].defects = {}
      /\ build[b].own /\ build[b].alone => CrcPasses(build[b], file, crcs)
  BY Types DEF BuildInv, LinkedPasses, Right
<1>2. /\ Passed("write") = Passed("read") /\ Passed("compare") = Passed("write")
      /\ Passed("report") = Passed("compare")
  BY DEF Passed
<1>3. CASE ReadCrcs(b) /\ ~ModuleFile(b).there
  BY <1>3, EndKeeps DEF ReadCrcs, BuildAt
<1>4. CASE ReadCrcs(b) /\ ModuleFile(b).there
  <2> DEFINE v == IF "crc" \in ModuleFile(b).defects THEN "differ" ELSE "agree"
             r == [build[b] EXCEPT !.pc = "write", !.read = v]
  <2>1. build[b].pc = "read" /\ build' = [build EXCEPT ![b] = r]
        /\ UNCHANGED <<file, crcs, builds, package, stage, zip, packages>>
    BY <1>4, ZenonT(40) DEF ReadCrcs, BuildAt, packaging
  <2>2. r \in Records /\ r.pc = "write" /\ r.read = v /\ r.dir = build[b].dir
        /\ r.own = build[b].own /\ r.alone = build[b].alone
    BY <1>1 DEF Records, Labels
  <2>3. v = "agree" => "crc" \notin file[build[b].dir].defects
    BY DEF ModuleFile
  <2> HIDE DEF v, r
  <2>4. Right(r, file', crcs')
    BY <1>1, <1>2, <2>1, <2>2, <2>3 DEF Right, CrcPasses
  <2> QED BY <2>1, <2>2, <2>4, BuildStep, Types
<1>5. CASE WriteCrcs(b)
  <2> DEFINE r == [build[b] EXCEPT !.pc = "compare", !.read = "absent"]
  <2>1. build[b].pc = "write" /\ build' = [build EXCEPT ![b] = r]
        /\ crcs' = [crcs EXCEPT ![build[b].dir] = build[b].read]
        /\ UNCHANGED <<file, builds, package, stage, zip, packages>>
    BY <1>5, ZenonT(40) DEF WriteCrcs, BuildAt, packaging
  <2>2. r \in Records /\ r.pc = "compare" /\ r.dir = build[b].dir
        /\ r.own = build[b].own /\ r.alone = build[b].alone
    BY <1>1 DEF Records, Labels
  <2> HIDE DEF r
  <2>3. /\ crcs' \in [Dirs -> {"absent", "agree", "differ"}]
        /\ crcs'[build[b].dir] = build[b].read
        /\ \A d \in Dirs : d # build[b].dir => crcs'[d] = crcs[d]
    BY <1>1, <2>1, Types DEF Records
  <2>4. Right(r, file', crcs')
    BY <1>1, <1>2, <2>1, <2>2, <2>3 DEF Right, CrcPasses
  <2> QED BY <2>1, <2>2, <2>3, <2>4, BuildStep, Types
<1>6. CASE CompareCrcs(b)
  <2>1. build[b].pc = "compare" /\ UNCHANGED <<file, crcs>>
    BY <1>6 DEF CompareCrcs, BuildAt
  <2>2. CASE crcs[build[b].dir] = "agree"
    <3>1. BuildGoes(b, "report")
      BY <1>6, <2>2 DEF CompareCrcs
    <3>2. build[b].own /\ build[b].alone => "crc" \notin file[build[b].dir].defects
      BY <1>1, <2>1, <2>2 DEF CrcPasses
    <3>3. "report" \in Labels \ {"idle", "write"}
      BY DEF Labels
    <3> QED BY <1>1, <1>2, <2>1, <3>1, <3>2, <3>3, GoKeeps
  <2>3. CASE crcs[build[b].dir] # "agree"
    BY <1>6, <2>1, <2>3, EndKeeps DEF CompareCrcs
  <2> QED BY <2>2, <2>3
<1> QED BY <1>3, <1>4, <1>5, <1>6

\* A build begins: those in its directory are not alone any more.
LEMMA StartKeeps ==
  ASSUME BuildInv, NEW b \in Builders, NEW dir \in Dirs, StartBuild(b, dir)
  PROVE  BuildInv'
<1> DEFINE r == [Idle EXCEPT !.pc = "prepare", !.dir = dir, !.alone = ~Beside(b, dir)]
           N(c) == IF c = b THEN r
                   ELSE IF build[c].dir = dir THEN [build[c] EXCEPT !.alone = FALSE] ELSE build[c]
<1>1. build[b].pc = "idle" /\ builds < MaxBuilds /\ builds' = builds + 1
      /\ build' = [c \in Builders |-> N(c)]
      /\ UNCHANGED <<file, crcs, package, stage, zip, packages>>
  BY ZenonT(40) DEF StartBuild, BuildAt, packaging
<1>2. (~Beside(b, dir)) \in BOOLEAN
  BY DEF Beside
<1>3. r \in Records /\ r.pc = "prepare" /\ r.dir = dir /\ ~r.own
      /\ r.alone = ~Beside(b, dir)
  BY <1>2 DEF Records, Labels, Dirs, Idle
<1> HIDE DEF r
<1>4. ASSUME NEW c \in Builders
      PROVE  /\ N(c) \in Records /\ build'[c] = N(c)
             /\ c # b => /\ N(c).pc = build[c].pc /\ N(c).dir = build[c].dir
                         /\ N(c).own = build[c].own /\ N(c).read = build[c].read
                         /\ N(c).alone => build[c].alone /\ build[c].dir # dir
                         /\ build[c].dir # dir => N(c) = build[c]
  <2>1. build[c] \in Records /\ build'[c] = N(c)
    BY <1>1, Types
  <2>2. CASE c = b
    BY <1>3, <2>1, <2>2
  <2>3. CASE c # b /\ build[c].dir = dir
    BY <2>1, <2>3 DEF Records
  <2>4. CASE c # b /\ build[c].dir # dir
    BY <2>1, <2>4
  <2> QED BY <2>2, <2>3, <2>4
<1>5. build'[b] = r
  BY <1>1
<1> HIDE DEF N
<1>6. TypeOK'
  <2>1. build' \in [Builders -> Records]
    BY <1>1, <1>4
  <2>2. builds' \in 0..MaxBuilds
    BY <1>1, Types, BoundAssumption
  <2> QED BY <1>1, <2>1, <2>2 DEF BuildInv, TypeOK, Records, Labels
<1>7. VouchedIsChecked' /\ Staged'
  BY <1>1 DEF BuildInv, VouchedIsChecked, Staged
<1>8. ASSUME NEW c \in Builders PROVE Right(build'[c], file', crcs')
  <2>1. CASE c = b
    BY <1>3, <1>5, <2>1, NothingPassed
  <2>2. CASE c # b
    <3>1. Right(build[c], file, crcs)
      BY DEF BuildInv, LinkedPasses
    <3> QED BY <1>1, <1>4, <2>2, <3>1 DEF Right, CrcPasses
  <2> QED BY <2>1, <2>2
<1>9. StillAlone'
  <2> SUFFICES ASSUME NEW c \in Builders, NEW e \in Builders, c # e, build'[c].alone,
                      build'[e].pc # "idle"
               PROVE  build'[c].dir # build'[e].dir
    BY DEF StillAlone
  <2>1. CASE c = b
    <3>1. ~Beside(b, dir) /\ build'[e].pc = build[e].pc /\ build'[e].dir = build[e].dir
      BY <1>3, <1>4, <1>5, <2>1
    <3> QED BY <1>3, <1>5, <2>1, <3>1 DEF Beside
  <2>2. CASE c # b /\ e = b
    BY <1>3, <1>4, <1>5, <2>2
  <2>3. CASE c # b /\ e # b
    BY <1>4, <2>3 DEF BuildInv, StillAlone
  <2> QED BY <2>1, <2>2, <2>3
<1>10. IdleIsIdle'
  <2> SUFFICES ASSUME NEW c \in Builders, build'[c].pc = "idle" PROVE build'[c] = Idle
    BY DEF IdleIsIdle
  <2>1. c # b /\ build[c] = Idle
    BY <1>3, <1>4, <1>5 DEF BuildInv, IdleIsIdle
  <2>2. [Idle EXCEPT !.alone = FALSE] = Idle
    BY IdleIsRecord, SameRecord
  <2> QED BY <1>4, <2>1, <2>2 DEF N
<1> QED BY <1>6, <1>7, <1>8, <1>9, <1>10 DEF BuildInv, LinkedPasses

\* Preparation goes well or fails, the compiler or the linker fails, or a
\* signal ends the build.
LEMMA OtherKeeps ==
  ASSUME BuildInv, NEW b \in Builders, Prepare(b) \/ CompileFails(b) \/ BuildInterrupted(b)
  PROVE  BuildInv'
<1>1. build[b].pc # "idle" /\ UNCHANGED <<file, crcs>>
  BY DEF Prepare, CompileFails, BuildInterrupted, BuildAt
<1>2. CASE BuildEnds(b)
  BY <1>1, <1>2, EndKeeps
<1>3. CASE BuildGoes(b, "link")
  <2>1. Passed("link") = {} /\ "link" \in Labels \ {"idle", "write"}
    BY DEF Passed, Labels
  <2> QED BY <1>1, <1>3, <2>1, GoKeeps
<1> QED BY <1>2, <1>3 DEF Prepare, CompileFails, BuildInterrupted

\* The linker replaces the module file; nothing has been looked for in it, and
\* it is not the one that the other builds in the directory have linked.
LEMMA LinkKeeps ==
  ASSUME BuildInv, NEW b \in Builders, NEW defects \in Outcomes, Link(b, defects)
  PROVE  BuildInv'
<1> DEFINE m == [there |-> TRUE, defects |-> defects, vouched |-> "no"]
           N(c) == IF c = b THEN [build[c] EXCEPT !.pc = "section", !.own = TRUE]
                   ELSE IF build[c].dir = build[b].dir THEN [build[c] EXCEPT !.own = FALSE]
                   ELSE build[c]
<1>1. m \in Modules /\ Honest(m)
  BY DEF Modules, Honest
<1>2. /\ build[b].pc = "link" /\ file' = [file EXCEPT ![build[b].dir] = m]
      /\ build' = [c \in Builders |-> N(c)]
      /\ UNCHANGED <<crcs, builds, package, stage, zip, packages>>
  BY ZenonT(40) DEF Link, BuildAt, packaging
<1> HIDE DEF m
<1>3. /\ file' \in [Dirs -> Modules] /\ (\A d \in Dirs : Honest(file'[d]))
      /\ \A d \in Dirs : d # build[b].dir => file'[d] = file[d]
  BY <1>1, <1>2, Types
<1>4. ASSUME NEW c \in Builders
      PROVE  /\ N(c) \in Records /\ build'[c] = N(c) /\ N(c).dir = build[c].dir
             /\ N(c).alone = build[c].alone
             /\ c = b => N(c).pc = "section"
             /\ c # b => N(c).pc = build[c].pc /\ (build[c].pc = "idle" => N(c) = build[c])
             /\ c # b /\ build[c].dir = build[b].dir => ~N(c).own
             /\ c # b /\ build[c].dir # build[b].dir => N(c) = build[c]
  <2>1. build[c] \in Records /\ build'[c] = N(c)
    BY <1>2, Types
  <2>2. CASE c = b
    BY <2>1, <2>2 DEF Records, Labels
  <2>3. CASE c # b /\ build[c].dir = build[b].dir
    <3>1. build[c].pc = "idle" => [build[c] EXCEPT !.own = FALSE] = build[c]
      <4>1. build[c].pc = "idle" => ~build[c].own
        BY IdleIsRecord DEF BuildInv, IdleIsIdle
      <4> QED BY <2>1, <4>1, Types, SameRecord
    <3> QED BY <2>1, <2>3, <3>1 DEF Records
  <2>4. CASE c # b /\ build[c].dir # build[b].dir
    BY <2>1, <2>4
  <2> QED BY <2>2, <2>3, <2>4
<1> HIDE DEF N
<1>5. TypeOK'
  <2>1. build' \in [Builders -> Records]
    BY <1>2, <1>4
  <2> QED BY <1>2, <1>3, <2>1 DEF BuildInv, TypeOK, Records, Labels
<1>6. VouchedIsChecked'
  BY <1>2, <1>3, Types DEF VouchedIsChecked, Honest
<1>7. ASSUME NEW c \in Builders PROVE Right(build'[c], file', crcs')
  <2>1. CASE c = b
    BY <1>4, <2>1, NothingPassed
  <2>2. CASE c # b /\ build[c].dir = build[b].dir
    BY <1>4, <2>2 DEF Right
  <2>3. CASE c # b /\ build[c].dir # build[b].dir
    <3>1. Right(build[c], file, crcs) /\ build[c].dir \in Dirs
      BY Types DEF BuildInv, LinkedPasses
    <3>2. build'[c] = build[c] /\ file'[build[c].dir] = file[build[c].dir] /\ crcs' = crcs
      BY <1>2, <1>3, <1>4, <2>3, <3>1
    <3> QED BY <3>1, <3>2 DEF Right, CrcPasses
  <2> QED BY <2>1, <2>2, <2>3
<1>8. StillAlone' /\ IdleIsIdle'
  BY <1>2, <1>4 DEF BuildInv, StillAlone, IdleIsIdle
<1>9. Staged'
  BY <1>2 DEF BuildInv, Staged
<1> QED BY <1>5, <1>6, <1>7, <1>8, <1>9 DEF BuildInv, LinkedPasses

\* The end of a successful build: the file it linked, if that is still there,
\* has passed the checks.
LEMMA ReportKeeps ==
  ASSUME BuildInv, NEW b \in Builders, Report(b)
  PROVE  BuildInv'
<1> DEFINE dir == build[b].dir
           v == IF build[b].alone THEN "alone" ELSE "beside"
           m == [file[dir] EXCEPT !.vouched = v]
<1>1. /\ build[b].pc = "report" /\ BuildEnds(b) /\ UNCHANGED crcs
      /\ \/ build[b].own /\ file' = [file EXCEPT ![dir] = m]
         \/ file' = file
  <2>1. [file EXCEPT ![dir].vouched = v] = [file EXCEPT ![dir] = m]
    OBVIOUS
  <2> QED BY <2>1, ZenonT(40) DEF Report, BuildAt, ModuleFile
<1>2. CASE file' = file
  BY <1>1, <1>2, EndKeeps
<1>3. CASE build[b].own /\ file' = [file EXCEPT ![dir] = m]
  <2>1. /\ file[dir] \in Modules /\ dir \in Dirs
        /\ file[dir].defects \subseteq Checked
    BY Types, OutcomeAssumption DEF Modules
  <2>2. /\ Passed("report") \cap file[dir].defects = {}
        /\ build[b].alone => "crc" \notin file[dir].defects
    BY <1>1, <1>3 DEF BuildInv, LinkedPasses, Right, CrcPasses
  <2>3. Checked \subseteq Passed("report") \cup {"crc"}
    BY DEF Passed, Checked
  <2>4. v \in {"alone", "beside"} /\ (v = "alone" => build[b].alone)
    OBVIOUS
  <2> HIDE DEF v
  <2>5. m \in Modules /\ m.defects = file[dir].defects /\ m.vouched = v
    BY <2>1, <2>4 DEF Modules
  <2> HIDE DEF m
  <2>6. Honest(m)
    <3>1. m.defects \subseteq {"crc"}
      BY <2>1, <2>2, <2>3, <2>5
    <3>2. v = "alone" => "crc" \notin m.defects
      BY <2>2, <2>4, <2>5
    <3> QED BY <2>5, <3>1, <3>2 DEF Honest
  <2>7. /\ file' \in [Dirs -> Modules]
        /\ \A d \in Dirs : file'[d].defects = file[d].defects /\ Honest(file'[d])
    BY <1>3, <2>1, <2>5, <2>6, Types
  <2>8. PICK r \in Records : r = Idle /\ r.pc = "idle"
    BY IdleIsRecord
  <2>9. build' = [build EXCEPT ![b] = r]
        /\ UNCHANGED <<builds, package, stage, zip, packages>>
    BY <1>1, <2>8 DEF BuildEnds, packaging
  <2>10. Right(r, file', crcs')
    BY <2>8, NothingPassed
  <2>11. /\ build[b].pc # "idle" /\ crcs' \in [Dirs -> {"absent", "agree", "differ"}]
         /\ \A d \in Dirs : d # build[b].dir => crcs'[d] = crcs[d]
    <3>1. build[b].pc # "idle" /\ crcs' = crcs
      BY <1>1
    <3> QED BY <3>1, Types
  <2> QED BY <2>7, <2>8, <2>9, <2>10, <2>11, BuildStep
<1> QED BY <1>1, <1>2, <1>3

-----------------------------------------------------------------------------
(* Packaging, which leaves the builds and their files alone.               *)

LEMMA PackageStep ==
  ASSUME BuildInv, UNCHANGED <<file, crcs, build, builds>>,
         package' \in {"idle", "test", "prepare", "scripts", "module", "zip", "unzip",
                       "succeeded"},
         packages' \in 0..MaxPackages,
         stage' \in [there: BOOLEAN, scripts: BOOLEAN, module: Modules],
         zip' \in [state: {"absent", "partial", "whole"}, scripts: BOOLEAN, module: Modules],
         stage'.module \in {ko, None, stage.module},
         zip'.module \in {None, stage.module, zip.module},
         Staged'
  PROVE  BuildInv'
<1>1. TypeOK'
  BY DEF BuildInv, TypeOK
<1>2. VouchedIsChecked'
  <2>1. Honest(stage'.module) /\ Honest(zip'.module)
    BY NoneIsModule, Types DEF ko, Dirs
  <2> QED BY <2>1, Types DEF VouchedIsChecked, Honest
<1>3. LinkedPasses' /\ StillAlone' /\ IdleIsIdle'
  BY DEF BuildInv, LinkedPasses, StillAlone, IdleIsIdle
<1> QED BY <1>1, <1>2, <1>3 DEF BuildInv

LEMMA PackageKeeps ==
  ASSUME BuildInv, Package
  PROVE  BuildInv'
<1> DEFINE Stages == [there: BOOLEAN, scripts: BOOLEAN, module: Modules]
           Zips == [state: {"absent", "partial", "whole"}, scripts: BOOLEAN, module: Modules]
<1>1. stage \in Stages /\ zip \in Zips /\ ko \in Modules /\ packages \in 0..MaxPackages
  BY DEF BuildInv, TypeOK, ko, Dirs
<1>2. /\ NoStage \in Stages /\ ~NoStage.there /\ NoStage.module = None
      /\ NoZip \in Zips /\ NoZip.state = "absent" /\ NoZip.module = None
  BY NoneIsModule DEF NoStage, NoZip
<1>3. PICK fresh \in Stages :
        fresh = [NoStage EXCEPT !.there = TRUE] /\ fresh.module = None
  <2>1. /\ [NoStage EXCEPT !.there = TRUE] \in Stages
        /\ [NoStage EXCEPT !.there = TRUE].module = None
    BY NoneIsModule DEF NoStage
  <2> QED BY <2>1
<1>4. PICK partial \in Zips :
        partial = [NoZip EXCEPT !.state = "partial"] /\ partial.state = "partial"
          /\ partial.module = None
  <2> DEFINE cut == [NoZip EXCEPT !.state = "partial"]
  <2>1. cut \in Zips /\ cut.state = "partial" /\ cut.module = None
    BY NoneIsModule DEF NoZip
  <2> QED BY <2>1
<1>5. ASSUME PackageFails, zip' \in {zip, NoZip, partial} PROVE BuildInv'
  <2>1. /\ package' = "idle" /\ stage' = NoStage
        /\ UNCHANGED <<file, crcs, build, builds, packages>>
    BY <1>5 DEF PackageFails, PackageGoes
  <2>2. Staged'
    BY <1>2, <2>1 DEF Staged
  <2>3. zip' \in Zips /\ zip'.module \in {None, zip.module}
    BY <1>1, <1>2, <1>4, <1>5
  <2> QED BY <1>1, <1>2, <2>1, <2>2, <2>3, PackageStep
<1>6. CASE StartPackage
  <2>1. /\ package' = "test" /\ stage' = fresh /\ packages' = packages + 1
        /\ packages < MaxPackages /\ UNCHANGED <<file, crcs, build, zip, builds>>
    BY <1>3, <1>6 DEF StartPackage
  <2>2. Staged'
    BY <2>1 DEF Staged
  <2>3. packages' \in 0..MaxPackages
    BY <1>1, <2>1, BoundAssumption
  <2> QED BY <1>1, <1>3, <2>1, <2>2, <2>3, PackageStep
<1>7. CASE TestInputs
  <2>1. CASE PackageFails
    BY <1>5, <1>7, <2>1 DEF TestInputs
  <2>2. CASE PackageGoes("prepare") /\ UNCHANGED stage
    <3>1. /\ package' = "prepare"
          /\ UNCHANGED <<file, crcs, build, stage, zip, builds, packages>>
      BY <1>7, <2>2 DEF TestInputs, PackageGoes
    <3>2. Staged'
      BY <3>1 DEF Staged
    <3> QED BY <1>1, <3>1, <3>2, PackageStep
  <2> QED BY <1>7, <2>1, <2>2 DEF TestInputs
<1>8. CASE PrepareStage
  <2>1. /\ package' = "scripts" /\ stage' = fresh /\ zip' = NoZip
        /\ UNCHANGED <<file, crcs, build, builds, packages>>
    BY <1>3, <1>8 DEF PrepareStage, PackageGoes
  <2>2. Staged'
    BY <2>1 DEF Staged
  <2> QED BY <1>1, <1>2, <1>3, <2>1, <2>2, PackageStep
<1>9. CASE CopyScripts
  <2>1. CASE PackageFails
    BY <1>5, <1>9, <2>1 DEF CopyScripts
  <2>2. CASE PackageGoes("module") /\ stage' = [stage EXCEPT !.scripts = TRUE]
    <3>1. /\ package' = "module"
          /\ UNCHANGED <<file, crcs, build, zip, builds, packages>>
      BY <1>9, <2>2 DEF CopyScripts, PackageGoes
    <3>2. stage' \in Stages /\ stage'.scripts /\ stage'.module = stage.module
      BY <1>1, <2>2
    <3>3. Staged'
      BY <3>1, <3>2 DEF Staged
    <3> QED BY <1>1, <3>1, <3>2, <3>3, PackageStep
  <2> QED BY <1>9, <2>1, <2>2 DEF CopyScripts
<1>10. CASE CopyModule
  <2>1. CASE stage.there /\ ko.there
    <3>1. /\ package = "module" /\ package' = "zip" /\ stage' = [stage EXCEPT !.module = ko]
          /\ UNCHANGED <<file, crcs, build, zip, builds, packages>>
      BY <1>10, <2>1 DEF CopyModule, PackageGoes
    <3>2. stage' \in Stages /\ stage'.module = ko /\ stage'.scripts = stage.scripts
      BY <1>1, <3>1
    <3>3. stage.scripts
      BY <2>1, <3>1 DEF BuildInv, Staged
    <3>4. Staged'
      BY <2>1, <3>1, <3>2, <3>3 DEF Staged
    <3> QED BY <1>1, <3>1, <3>2, <3>4, PackageStep
  <2>2. CASE ~(stage.there /\ ko.there)
    BY <1>5, <1>10, <2>2 DEF CopyModule
  <2> QED BY <2>1, <2>2
<1>11. CASE Zip
  <2>1. CASE stage.there /\ PackageGoes("unzip") /\ UNCHANGED stage
               /\ zip' = [state |-> "whole", scripts |-> stage.scripts, module |-> stage.module]
    <3>1. /\ package = "zip" /\ package' = "unzip"
          /\ UNCHANGED <<file, crcs, build, stage, builds, packages>>
      BY <1>11, <2>1 DEF Zip, PackageGoes
    <3>2. /\ zip' \in Zips /\ zip'.module = stage.module
          /\ zip'.scripts = stage.scripts
      BY <1>1, <2>1
    <3>3. stage.scripts /\ stage.module.there
      BY <2>1, <3>1 DEF BuildInv, Staged
    <3>4. Staged'
      BY <3>1, <3>2, <3>3 DEF Staged
    <3> QED BY <1>1, <3>1, <3>2, <3>4, PackageStep
  <2>2. CASE PackageFails /\ zip' \in {zip, NoZip, partial}
    BY <1>5, <2>2
  <2>3. zip' \in {NoZip, [NoZip EXCEPT !.state = "partial"]} => zip' \in {zip, NoZip, partial}
    BY <1>4
  <2> QED BY <1>11, <2>1, <2>2, <2>3 DEF Zip
<1>12. CASE TestZip
  <2>1. CASE PackageFails
    BY <1>5, <1>12, <2>1 DEF TestZip
  <2>2. CASE zip.state = "whole" /\ PackageGoes("succeeded") /\ stage' = NoStage
    <3>1. /\ package = "unzip" /\ package' = "succeeded"
          /\ UNCHANGED <<file, crcs, build, zip, builds, packages>>
      BY <1>12, <2>2 DEF TestZip, PackageGoes
    <3>2. Staged'
      BY <1>2, <2>2, <3>1 DEF BuildInv, Staged
    <3> QED BY <1>1, <1>2, <2>2, <3>1, <3>2, PackageStep
  <2> QED BY <1>12, <2>1, <2>2 DEF TestZip
<1>13. CASE Signal
  <2>1. stage' = NoStage /\ UNCHANGED <<file, crcs, build, package, zip, builds, packages>>
    BY <1>13 DEF Signal
  <2>2. Staged' /\ package' \in {"idle", "test", "prepare", "scripts", "module", "zip",
                                 "unzip", "succeeded"}
    BY <1>2, <2>1 DEF BuildInv, Staged, TypeOK
  <2> QED BY <1>1, <1>2, <2>1, <2>2, PackageStep
<1> QED BY <1>6, <1>7, <1>8, <1>9, <1>10, <1>11, <1>12, <1>13 DEF Package

\* out/ is cleaned, also in the middle of a build or of a packaging.
LEMMA CleanKeeps ==
  ASSUME BuildInv, Clean
  PROVE  BuildInv'
<1>1. /\ file' = [file EXCEPT !["out"] = None] /\ crcs' = [crcs EXCEPT !["out"] = "absent"]
      /\ UNCHANGED <<build, builds, package, stage, zip, packages>>
  BY DEF Clean, packaging
<1>2. /\ file' \in [Dirs -> Modules] /\ crcs' \in [Dirs -> {"absent", "agree", "differ"}]
      /\ \A d \in Dirs : /\ Honest(file'[d])
                         /\ file'[d] = file[d] \/ file'[d] = None
                         /\ crcs'[d] = crcs[d] \/ crcs'[d] = "absent"
  BY <1>1, Types, NoneIsModule DEF Dirs
<1>3. TypeOK'
  BY <1>1, <1>2 DEF BuildInv, TypeOK
<1>4. VouchedIsChecked'
  <2>1. Honest(stage'.module) /\ Honest(zip'.module)
    BY <1>1, Types
  <2> QED BY <1>2, <2>1, Types DEF VouchedIsChecked, Honest
<1>5. ASSUME NEW b \in Builders PROVE Right(build'[b], file', crcs')
  <2>1. Right(build[b], file, crcs) /\ build[b].dir \in Dirs /\ build'[b] = build[b]
    <3>1. build' = build
      BY <1>1
    <3> QED BY <3>1, Types DEF BuildInv, LinkedPasses
  <2>2. file'[build[b].dir].defects \subseteq file[build[b].dir].defects
    <3>1. CASE file'[build[b].dir] = file[build[b].dir]
      BY <3>1
    <3>2. CASE file'[build[b].dir] = None
      BY <3>2, NoneIsModule
    <3> QED BY <1>2, <2>1, <3>1, <3>2
  <2>3. crcs'[build[b].dir] = "agree" => crcs[build[b].dir] = "agree"
    BY <1>2, <2>1
  <2> QED BY <2>1, <2>2, <2>3 DEF Right, CrcPasses
<1>6. StillAlone' /\ IdleIsIdle' /\ Staged'
  BY <1>1 DEF BuildInv, StillAlone, IdleIsIdle, Staged
<1> QED BY <1>3, <1>4, <1>5, <1>6 DEF BuildInv, LinkedPasses

-----------------------------------------------------------------------------
LEMMA NextInv == BuildInv /\ [Next]_vars => BuildInv'
<1> SUFFICES ASSUME BuildInv, [Next]_vars PROVE BuildInv'
  OBVIOUS
<1>1. ASSUME NEW b \in Builders, Build(b) PROVE BuildInv'
  BY <1>1, CheckKeeps, CrcKeeps, StartKeeps, OtherKeeps, LinkKeeps, ReportKeeps DEF Build
<1>2. CASE Package
  BY <1>2, PackageKeeps
<1>3. CASE Clean
  BY <1>3, CleanKeeps
<1>4. CASE UNCHANGED vars
  BY <1>4 DEF vars, packaging, BuildInv, TypeOK, VouchedIsChecked, LinkedPasses, StillAlone,
              IdleIsIdle, Staged
<1> QED BY <1>1, <1>2, <1>3, <1>4 DEF Next

LEMMA BuildInvariant == Spec => []BuildInv
<1>1. BuildInv /\ [Next]_vars => BuildInv'
  BY NextInv
<1> QED BY <1>1, InitInv, PTL DEF Spec

\* The files of the two scripts are always ones the scripts can leave.
THEOREM BuildTypeCorrect == Spec => []TypeOK
<1>1. BuildInv => TypeOK
  BY DEF BuildInv
<1> QED BY <1>1, BuildInvariant, PTL

\* A module whose own build ended successfully has the sections, type ids and
\* imports that were checked, wherever it has been copied since and whatever
\* other builds did in its directory; its CRCs are those of the baseline when
\* the build was alone there (build script, 136-171; package script, 39).
THEOREM VouchedPassedTheChecks == Spec => []VouchedIsChecked
<1>1. BuildInv => VouchedIsChecked
  BY DEF BuildInv
<1> QED BY <1>1, BuildInvariant, PTL

\* A zip that packaging reports is whole and has the scripts and a module,
\* whatever signals came between its commands (package script, 9-46).
THEOREM ReportIsTrue == Spec => []ReportedZipIsWhole
<1>1. BuildInv => ReportedZipIsWhole
  BY DEF BuildInv, Staged, ReportedZipIsWhole
<1> QED BY <1>1, BuildInvariant, PTL
=============================================================================
