------------------------------- MODULE BuildGate -------------------------------
(***************************************************************************)
(* scripts/build_k100pm_chg_runtime.sh and                                 *)
(* scripts/package_kernelsu_module.sh around the files they share:         *)
(* the .ko, which a build links before it checks it, the CRCs that node    *)
(* extracts from it, and the zip, into which packaging copies whatever is  *)
(* there.  A script stops at its first failing command (set -e) and leaves *)
(* its files; it may be interrupted anywhere, and out/ may be cleaned at   *)
(* any time.  Nothing keeps a second build out of an output directory.     *)
(*                                                                         *)
(* A module file is modelled by what is wrong with it.  Compiler, linker   *)
(* (which renames a finished file into place), node, zip and the shell's   *)
(* way with signals (they reach node as well) are external.                *)
(***************************************************************************)
EXTENDS Naturals

CONSTANTS
  Outcomes,   \* sets of defects a build can produce, from its inputs
  Builders,   \* who runs the build script
  MaxBuilds,  \* bound on the number of builds
  MaxPackages \* bound on the number of packagings

Checked == {"section", "kcfi", "import", "crc"} \* lines 136-168 look for these

ASSUME OutcomeAssumption == Outcomes \subseteq SUBSET Checked
ASSUME BoundAssumption == MaxBuilds \in Nat /\ MaxPackages \in Nat

\* The output directory: out/, or the K100PM_OUTPUT_DIR of the environment.
Dirs == {"out", "elsewhere"}

\* vouched (history): whether the build that linked the file ended
\* successfully while the file was there, and was then alone in its directory
\* from its start to its end, or beside another build.
None == [there |-> FALSE, defects |-> {}, vouched |-> "no"]

VARIABLES
  file,      \* module_file of each directory
  crcs,      \* crc_check of each directory, as the comparison will find it
  build,     \* where each build is, its directory, what its node has read, and
             \* (history) whether module_file is still the one it linked (own)
             \* and whether it has been alone in its directory so far
  package,   \* where packaging is
  stage,     \* the stage directory: the files in it, and the staged module
  zip,       \* the zip: "absent", "partial" or "whole", and the module in it
  builds, packages

vars == <<file, crcs, build, package, stage, zip, builds, packages>>
packaging == <<package, stage, zip, packages>>

Idle == [pc |-> "idle", dir |-> "out", read |-> "absent", own |-> FALSE, alone |-> FALSE]
NoStage == [there |-> FALSE, scripts |-> FALSE, module |-> None]
NoZip == [state |-> "absent", scripts |-> FALSE, module |-> None]

Init ==
  /\ file = [d \in Dirs |-> None] /\ crcs = [d \in Dirs |-> "absent"]
  /\ build = [b \in Builders |-> Idle]
  /\ package = "idle"
  /\ stage = NoStage
  /\ zip = NoZip
  /\ builds = 0 /\ packages = 0

-----------------------------------------------------------------------------
(* The build.                                                              *)

BuildAt(b, label) == build[b].pc = label
ModuleFile(b) == file[build[b].dir]

BuildGoes(b, label) ==
  /\ build' = [build EXCEPT ![b].pc = label]
  /\ UNCHANGED <<builds, packaging>>

BuildEnds(b) ==
  /\ build' = [build EXCEPT ![b] = Idle]
  /\ UNCHANGED <<builds, packaging>>

\* Whether a build other than b is at work in a directory.
Beside(b, dir) == \E c \in Builders \ {b} : build[c].pc # "idle" /\ build[c].dir = dir

StartBuild(b, dir) ==
  /\ BuildAt(b, "idle") /\ builds < MaxBuilds
  /\ build' = [c \in Builders |->
       IF c = b THEN [Idle EXCEPT !.pc = "prepare", !.dir = dir, !.alone = ~Beside(b, dir)]
       ELSE IF build[c].dir = dir THEN [build[c] EXCEPT !.alone = FALSE] ELSE build[c]]
  /\ builds' = builds + 1
  /\ UNCHANGED <<file, crcs, packaging>>

\* Lines 28-106: tools, headers and baselines are tested and the generated
\* sources written; a symbol without CRC fails here.
Prepare(b) ==
  /\ BuildAt(b, "prepare")
  /\ BuildGoes(b, "link") \/ BuildEnds(b)
  /\ UNCHANGED <<file, crcs>>

\* Lines 126-134: compile and link; the linker replaces module_file, which
\* other builds in the directory go on to check, and may have made it of
\* their objects.
Link(b, defects) ==
  /\ BuildAt(b, "link")
  /\ file' = [file EXCEPT ![build[b].dir] =
                [there |-> TRUE, defects |-> defects, vouched |-> "no"]]
  /\ build' = [c \in Builders |->
       IF c = b THEN [build[c] EXCEPT !.pc = "section", !.own = TRUE]
       ELSE IF build[c].dir = build[b].dir THEN [build[c] EXCEPT !.own = FALSE] ELSE build[c]]
  /\ UNCHANGED <<crcs, builds, packaging>>

\* Mutant: a linker that fails leaves an empty file.
CompileFailsDirty(b) ==
  /\ BuildAt(b, "link")
  /\ BuildEnds(b)
  /\ file' = [file EXCEPT ![build[b].dir] =
                [there |-> TRUE, defects |-> {"section", "kcfi", "crc"}, vouched |-> "no"]]
  /\ UNCHANGED crcs

\* The compiler fails, or the linker, which then leaves module_file as it was.
CompileFails(b) ==
  /\ BuildAt(b, "link")
  /\ BuildEnds(b)
  /\ UNCHANGED <<file, crcs>>

\* A check of the file that is there now: fail() leaves it in place.
CheckWith(b, gate, next, looked) ==
  /\ BuildAt(b, gate)
  /\ IF ~ModuleFile(b).there \/ looked \cap ModuleFile(b).defects # {}
       THEN BuildEnds(b) ELSE BuildGoes(b, next)
  /\ UNCHANGED <<file, crcs>>

CheckSections(b) == CheckWith(b, "section", "kcfi", {"section"})

\* Mutant: the type ids are printed and not compared.
CheckKcfiBlind(b) == CheckWith(b, "kcfi", "import", {})

CheckKcfi(b) == CheckWith(b, "kcfi", "import", {"kcfi"})

\* for symbol in $(llvm-nm -u ... | awk ...): the status of llvm-nm is lost in
\* the pipe, so a file that is gone imports nothing.
CheckImports(b) ==
  /\ BuildAt(b, "import")
  /\ IF "import" \in ModuleFile(b).defects THEN BuildEnds(b) ELSE BuildGoes(b, "node")
  /\ UNCHANGED <<file, crcs>>

\* command -v "$node_bin" || fail ...
FindNode(b) ==
  /\ BuildAt(b, "node")
  /\ BuildGoes(b, "read") \/ BuildEnds(b)
  /\ UNCHANGED <<file, crcs>>

\* extract_module_crcs.mjs reads module_file (when it throws, over a symbol
\* without CRC, the build ends as in BuildInterrupted) ...
ReadCrcs(b) ==
  /\ BuildAt(b, "read")
  /\ IF ModuleFile(b).there
       THEN /\ build' = [build EXCEPT ![b].pc = "write",
              ![b].read = IF "crc" \in ModuleFile(b).defects THEN "differ" ELSE "agree"]
            /\ UNCHANGED <<builds, packaging>>
       ELSE BuildEnds(b)
  /\ UNCHANGED <<file, crcs>>

\* ... and writes crc_check, over that of any other build in the directory.
WriteCrcs(b) ==
  /\ BuildAt(b, "write")
  /\ crcs' = [crcs EXCEPT ![build[b].dir] = build[b].read]
  /\ build' = [build EXCEPT ![b].pc = "compare", ![b].read = "absent"]
  /\ UNCHANGED <<file, builds, packaging>>

\* while read -r crc symbol _; do ... done < "$crc_check"
CompareCrcs(b) ==
  /\ BuildAt(b, "compare")
  /\ IF crcs[build[b].dir] = "agree" THEN BuildGoes(b, "report") ELSE BuildEnds(b)
  /\ UNCHANGED <<file, crcs>>

\* The script prints vermagic and module_file, and ends with status 0.
Report(b) ==
  /\ BuildAt(b, "report")
  /\ file' = IF build[b].own /\ ModuleFile(b).there
               THEN [file EXCEPT ![build[b].dir].vouched =
                       IF build[b].alone THEN "alone" ELSE "beside"]
               ELSE file
  /\ BuildEnds(b)
  /\ UNCHANGED crcs

\* Nothing is cleaned up after a signal.
BuildInterrupted(b) ==
  /\ ~BuildAt(b, "idle")
  /\ BuildEnds(b)
  /\ UNCHANGED <<file, crcs>>

-----------------------------------------------------------------------------
(* Packaging, which always takes the module file of out/.                  *)

ko == file["out"]

PackageGoes(label) ==
  /\ package' = label
  /\ UNCHANGED <<file, crcs, build, builds, packages>>

\* stage_dir=$(mktemp -d ...)
StartPackage ==
  /\ package \in {"idle", "succeeded"} /\ packages < MaxPackages
  /\ package' = "test"
  /\ stage' = [NoStage EXCEPT !.there = TRUE]
  /\ packages' = packages + 1
  /\ UNCHANGED <<file, crcs, build, zip, builds>>

\* The EXIT trap: the stage directory goes.
PackageFails == PackageGoes("idle") /\ stage' = NoStage

\* [ -f "$module_file" ], module.prop, zip and unzip.
TestInputs ==
  /\ package = "test"
  /\ UNCHANGED zip
  /\ \/ ko.there /\ PackageGoes("prepare") /\ UNCHANGED stage
     \/ PackageFails

\* mkdir -p "$stage_dir/kmod" "$output_dir"; rm -f "$output_file": a stage
\* directory that is gone is made again.
PrepareStage ==
  /\ package = "prepare"
  /\ PackageGoes("scripts")
  /\ stage' = [NoStage EXCEPT !.there = TRUE]
  /\ zip' = NoZip

\* cp of the four files of kernelsu/, of which only module.prop was tested.
CopyScripts ==
  /\ package = "scripts"
  /\ UNCHANGED zip
  /\ \/ stage.there /\ PackageGoes("module") /\ stage' = [stage EXCEPT !.scripts = TRUE]
     \/ PackageFails

\* Mutant: cp ... || true.
CopyModuleUnchecked ==
  /\ package = "module"
  /\ UNCHANGED zip
  /\ PackageGoes("zip")
  /\ stage' = IF stage.there /\ ko.there THEN [stage EXCEPT !.module = ko] ELSE stage

\* cp "$module_file" "$stage_dir/kmod/...": whatever is there by now.
CopyModule ==
  /\ package = "module"
  /\ UNCHANGED zip
  /\ IF stage.there /\ ko.there
       THEN PackageGoes("zip") /\ stage' = [stage EXCEPT !.module = ko]
       ELSE PackageFails

\* ( cd "$stage_dir"; zip ... ): whole, or cut short by a signal.
Zip ==
  /\ package = "zip"
  /\ \/ /\ stage.there
        /\ PackageGoes("unzip")
        /\ zip' = [state |-> "whole", scripts |-> stage.scripts, module |-> stage.module]
        /\ UNCHANGED stage
     \/ /\ PackageFails
        /\ IF stage.there THEN zip' \in {NoZip, [NoZip EXCEPT !.state = "partial"]}
                          ELSE UNCHANGED zip

\* unzip -t "$output_file"; the last line prints it.
TestZip ==
  /\ package = "unzip"
  /\ UNCHANGED zip
  /\ \/ zip.state = "whole" /\ PackageGoes("succeeded") /\ stage' = NoStage
     \/ PackageFails

\* HUP, INT or TERM: the trap removes the stage directory and does not exit,
\* so the script goes on with its next command.
Signal ==
  /\ package \notin {"idle", "succeeded"}
  /\ stage' = NoStage
  /\ UNCHANGED <<file, crcs, build, package, zip, builds, packages>>

\* rm out/*
Clean ==
  /\ ko.there
  /\ file' = [file EXCEPT !["out"] = None] /\ crcs' = [crcs EXCEPT !["out"] = "absent"]
  /\ UNCHANGED <<build, builds, packaging>>

Build(b) ==
  \/ \E dir \in Dirs : StartBuild(b, dir)
  \/ \E defects \in Outcomes : Link(b, defects)
  \/ Prepare(b) \/ CompileFails(b) \/ CheckSections(b) \/ CheckKcfi(b) \/ CheckImports(b)
  \/ FindNode(b) \/ ReadCrcs(b) \/ WriteCrcs(b) \/ CompareCrcs(b) \/ Report(b)
  \/ BuildInterrupted(b)
Package ==
  \/ StartPackage \/ TestInputs \/ PrepareStage \/ CopyScripts \/ CopyModule
  \/ Zip \/ TestZip \/ Signal

Next == (\E b \in Builders : Build(b)) \/ Package \/ Clean

Spec == Init /\ [][Next]_vars

-----------------------------------------------------------------------------
(* Properties.                                                             *)

Modules == [there: BOOLEAN, defects: Outcomes \cup {{}}, vouched: {"no", "beside", "alone"}]

\* Type invariant of the two scripts' files.
TypeOK ==
  /\ file \in [Dirs -> Modules] /\ crcs \in [Dirs -> {"absent", "agree", "differ"}]
  /\ build \in [Builders ->
       [pc: {"idle", "prepare", "link", "section", "kcfi", "import", "node", "read", "write",
             "compare", "report"},
        dir: Dirs, read: {"absent", "agree", "differ"}, own: BOOLEAN, alone: BOOLEAN]]
  /\ package \in {"idle", "test", "prepare", "scripts", "module", "zip", "unzip", "succeeded"}
  /\ stage \in [there: BOOLEAN, scripts: BOOLEAN, module: Modules]
  /\ zip \in [state: {"absent", "partial", "whole"}, scripts: BOOLEAN, module: Modules]
  /\ builds \in 0..MaxBuilds /\ packages \in 0..MaxPackages

\* What packaging reports is whole (package script, line 46): the scripts and
\* a module, whatever signals it received, although its trap goes on after
\* them, and although out/ changes between its test and its copy.
ReportedZipIsWhole ==
  package = "succeeded" => zip.state = "whole" /\ zip.scripts /\ zip.module.there

\* A module whose own build ended successfully has the sections, type ids and
\* imports that were checked (lines 136-158), also when other builds link and
\* check in the same directory meanwhile, and wherever packaging has copied it
\* since.  Its CRCs (160-168) have been compared when the build was alone in
\* its directory; beside another build they may have been those of its file.
VouchedIsChecked ==
  \A m \in {file[d] : d \in Dirs} \cup {stage.module, zip.module} :
    /\ m.vouched # "no" => m.defects \subseteq {"crc"}
    /\ m.vouched = "alone" => "crc" \notin m.defects
=============================================================================
