----------------------------- MODULE BootService -----------------------------
(***************************************************************************)
(* kernelsu/service.sh and kernelsu/uninstall.sh: the KernelSU service     *)
(* reads the profile, waits for three vendor modules to appear in          *)
(* /sys/module and inserts the module once; the uninstall script removes   *)
(* it.  The vendor's modules come up in any order meanwhile, and root may  *)
(* insert or remove the module by hand, so whatever a script has tested    *)
(* may have changed when it acts.                                          *)
(*                                                                         *)
(* External: insmod (which refuses parameters that do not parse, a module  *)
(* that is there already, another vermagic or CRC, or anything when memory *)
(* is short), rmmod, and what the two do to /sys/module.  The directory of *)
(* a module exists from the beginning of its load, before its init         *)
(* function has run.                                                       *)
(***************************************************************************)
EXTENDS Naturals, Sequences

CONSTANTS
  Awaited,     \* the three vendor modules of lines 17-19, in that order
  Providers,   \* the modules with hooked symbols; the repository does not say
               \* that they are the awaited ones
  MaxAttempts, \* 90 in the source
  Profiles,    \* the states profile.conf may be in
  KmodFiles,   \* {TRUE}, or also FALSE when the .ko may be missing
  RootActs     \* TRUE when root runs insmod and rmmod by hand

AwaitedModules == {Awaited[n] : n \in DOMAIN Awaited}
Modules == AwaitedModules \cup Providers

ASSUME AttemptsAssumption == MaxAttempts \in Nat \ {0}
ASSUME AwaitedAssumption == Awaited # <<>> /\ Awaited \in Seq(AwaitedModules)
ASSUME ProfileAssumption ==
  /\ Profiles \subseteq {"armed", "inert", "incomplete", "unreadable", "broken"}
  /\ KmodFiles \subseteq BOOLEAN /\ RootActs \in BOOLEAN

VARIABLES
  vendor,    \* vendor[m]: "absent", or "there" once its directory exists
  module,    \* the state of k100pm_chg_runtime
  loader,    \* who runs the insmod in progress
  settings,  \* the profile whose parameters the module was loaded with
  profile, kmod,
  service,   \* where service.sh is: pc, attempt, index of the next test
  uninstall, \* where uninstall.sh is
  ready,     \* history: the awaited modules were all there when the
             \* attempt began
  tried,     \* history: the service has run insmod
  touched    \* history: the module was inserted, or being inserted, since
             \* the test of uninstall.sh

history == <<ready, tried>>
vars == <<vendor, module, loader, settings, profile, kmod, service, uninstall, history, touched>>
environment == <<vendor, profile, kmod>>

Init ==
  /\ vendor = [m \in Modules |-> "absent"]
  /\ module = "absent" /\ loader = "none" /\ settings = "none"
  /\ profile \in Profiles /\ kmod \in KmodFiles
  /\ service = [pc |-> "source", attempt |-> 0, next |-> 1]
  /\ uninstall = "notStarted"
  /\ ready = FALSE /\ tried = FALSE
  /\ touched = FALSE

\* [ -d /sys/module/k100pm_chg_runtime ]
DirectoryExists == module # "absent"
AllThere(set) == \A m \in set : vendor[m] = "there"

ServiceAt(label) == service.pc = label
ServiceGoes(label) ==
  /\ service' = [service EXCEPT !.pc = label]
  /\ UNCHANGED <<environment, module, loader, settings, uninstall, history, touched>>

-----------------------------------------------------------------------------
(* service.sh.                                                             *)

\* [ -r "$DEFAULT_PROFILE" ] && . "$DEFAULT_PROFILE": the shell ends when the
\* sourced file has a syntax error.
SourceProfile ==
  /\ ServiceAt("source")
  /\ ServiceGoes(IF profile = "broken" THEN "failed" ELSE "testLoaded")

\* [ -d "/sys/module/$MODNAME" ] && exit 0
TestLoaded ==
  /\ ServiceAt("testLoaded")
  /\ ServiceGoes(IF DirectoryExists THEN "succeeded" ELSE "testFile")

\* [ -f "$KMOD" ] || exit 1
TestFile ==
  /\ ServiceAt("testFile")
  /\ ServiceGoes(IF kmod THEN "while" ELSE "failed")

\* while [ "$attempt" -lt 90 ]
While ==
  /\ ServiceAt("while")
  /\ IF service.attempt < MaxAttempts
       THEN /\ service' = [service EXCEPT !.pc = "test", !.next = 1]
            /\ ready' = AllThere(AwaitedModules)
       ELSE service' = [service EXCEPT !.pc = "failed"] /\ UNCHANGED ready
  /\ UNCHANGED <<environment, module, loader, settings, uninstall, tried, touched>>

TestUpTo(last) ==
  LET n == service.next IN
  /\ ServiceAt("test")
  /\ service' = IF vendor[Awaited[n]] = "absent" THEN [service EXCEPT !.pc = "sleep"]
                ELSE IF n = last THEN [service EXCEPT !.pc = "insmod"]
                ELSE [service EXCEPT !.next = n + 1]
  /\ UNCHANGED <<environment, module, loader, settings, uninstall, history, touched>>

\* Mutants: the last test is left out, or there is one too many.
TestShort == TestUpTo(Len(Awaited) - 1)
TestLong == TestUpTo(Len(Awaited) + 1)

\* [ -d /sys/module/mca_platform_buckchg_class ] && ... && ...: one look at a
\* time, the first that fails ends the attempt.
Test == TestUpTo(Len(Awaited))

\* Mutant: the attempt is not counted.
SleepUncounted == ServiceAt("sleep") /\ ServiceGoes("while")

\* attempt=$((attempt + 1)); sleep 1
Sleep ==
  /\ ServiceAt("sleep")
  /\ service' = [service EXCEPT !.pc = "while", !.attempt = @ + 1]
  /\ UNCHANGED <<environment, module, loader, settings, uninstall, history, touched>>

\* insmod "$KMOD" armed="$K100PM_ARMED" ...: a variable the profile did not
\* set expands to nothing, which no bool and no uint parameter parses.  The
\* insmod may be refused for any reason of its own.
Usable == {"armed", "inert"}
Insmod ==
  /\ ServiceAt("insmod")
  /\ tried' = TRUE
  /\ \/ /\ profile \in Usable /\ ~DirectoryExists
        /\ module' = "coming" /\ loader' = "service" /\ settings' = profile
        /\ service' = [service EXCEPT !.pc = "wait"]
        /\ touched' = TRUE
     \/ /\ service' = [service EXCEPT !.pc = "failed"]
        /\ UNCHANGED <<module, loader, settings, touched>>
  /\ UNCHANGED <<environment, uninstall, ready>>

-----------------------------------------------------------------------------
(* The module's init function, run by the insmod in progress, of the       *)
(* service or of root.                                                     *)

Told(ok) ==
  service' = IF loader = "service"
               THEN [service EXCEPT !.pc = IF ok THEN "succeeded" ELSE "failed"] ELSE service

\* Not armed, or all symbols found and registered (lines 642-665).
InitSucceeds ==
  /\ module = "coming"
  /\ settings = "inert" \/ AllThere(Providers)
  /\ module' = "live" /\ loader' = "none"
  /\ Told(TRUE)
  /\ UNCHANGED <<environment, settings, uninstall, history, touched>>

\* register_kretprobe does not find a symbol, or fails for a reason of its own
\* (lines 651-658).
InitFails ==
  /\ module = "coming"
  /\ settings # "inert"
  /\ module' = "absent" /\ loader' = "none" /\ settings' = "none"
  /\ Told(FALSE)
  /\ UNCHANGED <<environment, uninstall, history, touched>>

-----------------------------------------------------------------------------
(* uninstall.sh.                                                           *)

UninstallGoes(label) ==
  /\ uninstall' = label
  /\ UNCHANGED <<environment, loader, service, history>>

\* if [ -d /sys/module/k100pm_chg_runtime ]; then
UninstallTests ==
  /\ uninstall = "notStarted"
  /\ UninstallGoes(IF DirectoryExists THEN "rmmod" ELSE "done")
  /\ touched' = (module = "coming")
  /\ UNCHANGED <<module, settings>>

\* Mutant: the script tests and ends.
UninstallIdle ==
  /\ uninstall = "rmmod"
  /\ UninstallGoes("done")
  /\ UNCHANGED <<module, settings, touched>>

\* rmmod ... 2>/dev/null || true: a module that is still being initialised is
\* busy, and nobody hears of it.
UninstallRemoves ==
  /\ uninstall = "rmmod"
  /\ UninstallGoes("done")
  /\ IF module = "live" THEN module' = "absent" /\ settings' = "none"
                        ELSE UNCHANGED <<module, settings>>
  /\ UNCHANGED touched

-----------------------------------------------------------------------------
(* The rest of the device.                                                 *)

VendorLoads(m) ==
  /\ vendor[m] = "absent"
  /\ vendor' = [vendor EXCEPT ![m] = "there"]
  /\ UNCHANGED <<module, loader, settings, profile, kmod, service, uninstall, history, touched>>

\* Root inserts the module, armed, by hand.
RootInsmod ==
  /\ RootActs /\ module = "absent"
  /\ module' = "coming" /\ loader' = "root" /\ settings' = "armed"
  /\ touched' = TRUE
  /\ UNCHANGED <<environment, service, uninstall, history>>

RootRmmod ==
  /\ RootActs /\ module = "live"
  /\ module' = "absent" /\ settings' = "none"
  /\ UNCHANGED <<environment, loader, service, uninstall, history, touched>>

Service ==
  SourceProfile \/ TestLoaded \/ TestFile \/ While \/ Test \/ Sleep \/ Insmod

Next ==
  \/ Service \/ InitSucceeds \/ InitFails
  \/ UninstallTests \/ UninstallRemoves
  \/ \E m \in Modules : VendorLoads(m)
  \/ RootInsmod \/ RootRmmod

Spec == Init /\ [][Next]_vars

\* The shell runs on, and so does an insmod in progress; neither the vendor's
\* modules nor root nor uninstall.sh have to do anything.
Fairness == WF_vars(Service) /\ WF_vars(InitSucceeds \/ InitFails)
FairSpec == Spec /\ Fairness

-----------------------------------------------------------------------------
(* Properties.                                                             *)

\* Type invariant of the boot.
TypeOK ==
  /\ vendor \in [Modules -> {"absent", "there"}]
  /\ module \in {"absent", "coming", "live"}
  /\ loader \in {"none", "service", "root"}
  /\ settings \in Profiles \cup {"none", "armed"}
  /\ profile \in Profiles /\ kmod \in KmodFiles
  /\ service \in [pc: {"source", "testLoaded", "testFile", "while", "test", "sleep", "insmod",
                       "wait", "succeeded", "failed"},
                  attempt: 0..MaxAttempts, next: DOMAIN Awaited]
  /\ uninstall \in {"notStarted", "rmmod", "done"}
  /\ ready \in BOOLEAN /\ tried \in BOOLEAN /\ touched \in BOOLEAN

\* The service inserts the module only when the three modules it looks for one
\* by one are all there (lines 17-19), and it does not give up without having
\* tried (line 42) unless the file or the profile is no good, or all attempts
\* are used up and the three were not all there when the last one began.
InsmodWhenReady ==
  /\ tried => AllThere(AwaitedModules)
  /\ ServiceAt("failed") /\ ~tried =>
       \/ ~kmod \/ profile = "broken"
       \/ service.attempt = MaxAttempts /\ ~ready

\* After uninstall.sh a module whose init was over is gone (uninstall.sh:3-5).
\* One that was still being initialised at the test, or was inserted again
\* after it, may stay: that is what `touched' excepts.
UninstallLeavesNothing == uninstall = "done" /\ ~touched => module = "absent"

\* The boot script ends, with or without the vendor's modules, and whatever
\* else is loaded or removed meanwhile.
ServiceEnds == <>(ServiceAt("succeeded") \/ ServiceAt("failed"))
=============================================================================
