------------------------------ MODULE BootProofs ------------------------------
(***************************************************************************)
(* Theorems about BootService, for any awaited modules, any modules with   *)
(* hooked symbols and any number of attempts, with the vendor's modules    *)
(* coming up in any order and root inserting and removing the module by    *)
(* hand: what the two scripts leave behind.                                *)
(***************************************************************************)
EXTENDS BootService, TLAPS

\* The service waits for an insmod of its own, and for no other.
LoaderInv ==
  /\ module = "coming" <=> loader # "none"
  /\ loader = "service" <=> ServiceAt("wait")

\* A directory that the service has seen stays: nobody unloads the vendor's
\* modules.
SeenInv ==
  /\ ServiceAt("test") => \A n \in 1..(service.next - 1) : vendor[Awaited[n]] = "there"
  /\ ServiceAt("insmod") \/ ServiceAt("wait") => AllThere(AwaitedModules)

\* The attempts are counted where the next one is still allowed.
AttemptInv == service.pc \in {"test", "sleep"} => service.attempt < MaxAttempts

\* An attempt that began with the three modules there does not end in sleep,
\* and insmod is the last command of the loop.
ReadyInv ==
  /\ ready => AllThere(AwaitedModules)
  /\ service.pc \in {"source", "testLoaded", "testFile", "while", "sleep"} => ~ready
  /\ service.pc \notin {"wait", "succeeded", "failed"} => ~tried
  /\ service.pc = "wait" => tried

\* Between the test and the rmmod of uninstall.sh the module is not being
\* initialised, unless an insmod was or came in between.
RemovalInv == uninstall = "rmmod" /\ ~touched => module # "coming"

Progress == LoaderInv /\ SeenInv /\ AttemptInv /\ ReadyInv
BootInv ==
  TypeOK /\ Progress /\ InsmodWhenReady /\ RemovalInv /\ UninstallLeavesNothing

States == [pc: {"source", "testLoaded", "testFile", "while", "test", "sleep", "insmod",
                "wait", "succeeded", "failed"},
           attempt: 0..MaxAttempts, next: DOMAIN Awaited]

-----------------------------------------------------------------------------
LEMMA AwaitedIndices ==
  /\ Len(Awaited) \in Nat \ {0} /\ DOMAIN Awaited = 1..Len(Awaited) /\ 1 \in DOMAIN Awaited
  /\ \A n \in DOMAIN Awaited : Awaited[n] \in Modules
<1>1. Awaited \in Seq(AwaitedModules) /\ Awaited # <<>>
  BY AwaitedAssumption
<1>2. Len(Awaited) \in Nat /\ DOMAIN Awaited = 1..Len(Awaited)
  BY <1>1
<1>3. Len(Awaited) # 0
  BY <1>1
<1>4. \A n \in DOMAIN Awaited : Awaited[n] \in AwaitedModules
  BY DEF AwaitedModules
<1>5. AwaitedModules \subseteq Modules
  BY DEF Modules
<1>6. Len(Awaited) \in Nat \ {0}
  BY <1>2, <1>3
<1>7. 1 \in 1..Len(Awaited)
  BY <1>6
<1> QED BY <1>2, <1>4, <1>5, <1>6, <1>7

LEMMA InitInv == Init => BootInv
<1> SUFFICES ASSUME Init PROVE BootInv
  OBVIOUS
<1>1. TypeOK
  <2>1. 0 \in 0..MaxAttempts /\ 1 \in DOMAIN Awaited
    BY AwaitedIndices, AttemptsAssumption
  <2>2. service \in States
    BY <2>1 DEF Init, States
  <2> QED BY <2>2 DEF Init, TypeOK, States
<1>2. Progress
  BY DEF Init, Progress, LoaderInv, SeenInv, AttemptInv, ReadyInv, ServiceAt
<1>3. InsmodWhenReady /\ RemovalInv /\ UninstallLeavesNothing
  BY DEF Init, InsmodWhenReady, RemovalInv, UninstallLeavesNothing, ServiceAt
<1> QED BY <1>1, <1>2, <1>3 DEF BootInv

-----------------------------------------------------------------------------
(* service.sh.                                                             *)

\* A command of the service before its insmod.
LEMMA ServiceStep ==
  ASSUME BootInv, NEW s \in States, service' = s, s.pc # "wait",
         UNCHANGED <<vendor, profile, kmod, module, loader, settings, uninstall, touched>>,
         service.pc \notin {"wait", "succeeded", "failed"}, tried' = tried,
         ready' \in BOOLEAN, ready' => AllThere(AwaitedModules),
         s.pc \in {"source", "testLoaded", "testFile", "while", "sleep"} => ~ready',
         s.pc = "test" => \A n \in 1..(s.next - 1) : vendor[Awaited[n]] = "there",
         s.pc = "insmod" => AllThere(AwaitedModules),
         s.pc \in {"test", "sleep"} => s.attempt < MaxAttempts,
         s.pc = "failed" =>
           \/ ~kmod \/ profile = "broken"
           \/ s.attempt = MaxAttempts /\ ~ready'
  PROVE  BootInv'
<1>1. TypeOK'
  BY ZenonT(60) DEF BootInv, TypeOK, States
<1>2. LoaderInv' /\ SeenInv' /\ AttemptInv' /\ ReadyInv'
  BY DEF BootInv, Progress, LoaderInv, SeenInv, AttemptInv, ReadyInv, ServiceAt, AllThere
<1>3. RemovalInv' /\ UninstallLeavesNothing'
  BY DEF BootInv, RemovalInv, UninstallLeavesNothing
<1>4. ~tried'
  BY DEF BootInv, Progress, ReadyInv
<1>5. InsmodWhenReady'
  BY <1>4 DEF InsmodWhenReady, ServiceAt
<1> QED BY <1>1, <1>2, <1>3, <1>5 DEF BootInv, Progress

LEMMA ScriptKeeps ==
  ASSUME BootInv, SourceProfile \/ TestLoaded \/ TestFile \/ While \/ Test \/ Sleep
  PROVE  BootInv'
<1>2. service \in States /\ service.attempt \in 0..MaxAttempts /\ service.next \in DOMAIN Awaited
  BY DEF BootInv, TypeOK, States
<1>3. /\ ready \in BOOLEAN
      /\ ready => AllThere(AwaitedModules)
      /\ service.pc \in {"source", "testLoaded", "testFile", "while", "sleep"} => ~ready
  BY DEF BootInv, TypeOK, Progress, ReadyInv
<1>4. ASSUME NEW label \in {"testLoaded", "succeeded", "testFile", "while", "failed"},
             service.pc \in {"source", "testLoaded", "testFile"}, ServiceGoes(label),
             label = "failed" => ~kmod \/ profile = "broken"
      PROVE  BootInv'
  <2> DEFINE s == [service EXCEPT !.pc = label]
  <2>1. s \in States /\ s.pc = label
    BY <1>2 DEF States
  <2>2. /\ service' = s
        /\ UNCHANGED <<vendor, profile, kmod, module, loader, settings, uninstall, ready, tried,
                       touched>>
    BY <1>4 DEF ServiceGoes, environment, history
  <2> HIDE DEF s
  <2> QED BY <1>3, <1>4, <2>1, <2>2, ServiceStep
<1>5. CASE SourceProfile
  <2>1. service.pc = "source"
    BY <1>5 DEF SourceProfile, ServiceAt
  <2>2. CASE profile = "broken"
    BY <1>4, <1>5, <2>1, <2>2 DEF SourceProfile
  <2>3. CASE profile # "broken"
    BY <1>4, <1>5, <2>1, <2>3 DEF SourceProfile
  <2> QED BY <2>2, <2>3
<1>6. CASE TestLoaded
  <2>1. service.pc = "testLoaded"
    BY <1>6 DEF TestLoaded, ServiceAt
  <2>2. CASE DirectoryExists
    BY <1>4, <1>6, <2>1, <2>2 DEF TestLoaded
  <2>3. CASE ~DirectoryExists
    BY <1>4, <1>6, <2>1, <2>3 DEF TestLoaded
  <2> QED BY <2>2, <2>3
<1>7. CASE TestFile
  <2>1. service.pc = "testFile"
    BY <1>7 DEF TestFile, ServiceAt
  <2>2. CASE kmod
    BY <1>4, <1>7, <2>1, <2>2 DEF TestFile
  <2>3. CASE ~kmod
    BY <1>4, <1>7, <2>1, <2>3 DEF TestFile
  <2> QED BY <2>2, <2>3
<1>8. CASE While
  <2>1. /\ service.pc = "while" /\ ~ready
        /\ UNCHANGED <<vendor, profile, kmod, module, loader, settings, uninstall, tried,
                       touched>>
    BY <1>3, <1>8 DEF While, ServiceAt, environment
  <2>2. CASE service.attempt < MaxAttempts
    <3> DEFINE s == [service EXCEPT !.pc = "test", !.next = 1]
    <3>1. /\ s \in States /\ s.pc = "test" /\ s.next = 1
          /\ s.attempt = service.attempt
      BY <1>2, AwaitedIndices DEF States
    <3>2. service' = s /\ ready' = AllThere(AwaitedModules)
      BY <1>8, <2>2 DEF While
    <3> HIDE DEF s
    <3>3. ready' \in BOOLEAN /\ (ready' => AllThere(AwaitedModules))
      BY <3>2 DEF AllThere
    <3>4. \A n \in 1..(s.next - 1) : vendor[Awaited[n]] = "there"
      BY <3>1
    <3> QED BY <2>1, <2>2, <3>1, <3>2, <3>3, <3>4, ServiceStep
  <2>3. CASE ~(service.attempt < MaxAttempts)
    <3> DEFINE s == [service EXCEPT !.pc = "failed"]
    <3>1. /\ s \in States /\ s.pc = "failed" /\ s.attempt = service.attempt
      BY <1>2 DEF States
    <3>2. service' = s /\ ready' = ready
      BY <1>8, <2>3 DEF While
    <3>3. service.attempt = MaxAttempts
      BY <1>2, <2>3, AttemptsAssumption
    <3> HIDE DEF s
    <3> QED BY <1>3, <2>1, <3>1, <3>2, <3>3, ServiceStep
  <2> QED BY <2>2, <2>3
<1>9. CASE Test
  <2> DEFINE n == service.next
  <2>1. /\ service.pc = "test"
        /\ UNCHANGED <<vendor, profile, kmod, module, loader, settings, uninstall, ready, tried,
                       touched>>
    BY <1>9 DEF Test, TestUpTo, ServiceAt, environment, history
  <2>2. /\ \A i \in 1..(n - 1) : vendor[Awaited[i]] = "there"
        /\ service.attempt < MaxAttempts /\ n \in 1..Len(Awaited) /\ Len(Awaited) \in Nat
    BY <1>2, <2>1, AwaitedIndices
       DEF BootInv, Progress, SeenInv, AttemptInv, ServiceAt
  <2>3. CASE vendor[Awaited[n]] = "absent"
    <3> DEFINE s == [service EXCEPT !.pc = "sleep"]
    <3>1. s \in States /\ s.pc = "sleep" /\ s.attempt = service.attempt
      BY <1>2 DEF States
    <3>2. service' = s
      BY <1>9, <2>3 DEF Test, TestUpTo
    <3>3. ~AllThere(AwaitedModules)
      BY <1>2, <2>3 DEF AllThere, AwaitedModules
    <3> HIDE DEF s
    <3> QED BY <1>3, <2>1, <2>2, <3>1, <3>2, <3>3, ServiceStep
  <2>4. vendor[Awaited[n]] # "absent" => vendor[Awaited[n]] = "there"
    BY <1>2, AwaitedIndices DEF BootInv, TypeOK
  <2>5. CASE vendor[Awaited[n]] # "absent" /\ n = Len(Awaited)
    <3> DEFINE s == [service EXCEPT !.pc = "insmod"]
    <3>1. s \in States /\ s.pc = "insmod"
      BY <1>2 DEF States
    <3>2. service' = s
      BY <1>9, <2>5 DEF Test, TestUpTo
    <3> HIDE DEF s
    <3>3. \A i \in DOMAIN Awaited : vendor[Awaited[i]] = "there"
      BY <2>2, <2>4, <2>5, AwaitedIndices
    <3>4. AllThere(AwaitedModules)
      BY <3>3 DEF AllThere, AwaitedModules
    <3> QED BY <1>3, <2>1, <3>1, <3>2, <3>4, ServiceStep
  <2>6. CASE vendor[Awaited[n]] # "absent" /\ n # Len(Awaited)
    <3> DEFINE s == [service EXCEPT !.next = n + 1]
    <3>1. n + 1 \in DOMAIN Awaited
      BY <2>2, <2>6, AwaitedIndices
    <3>2. s \in States /\ s.pc = "test" /\ s.next = n + 1 /\ s.attempt = service.attempt
      BY <1>2, <2>1, <3>1 DEF States
    <3>3. service' = s
      BY <1>9, <2>6 DEF Test, TestUpTo
    <3> HIDE DEF s
    <3>4. \A i \in 1..(s.next - 1) : vendor[Awaited[i]] = "there"
      BY <2>2, <2>4, <2>6, <3>2
    <3> QED BY <1>3, <2>1, <2>2, <3>2, <3>3, <3>4, ServiceStep
  <2> QED BY <2>3, <2>5, <2>6
<1>10. CASE Sleep
  <2> DEFINE s == [service EXCEPT !.pc = "while", !.attempt = @ + 1]
  <2>1. /\ service.pc = "sleep" /\ service' = s /\ ~ready
        /\ UNCHANGED <<vendor, profile, kmod, module, loader, settings, uninstall, ready, tried,
                       touched>>
    BY <1>3, <1>10 DEF Sleep, ServiceAt, environment, history
  <2>2. service.attempt + 1 \in 0..MaxAttempts
    BY <1>2, <2>1, AttemptsAssumption DEF BootInv, Progress, AttemptInv
  <2>3. s \in States /\ s.pc = "while"
    BY <1>2, <2>2 DEF States
  <2> HIDE DEF s
  <2> QED BY <1>3, <2>1, <2>3, ServiceStep
<1> QED BY <1>5, <1>6, <1>7, <1>8, <1>9, <1>10

\* The service inserts the module, or is refused.
LEMMA InsmodKeeps ==
  ASSUME BootInv, Insmod
  PROVE  BootInv'
<1>1. service \in States /\ service.pc = "insmod" /\ AllThere(AwaitedModules)
  BY DEF BootInv, TypeOK, States, Insmod, ServiceAt, Progress, SeenInv
<1>2. UNCHANGED <<vendor, profile, kmod, uninstall, ready>> /\ tried' = TRUE
  BY DEF Insmod, environment
<1>3. PICK l \in {"wait", "failed"} :
        /\ service' = [service EXCEPT !.pc = l]
        /\ IF l = "wait" THEN /\ module' = "coming" /\ loader' = "service"
                              /\ settings' = profile /\ touched' = TRUE
                         ELSE UNCHANGED <<module, loader, settings, touched>>
  BY DEF Insmod
<1> DEFINE s == [service EXCEPT !.pc = l]
<1>4. s \in States /\ s.pc = l
  BY <1>1 DEF States
<1>5. service' = s
  BY <1>3
<1> HIDE DEF s
<1>6. TypeOK'
  <2>1. CASE l = "wait"
    BY <1>2, <1>3, <1>4, <1>5, <2>1 DEF BootInv, TypeOK, States
  <2>2. CASE l # "wait"
    BY <1>2, <1>3, <1>4, <1>5, <2>2, ZenonT(60) DEF BootInv, TypeOK, States
  <2> QED BY <2>1, <2>2
<1>7. Progress'
  BY <1>1, <1>2, <1>3, <1>4, <1>5
     DEF BootInv, Progress, LoaderInv, SeenInv, AttemptInv, ReadyInv, ServiceAt, AllThere
<1>8. InsmodWhenReady'
  BY <1>1, <1>2 DEF InsmodWhenReady, AllThere
<1>9. RemovalInv' /\ UninstallLeavesNothing'
  BY <1>2, <1>3 DEF BootInv, RemovalInv, UninstallLeavesNothing
<1> QED BY <1>6, <1>7, <1>8, <1>9 DEF BootInv

-----------------------------------------------------------------------------
(* The insmod in progress ends, the service's or root's.                   *)

LEMMA LoadEndKeeps ==
  ASSUME BootInv, InitSucceeds \/ InitFails
  PROVE  BootInv'
<1>1. service \in States /\ module = "coming" /\ loader # "none"
  BY DEF BootInv, TypeOK, States, InitSucceeds, InitFails, Progress, LoaderInv
<1>2. module' \in {"absent", "live"} /\ loader' = "none" /\ settings' \in {settings, "none"}
      /\ UNCHANGED <<vendor, profile, kmod, uninstall, touched, ready, tried>>
  BY DEF InitSucceeds, InitFails, environment, history
<1>3. RemovalInv' /\ UninstallLeavesNothing'
  BY <1>1, <1>2 DEF BootInv, RemovalInv, UninstallLeavesNothing
<1>4. CASE loader = "service"
  <2>1. service.pc = "wait" /\ AllThere(AwaitedModules) /\ tried
    BY <1>4 DEF BootInv, Progress, LoaderInv, SeenInv, ReadyInv, ServiceAt
  <2>2. PICK l \in {"succeeded", "failed"} : service' = [service EXCEPT !.pc = l]
    BY <1>4 DEF InitSucceeds, InitFails, Told
  <2> DEFINE s == [service EXCEPT !.pc = l]
  <2>3. s \in States /\ s.pc = l
    BY <1>1 DEF States
  <2>4. service' = s
    BY <2>2
  <2> HIDE DEF s
  <2>5. TypeOK'
    BY <1>2, <2>3, <2>4, ZenonT(60) DEF BootInv, TypeOK, States
  <2>6. Progress'
    BY <1>2, <2>3, <2>4
       DEF BootInv, Progress, LoaderInv, SeenInv, AttemptInv, ReadyInv, ServiceAt, AllThere
  <2>7. InsmodWhenReady'
    BY <1>2, <2>1 DEF InsmodWhenReady, AllThere
  <2> QED BY <1>3, <2>5, <2>6, <2>7 DEF BootInv
<1>5. CASE loader # "service"
  <2>1. service' = service
    BY <1>5 DEF InitSucceeds, InitFails, Told
  <2>2. service.pc # "wait"
    BY <1>5 DEF BootInv, Progress, LoaderInv, ServiceAt
  <2>3. TypeOK'
    BY <1>2, <2>1, ZenonT(60) DEF BootInv, TypeOK
  <2>4. Progress'
    BY <1>1, <1>2, <2>1, <2>2
       DEF BootInv, Progress, LoaderInv, SeenInv, AttemptInv, ReadyInv, ServiceAt, AllThere
  <2>5. InsmodWhenReady'
    BY <1>2, <2>1 DEF BootInv, InsmodWhenReady, ServiceAt, AllThere
  <2> QED BY <1>3, <2>3, <2>4, <2>5 DEF BootInv
<1> QED BY <1>4, <1>5

-----------------------------------------------------------------------------
(* uninstall.sh, root and the vendor's modules.                            *)

LEMMA UninstallKeeps ==
  ASSUME BootInv, UninstallTests \/ UninstallRemoves
  PROVE  BootInv'
<1>1. UNCHANGED <<vendor, profile, kmod, loader, service, ready, tried>>
  BY DEF UninstallTests, UninstallRemoves, UninstallGoes, environment, history
<1>2. CASE UninstallTests
  <2>1. /\ uninstall' = IF DirectoryExists THEN "rmmod" ELSE "done"
        /\ touched' = (module = "coming") /\ UNCHANGED <<module, settings>>
    BY <1>2 DEF UninstallTests, UninstallGoes
  <2>2. touched' \in BOOLEAN
    BY <2>1
  <2>3. TypeOK'
    BY <1>1, <2>1, <2>2 DEF BootInv, TypeOK
  <2>4. Progress' /\ InsmodWhenReady'
    BY <1>1, <2>1
       DEF BootInv, Progress, LoaderInv, SeenInv, AttemptInv, ReadyInv, ServiceAt, AllThere,
           InsmodWhenReady
  <2>5. RemovalInv' /\ UninstallLeavesNothing'
    BY <2>1 DEF RemovalInv, UninstallLeavesNothing, DirectoryExists
  <2> QED BY <2>3, <2>4, <2>5 DEF BootInv
<1>3. CASE UninstallRemoves
  <2>1. /\ uninstall = "rmmod" /\ uninstall' = "done" /\ touched' = touched
        /\ \/ module = "live" /\ module' = "absent" /\ settings' = "none"
           \/ module # "live" /\ UNCHANGED <<module, settings>>
    BY <1>3 DEF UninstallRemoves, UninstallGoes
  <2>2. TypeOK'
    BY <1>1, <2>1 DEF BootInv, TypeOK
  <2>3. Progress' /\ InsmodWhenReady'
    BY <1>1, <2>1
       DEF BootInv, Progress, LoaderInv, SeenInv, AttemptInv, ReadyInv, ServiceAt, AllThere,
           InsmodWhenReady
  <2>4. RemovalInv' /\ UninstallLeavesNothing'
    BY <2>1 DEF BootInv, TypeOK, RemovalInv, UninstallLeavesNothing
  <2> QED BY <2>2, <2>3, <2>4 DEF BootInv
<1> QED BY <1>2, <1>3

LEMMA DeviceKeeps ==
  ASSUME BootInv, (\E m \in Modules : VendorLoads(m)) \/ RootInsmod \/ RootRmmod
  PROVE  BootInv'
<1>1. ASSUME NEW m \in Modules, VendorLoads(m) PROVE BootInv'
  <2>1. /\ vendor' = [vendor EXCEPT ![m] = "there"]
        /\ UNCHANGED <<profile, kmod, module, loader, settings, service, uninstall, ready,
                       tried, touched>>
    BY <1>1 DEF VendorLoads, history
  <2>2. /\ vendor' \in [Modules -> {"absent", "there"}]
        /\ \A o \in Modules : vendor[o] = "there" => vendor'[o] = "there"
    BY <2>1 DEF BootInv, TypeOK
  <2>3. TypeOK'
    BY <2>1, <2>2, ZenonT(60) DEF BootInv, TypeOK
  <2>4. SeenInv'
    <3>1. service.next \in DOMAIN Awaited
      BY DEF BootInv, TypeOK
    <3>2. \A n \in 1..(service.next - 1) : Awaited[n] \in Modules
      BY <3>1, AwaitedIndices
    <3>3. AwaitedModules \subseteq Modules
      BY DEF Modules
    <3> QED BY <2>1, <2>2, <3>2, <3>3 DEF BootInv, Progress, SeenInv, AllThere, ServiceAt
  <2>5. AllThere(AwaitedModules) => AllThere(AwaitedModules)'
    BY <2>2 DEF AllThere, Modules
  <2>6. Progress' /\ InsmodWhenReady' /\ RemovalInv' /\ UninstallLeavesNothing'
    BY <2>1, <2>4, <2>5
       DEF BootInv, Progress, LoaderInv, AttemptInv, ReadyInv, ServiceAt, InsmodWhenReady,
           RemovalInv, UninstallLeavesNothing
  <2> QED BY <2>3, <2>6 DEF BootInv
<1>2. CASE RootInsmod
  <2>1. /\ RootActs /\ module = "absent" /\ module' = "coming" /\ loader' = "root"
        /\ settings' = "armed" /\ touched' = TRUE
        /\ UNCHANGED <<vendor, profile, kmod, service, uninstall, ready, tried>>
    BY <1>2 DEF RootInsmod, environment, history
  <2>2. TypeOK'
    BY <2>1 DEF BootInv, TypeOK
  <2>3. Progress' /\ InsmodWhenReady'
    BY <2>1
       DEF BootInv, Progress, LoaderInv, SeenInv, AttemptInv, ReadyInv, ServiceAt, AllThere,
           InsmodWhenReady
  <2>4. RemovalInv' /\ UninstallLeavesNothing'
    BY <2>1 DEF RemovalInv, UninstallLeavesNothing
  <2> QED BY <2>2, <2>3, <2>4 DEF BootInv
<1>3. CASE RootRmmod
  <2>1. /\ module = "live" /\ module' = "absent" /\ settings' = "none"
        /\ UNCHANGED <<vendor, profile, kmod, loader, service, uninstall, ready, tried,
                       touched>>
    BY <1>3 DEF RootRmmod, environment, history
  <2>2. TypeOK'
    BY <2>1 DEF BootInv, TypeOK
  <2>3. Progress' /\ InsmodWhenReady'
    BY <2>1
       DEF BootInv, Progress, LoaderInv, SeenInv, AttemptInv, ReadyInv, ServiceAt, AllThere,
           InsmodWhenReady
  <2>4. RemovalInv' /\ UninstallLeavesNothing'
    BY <2>1 DEF RemovalInv, UninstallLeavesNothing
  <2> QED BY <2>2, <2>3, <2>4 DEF BootInv
<1> QED BY <1>1, <1>2, <1>3

-----------------------------------------------------------------------------
LEMMA NextInv == BootInv /\ [Next]_vars => BootInv'
<1> SUFFICES ASSUME BootInv, [Next]_vars PROVE BootInv'
  OBVIOUS
<1>1. CASE Next
  BY <1>1, ScriptKeeps, InsmodKeeps, LoadEndKeeps, UninstallKeeps, DeviceKeeps
     DEF Next, Service
<1>2. CASE UNCHANGED vars
  BY <1>2, ZenonT(60)
     DEF vars, history, BootInv, TypeOK, Progress, LoaderInv, SeenInv, AttemptInv, ReadyInv, ServiceAt,
         AllThere, InsmodWhenReady, RemovalInv, UninstallLeavesNothing
<1> QED BY <1>1, <1>2

LEMMA BootInvariant == Spec => []BootInv
<1>1. BootInv /\ [Next]_vars => BootInv'
  BY NextInv
<1> QED BY <1>1, InitInv, PTL DEF Spec

\* The scripts keep their types; the attempts stay within their bound and the
\* tests within the awaited modules.
THEOREM BootTypeCorrect == Spec => []TypeOK
<1>1. BootInv => TypeOK
  BY DEF BootInv
<1> QED BY <1>1, BootInvariant, PTL

\* The service inserts the module only with the three awaited modules there, and
\* does not give up untried while they were there when an attempt began,
\* however many modules it waits for and however many attempts it has
\* (service.sh, 15-42).
THEOREM ServiceTriesWhenReady == Spec => []InsmodWhenReady
<1>1. BootInv => InsmodWhenReady
  BY DEF BootInv
<1> QED BY <1>1, BootInvariant, PTL

\* uninstall.sh (3-5) leaves no module behind whose init was over at its test,
\* unless it was inserted again; one still being initialised may stay.
THEOREM UninstallIsClean == Spec => []UninstallLeavesNothing
<1>1. BootInv => UninstallLeavesNothing
  BY DEF BootInv
<1> QED BY <1>1, BootInvariant, PTL
=============================================================================
