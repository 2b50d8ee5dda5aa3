---------------------------- MODULE LifecycleProofs ----------------------------
(***************************************************************************)
(* Theorems about ProbeLifecycle, for a probe table of any length, any set *)
(* of tasks and any number of loads.                                       *)
(***************************************************************************)
EXTENDS ProbeLifecycle, TLAPS

\* What the loop of init knows at each of its places: i and
\* k100pm_registered move together, and there is an entry left to register.
LoopInv ==
  /\ loader \in {"register", "count"} => i = k100pm_registered /\ i < N
  /\ loader \in {"init", "absent"} => k100pm_registered = 0
  /\ loader = "init" => i = 0
  /\ loader = "loaded" => k100pm_registered \in {0, N}

\* A handler that runs belongs to the module that is loaded and to an armed
\* entry, or else the grace period in progress waits for it.
HandlersHeld ==
  \A k \in InHandler :
    /\ call[k].load = loads
    /\ \/ call[k].probe \in hooked
       \/ loader \in {"unwindWait", "exitWait"} /\ k \in readers

TypeInv == TypeOK /\ LoopInv
LifecycleInv == TypeInv /\ CountNamesTheHooks /\ HandlersHeld

-----------------------------------------------------------------------------
LEMMA InitInv == Init => LifecycleInv
BY TableAssumption, LoadAssumption
   DEF Init, LifecycleInv, TypeInv, TypeOK, LoopInv, CountNamesTheHooks, HandlersHeld,
       InHandler, IdleCall, Labels, InitLabels, Entries

\* The steps of init, exit, insmod and rmmod keep the types and the loop
\* invariant.
LEMMA LoaderTypes ==
  ASSUME TypeInv, CountNamesTheHooks,
         Loader \/ Rmmod \/ \E a \in ArmedValues : Insmod(a) \/ SetArmed(a)
  PROVE  TypeInv'
<1> USE TableAssumption, LoadAssumption
    DEF TypeInv, TypeOK, LoopInv, Labels, InitLabels, Entries
<1>1. CASE ReadArmed BY <1>1 DEF ReadArmed
<1>2. CASE RegisterOk BY <1>2 DEF RegisterOk
<1>3. CASE RegisterFails BY <1>3 DEF RegisterFails
<1>4. CASE Count BY <1>4 DEF Count, CountUpTo
<1>5. CASE Remove
  <2>1. hooked' \subseteq Entries BY <1>5 DEF Remove, RemoveEntry
  <2>2. readers' \subseteq Tasks BY <1>5 DEF Remove, RemoveEntry, InHandler
  <2> QED BY <1>5, <2>1, <2>2 DEF Remove, RemoveEntry, Waiting
<1>6. CASE GracePeriodEnds BY <1>6 DEF GracePeriodEnds, Resumed
<1>7. CASE Free BY <1>7 DEF Free
<1>8. CASE Rmmod BY <1>8 DEF Rmmod
<1>9. ASSUME NEW a \in ArmedValues, Insmod(a) PROVE TypeInv' BY <1>9 DEF Insmod
<1>10. ASSUME NEW a \in ArmedValues, SetArmed(a) PROVE TypeInv' BY <1>10 DEF SetArmed
<1> QED BY <1>1, <1>2, <1>3, <1>4, <1>5, <1>6, <1>7, <1>8, <1>9, <1>10 DEF Loader

\* ... and the correspondence of the count and the armed entries.
LEMMA LoaderCounts ==
  ASSUME TypeInv, CountNamesTheHooks,
         Loader \/ Rmmod \/ \E a \in ArmedValues : Insmod(a) \/ SetArmed(a)
  PROVE  CountNamesTheHooks'
<1> USE TableAssumption DEF TypeInv, TypeOK, LoopInv, CountNamesTheHooks
<1>1. CASE ReadArmed BY <1>1 DEF ReadArmed
<1>2. CASE RegisterOk BY <1>2 DEF RegisterOk
<1>3. CASE RegisterFails BY <1>3 DEF RegisterFails
<1>4. CASE Count BY <1>4 DEF Count, CountUpTo
<1>5. CASE Remove
  <2>1. k100pm_registered \in Nat \ {0} BY <1>5 DEF Remove, RemoveEntry
  <2>2. hooked = 0..(k100pm_registered - 1) BY <1>5 DEF Remove, RemoveEntry
  <2>3. loader' # "count" BY <1>5 DEF Remove, RemoveEntry, Waiting
  <2> QED BY <1>5, <2>1, <2>2, <2>3 DEF Remove, RemoveEntry
<1>6. CASE GracePeriodEnds BY <1>6 DEF GracePeriodEnds, Resumed
<1>7. CASE Free BY <1>7 DEF Free
<1>8. CASE Rmmod BY <1>8 DEF Rmmod
<1>9. ASSUME NEW a \in ArmedValues, Insmod(a) PROVE CountNamesTheHooks'
  BY <1>9 DEF Insmod
<1>10. ASSUME NEW a \in ArmedValues, SetArmed(a) PROVE CountNamesTheHooks'
  BY <1>10 DEF SetArmed
<1> QED BY <1>1, <1>2, <1>3, <1>4, <1>5, <1>6, <1>7, <1>8, <1>9, <1>10 DEF Loader

\* With no entry armed and no grace period in progress nothing is held, so
\* no handler runs.
LEMMA NothingHeld ==
  ASSUME HandlersHeld, hooked = {}, loader \notin {"unwindWait", "exitWait"}
  PROVE  InHandler = {}
BY DEF HandlersHeld

LEMMA LoaderHolds ==
  ASSUME TypeInv, CountNamesTheHooks, HandlersHeld,
         Loader \/ Rmmod \/ \E a \in ArmedValues : Insmod(a) \/ SetArmed(a)
  PROVE  HandlersHeld'
<1> USE DEF HandlersHeld, InHandler
<1>1. CASE ReadArmed BY <1>1 DEF ReadArmed
<1>2. CASE RegisterOk BY <1>2 DEF RegisterOk
<1>3. CASE RegisterFails BY <1>3 DEF RegisterFails
<1>4. CASE Count BY <1>4 DEF Count, CountUpTo
<1>5. CASE Remove BY <1>5 DEF Remove, RemoveEntry, Waiting
<1>6. CASE GracePeriodEnds BY <1>6 DEF GracePeriodEnds
<1>7. CASE Free BY <1>7 DEF Free
<1>8. CASE Rmmod BY <1>8 DEF Rmmod
<1>9. ASSUME NEW a \in ArmedValues, Insmod(a) PROVE HandlersHeld'
  <2>1. hooked = {} BY <1>9, TableAssumption DEF Insmod, TypeInv, LoopInv, CountNamesTheHooks
  <2>2. InHandler = {} BY <1>9, <2>1, NothingHeld DEF Insmod
  <2> QED BY <1>9, <2>2 DEF Insmod
<1>10. ASSUME NEW a \in ArmedValues, SetArmed(a) PROVE HandlersHeld' BY <1>10 DEF SetArmed
<1> QED BY <1>1, <1>2, <1>3, <1>4, <1>5, <1>6, <1>7, <1>8, <1>9, <1>10 DEF Loader

-----------------------------------------------------------------------------
\* A task's step leaves the loader alone and the task either out of the
\* handlers or in one of an armed entry of the loaded module.
TaskStep(k) ==
  \/ \E e \in Entries : Enter(k, e)
  \/ EntryReturns(k) \/ BodyReturns(k) \/ HandlerReturns(k)

LEMMA TaskKeeps ==
  ASSUME LifecycleInv, NEW k \in Tasks, TaskStep(k)
  PROVE  LifecycleInv'
<1> USE DEF LifecycleInv
<1>1. UNCHANGED loaderVars BY DEF TaskStep, Enter, EntryReturns, BodyReturns, HandlerReturns, Become
<1> DEFINE Records == [pc: {"idle", "entry", "body", "return"}, probe: Entries, load: 0..MaxLoads]
           Fine(r) == /\ call' = [call EXCEPT ![k] = r]
                      /\ r.pc \in {"entry", "return"} => r.load = loads /\ r.probe \in hooked
<1>2. PICK r \in Records : Fine(r)
  <2>1. IdleCall \in Records /\ IdleCall.pc = "idle"
    BY TableAssumption, LoadAssumption DEF IdleCall, Entries
  <2>2. call[k] \in Records BY DEF TypeInv, TypeOK
  <2>3. ASSUME NEW e \in Entries, Enter(k, e) PROVE \E r \in Records : Fine(r)
    <3> DEFINE r == [pc |-> "entry", probe |-> e, load |-> loads]
    <3>1. r \in Records BY DEF TypeInv, TypeOK
    <3>2. Fine(r) BY <2>3 DEF Enter, Become
    <3> QED BY <3>1, <3>2
  <2>4. CASE EntryReturns(k)
    <3> DEFINE r == [call[k] EXCEPT !.pc = "body"]
    <3>1. r \in Records /\ r.pc = "body" BY <2>2
    <3>2. Fine(r) BY <2>4, <3>1 DEF EntryReturns, Become
    <3> QED BY <3>1, <3>2
  <2>5. CASE BodyReturns(k)
    <3> DEFINE r == [call[k] EXCEPT !.pc = "return"]
    <3>1. r \in Records /\ r.probe = call[k].probe /\ r.load = call[k].load BY <2>2
    <3>2. CASE call[k].probe \in hooked /\ call[k].load = loads
      <4>1. Fine(r) BY <2>5, <3>1, <3>2 DEF BodyReturns, Become
      <4> QED BY <3>1, <4>1
    <3>3. CASE ~(call[k].probe \in hooked /\ call[k].load = loads)
      <4>1. Fine(IdleCall) BY <2>1, <2>5, <3>3 DEF BodyReturns, Become
      <4> QED BY <2>1, <4>1
    <3> QED BY <3>2, <3>3
  <2>6. CASE HandlerReturns(k)
    <3>1. Fine(IdleCall) BY <2>1, <2>6 DEF HandlerReturns, Become
    <3> QED BY <2>1, <3>1
  <2> HIDE DEF Records, Fine
  <2> QED BY <2>3, <2>4, <2>5, <2>6 DEF TaskStep
<1>3. readers' \in {readers, readers \ {k}}
  BY DEF TaskStep, Enter, EntryReturns, BodyReturns, HandlerReturns
<1>4. \A j \in Tasks \ {k} : call'[j] = call[j] BY <1>2 DEF TypeInv, TypeOK
<1>5. call'[k] = r BY <1>2 DEF TypeInv, TypeOK
<1>6. TypeInv' BY <1>1, <1>2, <1>3 DEF TypeInv, TypeOK, LoopInv, loaderVars
<1>7. CountNamesTheHooks' BY <1>1 DEF CountNamesTheHooks, loaderVars
<1>8. HandlersHeld'
  <2> SUFFICES ASSUME NEW j \in InHandler'
               PROVE  /\ call'[j].load = loads
                      /\ \/ call'[j].probe \in hooked
                         \/ loader \in {"unwindWait", "exitWait"} /\ j \in readers'
    BY <1>1 DEF HandlersHeld, loaderVars
  <2>1. CASE j = k BY <1>2, <1>5, <2>1 DEF InHandler
  <2>2. CASE j # k BY <1>3, <1>4, <2>2 DEF InHandler, HandlersHeld
  <2> QED BY <2>1, <2>2
<1> QED BY <1>6, <1>7, <1>8

LEMMA NextInv == LifecycleInv /\ [Next]_vars => LifecycleInv'
<1> SUFFICES ASSUME LifecycleInv, [Next]_vars PROVE LifecycleInv'
  OBVIOUS
<1>1. CASE Loader \/ Rmmod \/ \E a \in ArmedValues : Insmod(a) \/ SetArmed(a)
  BY <1>1, LoaderTypes, LoaderCounts, LoaderHolds DEF LifecycleInv
<1>2. ASSUME NEW k \in Tasks, TaskStep(k) PROVE LifecycleInv'
  BY <1>2, TaskKeeps
<1>3. CASE UNCHANGED vars
  BY <1>3 DEF vars, loaderVars, LifecycleInv, TypeInv, TypeOK, LoopInv, CountNamesTheHooks,
              HandlersHeld, InHandler
<1> QED BY <1>1, <1>2, <1>3 DEF Next, TaskStep

LEMMA SpecInv == Spec => []LifecycleInv
BY InitInv, NextInv, PTL DEF Spec

-----------------------------------------------------------------------------
\* Type correctness of registration and removal (lines 560-676): the loops
\* never leave the probe table.
THEOREM LifecycleTypeCorrect == Spec => []TypeOK
<1>1. LifecycleInv => TypeOK BY DEF LifecycleInv, TypeInv
<1> QED BY <1>1, SpecInv, PTL

\* k100pm_registered names the armed entries, so that lines 656 and 670 undo
\* exactly what line 651 did, wherever a registration fails.
THEOREM CountIsExact == Spec => []CountNamesTheHooks
<1>1. LifecycleInv => CountNamesTheHooks BY DEF LifecycleInv
<1> QED BY <1>1, SpecInv, PTL

\* A loaded module has all of its probes or none of them (line 42).
THEOREM LoadIsAllOrNothing == Spec => []AllOrNothing
<1>1. LifecycleInv => AllOrNothing
  BY TableAssumption
     DEF LifecycleInv, TypeInv, LoopInv, CountNamesTheHooks, AllOrNothing, Entries
<1> QED BY <1>1, SpecInv, PTL

\* No handler of the module runs and none can start when its memory is gone,
\* after a failed init or after rmmod (lines 656-658 and 670-672).
THEOREM HandlersEndFirst == Spec => []CodeOutlivesHandlers
<1>1. LifecycleInv => CodeOutlivesHandlers
  BY NothingHeld DEF LifecycleInv, TypeInv, LoopInv, CountNamesTheHooks, CodeOutlivesHandlers
<1> QED BY <1>1, SpecInv, PTL
=============================================================================
