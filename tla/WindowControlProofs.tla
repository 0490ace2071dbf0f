------------------------ MODULE WindowControlProofs ------------------------
(***************************************************************************)
(* What WindowProperties states of the end of a window, for any number of  *)
(* threads, domains and configurations: the types, one owner at a time,    *)
(* the pause, the wakeups and the dormancy rule, the refinement of         *)
(* EndAction; and, when all regions resolve to the global default, what    *)
(* becomes of a latch, of the deadline and of a domain's transition.       *)
(***************************************************************************)
EXTENDS WindowProperties, TLAPS

-----------------------------------------------------------------------------
(***************************************************************************)
(* Type correctness.  Both domain loops index the targets and the modes:   *)
(* TypeOK needs to know that their index is a domain, that the domain has  *)
(* a target, and that the control thread has an action, where they do.     *)
(***************************************************************************)
HasAction ==
    {"clear", "introspect", "paused", "resume", "modes", "last", "switch",
     "latch", "latches", "unfire", "bump"}

LoopsInRange ==
    /\ \A t \in Threads :
         pc[t] \in {"last", "switch", "latch"} =>
            at[t] \in Domains /\ ActionOf[ConfigOf[t]].mode[at[t]] # "NONE"
    /\ cpc \in HasAction => cact \in Configs
    /\ cpc \in {"last", "switch", "latch"} =>
            cat \in Domains /\ ActionOf[cact].mode[cat] # "NONE"
    /\ cpc = "latches" => cat \in Domains

TypeInv == TypeOK /\ LoopsInRange

LEMMA InitTypeInv == Init => TypeInv
<1> SUFFICES ASSUME Init PROVE TypeInv
  OBVIOUS
<1>1. TypeOK
  <2>1. /\ manifestArmed \in BOOLEAN /\ windowArmed \in BOOLEAN
        /\ shutdown \in BOOLEAN /\ appPaused \in BOOLEAN
        /\ cyclic \in BOOLEAN /\ nodeInfo \in BOOLEAN
    BY WindowControlAssumption, Zenon DEF Init, ManifestWanted
  <2> QED
    BY <2>1, WindowControlAssumption, SMT DEF Init, TypeOK, Domains, Modes,
       Targets, Reasons, Labels, ControlLabels
<1>2. LoopsInRange
  BY DEF Init, LoopsInRange, HasAction
<1> QED
  BY <1>1, <1>2 DEF TypeInv

LEMMA ReasonOfType == \A c \in Configs : ReasonOf(c) \in Reasons
BY DEF ReasonOf, Reasons

LEMMA ConstantTypes ==
    /\ NumDomains \in Nat /\ MaxTraces \in Nat
    /\ \A t \in Threads : ConfigOf[t] \in Configs /\ DomainOf[t] \in Domains
    /\ \A c \in Configs : \A d \in Domains : ActionOf[c].mode[d] \in Targets
BY WindowControlAssumption

LEMMA RoleTypes ==
    /\ Main \in Threads
    /\ Default \in Configs
    /\ NumDomains >= 1
    /\ WindowTimeout \in BOOLEAN
BY WindowControlAssumption

LEMMA CallbackType ==
    ASSUME TypeInv, NEW t \in Threads, Callback(t)
    PROVE  TypeInv'
<1> USE DEF TypeInv, vars, sharedVars, threadVars, controlVars, localVars,
        timerVars, envVars, domainVars, actionVars, wakeVars, regionVars, Goto
<1>1. CASE CheckPause(t)
  <2>1. TypeOK'
    BY <1>1, SMT DEF CheckPause, TypeOK, Labels
  <2>2. LoopsInRange'
    BY <1>1 DEF CheckPause, LoopsInRange, TypeOK
  <2> QED
    BY <2>1, <2>2
<1>2. CASE PauseGate(t)
  <2>1. TypeOK'
    BY <1>2, SMT DEF PauseGate, TypeOK, Labels
  <2>2. LoopsInRange'
    BY <1>2 DEF PauseGate, LoopsInRange, TypeOK
  <2> QED
    BY <2>1, <2>2
<1>3. CASE RegionBegin(t)
  <2>1. /\ generation[ConfigOf[t]] \in Nat
        /\ runs \in [Threads -> Nat] /\ lexGen \in [Threads -> Nat]
        /\ traceCounter \in [Threads -> Nat]
        /\ traceBit \in [Threads -> BOOLEAN] /\ pc \in [Threads -> Labels]
    BY ConstantTypes DEF TypeOK
  <2> DEFINE g == generation[ConfigOf[t]]
             n == IF lexGen[t] # g THEN 0 ELSE traceCounter[t]
             b == n < MaxTraces
  <2>2. g \in Nat /\ n \in Nat /\ b \in BOOLEAN
    BY <2>1, ConstantTypes
  <2>3. /\ pc' = [pc EXCEPT ![t] = "in"] \/ pc' = [pc EXCEPT ![t] = "out"]
        /\ runs' = [runs EXCEPT ![t] = @ + 1] \/ UNCHANGED runs
        /\ lexGen' = [lexGen EXCEPT ![t] = g] \/ UNCHANGED lexGen
        /\ \/ traceCounter' = [traceCounter EXCEPT ![t] = n]
           \/ UNCHANGED traceCounter
        /\ traceBit' = [traceBit EXCEPT ![t] = b] \/ UNCHANGED traceBit
    BY <1>3, Zenon DEF RegionBegin
  <2> HIDE DEF g, n, b
  <2>4. /\ runs' \in [Threads -> Nat]
        /\ traceCounter' \in [Threads -> Nat]
        /\ lexGen' \in [Threads -> Nat]
    BY <2>1, <2>2, <2>3, SMT
  <2>5. traceBit' \in [Threads -> BOOLEAN]
    BY <2>1, <2>2, <2>3, Zenon
  <2>6. pc' \in [Threads -> Labels]
    BY <2>1, <2>3, SMT DEF Labels
  <2>7. TypeOK'
    <3>1. UNCHANGED <<sharedVars, at, controlVars, envVars>>
      BY <1>3 DEF RegionBegin
    <3> QED
      BY <2>4, <2>5, <2>6, <3>1, SMT DEF TypeOK
  <2>8. LoopsInRange'
    BY <1>3, <2>1 DEF RegionBegin, LoopsInRange
  <2> QED
    BY <2>7, <2>8
<1>4. CASE RegionEnd(t)
  <2>1. pc \in [Threads -> Labels] /\ traceCounter \in [Threads -> Nat]
    BY DEF TypeOK
  <2>2. /\ \/ pc' = [pc EXCEPT ![t] = "out"]
           \/ pc' = [pc EXCEPT ![t] = "cas"]
        /\ \/ traceCounter' = [traceCounter EXCEPT ![t] = @ + 1]
           \/ UNCHANGED traceCounter
    BY <1>4 DEF RegionEnd
  <2>3. pc' \in [Threads -> Labels]
    BY <2>1, <2>2 DEF Labels
  <2>4. traceCounter' \in [Threads -> Nat]
    BY <2>1, <2>2
  <2>5. TypeOK'
    <3>1. UNCHANGED <<sharedVars, at, runs, lexGen, traceBit, controlVars,
                      envVars>>
      BY <1>4 DEF RegionEnd
    <3> QED
      BY <2>3, <2>4, <3>1, SMT DEF TypeOK
  <2>6. LoopsInRange'
    BY <1>4, <2>1 DEF RegionEnd, LoopsInRange
  <2> QED
    BY <2>5, <2>6
<1> QED
  BY <1>1, <1>2, <1>3, <1>4 DEF Callback

LEMMA FireType ==
    ASSUME TypeInv, NEW t \in Threads, Fire(t)
    PROVE  TypeInv'
<1> USE DEF TypeInv, vars, sharedVars, threadVars, controlVars, localVars,
        timerVars, envVars, domainVars, actionVars, wakeVars, regionVars, Goto
<1>1. CASE FireCas(t)
  <2>1. TypeOK'
    <3>1. fired' \in [Configs -> BOOLEAN]
      BY <1>1, Zenon DEF FireCas, WinLatch, TypeOK
    <3>2. \/ pc' = [pc EXCEPT ![t] = "slot"]
          \/ pc' = [pc EXCEPT ![t] = "check"]
          \/ pc' = [pc EXCEPT ![t] = "out"]
      BY <1>1, Zenon DEF FireCas
    <3>3. /\ at' = [at EXCEPT ![t] = 1]
          /\ UNCHANGED <<domainVars, generation, wakeVars, shutdown,
                         appPaused, regionVars, controlVars, envVars>>
      BY <1>1 DEF FireCas
    <3> QED
      BY <3>1, <3>2, <3>3, ConstantTypes, SMT DEF TypeOK, Labels
  <2>2. LoopsInRange'
    BY <1>1, ConstantTypes DEF FireCas, LoopsInRange, TypeOK
  <2> QED
    BY <2>1, <2>2
<1>2. CASE FireCheck(t)
  <2>1. TypeOK'
    <3>1. /\ \/ pc' = [pc EXCEPT ![t] = "slot"]
             \/ pc' = [pc EXCEPT ![t] = "last"]
             \/ UNCHANGED pc
          /\ \/ UNCHANGED at
             \/ ~(at[t] > NumDomains) /\ at' = [at EXCEPT ![t] = @ + 1]
      BY <1>2, Zenon DEF FireCheck
    <3>2. UNCHANGED <<sharedVars, regionVars, controlVars, envVars>>
      BY <1>2 DEF FireCheck
    <3>3. at \in [Threads -> 1 .. NumDomains + 1] /\ pc \in [Threads -> Labels]
      BY DEF TypeOK
    <3>4. at' \in [Threads -> 1 .. NumDomains + 1]
      BY <3>1, <3>3, ConstantTypes, SMT
    <3>5. pc' \in [Threads -> Labels]
      BY <3>1, <3>3, SMT DEF Labels
    <3> QED
      BY <3>2, <3>4, <3>5, SMT DEF TypeOK
  <2>2. LoopsInRange'
    BY <1>2, ConstantTypes DEF FireCheck, LoopsInRange, TypeOK, Domains, SwitchDue
  <2> QED
    BY <2>1, <2>2
<1>3. CASE FireLast(t)
  <2>1. TypeOK'
    BY <1>3, ConstantTypes, SMT DEF FireLast, TypeOK, Labels, RecordMode, LoopsInRange, Domains, Targets, Modes
  <2>2. LoopsInRange'
    BY <1>3, ConstantTypes DEF FireLast, LoopsInRange, TypeOK
  <2> QED
    BY <2>1, <2>2
<1>4. CASE FireSwitch(t)
  <2>1. TypeOK'
    BY <1>4, ConstantTypes, SMT DEF FireSwitch, TypeOK, Labels, StoreMode, LoopsInRange, Targets, Modes
  <2>2. LoopsInRange'
    BY <1>4, ConstantTypes DEF FireSwitch, LoopsInRange, TypeOK
  <2> QED
    BY <2>1, <2>2
<1>5. CASE FireLatch(t)
  <2>1. TypeOK'
    BY <1>5, ConstantTypes, SMT DEF FireLatch, TypeOK, Labels, LatchDomain, LoopsInRange, Domains
  <2>2. LoopsInRange'
    BY <1>5, ConstantTypes DEF FireLatch, LoopsInRange, TypeOK
  <2> QED
    BY <2>1, <2>2
<1>6. CASE FireSlot(t)
  <2>1. TypeOK'
    BY <1>6, ConstantTypes, SMT DEF FireSlot, TypeOK, Labels
  <2>2. LoopsInRange'
    BY <1>6, ConstantTypes DEF FireSlot, LoopsInRange, TypeOK
  <2> QED
    BY <2>1, <2>2
<1>7. CASE FireOr(t)
  <2>1. TypeOK'
    BY <1>7, ConstantTypes, SMT DEF FireOr, TypeOK, Labels, ReasonOf, Reasons
  <2>2. LoopsInRange'
    BY <1>7, ConstantTypes DEF FireOr, LoopsInRange, TypeOK
  <2> QED
    BY <2>1, <2>2
<1>8. CASE FirePost(t)
  <2>1. TypeOK'
    BY <1>8, ConstantTypes, SMT DEF FirePost, TypeOK, Labels
  <2>2. LoopsInRange'
    BY <1>8, ConstantTypes DEF FirePost, LoopsInRange, TypeOK
  <2> QED
    BY <2>1, <2>2
<1> QED
  BY <1>1, <1>2, <1>3, <1>4, <1>5, <1>6, <1>7, <1>8 DEF Fire

LEMMA EnvironmentType ==
    ASSUME TypeInv, Environment \/ SignalPost \/ Stop
    PROVE  TypeInv'
<1> USE DEF TypeInv, vars, sharedVars, threadVars, controlVars, localVars,
        timerVars, envVars, domainVars, actionVars, wakeVars, regionVars, Goto
<1>1. CASE SignalOr
  <2>1. TypeOK'
    BY <1>1, ConstantTypes, SMT DEF SignalOr, TypeOK, Reasons
  <2>2. LoopsInRange'
    BY <1>1, ConstantTypes DEF SignalOr, LoopsInRange, HasAction, TypeOK
  <2> QED
    BY <2>1, <2>2
<1>2. CASE NodeInfoPost
  <2>1. TypeOK'
    <3>1. nodeInfo' \in BOOLEAN
      BY <1>2, ConstantTypes, Zenon DEF NodeInfoPost, TypeOK
    <3> QED
      BY <1>2, <3>1, ConstantTypes, SMT DEF NodeInfoPost, TypeOK
  <2>2. LoopsInRange'
    BY <1>2, ConstantTypes DEF NodeInfoPost, LoopsInRange, HasAction, TypeOK
  <2> QED
    BY <2>1, <2>2
<1>3. CASE StopFlag
  <2>1. TypeOK'
    <3>1. shutdown' \in BOOLEAN
      BY <1>3, ConstantTypes, Zenon DEF StopFlag, TypeOK
    <3> QED
      BY <1>3, <3>1, RoleTypes, SMT DEF StopFlag, TypeOK, Labels
  <2>2. LoopsInRange'
    BY <1>3, ConstantTypes DEF StopFlag, LoopsInRange, HasAction, TypeOK
  <2> QED
    BY <2>1, <2>2
<1>4. CASE SignalPost
  <2>1. TypeOK'
    BY <1>4, ConstantTypes, SMT DEF SignalPost, TypeOK
  <2>2. LoopsInRange'
    BY <1>4, ConstantTypes DEF SignalPost, LoopsInRange, HasAction, TypeOK
  <2> QED
    BY <2>1, <2>2
<1>5. CASE StopPost
  <2>1. TypeOK'
    BY <1>5, RoleTypes, SMT DEF StopPost, TypeOK, Labels
  <2>2. LoopsInRange'
    BY <1>5, ConstantTypes DEF StopPost, LoopsInRange, HasAction, TypeOK
  <2> QED
    BY <2>1, <2>2
<1>6. CASE StopJoin
  <2>1. TypeOK'
    BY <1>6, RoleTypes, SMT DEF StopJoin, TypeOK, Labels
  <2>2. LoopsInRange'
    BY <1>6, ConstantTypes DEF StopJoin, LoopsInRange, HasAction, TypeOK
  <2> QED
    BY <2>1, <2>2
<1> QED
  BY <1>1, <1>2, <1>3, <1>4, <1>5, <1>6 DEF Environment, Stop

LEMMA LoadType ==
    ASSUME TypeOK, NEW m \in FileModes, LoadConfig(m)
    PROVE  /\ mode' \in [Domains -> Modes] /\ lastMode' \in [Domains -> Targets]
           /\ latched' \in [Domains -> BOOLEAN]
           /\ fired' \in [Configs -> BOOLEAN]
           /\ generation' \in [Configs -> Nat]
<1>1. \A d \in Domains : m[d] \in Targets
  BY WindowControlAssumption
<1>2. mode' \in [Domains -> Modes] /\ lastMode' \in [Domains -> Targets]
  BY <1>1 DEF LoadConfig, LoadDomains, TypeOK, Targets
<1>3. latched' \in [Domains -> BOOLEAN]
  BY Zenon DEF LoadConfig, LoadDomains
<1>4. fired' \in [Configs -> BOOLEAN] /\ generation' \in [Configs -> Nat]
  BY RoleTypes, Zenon DEF LoadConfig, TypeOK
<1> QED
  BY <1>2, <1>3, <1>4

LEMMA LoopType ==
    ASSUME TypeInv, CLoop \/ CWake \/ CManifest \/ CTestWindow \/ CClaimWindow
           \/ CConsume \/ CReload \/ CTake \/ CClear \/ CExpire
    PROVE  TypeInv'
<1> USE DEF TypeInv, vars, sharedVars, threadVars, controlVars, localVars,
        timerVars, envVars, domainVars, actionVars, wakeVars, regionVars, Goto
<1>1. CASE CLoop
  <2>1. TypeOK'
    BY <1>1, ConstantTypes, SMT DEF CLoop, TypeOK, ControlLabels
  <2>2. LoopsInRange'
    BY <1>1, ConstantTypes DEF CLoop, LoopsInRange, HasAction, TypeOK
  <2> QED
    BY <2>1, <2>2
<1>2. CASE CWake
  <2>1. TypeOK'
    BY <1>2, ConstantTypes, SMT DEF CWake, TypeOK, ControlLabels
  <2>2. LoopsInRange'
    BY <1>2, ConstantTypes DEF CWake, LoopsInRange, HasAction, TypeOK
  <2> QED
    BY <2>1, <2>2
<1>3. CASE CManifest
  <2>1. TypeOK'
    <3>1. manifestArmed' \in BOOLEAN
      BY <1>3, ConstantTypes, Zenon DEF CManifest, TypeOK, ArmManifest, ManifestWanted
    <3> QED
      BY <1>3, <3>1, ConstantTypes, SMT DEF CManifest, TypeOK, ControlLabels
  <2>2. LoopsInRange'
    BY <1>3, ConstantTypes DEF CManifest, LoopsInRange, HasAction, TypeOK
  <2> QED
    BY <2>1, <2>2
<1>4. CASE CTestWindow
  <2>1. TypeOK'
    BY <1>4, ConstantTypes, SMT DEF CTestWindow, TypeOK, ControlLabels
  <2>2. LoopsInRange'
    BY <1>4, ConstantTypes DEF CTestWindow, LoopsInRange, HasAction, TypeOK
  <2> QED
    BY <2>1, <2>2
<1>5. CASE CClaimWindow
  <2>1. TypeOK'
    <3>1. fired' \in [Configs -> BOOLEAN]
      BY <1>5, ConstantTypes, Zenon DEF CClaimWindow, TypeOK, WinLatch
    <3> QED
      <4>1. /\ slot' \in Configs \cup {None}
            /\ creason' \in SUBSET Reasons
            /\ cpc' \in ControlLabels
        BY <1>5, RoleTypes
           DEF CClaimWindow, TypeOK, ReasonOf, Reasons, ControlLabels
      <4>2. UNCHANGED <<domainVars, generation, pending, sem, shutdown,
                        appPaused, threadVars, cact, cat, cyclic, timerVars,
                        envVars>>
        BY <1>5 DEF CClaimWindow
      <4> QED
        BY <3>1, <4>1, <4>2, SMT DEF TypeOK
  <2>2. LoopsInRange'
    BY <1>5, ConstantTypes DEF CClaimWindow, LoopsInRange, HasAction, TypeOK
  <2> QED
    BY <2>1, <2>2
<1>6. CASE CConsume
  <2>1. TypeOK'
    <3>1. /\ pending' \in SUBSET Reasons /\ creason' \in SUBSET Reasons
          /\ cpc' \in ControlLabels
      BY <1>6 DEF CConsume, TypeOK, Reasons, ControlLabels
    <3>2. UNCHANGED <<domainVars, actionVars, slot, sem, shutdown, appPaused,
                      threadVars, cact, cat, cyclic, timerVars, envVars>>
      BY <1>6 DEF CConsume
    <3> QED
      BY <3>1, <3>2, SMT DEF TypeOK
  <2>2. LoopsInRange'
    BY <1>6, ConstantTypes DEF CConsume, LoopsInRange, HasAction, TypeOK
  <2> QED
    BY <2>1, <2>2
<1>7. CASE CReload
  <2>1. TypeOK'
    <3>1. /\ mode' \in [Domains -> Modes] /\ lastMode' \in [Domains -> Targets]
          /\ latched' \in [Domains -> BOOLEAN]
          /\ fired' \in [Configs -> BOOLEAN] /\ generation' \in [Configs -> Nat]
      BY <1>7, LoadType, Zenon DEF CReload, TypeOK
    <3>2. windowArmed' \in BOOLEAN
      BY <1>7, RoleTypes, Zenon DEF CReload, ArmWindow
    <3>3. /\ cpc' = "take"
          /\ UNCHANGED <<wakeVars, shutdown, appPaused, threadVars, localVars,
                         manifestArmed, envVars>>
      BY <1>7 DEF CReload
    <3> QED
      BY <3>1, <3>2, <3>3, SMT DEF TypeOK, ControlLabels
  <2>2. LoopsInRange'
    BY <1>7, ConstantTypes DEF CReload, LoopsInRange, HasAction, TypeOK
  <2> QED
    BY <2>1, <2>2
<1>8. CASE CTake
  <2>1. TypeOK'
    BY <1>8, ConstantTypes, SMT DEF CTake, TypeOK, ControlLabels
  <2>2. LoopsInRange'
    BY <1>8, ConstantTypes DEF CTake, LoopsInRange, HasAction, TypeOK
  <2> QED
    BY <2>1, <2>2
<1>9. CASE CClear
  <2>1. TypeOK'
    BY <1>9, ConstantTypes, SMT DEF CClear, TypeOK, ControlLabels
  <2>2. LoopsInRange'
    BY <1>9, ConstantTypes DEF CClear, LoopsInRange, HasAction, TypeOK
  <2> QED
    BY <2>1, <2>2
<1>10. CASE CExpire
  <2>1. TypeOK'
    <3>1. windowArmed' \in BOOLEAN
      BY <1>10, ConstantTypes, Zenon DEF CExpire, TypeOK
    <3> QED
      BY <1>10, <3>1, ConstantTypes, SMT DEF CExpire, TypeOK, ControlLabels
  <2>2. LoopsInRange'
    BY <1>10, ConstantTypes DEF CExpire, LoopsInRange, HasAction, TypeOK
  <2> QED
    BY <2>1, <2>2
<1> QED
  BY <1>1, <1>2, <1>3, <1>4, <1>5, <1>6, <1>7, <1>8, <1>9, <1>10

LEMMA ActionType ==
    ASSUME TypeInv, CIntrospect \/ CPauseWoken \/ CPauseTimeout \/ CResume \/ CCheck
           \/ CLast \/ CSwitch \/ CLatch \/ CResetLatches \/ CResetFired
           \/ CBumpGeneration \/ CApply
    PROVE  TypeInv'
<1> USE DEF TypeInv, vars, sharedVars, threadVars, controlVars, localVars,
        timerVars, envVars, domainVars, actionVars, wakeVars, regionVars, Goto
<1>1. CASE CIntrospect
  <2>1. TypeOK'
    <3>1. appPaused' \in BOOLEAN
      BY <1>1, ConstantTypes, Zenon DEF CIntrospect, TypeOK, PausesApp
    <3> QED
      BY <1>1, <3>1, ConstantTypes, SMT DEF CIntrospect, TypeOK, ControlLabels
  <2>2. LoopsInRange'
    BY <1>1, ConstantTypes DEF CIntrospect, LoopsInRange, HasAction, TypeOK
  <2> QED
    BY <2>1, <2>2
<1>2. CASE CPauseWoken
  <2>1. TypeOK'
    BY <1>2, ConstantTypes, SMT DEF CPauseWoken, TypeOK, ControlLabels
  <2>2. LoopsInRange'
    BY <1>2, ConstantTypes DEF CPauseWoken, LoopsInRange, HasAction, TypeOK
  <2> QED
    BY <2>1, <2>2
<1>3. CASE CPauseTimeout
  <2>1. TypeOK'
    BY <1>3, ConstantTypes, SMT DEF CPauseTimeout, TypeOK, ControlLabels
  <2>2. LoopsInRange'
    BY <1>3, ConstantTypes DEF CPauseTimeout, LoopsInRange, HasAction, TypeOK
  <2> QED
    BY <2>1, <2>2
<1>4. CASE CResume
  <2>1. TypeOK'
    <3>1. appPaused' \in BOOLEAN
      BY <1>4, ConstantTypes, Zenon DEF CResume, TypeOK
    <3> QED
      BY <1>4, <3>1, ConstantTypes, SMT DEF CResume, TypeOK, ControlLabels, WakeBlocked, Labels
  <2>2. LoopsInRange'
    BY <1>4, ConstantTypes DEF CResume, LoopsInRange, HasAction, TypeOK, WakeBlocked
  <2> QED
    BY <2>1, <2>2
<1>5. CASE CCheck
  <2>1. TypeOK'
    <3>1. cyclic' \in BOOLEAN
      BY <1>5, ConstantTypes, Zenon DEF CCheck, TypeOK
    <3> QED
      BY <1>5, <3>1, ConstantTypes, SMT DEF CCheck, TypeOK, ControlLabels
  <2>2. LoopsInRange'
    <3>1. cact \in Configs /\ cat \in 1 .. NumDomains + 1
      BY <1>5 DEF CCheck, LoopsInRange, HasAction, TypeOK
    <3>2. UNCHANGED <<pc, at, cact>>
      BY <1>5 DEF CCheck
    <3>3. \/ cpc' \in {"modes", "apply"}
          \/ cpc' = "latches" /\ cat' = 1
          \/ /\ cpc' = "last" /\ cat' = cat /\ ~(cat > NumDomains)
             /\ SwitchDue(cact, cat)
      BY <1>5, Zenon DEF CCheck
    <3> QED
      BY <3>1, <3>2, <3>3, ConstantTypes, RoleTypes
         DEF LoopsInRange, HasAction, Domains, SwitchDue
  <2> QED
    BY <2>1, <2>2
<1>6. CASE CLast
  <2>1. TypeOK'
    BY <1>6, ConstantTypes, SMT DEF CLast, TypeOK, ControlLabels, RecordMode, LoopsInRange, Domains, Targets, Modes
  <2>2. LoopsInRange'
    BY <1>6, ConstantTypes DEF CLast, LoopsInRange, HasAction, TypeOK
  <2> QED
    BY <2>1, <2>2
<1>7. CASE CSwitch
  <2>1. TypeOK'
    <3>1. cact \in Configs /\ cat \in Domains
      BY <1>7 DEF CSwitch, LoopsInRange, HasAction
    <3>2. ActionOf[cact].mode[cat] \in Modes
      BY <1>7, <3>1, ConstantTypes DEF CSwitch, LoopsInRange, Targets
    <3> QED
      <4>1. mode' \in [Domains -> Modes]
        BY <1>7, <3>2, Zenon DEF CSwitch, StoreMode, TypeOK
      <4>2. /\ cpc' = "latch"
            /\ UNCHANGED <<lastMode, latched, actionVars, wakeVars, shutdown,
                           appPaused, threadVars, localVars, timerVars, envVars>>
        BY <1>7 DEF CSwitch
      <4> QED
        BY <4>1, <4>2, SMT DEF TypeOK, ControlLabels
  <2>2. LoopsInRange'
    BY <1>7, ConstantTypes DEF CSwitch, LoopsInRange, HasAction, TypeOK
  <2> QED
    BY <2>1, <2>2
<1>8. CASE CLatch
  <2>1. TypeOK'
    BY <1>8, ConstantTypes, SMT DEF CLatch, TypeOK, ControlLabels, LatchDomain, LoopsInRange, Domains
  <2>2. LoopsInRange'
    BY <1>8, ConstantTypes DEF CLatch, LoopsInRange, HasAction, TypeOK
  <2> QED
    BY <2>1, <2>2
<1>9. CASE CResetLatches
  <2>1. TypeOK'
    BY <1>9, ConstantTypes, SMT DEF CResetLatches, TypeOK, ControlLabels, LoopsInRange, Domains
  <2>2. LoopsInRange'
    BY <1>9, ConstantTypes DEF CResetLatches, LoopsInRange, HasAction, TypeOK, Domains
  <2> QED
    BY <2>1, <2>2
<1>10. CASE CResetFired
  <2>1. TypeOK'
    <3>1. fired' \in [Configs -> BOOLEAN]
      BY <1>10, Zenon DEF CResetFired, TypeOK
    <3> QED
      BY <1>10, <3>1, SMT DEF CResetFired, TypeOK, ControlLabels
  <2>2. LoopsInRange'
    BY <1>10, ConstantTypes DEF CResetFired, LoopsInRange, HasAction, TypeOK
  <2> QED
    BY <2>1, <2>2
<1>11. CASE CBumpGeneration
  <2>1. TypeOK'
    <3>1. windowArmed' \in BOOLEAN
      BY <1>11, RoleTypes, Zenon DEF CBumpGeneration, ArmWindow
    <3>2. generation' \in [Configs -> Nat]
      <4>1. /\ generation \in [Configs -> Nat]
            /\ generation' = [generation EXCEPT ![cact] = @ + 1]
            /\ cact \in Configs
        BY <1>11 DEF CBumpGeneration, TypeOK, LoopsInRange, HasAction
      <4> QED
        BY <4>1, SMT
    <3>3. /\ cpc' = "apply"
          /\ UNCHANGED <<domainVars, fired, wakeVars, shutdown, appPaused,
                         threadVars, localVars, manifestArmed, envVars>>
      BY <1>11 DEF CBumpGeneration
    <3> QED
      BY <3>1, <3>2, <3>3, SMT DEF TypeOK, ControlLabels
  <2>2. LoopsInRange'
    BY <1>11, ConstantTypes DEF CBumpGeneration, LoopsInRange, HasAction, TypeOK
  <2> QED
    BY <2>1, <2>2
<1>12. CASE CApply
  <2>1. TypeOK'
    <3>1. manifestArmed' \in BOOLEAN /\ cyclic' \in BOOLEAN
      BY <1>12, ConstantTypes, Zenon DEF CApply, TypeOK, ArmManifest, ManifestWanted
    <3> QED
      BY <1>12, <3>1, ConstantTypes, SMT DEF CApply, TypeOK, ControlLabels
  <2>2. LoopsInRange'
    BY <1>12, ConstantTypes DEF CApply, LoopsInRange, HasAction, TypeOK
  <2> QED
    BY <2>1, <2>2
<1> QED
  BY <1>1, <1>2, <1>3, <1>4, <1>5, <1>6, <1>7, <1>8, <1>9, <1>10, <1>11, <1>12

LEMMA NextType == TypeInv /\ [Next]_vars => TypeInv'
<1> SUFFICES ASSUME TypeInv, [Next]_vars PROVE TypeInv'
  OBVIOUS
<1>1. CASE \E t \in Threads : Callback(t) \/ Fire(t)
  BY <1>1, CallbackType, FireType
<1>2. CASE Environment \/ SignalPost \/ Stop
  BY <1>2, EnvironmentType
<1>3. CASE Control \/ CExpire
  BY <1>3, LoopType, ActionType DEF Control
<1>4. CASE UNCHANGED vars
  BY <1>4 DEF TypeInv, TypeOK, LoopsInRange, vars, sharedVars, threadVars,
     controlVars, localVars, timerVars, envVars, domainVars, actionVars,
     wakeVars, regionVars
<1> QED
  BY <1>1, <1>2, <1>3, <1>4 DEF Next, Exited

LEMMA TypeInvariant == Spec => []TypeInv
BY InitTypeInv, NextType, PTL DEF Spec

\* Every variable keeps its type; in particular no path takes the semaphore
\* below zero, and neither domain loop stores a target of "NONE".
THEOREM TypeCorrect == Spec => []TypeOK
<1>1. TypeInv => TypeOK
  BY DEF TypeInv
<1> QED
  BY <1>1, TypeInvariant, PTL

-----------------------------------------------------------------------------
(***************************************************************************)
(* One owner at a time.  Each conjunct of OneOwner(c) is needed for the    *)
(* others: a thread may queue c because nobody else owns it (the first     *)
(* two); the control thread may let go of c, and reopen it, because it     *)
(* cleared the slot when it took c and no thread has claimed c since (the  *)
(* third and the second); and the compare-and-swap may give c an owner     *)
(* because an open window has none (the last).  Most steps touch none of   *)
(* this: they keep the owners.                                             *)
(***************************************************************************)
OwnersKept ==
    /\ slot' = slot
    /\ \A c \in Configs \ Copies : fired'[c] = fired[c]
    /\ \A t \in Threads : pc'[t] \in Claiming <=> pc[t] \in Claiming
    /\ \A c \in Configs : Acting(c)' <=> Acting(c)
    /\ cpc = "clear" => cpc' = "clear"

LEMMA KeptIsInvariant ==
    ASSUME AtMostOneOwner, OwnersKept
    PROVE  AtMostOneOwner'
<1> SUFFICES ASSUME NEW c \in Configs \ Copies PROVE OneOwner(c)'
  BY DEF AtMostOneOwner
<1>1. OneOwner(c)
  BY DEF AtMostOneOwner
<1>2. Claimants(c)' \subseteq Claimants(c)
  BY DEF OwnersKept, Claimants
<1>3. (Queued(c)' <=> Queued(c)) /\ (Acting(c)' <=> Acting(c))
  BY DEF OwnersKept, Queued
<1>4. slot' = slot /\ fired'[c] = fired[c] /\ (cpc = "clear" => cpc' = "clear")
  BY DEF OwnersKept
<1> QED
  BY <1>1, <1>2, <1>3, <1>4 DEF OneOwner

LEMMA CallbackKeeps ==
    ASSUME TypeInv, NEW t \in Threads, Callback(t)
    PROVE  OwnersKept
<1>1. pc \in [Threads -> Labels]
  BY DEF TypeInv, TypeOK
<1>2. UNCHANGED <<slot, fired, cact, cpc>>
  BY DEF Callback, CheckPause, PauseGate, RegionBegin, RegionEnd, sharedVars,
     actionVars, wakeVars, controlVars, localVars
<1>3. \/ pc' = [pc EXCEPT ![t] = "gate"] \/ pc' = [pc EXCEPT ![t] = "enter"]
      \/ pc' = [pc EXCEPT ![t] = "blocked"] \/ pc' = [pc EXCEPT ![t] = "in"]
      \/ pc' = [pc EXCEPT ![t] = "out"] \/ pc' = [pc EXCEPT ![t] = "cas"]
  BY DEF Callback, CheckPause, PauseGate, RegionBegin, RegionEnd, Goto
<1>4. pc[t] \notin Claiming
  BY DEF Callback, CheckPause, PauseGate, RegionBegin, RegionEnd, Claiming
<1> QED
  BY <1>1, <1>2, <1>3, <1>4 DEF OwnersKept, Acting, Claiming

\* The steps of pinsight_fire_window_end that neither claim nor queue.
LEMMA FireKeeps ==
    ASSUME TypeInv, NEW t \in Threads,
           \/ FireCheck(t) \/ FireLast(t) \/ FireSwitch(t) \/ FireLatch(t)
           \/ FireOr(t) \/ FirePost(t)
           \/ FireCas(t) /\ UNCHANGED fired
    PROVE  OwnersKept
<1>1. pc \in [Threads -> Labels]
  BY DEF TypeInv, TypeOK
<1>2. UNCHANGED <<slot, fired, cact, cpc>>
  BY DEF FireCheck, FireLast, FireSwitch, FireLatch, FireOr, FirePost, FireCas,
     sharedVars, actionVars, wakeVars, controlVars, localVars
<1>3. CASE FireCas(t) /\ UNCHANGED fired
  <2>1. ~WinLatch(ConfigOf[t])
    BY <1>3, ConstantTypes DEF WinLatch, TypeInv, TypeOK
  <2>2. pc[t] = "cas" /\ pc' = [pc EXCEPT ![t] = "out"]
    BY <1>3, <2>1 DEF FireCas, Goto
  <2> QED
    BY <1>1, <1>2, <2>2 DEF OwnersKept, Acting, Claiming
<1>4. CASE ~(FireCas(t) /\ UNCHANGED fired)
  <2>1. pc'[t] \in Claiming <=> pc[t] \in Claiming
    BY <1>1, <1>4 DEF FireCheck, FireLast, FireSwitch, FireLatch, FireOr,
       FirePost, Claiming, Goto
  <2>2. \A u \in Threads : u # t => pc'[u] = pc[u]
    BY <1>1, <1>4 DEF FireCheck, FireLast, FireSwitch, FireLatch, FireOr,
       FirePost, Goto
  <2> QED
    BY <1>1, <1>2, <2>1, <2>2 DEF OwnersKept, Acting, Claiming
<1> QED
  BY <1>3, <1>4

LEMMA EnvironmentKeeps ==
    ASSUME TypeInv, Environment \/ SignalPost \/ Stop
    PROVE  OwnersKept
<1>1. pc \in [Threads -> Labels]
  BY DEF TypeInv, TypeOK
<1>2. UNCHANGED <<slot, fired, cact, cpc>>
  BY DEF Environment, Stop, SignalOr, NodeInfoPost, StopFlag, SignalPost,
     StopPost, StopJoin, sharedVars, actionVars, wakeVars, controlVars,
     localVars
<1>3. \/ pc' = pc \/ pc' = [pc EXCEPT ![Main] = "stopping"]
      \/ pc' = [pc EXCEPT ![Main] = "joining"]
      \/ pc' = [pc EXCEPT ![Main] = "gone"]
  BY DEF Environment, Stop, SignalOr, NodeInfoPost, StopFlag, SignalPost,
     StopPost, StopJoin, Goto, threadVars
<1>4. pc' = pc \/ pc[Main] \notin Claiming
  BY DEF Environment, Stop, SignalOr, NodeInfoPost, StopFlag, SignalPost,
     StopPost, StopJoin, threadVars, Claiming
<1> QED
  BY <1>1, <1>2, <1>3, <1>4 DEF OwnersKept, Acting, Claiming

LEMMA CasKeeps ==
    ASSUME AtMostOneOwner, TypeInv, NEW t \in Threads, FireCas(t)
    PROVE  AtMostOneOwner'
<1>1. CASE UNCHANGED fired
  BY <1>1, FireKeeps, KeptIsInvariant
<1>2. CASE ~UNCHANGED fired
  <2> SUFFICES ASSUME NEW c \in Configs \ Copies PROVE OneOwner(c)'
    BY DEF AtMostOneOwner
  <2>1. /\ pc \in [Threads -> Labels] /\ fired \in [Configs -> BOOLEAN]
        /\ ConfigOf[t] \in Configs
    BY ConstantTypes DEF TypeInv, TypeOK
  <2>2. OneOwner(c)
    BY DEF AtMostOneOwner
  <2>3. WinLatch(ConfigOf[t])
    BY <1>2 DEF FireCas
  <2>4. /\ pc[t] \notin Claiming
        /\ UNCHANGED <<slot, cact, cpc>>
        /\ \A u \in Threads : u # t => pc'[u] = pc[u]
    BY <2>1 DEF FireCas, Goto, Claiming, wakeVars, controlVars, localVars
  <2>5. Acting(c)' = Acting(c) /\ Queued(c)' = Queued(c) /\ slot' = slot
    BY <2>4 DEF Acting, Queued
  <2>6. CASE c = ConfigOf[t]
    <3>1. Claimants(c) = {} /\ ~Queued(c) /\ ~Acting(c)
      BY <2>2, <2>3, <2>6 DEF OneOwner, WinLatch
    <3>2. Claimants(c)' \subseteq {t}
      BY <2>4, <3>1 DEF Claimants
    <3>3. fired'[c]
      BY <2>1, <2>3, <2>6 DEF WinLatch
    <3> QED
      BY <2>5, <3>1, <3>2, <3>3 DEF OneOwner
  <2>7. CASE c # ConfigOf[t]
    <3>1. Claimants(c)' = Claimants(c)
      BY <2>4, <2>7 DEF Claimants
    <3>2. fired'[c] = fired[c]
      BY <2>1, <2>3, <2>7 DEF WinLatch
    <3> QED
      BY <2>2, <2>4, <2>5, <3>1, <3>2 DEF OneOwner
  <2> QED
    BY <2>6, <2>7
<1> QED
  BY <1>1, <1>2

LEMMA SlotKeeps ==
    ASSUME AtMostOneOwner, TypeInv, NEW t \in Threads, FireSlot(t)
    PROVE  AtMostOneOwner'
<1> SUFFICES ASSUME NEW c \in Configs \ Copies PROVE OneOwner(c)'
  BY DEF AtMostOneOwner
<1>1. pc \in [Threads -> Labels] /\ ConfigOf[t] \in Configs
  BY ConstantTypes DEF TypeInv, TypeOK
<1>2. OneOwner(c)
  BY DEF AtMostOneOwner
<1>3. /\ pc[t] \in Claiming /\ pc'[t] \notin Claiming
      /\ slot' = ConfigOf[t]
      /\ UNCHANGED <<fired, cact, cpc>>
      /\ \A u \in Threads : u # t => pc'[u] = pc[u]
  BY <1>1 DEF FireSlot, Goto, Claiming, actionVars, controlVars, localVars
<1>4. Acting(c)' = Acting(c)
  BY <1>3 DEF Acting
<1>5. CASE c = ConfigOf[t]
  <2>1. t \in Claimants(c)
    BY <1>3, <1>5 DEF Claimants
  <2>2. Claimants(c)' = {}
    BY <1>2, <1>3, <2>1 DEF Claimants, OneOwner
  <2>3. ~Acting(c) /\ fired[c]
    BY <1>2, <2>1 DEF OneOwner
  <2> QED
    BY <1>3, <1>4, <2>2, <2>3 DEF OneOwner
<1>6. CASE c # ConfigOf[t]
  <2>1. Claimants(c)' = Claimants(c)
    BY <1>3, <1>6 DEF Claimants
  <2>2. slot' # c /\ ~Queued(c)'
    BY <1>3, <1>6 DEF Queued
  <2> QED
    BY <1>2, <1>3, <1>4, <2>1, <2>2 DEF OneOwner
<1> QED
  BY <1>5, <1>6

\* The deadline's handler: the compare-and-swap and the slot.
LEMMA ClaimKeeps ==
    ASSUME AtMostOneOwner, TypeInv, CClaimWindow
    PROVE  AtMostOneOwner'
<1> SUFFICES ASSUME NEW c \in Configs \ Copies PROVE OneOwner(c)'
  BY DEF AtMostOneOwner
<1>1. OneOwner(c) /\ fired \in [Configs -> BOOLEAN]
  BY DEF AtMostOneOwner, TypeInv, TypeOK
<1>2. Claimants(c)' = Claimants(c) /\ ~Acting(c) /\ ~Acting(c)'
  BY DEF CClaimWindow, Claimants, Acting, threadVars
<1>3. CASE fired[Default]
  BY <1>1, <1>2, <1>3 DEF CClaimWindow, WinLatch, OneOwner, Queued
<1>4. CASE ~fired[Default]
  <2>1. WinLatch(Default) /\ slot' = Default
    BY <1>4 DEF CClaimWindow
  <2>2. CASE c = Default
    <3>1. Claimants(c) = {} /\ fired'[c]
      BY <1>1, <1>4, <2>1, <2>2 DEF OneOwner, WinLatch
    <3> QED
      BY <1>2, <3>1 DEF OneOwner
  <2>3. CASE c # Default
    <3>1. fired'[c] = fired[c] /\ slot' # c /\ ~Queued(c)'
      BY <1>1, <2>1, <2>3 DEF WinLatch, Queued
    <3> QED
      BY <1>1, <1>2, <3>1 DEF OneOwner
  <2> QED
    BY <2>2, <2>3
<1> QED
  BY <1>3, <1>4

\* The control thread takes the slot's end: it had no other owner.
LEMMA TakeKeeps ==
    ASSUME AtMostOneOwner, TypeInv, CTake
    PROVE  AtMostOneOwner'
<1> SUFFICES ASSUME NEW c \in Configs \ Copies PROVE OneOwner(c)'
  BY DEF AtMostOneOwner
<1>1. OneOwner(c)
  BY DEF AtMostOneOwner
<1>2. /\ Claimants(c)' = Claimants(c) /\ UNCHANGED <<slot, fired>>
      /\ ~Acting(c)
  BY DEF CTake, Claimants, Acting, threadVars, sharedVars, actionVars, wakeVars
<1>3. CASE cpc' = "clear" /\ cact' = slot
  <2>1. CASE slot = c
    <3>1. Queued(c)
      BY <1>2, <2>1 DEF Queued
    <3> QED
      BY <1>1, <1>2, <1>3, <3>1 DEF OneOwner, Queued
  <2>2. CASE slot # c
    <3>1. ~Acting(c)' /\ ~Queued(c)'
      BY <1>2, <1>3, <2>2 DEF Acting, Queued
    <3> QED
      BY <1>1, <1>2, <3>1 DEF OneOwner
  <2> QED
    BY <2>1, <2>2
<1>4. CASE cpc' \in {"loop", "apply"}
  <2>1. ~Acting(c)' /\ (Queued(c)' <=> Queued(c))
    BY <1>2, <1>4 DEF Acting, Queued
  <2> QED
    BY <1>1, <1>2, <2>1 DEF OneOwner
<1> QED
  BY <1>3, <1>4 DEF CTake

LEMMA ClearKeeps ==
    ASSUME AtMostOneOwner, TypeInv, CClear
    PROVE  AtMostOneOwner'
<1> SUFFICES ASSUME NEW c \in Configs \ Copies PROVE OneOwner(c)'
  BY DEF AtMostOneOwner
<1>1. OneOwner(c)
  BY DEF AtMostOneOwner
<1>2. /\ Claimants(c)' = Claimants(c) /\ UNCHANGED fired
      /\ Acting(c)' = Acting(c)
  BY DEF CClear, Claimants, Acting, threadVars, actionVars, localVars
<1>3. slot' # c /\ ~Queued(c)'
  BY WindowControlAssumption DEF CClear, Queued
<1> QED
  BY <1>1, <1>2, <1>3 DEF OneOwner

\* The end of the domain loop and the reset of fired: nobody else owns the
\* end that the control thread lets go of.
LEMMA ReleaseKeeps ==
    ASSUME AtMostOneOwner, TypeInv, CCheck \/ CResetFired
    PROVE  AtMostOneOwner'
<1> SUFFICES ASSUME NEW c \in Configs \ Copies PROVE OneOwner(c)'
  BY DEF AtMostOneOwner
<1>1. OneOwner(c) /\ fired \in [Configs -> BOOLEAN]
  BY DEF AtMostOneOwner, TypeInv, TypeOK
<1>2. Claimants(c)' = Claimants(c) /\ UNCHANGED <<slot, cact>>
  BY DEF CCheck, CResetFired, Claimants, threadVars, sharedVars, wakeVars,
     localVars
<1>3. cpc \in {"modes", "unfire"} /\ cpc # "clear"
  BY DEF CCheck, CResetFired
<1>4. CASE cact # c
  <2>1. fired'[c] = fired[c]
    BY <1>1, <1>4 DEF CCheck, CResetFired, sharedVars, actionVars
  <2>2. ~Acting(c) /\ ~Acting(c)' /\ (Queued(c)' <=> Queued(c))
    BY <1>2, <1>4 DEF Acting, Queued
  <2> QED
    BY <1>1, <1>2, <2>1, <2>2 DEF OneOwner
<1>5. CASE cact = c
  <2>1. Acting(c)
    BY <1>3, <1>5 DEF Acting
  <2>2. Claimants(c) = {} /\ slot # c /\ fired[c]
    BY <1>1, <1>3, <2>1 DEF OneOwner
  <2>3. Claimants(c)' = {} /\ slot' # c /\ ~Queued(c)'
    BY <1>2, <2>2 DEF Queued
  <2>4. fired'[c] \/ ~Acting(c)'
    BY <2>2 DEF CCheck, CResetFired, sharedVars, actionVars, Acting
  <2> QED
    BY <2>3, <2>4 DEF OneOwner
<1> QED
  BY <1>4, <1>5

LEMMA LoopKeeps ==
    ASSUME AtMostOneOwner, TypeInv,
           \/ CLoop \/ CWake \/ CManifest \/ CTestWindow \/ CConsume \/ CReload
           \/ CExpire
    PROVE  OwnersKept
<1>1. UNCHANGED <<slot, pc, cact>>
  BY DEF CLoop, CWake, CManifest, CTestWindow, CConsume, CReload, CExpire,
     sharedVars, wakeVars, threadVars, localVars
<1>2. \A c \in Configs \ Copies : fired'[c] = fired[c]
  BY DEF CLoop, CWake, CManifest, CTestWindow, CConsume, CReload, CExpire,
     LoadConfig, sharedVars, actionVars
<1>3. /\ cpc \in {"loop", "wait", "expired", "woken", "reload"}
      /\ cpc' \in {"loop", "wait", "expired", "woken", "reload", "done",
                   "claim", "take"}
  BY DEF CLoop, CWake, CManifest, CTestWindow, CConsume, CReload, CExpire
<1> QED
  BY <1>1, <1>2, <1>3 DEF OwnersKept, Acting

LEMMA ActionKeeps ==
    ASSUME AtMostOneOwner, TypeInv,
           \/ CIntrospect \/ CPauseWoken \/ CPauseTimeout \/ CResume \/ CLast
           \/ CSwitch \/ CLatch \/ CResetLatches
    PROVE  OwnersKept
<1>1. UNCHANGED <<slot, fired, cact>>
  BY DEF CIntrospect, CPauseWoken, CPauseTimeout, CResume, CLast, CSwitch,
     CLatch, CResetLatches, sharedVars, wakeVars, actionVars, localVars
<1>2. \A t \in Threads : pc'[t] \in Claiming <=> pc[t] \in Claiming
  BY DEF CIntrospect, CPauseWoken, CPauseTimeout, CResume, CLast, CSwitch,
     CLatch, CResetLatches, threadVars, WakeBlocked, Claiming
<1>3. /\ cpc \in {"introspect", "paused", "resume", "modes", "last", "switch",
                  "latch", "latches"}
      /\ cpc' \in {"introspect", "paused", "resume", "modes", "last", "switch",
                   "latch", "latches", "unfire"}
  BY DEF CIntrospect, CPauseWoken, CPauseTimeout, CResume, CLast, CSwitch,
     CLatch, CResetLatches
<1> QED
  BY <1>1, <1>2, <1>3 DEF OwnersKept, Acting

LEMMA TailKeeps ==
    ASSUME AtMostOneOwner, TypeInv, CBumpGeneration \/ CApply
    PROVE  OwnersKept
<1>1. UNCHANGED <<slot, fired, pc>>
  BY DEF CBumpGeneration, CApply, sharedVars, wakeVars, actionVars, threadVars
<1>2. cpc \in {"bump", "apply"} /\ cpc' \in {"apply", "loop"}
  BY DEF CBumpGeneration, CApply
<1> QED
  BY <1>1, <1>2 DEF OwnersKept, Acting

\* The end of a window has one owner at a time, for every configuration that
\* no reload overwrites.
THEOREM OneOwnerAlways == Spec => []AtMostOneOwner
<1>1. Init => AtMostOneOwner
  <2> SUFFICES ASSUME Init, NEW c \in Configs \ Copies PROVE OneOwner(c)
    BY DEF AtMostOneOwner
  <2>1. Claimants(c) = {} /\ ~Acting(c)
    BY DEF Init, Claimants, Claiming, Acting
  <2>2. slot # c
    BY WindowControlAssumption DEF Init
  <2> QED
    BY <2>1, <2>2 DEF OneOwner, Queued
<1>2. AtMostOneOwner /\ TypeInv /\ [Next]_vars => AtMostOneOwner'
  <2> SUFFICES ASSUME AtMostOneOwner, TypeInv, [Next]_vars
               PROVE  AtMostOneOwner'
    OBVIOUS
  <2>1. CASE \E t \in Threads : Callback(t) \/ Fire(t)
    <3>1. PICK t \in Threads : Callback(t) \/ Fire(t)
      BY <2>1
    <3>2. CASE Callback(t)
      BY <3>2, CallbackKeeps, KeptIsInvariant
    <3>3. CASE FireCas(t)
      BY <3>3, CasKeeps
    <3>4. CASE FireSlot(t)
      BY <3>4, SlotKeeps
    <3>5. CASE \/ FireCheck(t) \/ FireLast(t) \/ FireSwitch(t) \/ FireLatch(t)
               \/ FireOr(t) \/ FirePost(t)
      <4>1. OwnersKept
        BY <3>1, <3>5, FireKeeps
      <4> QED
        BY <4>1, KeptIsInvariant
    <3> QED
      BY <3>1, <3>2, <3>3, <3>4, <3>5 DEF Fire
  <2>2. CASE Environment \/ SignalPost \/ Stop
    BY <2>2, EnvironmentKeeps, KeptIsInvariant
  <2>3. CASE Control \/ CExpire
    BY <2>3, LoopKeeps, ActionKeeps, TailKeeps, ClaimKeeps, TakeKeeps,
       ClearKeeps, ReleaseKeeps, KeptIsInvariant DEF Control
  <2>4. CASE UNCHANGED vars
    BY <2>4, KeptIsInvariant DEF OwnersKept, Acting, vars, sharedVars,
       wakeVars, actionVars, threadVars, controlVars, localVars
  <2> QED
    BY <2>1, <2>2, <2>3, <2>4 DEF Next, Exited
<1> QED
  BY <1>1, <1>2, TypeInvariant, PTL DEF Spec

-----------------------------------------------------------------------------
(***************************************************************************)
(* The pause and the wakeups.                                              *)
(***************************************************************************)

\* Whatever ends a pause, no thread is left waiting on the condition
\* (pinsight_check_pause, control_execute_introspect).
THEOREM NoneLeftBlocked == Spec => []BlockedIsPaused
<1>1. Init => BlockedIsPaused
  BY DEF Init, BlockedIsPaused
<1>2. BlockedIsPaused /\ TypeInv /\ [Next]_vars => BlockedIsPaused'
  <2> SUFFICES ASSUME BlockedIsPaused, TypeInv, [Next]_vars,
                      NEW t \in Threads, pc'[t] = "blocked"
               PROVE  appPaused'
    BY DEF BlockedIsPaused
  <2>1. pc \in [Threads -> Labels] /\ Main \in Threads
    BY RoleTypes DEF TypeInv, TypeOK
  <2>2. CASE \E u \in Threads : Callback(u)
    <3>1. PICK u \in Threads : Callback(u)
      BY <2>2
    <3>2. appPaused' = appPaused
      BY <3>1 DEF Callback, CheckPause, PauseGate, RegionBegin, RegionEnd,
         sharedVars
    <3>3. PauseGate(u) \/ pc'[u] # "blocked"
      BY <2>1, <3>1 DEF Callback, CheckPause, RegionBegin, RegionEnd, Goto
    <3>4. t = u \/ pc'[t] = pc[t]
      BY <2>1, <3>1 DEF Callback, CheckPause, PauseGate, RegionBegin,
         RegionEnd, Goto
    <3>5. CASE t = u
      BY <2>1, <3>2, <3>3, <3>5 DEF PauseGate, Goto
    <3>6. CASE t # u
      BY <3>2, <3>4, <3>6 DEF BlockedIsPaused
    <3> QED
      BY <3>5, <3>6
  <2>3. CASE \E u \in Threads : Fire(u)
    <3>1. PICK u \in Threads : Fire(u)
      BY <2>3
    <3>2. appPaused' = appPaused
      BY <3>1 DEF Fire, FireCas, FireCheck, FireLast, FireSwitch, FireLatch,
         FireSlot, FireOr, FirePost, sharedVars
    <3>3. pc[t] = "blocked"
      BY <2>1, <3>1 DEF Fire, FireCas, FireCheck, FireLast, FireSwitch,
         FireLatch, FireSlot, FireOr, FirePost, Goto
    <3> QED
      BY <3>2, <3>3 DEF BlockedIsPaused
  <2>4. CASE Environment \/ SignalPost \/ Stop
    <3>1. appPaused' = appPaused /\ pc[t] = "blocked"
      BY <2>1, <2>4 DEF Environment, Stop, SignalOr, NodeInfoPost, StopFlag,
         SignalPost, StopPost, StopJoin, Goto, threadVars, sharedVars
    <3> QED
      BY <3>1 DEF BlockedIsPaused
  <2>5. CASE Control \/ CExpire
    <3>1. CASE CResume
      BY <3>1 DEF CResume, WakeBlocked
    <3>2. CASE CIntrospect
      BY <3>2 DEF CIntrospect, BlockedIsPaused, threadVars
    <3>3. CASE ~CResume /\ ~CIntrospect
      <4>1. appPaused' = appPaused /\ pc' = pc
        BY <2>5, <3>3 DEF Control, CLoop, CWake, CManifest, CTestWindow,
           CClaimWindow, CConsume, CReload, CTake, CClear, CPauseWoken,
           CPauseTimeout, CCheck, CLast, CSwitch, CLatch, CResetLatches,
           CResetFired, CBumpGeneration, CApply, CExpire, sharedVars,
           threadVars
      <4> QED
        BY <4>1 DEF BlockedIsPaused
    <3> QED
      BY <3>1, <3>2, <3>3
  <2>6. CASE UNCHANGED vars
    BY <2>6 DEF vars, sharedVars, threadVars, BlockedIsPaused
  <2> QED
    BY <2>2, <2>3, <2>4, <2>5, <2>6 DEF Next, Exited
<1> QED
  BY <1>1, <1>2, TypeInvariant, PTL DEF Spec

-----------------------------------------------------------------------------
(***************************************************************************)
(* Wakeup reasons and tokens.  A pause is the one wait that takes a token  *)
(* and leaves the reasons: without pauses each reason keeps its token.     *)
(***************************************************************************)
NeverPauses == \A c \in Configs : ActionOf[c].pause = "none"

\* When no end_action pauses the application, a wakeup reason never stays
\* behind without a token (pinsight_control_thread_wakeup and the handler of
\* SIGUSR1 against the exchange of the loop).
THEOREM TokenKept == NeverPauses => (Spec => [](RequestsHaveToken))
<1> SUFFICES ASSUME NeverPauses PROVE Spec => []RequestsHaveToken
  OBVIOUS
<1> DEFINE Inv == RequestsHaveToken /\ cpc # "paused"
<1>1. Init => Inv
  BY DEF Init, RequestsHaveToken
<1>2. Inv /\ TypeInv /\ [Next]_vars => Inv'
  <2> SUFFICES ASSUME Inv, TypeInv, [Next]_vars PROVE Inv'
    OBVIOUS
  <2>1. /\ pc \in [Threads -> Labels] /\ sem \in Nat /\ handlers \in Nat
        /\ Main \in Threads
    BY RoleTypes DEF TypeInv, TypeOK
  <2>2. CASE \E t \in Threads : Callback(t)
    <3>1. PICK t \in Threads : Callback(t)
      BY <2>2
    <3>2. UNCHANGED <<pending, sem, handlers, cpc>>
      BY <3>1 DEF Callback, CheckPause, PauseGate, RegionBegin, RegionEnd,
         sharedVars, wakeVars, controlVars, envVars
    <3>3. \A u \in Threads : pc[u] = "post" => pc'[u] = "post"
      BY <2>1, <3>1 DEF Callback, CheckPause, PauseGate, RegionBegin,
         RegionEnd, Goto
    <3> QED
      BY <3>2, <3>3 DEF RequestsHaveToken
  <2>3. CASE \E t \in Threads : Fire(t)
    <3>1. PICK t \in Threads : Fire(t)
      BY <2>3
    <3>2. UNCHANGED <<handlers, cpc>>
      BY <3>1 DEF Fire, FireCas, FireCheck, FireLast, FireSwitch, FireLatch,
         FireSlot, FireOr, FirePost, controlVars, envVars
    <3>3. CASE FireOr(t)
      BY <2>1, <3>2, <3>3 DEF FireOr, Goto, RequestsHaveToken
    <3>4. CASE FirePost(t)
      BY <2>1, <3>2, <3>4 DEF FirePost, RequestsHaveToken
    <3>5. CASE ~FireOr(t) /\ ~FirePost(t)
      <4>1. UNCHANGED <<pending, sem>>
        BY <3>1, <3>5 DEF Fire, FireCas, FireCheck, FireLast, FireSwitch,
           FireLatch, FireSlot, sharedVars, wakeVars
      <4>2. \A u \in Threads : pc[u] = "post" => pc'[u] = "post"
        BY <2>1, <3>1, <3>5 DEF Fire, FireCas, FireCheck, FireLast,
           FireSwitch, FireLatch, FireSlot, Goto
      <4> QED
        BY <3>2, <4>1, <4>2 DEF RequestsHaveToken
    <3> QED
      BY <3>3, <3>4, <3>5
  <2>4. CASE Environment \/ SignalPost \/ Stop
    <3>1. cpc' = cpc
      BY <2>4 DEF Environment, Stop, SignalOr, NodeInfoPost, StopFlag,
         SignalPost, StopPost, StopJoin, controlVars
    <3>2. \A u \in Threads : pc[u] = "post" => pc'[u] = "post"
      BY <2>1, <2>4 DEF Environment, Stop, SignalOr, NodeInfoPost, StopFlag,
         SignalPost, StopPost, StopJoin, Goto, threadVars
    <3>3. sem > 0 => sem' > 0
      BY <2>1, <2>4 DEF Environment, Stop, SignalOr, NodeInfoPost, StopFlag,
         SignalPost, StopPost, StopJoin, sharedVars, wakeVars
    <3>4. CASE SignalOr
      BY <2>1, <3>4 DEF SignalOr, RequestsHaveToken, controlVars
    <3>5. CASE SignalPost
      BY <2>1, <3>5 DEF SignalPost, RequestsHaveToken, controlVars
    <3>6. CASE NodeInfoPost \/ StopFlag \/ Stop
      <4>1. UNCHANGED <<pending, handlers>>
        BY <3>6 DEF Stop, NodeInfoPost, StopFlag, StopPost, StopJoin,
           sharedVars, wakeVars, envVars
      <4> QED
        BY <2>1, <3>1, <3>2, <3>3, <4>1 DEF RequestsHaveToken
    <3> QED
      BY <2>4, <3>4, <3>5, <3>6 DEF Environment
  <2>5. CASE Control \/ CExpire
    <3>1. CASE CConsume
      BY <3>1 DEF CConsume, RequestsHaveToken
    <3>2. CASE CWake
      BY <3>2 DEF CWake, RequestsHaveToken
    <3>3. CASE CIntrospect
      <4>1. cact \in Configs
        BY <3>3 DEF CIntrospect, TypeInv, LoopsInRange, HasAction
      <4>2. ~PausesApp(cact)
        BY <4>1 DEF NeverPauses, PausesApp
      <4> QED
        BY <3>3, <4>2 DEF CIntrospect, RequestsHaveToken, wakeVars, threadVars,
           envVars
    <3>4. CASE CResume
      BY <2>1, <3>4 DEF CResume, WakeBlocked, RequestsHaveToken, wakeVars,
         envVars
    <3>5. CASE ~CConsume /\ ~CWake /\ ~CIntrospect /\ ~CResume
      <4>1. UNCHANGED <<pending, sem, handlers, pc>>
        BY <2>5, <3>5 DEF Control, CLoop, CManifest, CTestWindow,
           CClaimWindow, CReload, CTake, CClear, CPauseWoken,
           CPauseTimeout, CCheck, CLast, CSwitch, CLatch, CResetLatches,
           CResetFired, CBumpGeneration, CApply, CExpire, sharedVars,
           wakeVars, threadVars, envVars
      <4>2. cpc \notin {"woken", "done"} /\ cpc' # "paused"
        BY <2>5, <3>5 DEF Control, CLoop, CManifest, CTestWindow,
           CClaimWindow, CReload, CTake, CClear, CPauseWoken,
           CPauseTimeout, CCheck, CLast, CSwitch, CLatch, CResetLatches,
           CResetFired, CBumpGeneration, CApply, CExpire
      <4> QED
        BY <4>1, <4>2 DEF RequestsHaveToken
    <3> QED
      BY <3>1, <3>2, <3>3, <3>4, <3>5
  <2>6. CASE UNCHANGED vars
    BY <2>6 DEF vars, sharedVars, wakeVars, threadVars, controlVars, envVars,
       RequestsHaveToken
  <2> QED
    BY <2>2, <2>3, <2>4, <2>5, <2>6 DEF Next, Exited
<1>3. Inv => RequestsHaveToken
  OBVIOUS
<1> QED
  BY <1>1, <1>2, <1>3, TypeInvariant, PTL DEF Spec

-----------------------------------------------------------------------------
(***************************************************************************)
(* The dormancy rule.  Whoever changes a mode owes the timer a new         *)
(* evaluation, and the debt is passed on: from the thread between its      *)
(* store and its OR to the reason, from the reason to the control thread's *)
(* iteration, whose tail pays it.                                          *)
(***************************************************************************)
Switching == {"check", "last", "switch", "latch", "slot", "or"}

ToTheTail == {"reload", "clear", "introspect", "paused", "resume", "modes",
              "last", "switch", "latch", "latches", "unfire", "bump", "apply",
              "done"}

Due ==
    \/ pending # {}
    \/ \E t \in Threads : pc[t] \in Switching
    \/ cpc \in ToTheTail
    \/ cpc = "take" /\ creason # {}

DormancyInv ==
    /\ (manifestArmed <=> ManifestWanted) \/ Due
    /\ cpc = "reload" => creason # {}

\* A step that changes neither the timer nor a mode keeps the debt.
LEMMA DueStays ==
    ASSUME DormancyInv, UNCHANGED <<mode, manifestArmed>>,
           Due => Due', cpc' = "reload" => creason' # {}
    PROVE  DormancyInv'
BY DEF DormancyInv, ManifestWanted

LEMMA ThreadsOwe ==
    ASSUME DormancyInv, TypeInv, NEW t \in Threads, Callback(t) \/ Fire(t)
    PROVE  DormancyInv'
<1>1. pc \in [Threads -> Labels]
  BY DEF TypeInv, TypeOK
<1>2. UNCHANGED <<manifestArmed, cpc, creason>>
  BY DEF Callback, CheckPause, PauseGate, RegionBegin, RegionEnd, Fire,
     FireCas, FireCheck, FireLast, FireSwitch, FireLatch, FireSlot, FireOr,
     FirePost, controlVars, localVars, timerVars
<1>3. CASE FireSwitch(t)
  <2>1. pc'[t] = "latch"
    BY <1>1, <1>3 DEF FireSwitch, Goto
  <2> QED
    BY <1>2, <2>1 DEF DormancyInv, Due, Switching
<1>4. CASE FireOr(t)
  <2>1. pending' # {} /\ mode' = mode
    BY <1>4 DEF FireOr, domainVars
  <2> QED
    BY <1>2, <2>1, DueStays DEF DormancyInv, Due
<1>5. CASE ~FireSwitch(t) /\ ~FireOr(t)
  <2>1. UNCHANGED <<mode, pending>>
    BY <1>5 DEF Callback, CheckPause, PauseGate, RegionBegin, RegionEnd, Fire,
       FireCas, FireCheck, FireLast, FireLatch, FireSlot, FirePost,
       sharedVars, domainVars, wakeVars
  <2>2. pc[t] \in Switching => pc'[t] \in Switching
    <3>1. CASE Callback(t)
      BY <3>1 DEF Callback, CheckPause, PauseGate, RegionBegin, RegionEnd,
         Switching
    <3>2. CASE Fire(t)
      BY <1>1, <1>5, <3>2 DEF Fire, FireCas, FireCheck, FireLast, FireLatch,
         FireSlot, FirePost, Goto, Switching
    <3> QED
      BY <3>1, <3>2
  <2>3. \A u \in Threads : u # t => pc'[u] = pc[u]
    BY <1>1 DEF Callback, CheckPause, PauseGate, RegionBegin, RegionEnd, Fire,
       FireCas, FireCheck, FireLast, FireSwitch, FireLatch, FireSlot, FireOr,
       FirePost, Goto
  <2>4. Due => Due'
    BY <1>2, <2>1, <2>2, <2>3 DEF Due
  <2> QED
    BY <1>2, <2>1, <2>4, DueStays DEF DormancyInv
<1> QED
  BY <1>3, <1>4, <1>5

LEMMA EnvironmentOwes ==
    ASSUME DormancyInv, TypeInv, Environment \/ SignalPost \/ Stop
    PROVE  DormancyInv'
<1>1. pc \in [Threads -> Labels]
  BY DEF TypeInv, TypeOK
<1>2. UNCHANGED <<mode, manifestArmed, cpc, creason>>
  BY DEF Environment, Stop, SignalOr, NodeInfoPost, StopFlag, SignalPost,
     StopPost, StopJoin, sharedVars, domainVars, controlVars, localVars,
     timerVars
<1>3. pending # {} => pending' # {}
  BY DEF Environment, Stop, SignalOr, NodeInfoPost, StopFlag, SignalPost,
     StopPost, StopJoin, sharedVars, wakeVars
<1>4. \A u \in Threads : pc[u] \in Switching => pc'[u] = pc[u]
  BY <1>1 DEF Environment, Stop, SignalOr, NodeInfoPost, StopFlag, SignalPost,
     StopPost, StopJoin, Goto, threadVars, Switching
<1>5. Due => Due'
  BY <1>2, <1>3, <1>4 DEF Due
<1> QED
  BY <1>2, <1>5, DueStays DEF DormancyInv

\* The tail and the periodic deadline evaluate the rule.
LEMMA TailPays ==
    ASSUME DormancyInv, TypeInv, CManifest \/ CApply
    PROVE  DormancyInv'
<1>1. manifestArmed' = ManifestWanted /\ mode' = mode /\ cpc' = "loop"
  BY DEF CManifest, CApply, ArmManifest, sharedVars, domainVars
<1>2. ManifestWanted' = ManifestWanted
  BY <1>1 DEF ManifestWanted
<1> QED
  BY <1>1, <1>2 DEF DormancyInv

LEMMA LoopOwes ==
    ASSUME DormancyInv, TypeInv,
           \/ CLoop \/ CWake \/ CTestWindow \/ CClaimWindow \/ CConsume
           \/ CReload \/ CTake \/ CExpire
    PROVE  DormancyInv'
<1>1. CASE CReload
  BY <1>1 DEF CReload, DormancyInv, Due, localVars
<1>2. CASE CConsume
  <2>1. UNCHANGED <<mode, manifestArmed, pc>>
    BY <1>2 DEF CConsume, domainVars, timerVars, threadVars
  <2>2. Due => Due'
    BY <1>2, <2>1 DEF CConsume, Due, ToTheTail
  <2>3. cpc' = "reload" => creason' # {}
    BY <1>2 DEF CConsume
  <2> QED
    BY <2>1, <2>2, <2>3, DueStays
<1>3. CASE CTake
  <2>1. UNCHANGED <<mode, manifestArmed, pc, pending, creason>>
    BY <1>3 DEF CTake, sharedVars, wakeVars, domainVars, timerVars, threadVars
  <2>2. cpc' \in ToTheTail \/ (cpc' = "loop" /\ creason = {})
    BY <1>3 DEF CTake, ToTheTail
  <2>3. cpc' # "reload" /\ cpc = "take"
    BY <1>3 DEF CTake
  <2>4. Due => Due'
    BY <2>1, <2>2, <2>3 DEF Due, ToTheTail
  <2> QED
    BY <2>1, <2>3, <2>4, DueStays
<1>4. CASE CLoop \/ CWake \/ CTestWindow \/ CClaimWindow \/ CExpire
  <2>1. UNCHANGED <<mode, manifestArmed, pc, pending>>
    BY <1>4 DEF CLoop, CWake, CTestWindow, CClaimWindow, CExpire, sharedVars,
       wakeVars, domainVars, timerVars, threadVars
  <2>2. cpc \notin ToTheTail \cup {"take"} /\ cpc' # "reload"
    BY <1>4 DEF CLoop, CWake, CTestWindow, CClaimWindow, CExpire, ToTheTail
  <2>3. Due => Due'
    BY <2>1, <2>2 DEF Due
  <2> QED
    BY <2>1, <2>2, <2>3, DueStays
<1> QED
  BY <1>1, <1>2, <1>3, <1>4

\* From the slot's end taken to the tail.
LEMMA ActionOwes ==
    ASSUME DormancyInv, TypeInv,
           \/ CClear \/ CIntrospect \/ CPauseWoken \/ CPauseTimeout \/ CResume
           \/ CCheck \/ CLast \/ CSwitch \/ CLatch \/ CResetLatches
           \/ CResetFired \/ CBumpGeneration
    PROVE  DormancyInv'
<1>1. cpc' \in ToTheTail /\ cpc' # "reload"
  BY DEF CClear, CIntrospect, CPauseWoken, CPauseTimeout, CResume, CCheck,
     CLast, CSwitch, CLatch, CResetLatches, CResetFired, CBumpGeneration,
     ToTheTail
<1> QED
  BY <1>1 DEF DormancyInv, Due

\* Whenever the control thread sleeps with nothing under way, the periodic
\* manifest is armed exactly if something is being collected.
THEOREM DormancyAlways == Spec => []DormancyRule
<1>1. Init => DormancyInv
  BY DEF Init, DormancyInv
<1>2. DormancyInv /\ TypeInv /\ [Next]_vars => DormancyInv'
  <2> SUFFICES ASSUME DormancyInv, TypeInv, [Next]_vars PROVE DormancyInv'
    OBVIOUS
  <2>1. CASE \E t \in Threads : Callback(t) \/ Fire(t)
    BY <2>1, ThreadsOwe
  <2>2. CASE Environment \/ SignalPost \/ Stop
    BY <2>2, EnvironmentOwes
  <2>3. CASE Control \/ CExpire
    BY <2>3, LoopOwes, ActionOwes, TailPays DEF Control
  <2>4. CASE UNCHANGED vars
    <3>1. UNCHANGED <<mode, manifestArmed, pending, pc, cpc, creason>>
      BY <2>4 DEF vars, sharedVars, domainVars, wakeVars, threadVars,
         controlVars, localVars, timerVars
    <3>2. Due => Due'
      BY <3>1 DEF Due
    <3> QED
      BY <3>1, <3>2, DueStays DEF DormancyInv
  <2> QED
    BY <2>1, <2>2, <2>3, <2>4 DEF Next, Exited
<1>3. DormancyInv /\ TypeInv => DormancyRule
  <2> SUFFICES ASSUME DormancyInv, Quiescent
               PROVE  manifestArmed <=> ManifestWanted
    BY DEF DormancyRule
  <2>1. ~Due
    BY DEF Quiescent, Firing, Claiming, Due, Switching, ToTheTail
  <2> QED
    BY <2>1 DEF DormancyInv
<1> QED
  BY <1>1, <1>2, <1>3, TypeInvariant, PTL DEF Spec

-----------------------------------------------------------------------------
(***************************************************************************)
(* What the domain loop has seen.  A configuration reopens exactly if one  *)
(* of its targets is TRACING: the flag the loop collects says so when it   *)
(* has passed them all.                                                    *)
(***************************************************************************)
Seen(d) == d \in Domains /\ ActionOf[cact].mode[d] = "TRACING"

CyclicInv ==
    /\ cpc = "modes" =>
         /\ cyclic => \E d \in Domains : d < cat /\ Seen(d)
         /\ \A d \in Domains : d < cat /\ Seen(d) => cyclic
    /\ cpc \in {"last", "switch", "latch"} =>
         /\ cyclic => \E d \in Domains : d <= cat /\ Seen(d)
         /\ \A d \in Domains : d <= cat /\ Seen(d) => cyclic
    /\ cpc \in {"latches", "unfire"} => Cyclic(cact)
    /\ cpc \notin {"modes", "last", "switch", "latch", "latches", "unfire",
                   "bump", "apply"} => cat = 1 /\ ~cyclic

LEMMA CheckSees ==
    ASSUME CyclicInv, TypeInv, CCheck
    PROVE  CyclicInv'
<1>1. cat \in Nat /\ NumDomains \in Nat /\ cact' = cact
  BY ConstantTypes DEF TypeInv, TypeOK, CCheck
<1>2. CASE cat > NumDomains
  <2>1. (cpc' = "latches" /\ cyclic) \/ cpc' = "apply"
    BY <1>2 DEF CCheck
  <2>2. cyclic => Cyclic(cact)
    BY DEF CyclicInv, CCheck, Cyclic, Seen
  <2>3. Cyclic(cact)' <=> Cyclic(cact)
    BY <1>1 DEF Cyclic
  <2> QED
    BY <2>1, <2>2, <2>3 DEF CyclicInv
<1>3. CASE ~(cat > NumDomains)
  <2> DEFINE now == ActionOf[cact].mode[cat] = "TRACING"
  <2>1. cpc = "modes" /\ cat \in Domains /\ (cyclic' <=> cyclic \/ now)
    <3>1. cpc = "modes" /\ cat \in Domains
      BY <1>1, <1>3 DEF CCheck, Domains, TypeInv, TypeOK
    <3>2. cyclic' = (cyclic \/ now)
      BY <1>3, Zenon DEF CCheck
    <3> QED
      BY <3>1, <3>2, Zenon
  <2>2. now <=> Seen(cat)
    BY <2>1 DEF Seen
  <2>3. \A d \in Domains : d <= cat <=> d < cat \/ d = cat
    BY <1>1 DEF Domains
  <2>4. \A d \in Domains : Seen(d)' <=> Seen(d)
    BY <1>1 DEF Seen
  <2> HIDE DEF now
  <2>5. /\ cyclic' => \E d \in Domains : d <= cat /\ Seen(d)
        /\ \A d \in Domains : d <= cat /\ Seen(d) => cyclic'
    BY <2>1, <2>2, <2>3 DEF CyclicInv
  <2>6. CASE cpc' = "last" /\ cat' = cat
    BY <2>4, <2>5, <2>6 DEF CyclicInv
  <2>7. CASE cpc' = "modes" /\ cat' = cat + 1
    <3>1. \A d \in Domains : d <= cat <=> d < cat'
      BY <1>1, <2>7 DEF Domains
    <3> QED
      BY <2>4, <2>5, <2>7, <3>1 DEF CyclicInv
  <2> QED
    BY <1>3, <2>6, <2>7 DEF CCheck
<1> QED
  BY <1>2, <1>3

LEMMA LatchSees ==
    ASSUME CyclicInv, TypeInv, CLast \/ CSwitch \/ CLatch
    PROVE  CyclicInv'
<1>1. cat \in Nat /\ UNCHANGED <<cact, cyclic>>
  BY DEF TypeInv, TypeOK, CLast, CSwitch, CLatch, localVars
<1>2. \A d \in Domains : Seen(d)' <=> Seen(d)
  BY <1>1 DEF Seen
<1>3. cpc \in {"last", "switch", "latch"}
  BY DEF CLast, CSwitch, CLatch
<1>4. CASE cpc' \in {"switch", "latch"} /\ cat' = cat
  BY <1>1, <1>2, <1>3, <1>4 DEF CyclicInv
<1>5. CASE cpc' = "modes" /\ cat' = cat + 1
  <2>1. \A d \in Domains : d <= cat <=> d < cat'
    BY <1>1, <1>5 DEF Domains
  <2> QED
    BY <1>1, <1>2, <1>3, <1>5, <2>1 DEF CyclicInv
<1> QED
  BY <1>4, <1>5 DEF CLast, CSwitch, CLatch, localVars

LEMMA CyclicInvariant == Spec => []CyclicInv
<1>1. Init => CyclicInv
  BY DEF Init, CyclicInv
<1>2. CyclicInv /\ TypeInv /\ [Next]_vars => CyclicInv'
  <2> SUFFICES ASSUME CyclicInv, TypeInv, [Next]_vars PROVE CyclicInv'
    OBVIOUS
  <2>1. CASE UNCHANGED <<cpc, cact, cat, cyclic>>
    BY <2>1 DEF CyclicInv, Seen, Cyclic
  <2>2. CASE CCheck
    BY <2>2, CheckSees
  <2>3. CASE CLast \/ CSwitch \/ CLatch
    BY <2>3, LatchSees
  <2>4. CASE CResetLatches \/ CResetFired \/ CBumpGeneration
    <3>1. cact' = cact /\ cpc' \in {"latches", "unfire", "bump", "apply"}
      BY <2>4 DEF CResetLatches, CResetFired, CBumpGeneration, localVars
    <3>2. cpc' \in {"latches", "unfire"} => cpc = "latches"
      BY <2>4 DEF CResetLatches, CResetFired, CBumpGeneration
    <3> QED
      BY <3>1, <3>2 DEF CyclicInv, Cyclic
  <2>5. CASE CApply
    BY <2>5 DEF CApply, CyclicInv
  <2>6. CASE \/ CLoop \/ CWake \/ CManifest \/ CTestWindow \/ CClaimWindow
             \/ CConsume \/ CReload \/ CTake \/ CClear \/ CIntrospect
             \/ CPauseWoken \/ CPauseTimeout \/ CResume \/ CExpire
    <3>1. UNCHANGED <<cat, cyclic>> /\ cat = 1 /\ ~cyclic
      BY <2>6 DEF CLoop, CWake, CManifest, CTestWindow, CClaimWindow,
         CConsume, CReload, CTake, CClear, CIntrospect, CPauseWoken,
         CPauseTimeout, CResume, CExpire, localVars, CyclicInv
    <3>2. cpc' \notin {"last", "switch", "latch", "latches", "unfire"}
      BY <2>6 DEF CLoop, CWake, CManifest, CTestWindow, CClaimWindow,
         CConsume, CReload, CTake, CClear, CIntrospect, CPauseWoken,
         CPauseTimeout, CResume, CExpire
    <3>3. \A d \in Domains : ~(d < 1)
      BY DEF Domains
    <3> QED
      BY <3>1, <3>2, <3>3 DEF CyclicInv
  <2>7. CASE \/ \E t \in Threads : Callback(t) \/ Fire(t)
             \/ Environment \/ SignalPost \/ Stop \/ UNCHANGED vars
    <3>1. UNCHANGED <<cpc, cact, cat, cyclic>>
      BY <2>7 DEF Callback, CheckPause, PauseGate, RegionBegin, RegionEnd,
         Fire, FireCas, FireCheck, FireLast, FireSwitch, FireLatch, FireSlot,
         FireOr, FirePost, Environment, Stop, SignalOr, NodeInfoPost,
         StopFlag, SignalPost, StopPost, StopJoin, controlVars, localVars, vars
    <3> QED
      BY <2>1, <3>1
  <2> QED
    BY <2>2, <2>3, <2>4, <2>5, <2>6, <2>7 DEF Next, Control, Exited
<1> QED
  BY <1>1, <1>2, TypeInvariant, PTL DEF Spec

-----------------------------------------------------------------------------
(***************************************************************************)
(* The steps.  A step that keeps the owners is a stutter of EndAction.     *)
(***************************************************************************)
NoCopies == Copies = {}

\* What a step may assume.
Known == NoCopies /\ AtMostOneOwner /\ TypeInv /\ CyclicInv

LEMMA KeptIsStutter ==
    ASSUME Known, OwnersKept
    PROVE  EndState' = EndState
<1> SUFFICES ASSUME NEW c \in Configs PROVE Place(c)' = Place(c)
  BY DEF EndState
<1>1. slot' = slot /\ fired'[c] = fired[c] /\ (Acting(c)' <=> Acting(c))
  BY DEF OwnersKept, Known, NoCopies
<1>2. Claimants(c)' = Claimants(c)
  BY DEF OwnersKept, Claimants
<1> QED
  BY <1>1, <1>2 DEF Place

\* One configuration changes its place.
LEMMA OneMoves ==
    ASSUME NEW c \in Configs, NEW p,
           Place(c)' = p, \A e \in Configs \ {c} : Place(e)' = Place(e)
    PROVE  EndState' = [EndState EXCEPT ![c] = p]
<1> DEFINE S == [EndState EXCEPT ![c] = p]
<1>1. \A e \in Configs : EndState'[e] = S[e]
  BY DEF EndState
<1>2. EndState' = [e \in Configs |-> EndState'[e]]
  BY DEF EndState
<1>3. S = [e \in Configs |-> S[e]]
  BY DEF EndState
<1> QED
  BY <1>1, <1>2, <1>3

LEMMA CasRefines ==
    ASSUME Known, NEW t \in Threads, FireCas(t)
    PROVE  Abstract!Next \/ EndState' = EndState
<1>1. CASE UNCHANGED fired
  BY <1>1, FireKeeps, KeptIsStutter DEF Known
<1>2. CASE ~UNCHANGED fired
  <2> DEFINE c == ConfigOf[t]
  <2>1. /\ pc \in [Threads -> Labels] /\ fired \in [Configs -> BOOLEAN]
        /\ c \in Configs
    BY ConstantTypes DEF Known, TypeInv, TypeOK
  <2>2. WinLatch(c) /\ pc' [t] \in Claiming
    BY <1>2, <2>1 DEF FireCas, Goto, Claiming
  <2>3. /\ pc[t] \notin Claiming
        /\ UNCHANGED <<slot, cact, cpc>>
        /\ \A u \in Threads : u # t => pc'[u] = pc[u]
    BY <2>1 DEF FireCas, Goto, Claiming, wakeVars, controlVars, localVars
  <2>4. \A e \in Configs : Acting(e)' = Acting(e)
    BY <2>3 DEF Acting
  <2>5. Place(c) = "open" /\ Place(c)' = "claimed"
    <3>1. t \in Claimants(c)' /\ fired'[c] /\ ~fired[c]
      BY <2>1, <2>2 DEF Claimants, WinLatch
    <3> QED
      BY <3>1 DEF Place
  <2>6. \A e \in Configs \ {c} : Place(e)' = Place(e)
    <3> SUFFICES ASSUME NEW e \in Configs \ {c} PROVE Place(e)' = Place(e)
      OBVIOUS
    <3>1. Claimants(e)' = Claimants(e)
      BY <2>3 DEF Claimants
    <3>2. fired'[e] = fired[e]
      BY <2>1, <2>2 DEF WinLatch
    <3> QED
      BY <2>3, <2>4, <3>1, <3>2 DEF Place
  <2>7. Abstract!Claim(c)
    BY <2>1, <2>5, <2>6, OneMoves DEF Abstract!Claim, EndState
  <2> QED
    BY <2>1, <2>7 DEF Abstract!Next
<1> QED
  BY <1>1, <1>2

\* Both ways into the slot: what it held before is dropped.
LEMMA SlotMoves ==
    ASSUME NEW c \in Configs, Place(c)' = "queued", slot' = c,
           \A e \in Configs \ {c} :
              /\ fired'[e] = fired[e] /\ Claimants(e)' = Claimants(e)
              /\ Acting(e)' <=> Acting(e)
    PROVE  EndState' = Abstract!Queued(c)
<1>1. \A e \in Configs :
         Place(e)' = IF e = c THEN "queued"
                     ELSE IF EndState[e] = "queued" THEN "spent"
                     ELSE EndState[e]
  <2> SUFFICES ASSUME NEW e \in Configs \ {c}
               PROVE  Place(e)' = IF EndState[e] = "queued" THEN "spent"
                                  ELSE EndState[e]
    OBVIOUS
  <2>1. EndState[e] = Place(e)
    BY DEF EndState
  <2> QED
    BY <2>1 DEF Place
<1> QED
  BY <1>1 DEF EndState, Abstract!Queued

LEMMA SlotRefines ==
    ASSUME Known, NEW t \in Threads, FireSlot(t)
    PROVE  Abstract!Next
<1> DEFINE c == ConfigOf[t]
<1>1. pc \in [Threads -> Labels] /\ c \in Configs
  BY ConstantTypes DEF Known, TypeInv, TypeOK
<1>2. OneOwner(c)
  BY <1>1 DEF Known, NoCopies, AtMostOneOwner
<1>3. /\ pc[t] \in Claiming /\ pc'[t] \notin Claiming
      /\ slot' = c
      /\ UNCHANGED <<fired, cact, cpc>>
      /\ \A u \in Threads : u # t => pc'[u] = pc[u]
  BY <1>1 DEF FireSlot, Goto, Claiming, actionVars, controlVars, localVars
<1>4. \A e \in Configs : Acting(e)' <=> Acting(e)
  BY <1>3 DEF Acting
<1>5. t \in Claimants(c)
  BY <1>3 DEF Claimants
<1>6. Claimants(c)' = {} /\ ~Acting(c) /\ fired[c]
  BY <1>2, <1>3, <1>5 DEF Claimants, OneOwner
<1>7. Place(c) = "claimed" /\ Place(c)' = "queued"
  BY <1>3, <1>4, <1>5, <1>6, <1>1 DEF Place
<1>8. \A e \in Configs \ {c} : Claimants(e)' = Claimants(e)
  BY <1>3 DEF Claimants
<1>9. EndState' = Abstract!Queued(c)
  BY <1>1, <1>3, <1>4, <1>7, <1>8, SlotMoves
<1>10. EndState[c] = "claimed"
  BY <1>1, <1>7 DEF EndState
<1> QED
  BY <1>1, <1>9, <1>10 DEF Abstract!Next, Abstract!Publish

LEMMA ClaimRefines ==
    ASSUME Known, CClaimWindow
    PROVE  Abstract!Next \/ EndState' = EndState
<1>1. OneOwner(Default) /\ Default \in Configs /\ fired \in [Configs -> BOOLEAN]
  BY RoleTypes DEF Known, NoCopies, AtMostOneOwner, TypeInv, TypeOK
<1>2. \A e \in Configs : /\ Claimants(e)' = Claimants(e)
                         /\ ~Acting(e) /\ ~Acting(e)'
  BY DEF CClaimWindow, Claimants, Acting, threadVars
<1>3. CASE fired[Default]
  <2>1. slot' = slot /\ fired' = fired
    BY <1>3 DEF CClaimWindow, WinLatch
  <2>2. \A e \in Configs : Place(e)' = Place(e)
    BY <1>2, <2>1 DEF Place
  <2> QED
    BY <2>2 DEF EndState
<1>4. CASE ~fired[Default]
  <2>1. WinLatch(Default) /\ slot' = Default
    BY <1>4 DEF CClaimWindow
  <2>2. Claimants(Default) = {}
    BY <1>1, <1>4 DEF OneOwner
  <2>3. fired'[Default] /\ \A e \in Configs \ {Default} : fired'[e] = fired[e]
    BY <1>1, <2>1 DEF WinLatch
  <2>4. Place(Default)' = "queued"
    BY <1>1, <1>2, <2>1, <2>2, <2>3 DEF Place
  <2>5. EndState' = Abstract!Queued(Default)
    <3>1. \A e \in Configs : Acting(e)' <=> Acting(e)
      BY <1>2
    <3> QED
      BY <1>1, <1>2, <2>1, <2>3, <2>4, <3>1, SlotMoves
  <2>6. EndState[Default] = "open"
    BY <1>1, <1>4 DEF EndState, Place
  <2> QED
    BY <1>1, <2>5, <2>6 DEF Abstract!Next, Abstract!Expire
<1> QED
  BY <1>3, <1>4

LEMMA TakeRefines ==
    ASSUME Known, CTake
    PROVE  Abstract!Next \/ EndState' = EndState
<1>1. /\ \A e \in Configs : Claimants(e)' = Claimants(e) /\ ~Acting(e)
      /\ UNCHANGED <<slot, fired>>
  BY DEF CTake, Claimants, Acting, threadVars, sharedVars, actionVars, wakeVars
<1>2. CASE cpc' = "clear" /\ cact' = slot /\ slot # None
  <2>1. PICK c \in Configs : c = slot
    BY <1>2 DEF Known, TypeInv, TypeOK
  <2>2. OneOwner(c) /\ Queued(c)
    BY <1>1, <2>1 DEF Known, NoCopies, AtMostOneOwner, Queued
  <2>3. fired[c] /\ Claimants(c) = {}
    BY <2>2 DEF OneOwner
  <2>4. Acting(c)' /\ \A e \in Configs \ {c} : ~Acting(e)'
    BY <1>1, <1>2, <2>1 DEF Acting
  <2>5. Place(c) = "queued" /\ Place(c)' = "acting"
    BY <1>1, <2>1, <2>3, <2>4 DEF Place
  <2>6. \A e \in Configs \ {c} : Place(e)' = Place(e)
    BY <1>1, <2>1, <2>4 DEF Place
  <2>7. EndState' = [EndState EXCEPT ![c] = "acting"]
    BY <2>5, <2>6, OneMoves
  <2>8. EndState[c] = "queued"
    BY <2>5 DEF EndState
  <2> QED
    BY <2>7, <2>8 DEF Abstract!Next, Abstract!Take
<1>3. CASE cpc' \in {"loop", "apply"}
  <2>1. \A e \in Configs : ~Acting(e)'
    BY <1>3 DEF Acting
  <2>2. \A e \in Configs : Place(e)' = Place(e)
    BY <1>1, <2>1 DEF Place
  <2> QED
    BY <2>2 DEF EndState
<1> QED
  BY <1>2, <1>3 DEF CTake

LEMMA ClearRefines ==
    ASSUME Known, CClear
    PROVE  Abstract!Next \/ EndState' = EndState
<1>1. /\ \A e \in Configs : Claimants(e)' = Claimants(e)
      /\ \A e \in Configs : Acting(e)' = Acting(e)
      /\ UNCHANGED <<fired, cact>> /\ slot' = None
  BY DEF CClear, Claimants, Acting, threadVars, actionVars, localVars
<1>2. PICK a \in Configs : a = cact
  BY DEF CClear, Known, TypeInv, LoopsInRange, HasAction
<1>3. Acting(a) /\ None \notin Configs
  BY <1>2, WindowControlAssumption DEF CClear, Acting
<1>4. \A e \in Configs : e # slot => Place(e)' = Place(e)
  BY <1>1, <1>3 DEF Place
<1>5. OneOwner(a)
  BY DEF Known, NoCopies, AtMostOneOwner
<1>6. Place(a) = "acting" /\ Place(a)' = "acting"
  BY <1>1, <1>3, <1>5 DEF Place, OneOwner
<1>7. CASE slot \notin Configs \/ slot = a
  <2>1. \A e \in Configs : Place(e)' = Place(e)
    BY <1>4, <1>6, <1>7
  <2> QED
    BY <2>1 DEF EndState
<1>8. CASE slot \in Configs /\ slot # a
  <2>1. PICK c \in Configs : c = slot
    BY <1>8
  <2>2. OneOwner(c) /\ ~Acting(c) /\ Queued(c)
    BY <1>2, <1>8, <2>1 DEF Known, NoCopies, AtMostOneOwner, Acting, Queued
  <2>3. fired[c] /\ Claimants(c) = {}
    BY <2>2 DEF OneOwner
  <2>4. Place(c) = "queued" /\ Place(c)' = "spent"
    BY <1>1, <1>3, <2>1, <2>2, <2>3 DEF Place
  <2>5. EndState' = [EndState EXCEPT ![c] = "spent"]
    BY <1>4, <2>1, <2>4, OneMoves
  <2>6. EndState[c] = "queued" /\ EndState[a] = "acting"
    BY <1>6, <2>4 DEF EndState
  <2> QED
    BY <2>5, <2>6 DEF Abstract!Next, Abstract!Drop
<1> QED
  BY <1>7, <1>8

\* The end of the domain loop, and the reset of fired.
LEMMA ReleaseRefines ==
    ASSUME Known, CCheck \/ CResetFired
    PROVE  Abstract!Next \/ EndState' = EndState
<1>1. /\ \A e \in Configs : Claimants(e)' = Claimants(e)
      /\ UNCHANGED <<slot, cact>>
  BY DEF CCheck, CResetFired, Claimants, threadVars, sharedVars, wakeVars,
     localVars
<1>2. cpc \in {"modes", "unfire"}
  BY DEF CCheck, CResetFired
<1>3. PICK c \in Configs : c = cact
  BY <1>2 DEF Known, TypeInv, LoopsInRange, HasAction
<1>4. OneOwner(c) /\ Acting(c) /\ fired \in [Configs -> BOOLEAN]
  BY <1>2, <1>3 DEF Known, NoCopies, AtMostOneOwner, Acting, TypeInv, TypeOK
<1>5. fired[c] /\ Claimants(c) = {} /\ slot # c
  BY <1>2, <1>4 DEF OneOwner
<1>6. Place(c) = "acting"
  BY <1>4, <1>5 DEF Place
<1>7. \A e \in Configs \ {c} : Place(e)' = Place(e)
  <2>1. \A e \in Configs \ {c} : fired'[e] = fired[e]
    BY <1>3, <1>4 DEF CCheck, CResetFired, sharedVars, actionVars
  <2>2. \A e \in Configs \ {c} : ~Acting(e) /\ ~Acting(e)'
    BY <1>1, <1>3 DEF Acting
  <2> QED
    BY <1>1, <2>1, <2>2 DEF Place
<1>8. EndState[c] = "acting"
  BY <1>6 DEF EndState
<1>9. CASE CResetFired
  <2>1. ~fired'[c]
    BY <1>3, <1>4, <1>9 DEF CResetFired
  <2>2. Place(c)' = "open"
    BY <2>1 DEF Place
  <2>3. EndState' = [EndState EXCEPT ![c] = "open"]
    BY <1>7, <2>2, OneMoves
  <2>4. c \in CyclicConfigs
    BY <1>3, <1>9 DEF CResetFired, Known, CyclicInv, CyclicConfigs
  <2> QED
    BY <1>8, <2>3, <2>4 DEF Abstract!Next, Abstract!Reopen
<1>10. CASE CCheck /\ cpc' = "apply"
  <2>1. fired' = fired /\ ~Acting(c)'
    BY <1>10 DEF CCheck, sharedVars, actionVars, Acting
  <2>2. Place(c)' = "spent"
    BY <1>1, <1>5, <2>1 DEF Place
  <2>3. EndState' = [EndState EXCEPT ![c] = "spent"]
    BY <1>7, <2>2, OneMoves
  <2>4. c \notin CyclicConfigs
    <3>1. cpc = "modes" /\ cat > NumDomains /\ ~cyclic
      BY <1>10 DEF CCheck
    <3>2. \A d \in Domains : d < cat
      BY <3>1, ConstantTypes DEF Domains, Known, TypeInv, TypeOK
    <3> QED
      BY <1>3, <3>1, <3>2 DEF Known, CyclicInv, CyclicConfigs, Cyclic, Seen
  <2> QED
    BY <1>8, <2>3, <2>4 DEF Abstract!Next, Abstract!Retire
<1>11. CASE CCheck /\ cpc' # "apply"
  <2>1. fired' = fired /\ Acting(c)'
    BY <1>1, <1>3, <1>11 DEF CCheck, sharedVars, actionVars, Acting
  <2>2. Place(c)' = Place(c)
    BY <1>1, <1>4, <2>1 DEF Place
  <2>3. \A e \in Configs : Place(e)' = Place(e)
    BY <1>7, <2>2
  <2> QED
    BY <2>3 DEF EndState
<1> QED
  BY <1>9, <1>10, <1>11

\* The whole implements EndAction: every step of a thread or of the control
\* thread claims, queues, takes, drops, reopens or retires an end, or is none
\* of EndAction's business.
THEOREM EndsRefine == NoCopies => (Spec => EndsLikeEndAction)
<1> SUFFICES ASSUME NoCopies PROVE Spec => Abstract!Spec
  BY DEF EndsLikeEndAction
<1>1. Init => Abstract!Init
  <2> SUFFICES ASSUME Init PROVE \A c \in Configs : Place(c) = "open"
    BY DEF Abstract!Init, EndState
  <2> QED
    BY DEF Init, Place
<1>2. AtMostOneOwner /\ TypeInv /\ CyclicInv /\ [Next]_vars
         => [Abstract!Next]_EndState
  <2> SUFFICES ASSUME Known, [Next]_vars
               PROVE  Abstract!Next \/ EndState' = EndState
    BY DEF Known
  <2>1. CASE \E t \in Threads : Callback(t) \/ Fire(t)
    <3>1. PICK t \in Threads : Callback(t) \/ Fire(t)
      BY <2>1
    <3>2. CASE Callback(t)
      BY <3>1, <3>2, CallbackKeeps, KeptIsStutter DEF Known
    <3>3. CASE FireCas(t)
      BY <3>1, <3>3, CasRefines
    <3>4. CASE FireSlot(t)
      BY <3>1, <3>4, SlotRefines
    <3>5. CASE \/ FireCheck(t) \/ FireLast(t) \/ FireSwitch(t) \/ FireLatch(t)
               \/ FireOr(t) \/ FirePost(t)
      <4>1. OwnersKept
        BY <3>1, <3>5, FireKeeps DEF Known
      <4> QED
        BY <4>1, KeptIsStutter
    <3> QED
      BY <3>1, <3>2, <3>3, <3>4, <3>5 DEF Fire
  <2>2. CASE Environment \/ SignalPost \/ Stop
    BY <2>2, EnvironmentKeeps, KeptIsStutter DEF Known
  <2>3. CASE CClaimWindow
    BY <2>3, ClaimRefines
  <2>4. CASE CTake
    BY <2>4, TakeRefines
  <2>5. CASE CClear
    BY <2>5, ClearRefines
  <2>6. CASE CCheck \/ CResetFired
    BY <2>6, ReleaseRefines
  <2>7. CASE \/ CLoop \/ CWake \/ CManifest \/ CTestWindow \/ CConsume
             \/ CReload \/ CExpire
    BY <2>7, LoopKeeps, KeptIsStutter DEF Known
  <2>8. CASE \/ CIntrospect \/ CPauseWoken \/ CPauseTimeout \/ CResume \/ CLast
             \/ CSwitch \/ CLatch \/ CResetLatches
    BY <2>8, ActionKeeps, KeptIsStutter DEF Known
  <2>9. CASE CBumpGeneration \/ CApply
    BY <2>9, TailKeeps, KeptIsStutter DEF Known
  <2>10. CASE UNCHANGED vars
    <3>1. OwnersKept
      BY <2>10 DEF OwnersKept, Acting, vars, sharedVars, wakeVars, actionVars,
         threadVars, controlVars, localVars
    <3> QED
      BY <3>1, KeptIsStutter
  <2> QED
    BY <2>1, <2>2, <2>3, <2>4, <2>5, <2>6, <2>7, <2>8, <2>9, <2>10
       DEF Next, Control, Exited
<1> QED
  BY <1>1, <1>2, OneOwnerAlways, TypeInvariant, CyclicInvariant, PTL
     DEF Spec, Abstract!Spec

-----------------------------------------------------------------------------
(***************************************************************************)
(* When all regions resolve to the global default, as without a config     *)
(* file, there is one end at a time in the process, and what it does to    *)
(* the domains and to the timer is done before the next one begins.        *)
(***************************************************************************)
OneEnd == Copies = {} /\ \A t \in Threads : ConfigOf[t] = Default

OnlyDefault ==
    /\ slot \in {None, Default} /\ cact \in {None, Default}
    /\ \A c \in Configs : fired[c] => c = Default

ActingLabels ==
    {"clear", "introspect", "paused", "resume", "modes", "last", "switch",
     "latch", "latches", "unfire"}

Single == OneEnd /\ AtMostOneOwner /\ TypeInv /\ CyclicInv /\ OnlyDefault

\* Whoever switches the domains is alone, and the latch is set.
LEMMA OneSwitches ==
    ASSUME Single
    PROVE  /\ \A t \in Threads : pc[t] \in Claiming =>
                 /\ fired[Default] /\ cpc \notin ActingLabels
                 /\ \A u \in Threads : pc[u] \in Claiming => u = t
           /\ cpc \in ActingLabels =>
                 /\ fired[Default] /\ cact = Default /\ Acting(Default)
                 /\ \A t \in Threads : pc[t] \notin Claiming
<1>1. OneOwner(Default)
  BY RoleTypes, WindowControlAssumption DEF Single, OneEnd, AtMostOneOwner
<1>2. Claimants(Default) = {t \in Threads : pc[t] \in Claiming}
  BY DEF Claimants, Single, OneEnd
<1>3. cpc \in ActingLabels => Acting(Default) /\ cact = Default
  BY WindowControlAssumption
     DEF Single, OnlyDefault, TypeInv, LoopsInRange, HasAction, ActingLabels, Acting
<1> QED
  BY <1>1, <1>2, <1>3 DEF OneOwner

LEMMA OnlyDefaultStays ==
    ASSUME Single, [Next]_vars
    PROVE  OnlyDefault'
<1> USE DEF vars, sharedVars, controlVars, localVars, actionVars, wakeVars
<1>1. Default \in Configs /\ OneEnd /\ OnlyDefault /\ fired \in [Configs -> BOOLEAN]
  BY WindowControlAssumption DEF Single, TypeInv, TypeOK
<1>2. slot' \in {None, Default}
  <2>1. ASSUME NEW t \in Threads, Callback(t) \/ Fire(t) PROVE slot' \in {None, Default}
    BY <1>1, <2>1 DEF OneEnd, OnlyDefault, Callback, CheckPause, PauseGate, RegionBegin,
       RegionEnd, Fire, FireCas, FireCheck, FireLast, FireSwitch, FireLatch, FireSlot,
       FireOr, FirePost
  <2>2. CASE ~(\E t \in Threads : Callback(t) \/ Fire(t))
    BY <1>1, <2>2 DEF OnlyDefault, Next, Environment, SignalOr, NodeInfoPost, StopFlag,
       SignalPost, Stop, StopPost, StopJoin, Exited, CExpire, Control, CLoop, CWake,
       CManifest, CTestWindow, CClaimWindow, CConsume, CReload, CTake, CClear, CIntrospect,
       CPauseWoken, CPauseTimeout, CResume, CCheck, CLast, CSwitch, CLatch, CResetLatches,
       CResetFired, CBumpGeneration, CApply
  <2> QED
    BY <2>1, <2>2
<1>3. cact' \in {None, Default}
  <2>1. ASSUME NEW t \in Threads, Callback(t) \/ Fire(t) PROVE UNCHANGED cact
    BY <2>1 DEF Callback, CheckPause, PauseGate, RegionBegin,
       RegionEnd, Fire, FireCas, FireCheck, FireLast, FireSwitch, FireLatch, FireSlot,
       FireOr, FirePost
  <2>2. CASE ~(\E t \in Threads : Callback(t) \/ Fire(t))
    BY <1>1, <2>2 DEF OnlyDefault, Next, Environment, SignalOr, NodeInfoPost, StopFlag,
       SignalPost, Stop, StopPost, StopJoin, Exited, CExpire, Control, CLoop, CWake,
       CManifest, CTestWindow, CClaimWindow, CConsume, CReload, CTake, CClear, CIntrospect,
       CPauseWoken, CPauseTimeout, CResume, CCheck, CLast, CSwitch, CLatch, CResetLatches,
       CResetFired, CBumpGeneration, CApply
  <2> QED
    BY <1>1, <2>1, <2>2 DEF OnlyDefault
<1>4. \A c \in Configs : fired'[c] => c = Default
  <2>1. ASSUME NEW t \in Threads, Callback(t) \/ Fire(t)
        PROVE  UNCHANGED fired \/ fired' = [fired EXCEPT ![Default] = TRUE]
    BY <1>1, <2>1 DEF OneEnd, Callback, CheckPause, PauseGate, RegionBegin,
       RegionEnd, Fire, FireCas, FireCheck, FireLast, FireSwitch, FireLatch, FireSlot,
       FireOr, FirePost, WinLatch
  <2>2. CASE CReload
    BY <1>1, <2>2 DEF CReload, LoadConfig, OneEnd, OnlyDefault
  <2>3. CASE ~(\E t \in Threads : Callback(t) \/ Fire(t)) /\ ~CReload
    <3>1. \/ UNCHANGED fired \/ fired' = [fired EXCEPT ![Default] = TRUE]
          \/ fired' = [fired EXCEPT ![cact] = FALSE]
      BY <2>3 DEF Next, Environment, SignalOr, NodeInfoPost, StopFlag,
         SignalPost, Stop, StopPost, StopJoin, Exited, CExpire, Control, CLoop, CWake,
         CManifest, CTestWindow, CClaimWindow, CConsume, CTake, CClear, CIntrospect,
         CPauseWoken, CPauseTimeout, CResume, CCheck, CLast, CSwitch, CLatch,
         CResetLatches, CResetFired, CBumpGeneration, CApply, WinLatch
    <3> QED
      BY <1>1, <3>1 DEF OnlyDefault
  <2> QED
    BY <1>1, <2>1, <2>2, <2>3 DEF OnlyDefault
<1> QED
  BY <1>2, <1>3, <1>4 DEF OnlyDefault

LEMMA SingleAlways == OneEnd => (Spec => []Single)
<1> SUFFICES ASSUME OneEnd PROVE Spec => []Single
  OBVIOUS
<1>1. Init => OnlyDefault
  BY WindowControlAssumption DEF Init, OnlyDefault
<1>2. AtMostOneOwner /\ TypeInv /\ CyclicInv /\ OnlyDefault /\ [Next]_vars => OnlyDefault'
  BY OnlyDefaultStays DEF Single
<1>3. AtMostOneOwner /\ TypeInv /\ CyclicInv /\ OnlyDefault => Single
  BY DEF Single
<1> QED
  BY <1>1, <1>2, <1>3, OneOwnerAlways, TypeInvariant, CyclicInvariant, PTL DEF Spec

-----------------------------------------------------------------------------
(***************************************************************************)
(* What keeps the owners also keeps what a thread and the control thread   *)
(* are between: every step is one of those or one of these.                *)
(***************************************************************************)
LEMMA EveryStep ==
    ASSUME Single, [Next]_vars
    PROVE  \/ OwnersKept /\ UNCHANGED cact
           \/ OwnersKept /\ cpc \in {"bump", "apply"}
           \/ \E t \in Threads : FireCas(t) \/ FireSlot(t)
           \/ CClaimWindow \/ CTake \/ CClear \/ CCheck \/ CResetFired
<1>0. AtMostOneOwner /\ TypeInv
  BY DEF Single
<1>1. ASSUME NEW t \in Threads, Callback(t) PROVE OwnersKept /\ UNCHANGED cact
  <2>1. UNCHANGED cact
    BY <1>1 DEF Callback, CheckPause, PauseGate, RegionBegin, RegionEnd, controlVars,
       localVars
  <2> QED
    BY <1>0, <1>1, <2>1, CallbackKeeps
<1>2. ASSUME NEW t \in Threads, Fire(t), ~(FireCas(t) \/ FireSlot(t))
      PROVE  OwnersKept /\ UNCHANGED cact
  <2>1. \/ FireCheck(t) \/ FireLast(t) \/ FireSwitch(t) \/ FireLatch(t)
        \/ FireOr(t) \/ FirePost(t)
    BY <1>2 DEF Fire
  <2>2. UNCHANGED cact
    BY <2>1 DEF FireCheck, FireLast, FireSwitch, FireLatch, FireOr, FirePost,
       controlVars, localVars
  <2> QED
    BY <1>0, <2>1, <2>2, FireKeeps
<1>3. CASE Environment \/ SignalPost \/ Stop
  <2>1. UNCHANGED cact
    BY <1>3 DEF Environment, Stop, SignalOr, NodeInfoPost, StopFlag, SignalPost,
       StopPost, StopJoin, controlVars, localVars
  <2> QED
    BY <1>0, <1>3, <2>1, EnvironmentKeeps
<1>4. CASE \/ CLoop \/ CWake \/ CManifest \/ CTestWindow \/ CConsume \/ CReload
           \/ CExpire
  <2>1. UNCHANGED cact
    BY <1>4 DEF CLoop, CWake, CManifest, CTestWindow, CConsume, CReload, CExpire,
       localVars
  <2> QED
    BY <1>0, <1>4, <2>1, LoopKeeps
<1>5. CASE \/ CIntrospect \/ CPauseWoken \/ CPauseTimeout \/ CResume \/ CLast
           \/ CSwitch \/ CLatch \/ CResetLatches
  <2>1. UNCHANGED cact
    BY <1>5 DEF CIntrospect, CPauseWoken, CPauseTimeout, CResume, CLast, CSwitch,
       CLatch, CResetLatches, localVars
  <2> QED
    BY <1>0, <1>5, <2>1, ActionKeeps
<1>6. CASE CBumpGeneration \/ CApply
  <2>1. cpc \in {"bump", "apply"}
    BY <1>6 DEF CBumpGeneration, CApply
  <2> QED
    BY <1>0, <1>6, <2>1, TailKeeps
<1>7. CASE UNCHANGED vars
  BY <1>7 DEF OwnersKept, Acting, vars, sharedVars, wakeVars, actionVars, threadVars,
     controlVars, localVars
<1> QED
  BY <1>1, <1>2, <1>3, <1>4, <1>5, <1>6, <1>7 DEF Next, Control, Fire, Exited

Owned == slot = Default \/ Acting(Default) \/ \E t \in Threads : pc[t] \in Claiming

OwedInv == fired[Default] /\ Cyclic(Default) => Owned

LEMMA OwedStays ==
    ASSUME Single, OwedInv, [Next]_vars
    PROVE  OwedInv'
<1>0. /\ Default \in Configs \ Copies /\ fired \in [Configs -> BOOLEAN]
      /\ pc \in [Threads -> Labels] /\ \A t \in Threads : ConfigOf[t] = Default
  BY WindowControlAssumption DEF Single, OneEnd, TypeInv, TypeOK
<1>1. CASE OwnersKept
  BY <1>0, <1>1 DEF OwnersKept, OwedInv, Owned, Cyclic
<1>2. ASSUME NEW t \in Threads, FireCas(t) PROVE OwedInv'
  <2>1. CASE WinLatch(Default)
    <3>1. pc'[t] \in Claiming
      BY <1>0, <1>2, <2>1 DEF FireCas, WinLatch, Goto, Claiming
    <3> QED
      BY <3>1 DEF OwedInv, Owned
  <2>2. CASE ~WinLatch(Default)
    <3>1. UNCHANGED <<fired, slot, cact, cpc>> /\ pc' = [pc EXCEPT ![t] = "out"]
          /\ pc[t] = "cas"
      BY <1>0, <1>2, <2>2 DEF FireCas, Goto, wakeVars, controlVars, localVars
    <3>2. \A u \in Threads : pc[u] \in Claiming => pc'[u] \in Claiming
      BY <1>0, <3>1 DEF Claiming
    <3> QED
      BY <3>1, <3>2 DEF OwedInv, Owned, Acting, Cyclic
  <2> QED
    BY <2>1, <2>2
<1>3. ASSUME NEW t \in Threads, FireSlot(t) PROVE OwedInv'
  BY <1>0, <1>3 DEF FireSlot, OwedInv, Owned
<1>4. CASE CClaimWindow
  BY <1>0, <1>4 DEF CClaimWindow, WinLatch, OwedInv, Owned, Acting, Cyclic, threadVars
<1>5. CASE CTake
  BY <1>5 DEF CTake, OwedInv, Owned, Acting, Cyclic, threadVars, sharedVars, wakeVars,
     actionVars
<1>6. CASE CClear
  <2>1. Acting(Default)'
    BY <1>6, OneSwitches DEF CClear, Acting, ActingLabels, localVars
  <2> QED
    BY <2>1 DEF OwedInv, Owned
<1>7. CASE CCheck
  <2>1. cact = Default /\ UNCHANGED <<cact, fired, slot, pc>>
    BY <1>7, OneSwitches DEF CCheck, ActingLabels, sharedVars, actionVars, wakeVars,
       threadVars
  <2>2. CASE cpc' = "apply"
    <3>1. ~cyclic /\ cat > NumDomains
      BY <1>7, <2>2 DEF CCheck
    <3>2. ~Cyclic(Default)
      <4>1. cat \in Nat /\ NumDomains \in Nat
        BY WindowControlAssumption DEF Single, TypeInv, TypeOK
      <4>2. \A d \in Domains : d < cat /\ ~Seen(d)
        BY <1>7, <3>1, <4>1 DEF Single, CyclicInv, CCheck, Domains
      <4> QED
        BY <2>1, <4>2 DEF Cyclic, Seen
    <3> QED
      BY <3>2 DEF OwedInv, Cyclic
  <2>3. CASE cpc' # "apply"
    <3>1. Acting(Default)'
      BY <1>7, <2>1, <2>3 DEF CCheck, Acting
    <3> QED
      BY <3>1 DEF OwedInv, Owned
  <2> QED
    BY <2>2, <2>3
<1>8. CASE CResetFired
  <2>1. cact = Default
    BY <1>8, OneSwitches DEF CResetFired, ActingLabels
  <2> QED
    BY <1>0, <1>8, <2>1 DEF CResetFired, OwedInv
<1> QED
  BY <1>1, <1>2, <1>3, <1>4, <1>5, <1>6, <1>7, <1>8, EveryStep

\* With one end, the latch of a cyclic window is never left set with nobody to
\* reset it: pinsight_fire_window_end, the deadline's handler, the cyclic reset.
THEOREM CyclicIsOwedAlways == OneEnd => (Spec => []FiredCyclicIsOwed)
<1> SUFFICES ASSUME OneEnd PROVE Spec => []FiredCyclicIsOwed
  OBVIOUS
<1>1. Init => OwedInv
  BY WindowControlAssumption DEF Init, OwedInv
<1>2. Single /\ OwedInv /\ [Next]_vars => OwedInv'
  BY OwedStays
<1>3. Single /\ OwedInv => FiredCyclicIsOwed
  <2> SUFFICES ASSUME Single, OwedInv, NEW c \in Configs, fired[c], Cyclic(c)
               PROVE  Claimants(c) # {} \/ Queued(c) \/ Acting(c)
    BY DEF FiredCyclicIsOwed
  <2>1. c = Default
    BY DEF Single, OnlyDefault
  <2>2. Owned
    BY <2>1 DEF OwedInv
  <2> QED
    BY <2>1, <2>2 DEF Owned, Queued, Claimants, Single, OneEnd
<1> QED
  BY <1>1, <1>2, <1>3, SingleAlways, PTL DEF Spec

-----------------------------------------------------------------------------
(***************************************************************************)
(* The window's deadline.  A timer that is off has been used up by the     *)
(* window that ends, and the window that opens next arms it again.         *)
(***************************************************************************)
LatchInv ==
    /\ \A d \in Domains : latched[d] => fired[Default]
    /\ cpc = "latches" => \A d \in Domains : d < cat => ~latched[d]
    /\ cpc = "unfire" => \A d \in Domains : ~latched[d]

BoundedInv ==
    WindowTimeout => windowArmed \/ fired[Default] \/ cpc \in {"expired", "claim", "bump"}

\* A domain is latched only while an end is latched.
LEMMA LatchStays ==
    ASSUME Single, LatchInv, [Next]_vars
    PROVE  LatchInv'
<1> USE DEF domainVars, actionVars, sharedVars, controlVars, localVars
<1>0. /\ Default \in Configs \ Copies /\ fired \in [Configs -> BOOLEAN]
      /\ pc \in [Threads -> Labels] /\ \A t \in Threads : ConfigOf[t] = Default
      /\ latched \in [Domains -> BOOLEAN] /\ at \in [Threads -> 1 .. NumDomains + 1]
      /\ cat \in 1 .. NumDomains + 1 /\ NumDomains \in Nat
  BY WindowControlAssumption DEF Single, OneEnd, TypeInv, TypeOK
<1>1. ASSUME NEW t \in Threads, Callback(t) PROVE LatchInv'
  BY <1>1 DEF LatchInv, Callback, CheckPause, PauseGate, RegionBegin, RegionEnd
<1>2. ASSUME NEW t \in Threads, FireCas(t) PROVE LatchInv'
  BY <1>0, <1>2 DEF LatchInv, FireCas, WinLatch
<1>3. ASSUME NEW t \in Threads, FireLatch(t) PROVE LatchInv'
  <2>1. fired[Default] /\ cpc \notin ActingLabels
    BY <1>3, OneSwitches DEF FireLatch, Claiming
  <2> QED
    BY <1>0, <1>3, <2>1 DEF LatchInv, FireLatch, LatchDomain, ActingLabels
<1>4. ASSUME NEW t \in Threads, \/ FireCheck(t) \/ FireLast(t) \/ FireSwitch(t)
                                \/ FireSlot(t) \/ FireOr(t) \/ FirePost(t)
      PROVE  LatchInv'
  BY <1>4 DEF LatchInv, FireCheck, FireLast, FireSwitch, FireSlot, FireOr, FirePost
<1>5. CASE Environment \/ SignalPost \/ Stop
  BY <1>5 DEF LatchInv, Environment, Stop, SignalOr, NodeInfoPost, StopFlag, SignalPost,
     StopPost, StopJoin
<1>6. CASE CReload
  <2>1. /\ \A d \in Domains : latched'[d] => latched[d]
        /\ fired'[Default] = fired[Default] /\ cpc' = "take"
    BY <1>0, <1>6 DEF CReload, LoadConfig, LoadDomains
  <2> QED
    BY <2>1 DEF LatchInv
<1>7. CASE CClaimWindow
  BY <1>0, <1>7 DEF LatchInv, CClaimWindow, WinLatch
<1>8. CASE CLatch
  <2>1. fired[Default]
    BY <1>8, OneSwitches DEF CLatch, ActingLabels
  <2> QED
    BY <1>8, <2>1 DEF LatchInv, CLatch
<1>9. CASE CResetLatches
  <2>1. fired[Default]
    BY <1>9, OneSwitches DEF CResetLatches, ActingLabels
  <2>2. latched' = [latched EXCEPT ![cat] = FALSE] /\ cat \in Domains /\ UNCHANGED fired
    BY <1>9 DEF CResetLatches, Single, TypeInv, LoopsInRange
  <2>3. \A d \in Domains : d <= cat => ~latched'[d]
    BY <1>0, <1>9, <2>2 DEF LatchInv, CResetLatches, Domains
  <2>4. CASE cat = NumDomains
    BY <1>0, <1>9, <2>1, <2>2, <2>3, <2>4 DEF LatchInv, CResetLatches, Domains
  <2>5. CASE cat # NumDomains
    BY <1>0, <1>9, <2>1, <2>2, <2>3, <2>5 DEF LatchInv, CResetLatches, Domains
  <2> QED
    BY <2>4, <2>5
<1>10. CASE CResetFired
  BY <1>10 DEF LatchInv, CResetFired
<1>11. CASE CCheck
  BY <1>0, <1>11 DEF LatchInv, CCheck, Domains
<1>12. CASE \/ CLoop \/ CWake \/ CManifest \/ CTestWindow \/ CConsume \/ CTake \/ CClear
            \/ CIntrospect \/ CPauseWoken \/ CPauseTimeout \/ CResume \/ CLast \/ CSwitch
            \/ CBumpGeneration \/ CApply \/ CExpire
  BY <1>12 DEF LatchInv, CLoop, CWake, CManifest, CTestWindow, CConsume, CTake, CClear,
     CIntrospect, CPauseWoken, CPauseTimeout, CResume, CLast, CSwitch, CBumpGeneration,
     CApply, CExpire
<1>13. CASE UNCHANGED vars
  BY <1>13 DEF LatchInv, vars
<1> QED
  BY <1>1, <1>2, <1>3, <1>4, <1>5, <1>6, <1>7, <1>8, <1>9, <1>10, <1>11, <1>12, <1>13
     DEF Next, Control, Fire, Exited

LEMMA BoundedStays ==
    ASSUME Single, LatchInv, BoundedInv, [Next]_vars
    PROVE  BoundedInv'
<1> USE DEF BoundedInv, actionVars, sharedVars, controlVars, localVars, timerVars
<1>0. /\ Default \in Configs \ Copies /\ fired \in [Configs -> BOOLEAN]
      /\ \A t \in Threads : ConfigOf[t] = Default
  BY WindowControlAssumption DEF Single, OneEnd, TypeInv, TypeOK
<1>1. ASSUME NEW t \in Threads, Callback(t) \/ Fire(t) PROVE BoundedInv'
  <2>1. UNCHANGED <<windowArmed, cpc>>
    BY <1>1 DEF Callback, CheckPause, PauseGate, RegionBegin, RegionEnd, Fire,
       FireCas, FireCheck, FireLast, FireSwitch, FireLatch, FireSlot, FireOr, FirePost
  <2>2. UNCHANGED fired \/ fired' = [fired EXCEPT ![Default] = TRUE]
    BY <1>0, <1>1 DEF Callback, CheckPause, PauseGate, RegionBegin, RegionEnd, Fire,
       FireCas, FireCheck, FireLast, FireSwitch, FireLatch, FireSlot, FireOr, FirePost,
       WinLatch
  <2> QED
    BY <1>0, <2>1, <2>2
<1>2. CASE Environment \/ SignalPost \/ Stop
  BY <1>2 DEF Environment, Stop, SignalOr, NodeInfoPost, StopFlag, SignalPost,
     StopPost, StopJoin
<1>3. CASE CExpire
  BY <1>3 DEF CExpire
<1>4. CASE CTestWindow
  <2>1. CASE AlreadyEnded(Default)
    <3>1. fired[Default]
      BY <2>1 DEF AlreadyEnded, LatchInv
    <3> QED
      BY <1>4, <3>1 DEF CTestWindow
  <2>2. CASE ~AlreadyEnded(Default)
    BY <1>4, <2>2 DEF CTestWindow
  <2> QED
    BY <2>1, <2>2
<1>5. CASE CClaimWindow
  BY <1>0, <1>5 DEF CClaimWindow, WinLatch
<1>6. CASE CReload \/ CBumpGeneration
  BY <1>6 DEF CReload, CBumpGeneration, ArmWindow
<1>7. CASE CResetFired
  BY <1>7 DEF CResetFired
<1>8. CASE \/ CLoop \/ CWake \/ CManifest \/ CConsume \/ CTake \/ CClear
           \/ CIntrospect \/ CPauseWoken \/ CPauseTimeout \/ CResume \/ CCheck \/ CLast
           \/ CSwitch \/ CLatch \/ CResetLatches \/ CApply
  BY <1>8 DEF CLoop, CWake, CManifest, CConsume, CTake, CClear, CIntrospect,
     CPauseWoken, CPauseTimeout, CResume, CCheck, CLast, CSwitch, CLatch,
     CResetLatches, CApply
<1>9. CASE UNCHANGED vars
  BY <1>9 DEF vars
<1> QED
  BY <1>1, <1>2, <1>3, <1>4, <1>5, <1>6, <1>7, <1>8, <1>9 DEF Next, Control, Exited

\* While the window is open and the control thread sleeps its deadline is armed,
\* through ends by regions and by the deadline, reopenings and reloads:
\* window_timer_arm_from_default.
THEOREM OpenWindowIsBoundedAlways == OneEnd => (Spec => []OpenWindowIsBounded)
<1> SUFFICES ASSUME OneEnd PROVE Spec => []OpenWindowIsBounded
  OBVIOUS
<1>1. Init => LatchInv /\ BoundedInv
  BY DEF Init, LatchInv, BoundedInv
<1>2. Single /\ LatchInv /\ BoundedInv /\ [Next]_vars => LatchInv' /\ BoundedInv'
  BY LatchStays, BoundedStays
<1>3. BoundedInv => OpenWindowIsBounded
  BY DEF BoundedInv, OpenWindowIsBounded
<1> QED
  BY <1>1, <1>2, <1>3, SingleAlways, PTL DEF Spec

-----------------------------------------------------------------------------
(***************************************************************************)
(* The transition a latch stands for.  Whoever switches a domain has found *)
(* it unlatched and in another mode, and nobody else stores to it until it *)
(* is latched.  A reload would, if its file had a trace_mode.              *)
(***************************************************************************)
SilentFiles == \A m \in FileModes, d \in Domains : m[d] = "NONE"

\* Between the reads and the stores of a switch, at label l, of domain d.
Underway(l, d) ==
    /\ l \in {"last", "switch"} => ~latched[d] /\ mode[d] # ActionOf[Default].mode[d]
    /\ l = "switch" => lastMode[d] = mode[d]
    /\ l = "latch" => lastMode[d] # mode[d]

SwitchInv ==
    /\ LatchedSwitchVisible
    /\ Underway(cpc, cat)
    /\ \A t \in Threads : Underway(pc[t], at[t])

\* The three steps of a switch, of either loop: what it finds of the domain.
LEMMA Switches ==
    ASSUME TypeInv, LatchedSwitchVisible, NEW d \in Domains, NEW l, Underway(l, d),
           \/ l = "last" /\ RecordMode(d) /\ UNCHANGED <<mode, latched>>
           \/ l = "switch" /\ StoreMode(Default, d) /\ UNCHANGED <<lastMode, latched>>
           \/ l = "latch" /\ LatchDomain(d) /\ UNCHANGED <<mode, lastMode>>
    PROVE  /\ LatchedSwitchVisible'
           /\ l = "last" => Underway("switch", d)'
           /\ l = "switch" => Underway("latch", d)'
<1> USE DEF LatchedSwitchVisible, Underway
<1>0. /\ mode \in [Domains -> Modes] /\ lastMode \in [Domains -> Targets]
      /\ latched \in [Domains -> BOOLEAN]
  BY DEF TypeInv, TypeOK
<1>1. CASE l = "last"
  BY <1>0, <1>1 DEF RecordMode
<1>2. CASE l = "switch"
  BY <1>0, <1>2 DEF StoreMode
<1>3. CASE l = "latch"
  BY <1>0, <1>3 DEF LatchDomain
<1> QED
  BY <1>1, <1>2, <1>3

Midway(l) == l \in {"last", "switch", "latch"}

LEMMA SwitchStays ==
    ASSUME SilentFiles, Single, SwitchInv, [Next]_vars
    PROVE  SwitchInv'
<1> USE DEF domainVars, sharedVars, controlVars, localVars
<1>0. /\ pc \in [Threads -> Labels] /\ at \in [Threads -> 1 .. NumDomains + 1]
      /\ cat \in 1 .. NumDomains + 1 /\ NumDomains \in Nat
      /\ \A t \in Threads : ConfigOf[t] = Default
      /\ TypeInv
  BY WindowControlAssumption DEF Single, OneEnd, TypeInv, TypeOK
<1>1. ASSUME UNCHANGED domainVars, NEW l, NEW d, Underway(l, d) PROVE Underway(l, d)'
  BY <1>1 DEF Underway
<1>2. UNCHANGED domainVars => LatchedSwitchVisible'
  BY DEF SwitchInv, LatchedSwitchVisible
<1>3. ASSUME UNCHANGED <<domainVars, pc, at>>, ~Midway(cpc')
      PROVE  SwitchInv'
  BY <1>1, <1>2, <1>3 DEF SwitchInv, Underway, Midway
<1>4. ASSUME UNCHANGED <<domainVars, cpc, cat>>, NEW t \in Threads,
             \A u \in Threads : u # t => pc'[u] = pc[u] /\ at'[u] = at[u],
             ~Midway(pc'[t]) \/ Underway(pc'[t], at'[t])
      PROVE  SwitchInv'
  <2>1. ASSUME NEW u \in Threads PROVE Underway(pc[u], at[u])'
    <3>1. CASE u = t
      BY <1>1, <1>4, <3>1 DEF Underway, Midway
    <3>2. CASE u # t
      BY <1>1, <1>4, <3>2 DEF SwitchInv, Underway
    <3> QED
      BY <3>1, <3>2
  <2>2. Underway(cpc, cat)'
    BY <1>1, <1>4 DEF SwitchInv, Underway
  <2> QED
    BY <1>2, <1>4, <2>1, <2>2 DEF SwitchInv
<1>5. ASSUME NEW t \in Threads, FireLast(t) \/ FireSwitch(t) \/ FireLatch(t)
      PROVE  SwitchInv'
  <2>1. pc[t] \in Claiming /\ Midway(pc[t]) /\ UNCHANGED cpc
        /\ \A u \in Threads : u # t => pc'[u] = pc[u] /\ at'[u] = at[u]
    BY <1>0, <1>5 DEF FireLast, FireSwitch, FireLatch, Goto, Claiming, Midway
  <2>2. at[t] \in Domains
    BY <1>0, <2>1 DEF Midway, TypeInv, LoopsInRange
  <2>3. ~Midway(cpc') /\ \A u \in Threads : u # t => ~Midway(pc'[u])
    BY <2>1, OneSwitches DEF Claiming, ActingLabels, Midway
  <2> PICK d \in Domains, l \in {"last", "switch", "latch"} : d = at[t] /\ l = pc[t]
    BY <2>1, <2>2 DEF Midway
  <2>4. /\ LatchedSwitchVisible'
        /\ l = "last" => Underway("switch", d)'
        /\ l = "switch" => Underway("latch", d)'
    <3>1. Underway(l, d) /\ LatchedSwitchVisible
      BY DEF SwitchInv
    <3>2. \/ l = "last" /\ RecordMode(d) /\ UNCHANGED <<mode, latched>>
          \/ l = "switch" /\ StoreMode(Default, d) /\ UNCHANGED <<lastMode, latched>>
          \/ l = "latch" /\ LatchDomain(d) /\ UNCHANGED <<mode, lastMode>>
      BY <1>0, <1>5 DEF FireLast, FireSwitch, FireLatch
    <3> QED
      BY <1>0, <3>1, <3>2, Switches
  <2>5. Underway(pc[t], at[t])'
    <3>1. /\ pc[t] = "last" => pc'[t] = "switch" /\ at'[t] = at[t]
          /\ pc[t] = "switch" => pc'[t] = "latch" /\ at'[t] = at[t]
          /\ pc[t] = "latch" => pc'[t] = "check"
          /\ pc[t] \in {"last", "switch", "latch"}
      BY <1>0, <1>5 DEF FireLast, FireSwitch, FireLatch, Goto
    <3> QED
      BY <2>4, <3>1 DEF Underway
  <2> QED
    BY <2>3, <2>4, <2>5 DEF SwitchInv, Underway, Midway
<1>6. ASSUME NEW t \in Threads, FireCheck(t) PROVE SwitchInv'
  <2>1. UNCHANGED <<domainVars, cpc, cat>>
        /\ \A u \in Threads : u # t => pc'[u] = pc[u] /\ at'[u] = at[u]
    BY <1>0, <1>6 DEF FireCheck, Goto
  <2>2. ~Midway(pc'[t]) \/ Underway(pc'[t], at'[t])
    BY <1>0, <1>6 DEF FireCheck, Goto, SwitchDue, Underway, Midway
  <2> QED
    BY <1>4, <2>1, <2>2
<1>7. ASSUME NEW t \in Threads, \/ Callback(t) \/ FireCas(t) \/ FireSlot(t) \/ FireOr(t)
                                \/ FirePost(t)
      PROVE  SwitchInv'
  <2>1. UNCHANGED <<domainVars, cpc, cat>>
    BY <1>7 DEF Callback, CheckPause, PauseGate, RegionBegin, RegionEnd, FireCas,
       FireSlot, FireOr, FirePost
  <2>2. \A u \in Threads : u # t => pc'[u] = pc[u] /\ at'[u] = at[u]
    BY <1>0, <1>7 DEF Callback, CheckPause, PauseGate, RegionBegin, RegionEnd, FireCas,
       FireSlot, FireOr, FirePost, Goto
  <2>3. ~Midway(pc'[t])
    BY <1>0, <1>7 DEF Callback, CheckPause, PauseGate, RegionBegin, RegionEnd, FireCas,
       FireSlot, FireOr, FirePost, Goto, Midway
  <2> QED
    BY <1>4, <2>1, <2>2, <2>3
<1>8. CASE Environment \/ SignalPost \/ Stop
  <2>1. UNCHANGED <<domainVars, cpc, cat, at>>
    BY <1>8 DEF Environment, Stop, SignalOr, NodeInfoPost, StopFlag, SignalPost,
       StopPost, StopJoin, threadVars
  <2>2. /\ \A u \in Threads : u # Main => pc'[u] = pc[u]
        /\ ~Midway(pc'[Main]) \/ pc'[Main] = pc[Main]
    BY <1>0, <1>8, RoleTypes DEF Environment, Stop, SignalOr, NodeInfoPost, StopFlag,
       SignalPost, StopPost, StopJoin, threadVars, Goto, Midway
  <2>3. ~Midway(pc'[Main]) \/ Underway(pc'[Main], at'[Main])
    BY <2>1, <2>2, RoleTypes DEF SwitchInv
  <2> QED
    BY <1>4, <2>1, <2>2, <2>3, RoleTypes
<1>9. CASE CLast \/ CSwitch \/ CLatch
  <2>1. cpc \in ActingLabels /\ Midway(cpc) /\ UNCHANGED <<pc, at>>
    BY <1>9 DEF CLast, CSwitch, CLatch, ActingLabels, Midway, threadVars
  <2>2. cat \in Domains /\ cact = Default
    BY <1>0, <2>1, OneSwitches DEF Midway, TypeInv, LoopsInRange
  <2>3. \A u \in Threads : ~Midway(pc'[u])
    BY <2>1, OneSwitches DEF Claiming, Midway
  <2> PICK d \in Domains, l \in {"last", "switch", "latch"} : d = cat /\ l = cpc
    BY <2>1, <2>2 DEF Midway
  <2>4. /\ LatchedSwitchVisible'
        /\ l = "last" => Underway("switch", d)'
        /\ l = "switch" => Underway("latch", d)'
    <3>1. Underway(l, d) /\ LatchedSwitchVisible
      BY DEF SwitchInv
    <3>2. \/ l = "last" /\ RecordMode(d) /\ UNCHANGED <<mode, latched>>
          \/ l = "switch" /\ StoreMode(Default, d) /\ UNCHANGED <<lastMode, latched>>
          \/ l = "latch" /\ LatchDomain(d) /\ UNCHANGED <<mode, lastMode>>
      BY <1>9, <2>2 DEF CLast, CSwitch, CLatch
    <3> QED
      BY <1>0, <3>1, <3>2, Switches
  <2>5. Underway(cpc, cat)'
    <3>1. /\ cpc = "last" => cpc' = "switch" /\ cat' = cat
          /\ cpc = "switch" => cpc' = "latch" /\ cat' = cat
          /\ cpc = "latch" => cpc' = "modes"
          /\ cpc \in {"last", "switch", "latch"}
      BY <1>9 DEF CLast, CSwitch, CLatch
    <3> QED
      BY <2>4, <3>1 DEF Underway
  <2> QED
    BY <2>3, <2>4, <2>5 DEF SwitchInv, Underway, Midway
<1>10. CASE CCheck
  <2>1. UNCHANGED <<domainVars, pc, at>> /\ cact = Default
    BY <1>10, OneSwitches DEF CCheck, ActingLabels, threadVars
  <2>2. Underway(cpc, cat)'
    BY <1>10, <2>1 DEF CCheck, SwitchDue, Underway
  <2>3. \A t \in Threads : Underway(pc[t], at[t])'
    BY <1>1, <2>1 DEF SwitchInv, Underway
  <2> QED
    BY <1>2, <2>1, <2>2, <2>3 DEF SwitchInv
<1>11. CASE CReload
  <2>1. UNCHANGED domainVars
    <3>1. ASSUME NEW m \in FileModes, LoadConfig(m) PROVE UNCHANGED domainVars
      BY <1>0, <3>1 DEF SilentFiles, LoadConfig, LoadDomains, TypeInv, TypeOK
    <3> QED
      BY <1>11, <3>1 DEF CReload
  <2> QED
    BY <1>3, <1>11, <2>1 DEF CReload, threadVars, Midway
<1>12. CASE CResetLatches
  <2>1. /\ latched' = [latched EXCEPT ![cat] = FALSE] /\ UNCHANGED <<mode, lastMode, pc, at>>
        /\ ~Midway(cpc') /\ cpc \in ActingLabels
    BY <1>12 DEF CResetLatches, threadVars, Midway, ActingLabels
  <2>2. \A u \in Threads : ~Midway(pc'[u])
    BY <2>1, OneSwitches DEF Claiming, Midway
  <2>3. LatchedSwitchVisible'
    BY <1>0, <2>1 DEF SwitchInv, LatchedSwitchVisible, TypeInv, TypeOK
  <2> QED
    BY <2>1, <2>2, <2>3 DEF SwitchInv, Underway, Midway
<1>13. CASE CResume
  <2>1. UNCHANGED <<domainVars, at>> /\ ~Midway(cpc')
        /\ \A t \in Threads : pc'[t] = pc[t] \/ ~Midway(pc'[t])
    BY <1>0, <1>13 DEF CResume, WakeBlocked, Midway
  <2>2. \A t \in Threads : Underway(pc[t], at[t])'
    BY <1>1, <2>1 DEF SwitchInv, Underway, Midway
  <2> QED
    BY <1>2, <2>1, <2>2 DEF SwitchInv, Underway, Midway
<1>14. CASE \/ CLoop \/ CWake \/ CManifest \/ CTestWindow \/ CClaimWindow \/ CConsume
            \/ CTake \/ CClear \/ CIntrospect \/ CPauseWoken \/ CPauseTimeout
            \/ CResetFired \/ CBumpGeneration \/ CApply \/ CExpire
  <2>1. UNCHANGED <<domainVars, pc, at>> /\ ~Midway(cpc')
    BY <1>14 DEF CLoop, CWake, CManifest, CTestWindow, CClaimWindow, CConsume, CTake,
       CClear, CIntrospect, CPauseWoken, CPauseTimeout, CResetFired, CBumpGeneration,
       CApply, CExpire, threadVars, Midway
  <2> QED
    BY <1>3, <2>1
<1>15. CASE UNCHANGED vars
  <2>1. UNCHANGED <<domainVars, pc, at, cpc, cat>>
    BY <1>15 DEF vars, threadVars
  <2> QED
    BY <1>1, <1>2, <2>1 DEF SwitchInv, Underway
<1> QED
  BY <1>5, <1>6, <1>7, <1>8, <1>9, <1>10, <1>11, <1>12, <1>13, <1>14, <1>15
     DEF Next, Control, Fire, Exited

\* With one end and no trace_mode in a reloaded file a latched domain shows
\* apply_mode the transition: the two switching loops, interleaved.
THEOREM SwitchVisibleAlways == OneEnd /\ SilentFiles => (Spec => []LatchedSwitchVisible)
<1> SUFFICES ASSUME OneEnd, SilentFiles PROVE Spec => []LatchedSwitchVisible
  OBVIOUS
<1>1. Init => SwitchInv
  BY DEF Init, SwitchInv, LatchedSwitchVisible, Underway
<1>2. Single /\ SwitchInv /\ [Next]_vars => SwitchInv'
  BY SwitchStays
<1>3. SwitchInv => LatchedSwitchVisible
  BY DEF SwitchInv
<1> QED
  BY <1>1, <1>2, <1>3, SingleAlways, PTL DEF Spec
=============================================================================
