--------------------------- MODULE WindowControl ---------------------------
(***************************************************************************)
(* The end of a TRACING window.  Application threads count the traced      *)
(* executions of their regions and, when a cap is reached, fire the        *)
(* window_end_action of the configuration the region resolved to           *)
(* (pinsight.c, pinsight.h).  The control thread sleeps on a semaphore,    *)
(* takes the action, pauses the application for an introspection, switches *)
(* domain modes, opens the next cyclic window, reloads the configuration   *)
(* on SIGUSR1 and keeps the window and manifest timers                     *)
(* (pinsight_control_thread.c).                                            *)
(*                                                                         *)
(* Operators marked "Faulty" are plausible bugs that no action uses: each  *)
(* shows, put in the place of the definition after it, that a property can *)
(* be violated.                                                            *)
(*                                                                         *)
(* Grain: a step is one access to memory that another thread writes,       *)
(* except where the comment of the action says why a longer step loses no  *)
(* outcome.  A region is a thread's own (lexgion_t is thread-local), so    *)
(* each thread executes one region, with tracing_rate = 1 and              *)
(* trace_starts_at = 0.                                                    *)
(***************************************************************************)
EXTENDS Integers, FiniteSets

CONSTANTS
    Threads,       \* application threads
    Main,          \* the one that runs the library's destructor
    NumDomains,    \* num_domain
    Configs,       \* the window_end_action_t objects regions resolve to
    Default,       \* &lexgion_default_trace_config->end_action
    Copies,        \* domain defaults that a load overwrites with Default
    None,          \* the NULL pending_mode_action
    ActionOf,      \* what each end_action says: introspect, pause, mode[d]
    ConfigOf,      \* the configuration a thread's region resolves to
    DomainOf,      \* the domain the thread's region belongs to
    MaxTraces,     \* max_num_traces
    WindowTimeout, \* window_timeout_sec > 0
    ManifestOn,    \* manifest_interval_sec > 0
    EnergyOn,      \* energy_measure_policy # OFF
    FileModes,     \* the trace_mode values a reloaded file may carry
    MpiInit,       \* whether the program calls MPI_Init
    MaxRuns,       \* bound: region executions of a thread
    MaxSignals,    \* bound: SIGUSR1 deliveries
    MaxDeadlines   \* bound: window deadlines that pass

Domains == 1 .. NumDomains
Modes == {"OFF", "STANDBY", "MONITORING", "TRACING"}
Targets == Modes \cup {"NONE"}
Pauses == {"none", "timed", "forever"}
Reasons == {"RELOAD", "MODE_CHANGE", "INTROSPECT"}

ASSUME WindowControlAssumption ==
    /\ Main \in Threads
    /\ NumDomains \in Nat \ {0}
    /\ Default \in Configs
    /\ Copies \subseteq Configs \ {Default}
    /\ None \notin Configs
    /\ ActionOf \in [Configs -> [introspect : BOOLEAN, pause : Pauses,
                                 mode : [Domains -> Targets]]]
    /\ \A c \in Configs : ~ActionOf[c].introspect => ActionOf[c].pause = "none"
    /\ ConfigOf \in [Threads -> Configs]
    /\ DomainOf \in [Threads -> Domains]
    /\ MaxTraces \in Nat \ {0}
    /\ WindowTimeout \in BOOLEAN /\ ManifestOn \in BOOLEAN
    /\ EnergyOn \in BOOLEAN /\ MpiInit \in BOOLEAN
    /\ FileModes \subseteq [Domains -> Targets]
    /\ MaxRuns \in Nat /\ MaxSignals \in Nat /\ MaxDeadlines \in Nat

VARIABLES
    \* memory shared by the application threads and the control thread
    mode,          \* domain_trace_config[d].mode
    lastMode,      \* domain_trace_config[d].last_mode
    latched,       \* domain_trace_config[d].mode_change_fired
    fired,         \* end_action.fired
    generation,    \* end_action.generation
    slot,          \* pending_mode_action
    pending,       \* pending_wakeup_reason, as the set of its bits
    sem,           \* control_sem
    shutdown,      \* control_shutdown
    appPaused,     \* pinsight_app_paused
    \* application threads and their regions
    pc,            \* where each thread is
    at,            \* the domain loop's index in pinsight_fire_window_end
    runs,          \* lexgion counter
    traceCounter,  \* lexgion trace_counter
    lexGen,        \* lexgion introspect_gen
    traceBit,      \* lexgion trace_bit
    \* the control thread
    cpc,           \* where it is
    creason,       \* reason
    cact,          \* ma
    cat,           \* the domain loop's index
    cyclic,        \* cyclic_resume
    windowArmed,   \* window_timer_armed
    manifestArmed, \* manifest_timer_armed
    \* the environment
    signals,       \* SIGUSR1 deliveries so far
    handlers,      \* handlers between their OR and their sem_post
    deadlines,     \* window deadlines passed so far
    nodeInfo       \* whether MPI_Init has posted its wakeup(0)

domainVars == <<mode, lastMode, latched>>
actionVars == <<fired, generation>>
wakeVars == <<slot, pending, sem>>
sharedVars == <<domainVars, actionVars, wakeVars, shutdown, appPaused>>
regionVars == <<runs, traceCounter, lexGen, traceBit>>
threadVars == <<pc, at, regionVars>>
localVars == <<creason, cact, cat, cyclic>>
timerVars == <<windowArmed, manifestArmed>>
controlVars == <<cpc, localVars, timerVars>>
envVars == <<signals, handlers, deadlines, nodeInfo>>
vars == <<sharedVars, threadVars, controlVars, envVars>>

(***************************************************************************)
(* manifest_periodic_wanted: something is being collected.                 *)
(***************************************************************************)
ManifestWanted ==
    ManifestOn /\ (EnergyOn \/ \E d \in Domains : mode[d] # "OFF")

\* Every targeted domain has switched, and there is one (window_already_ended).
AlreadyEnded(c) ==
    LET targeted == {d \in Domains : ActionOf[c].mode[d] # "NONE"}
    IN  targeted # {} /\ \A d \in targeted : latched[d]

\* Faulty: switches a domain to the mode it is in.
SwitchDueAlways(c, d) == ActionOf[c].mode[d] # "NONE" /\ ~latched[d]

\* The test both end-of-window paths make before they switch domain d.
SwitchDue(c, d) ==
    /\ ActionOf[c].mode[d] # "NONE"
    /\ ~latched[d]
    /\ ActionOf[c].mode[d] # mode[d]

\* The three stores that switch domain d.
RecordMode(d) == lastMode' = [lastMode EXCEPT ![d] = mode[d]]
StoreMode(c, d) == mode' = [mode EXCEPT ![d] = ActionOf[c].mode[d]]
LatchDomain(d) == latched' = [latched EXCEPT ![d] = TRUE]

\* Faulty: a plain store instead of the compare-and-swap.
WinLatchBlind(c) == fired' = [fired EXCEPT ![c] = TRUE]

\* The compare-and-swap of end_action.fired from 0 to 1, when it succeeds.
WinLatch(c) == ~fired[c] /\ fired' = [fired EXCEPT ![c] = TRUE]

\* The reason a configuration's end is posted, or taken from the timer, with.
ReasonOf(c) == IF ActionOf[c].introspect THEN "INTROSPECT" ELSE "MODE_CHANGE"

\* Faulty: the window timer is not armed again.
ArmWindowOnce == UNCHANGED windowArmed

\* window_timer_arm_from_default.
ArmWindow == windowArmed' = WindowTimeout

\* Faulty: the manifest timer is never disarmed.
ArmManifestForGood == manifestArmed' = (manifestArmed \/ ManifestWanted)

\* manifest_timer_arm_from_config.
ArmManifest == manifestArmed' = ManifestWanted

Goto(t, label) == pc' = [pc EXCEPT ![t] = label]

Init ==
    /\ mode = [d \in Domains |-> "TRACING"]
    /\ lastMode = [d \in Domains |-> "NONE"]
    /\ latched = [d \in Domains |-> FALSE]
    /\ fired = [c \in Configs |-> FALSE]
    /\ generation = [c \in Configs |-> 0]
    /\ slot = None
    /\ pending = {}
    /\ sem = 0
    /\ shutdown = FALSE
    /\ appPaused = FALSE
    /\ pc = [t \in Threads |-> "out"]
    /\ at = [t \in Threads |-> 1]
    /\ runs = [t \in Threads |-> 0]
    /\ traceCounter = [t \in Threads |-> 0]
    /\ lexGen = [t \in Threads |-> 0]
    /\ traceBit = [t \in Threads |-> FALSE]
    /\ cpc = "loop"
    /\ creason = {}
    /\ cact = None
    /\ cat = 1
    /\ cyclic = FALSE
    /\ windowArmed = WindowTimeout
    /\ manifestArmed = ManifestWanted
    /\ signals = 0
    /\ handlers = 0
    /\ deadlines = 0
    /\ nodeInfo = FALSE

-----------------------------------------------------------------------------
(***************************************************************************)
(* Application threads: a region's begin and end callbacks.                *)
(***************************************************************************)

\* A begin callback starts with pinsight_check_pause: the unlocked read of
\* the flag, and its slow path when the flag is up.
CheckPause(t) ==
    /\ pc[t] = "out"
    /\ runs[t] < MaxRuns
    /\ Goto(t, IF appPaused THEN "gate" ELSE "enter")
    /\ UNCHANGED <<sharedVars, at, regionVars, controlVars, envVars>>

\* The slow path's test under the mutex: pthread_cond_wait while it is up.
PauseGate(t) ==
    /\ pc[t] = "gate"
    /\ Goto(t, IF appPaused THEN "blocked" ELSE "enter")
    /\ UNCHANGED <<sharedVars, at, regionVars, controlVars, envVars>>

(***************************************************************************)
(* The rest of the begin callback: nothing when the domain is OFF or       *)
(* STANDBY; otherwise the region is entered, and in TRACING its trace bit  *)
(* is decided, after the counter is reset if its configuration's           *)
(* generation moved.  In MONITORING the bit keeps its last value.  The     *)
(* callback reads the mode before the stack push and again after it; every *)
(* pair of values behaves as one of the two read alone.                    *)
(***************************************************************************)
RegionBegin(t) ==
    LET m == mode[DomainOf[t]]
        g == generation[ConfigOf[t]]
        n == IF lexGen[t] # g THEN 0 ELSE traceCounter[t]
    IN  /\ pc[t] = "enter"
        /\ IF m \in {"OFF", "STANDBY"}
             THEN Goto(t, "out") /\ UNCHANGED regionVars
             ELSE /\ Goto(t, "in")
                  /\ runs' = [runs EXCEPT ![t] = @ + 1]
                  /\ IF m = "TRACING"
                       THEN /\ lexGen' = [lexGen EXCEPT ![t] = g]
                            /\ traceCounter' = [traceCounter EXCEPT ![t] = n]
                            /\ traceBit' =
                                   [traceBit EXCEPT ![t] = n < MaxTraces]
                       ELSE UNCHANGED <<lexGen, traceCounter, traceBit>>
        /\ UNCHANGED <<sharedVars, at, controlVars, envVars>>

\* The end callback: a traced execution is counted, and one that reaches the
\* cap goes on to pinsight_fire_window_end.
RegionEnd(t) ==
    /\ pc[t] = "in"
    /\ IF mode[DomainOf[t]] = "TRACING" /\ traceBit[t]
         THEN /\ traceCounter' = [traceCounter EXCEPT ![t] = @ + 1]
              /\ Goto(t, IF traceCounter'[t] >= MaxTraces THEN "cas" ELSE "out")
         ELSE Goto(t, "out") /\ UNCHANGED traceCounter
    /\ UNCHANGED <<sharedVars, at, runs, lexGen, traceBit, controlVars,
                   envVars>>

-----------------------------------------------------------------------------
(***************************************************************************)
(* pinsight_fire_window_end, one step per access to shared memory.         *)
(***************************************************************************)

\* The compare-and-swap of end_action.fired: only the first one goes on.
FireCas(t) ==
    LET c == ConfigOf[t]
    IN  /\ pc[t] = "cas"
        /\ \/ /\ WinLatch(c)
              /\ Goto(t, IF ActionOf[c].introspect THEN "slot" ELSE "check")
           \/ fired[c] /\ Goto(t, "out") /\ UNCHANGED fired
        /\ at' = [at EXCEPT ![t] = 1]
        /\ UNCHANGED <<domainVars, generation, wakeVars, shutdown, appPaused,
                       regionVars, controlVars, envVars>>

\* The reads of mode_change_fired and mode, for the next domain of the loop.
\* They can be one step: the stores below change mode before the latch.
FireCheck(t) ==
    /\ pc[t] = "check"
    /\ IF at[t] > NumDomains
         THEN Goto(t, "slot") /\ UNCHANGED at
         ELSE IF SwitchDue(ConfigOf[t], at[t])
                THEN Goto(t, "last") /\ UNCHANGED at
                ELSE at' = [at EXCEPT ![t] = @ + 1] /\ UNCHANGED pc
    /\ UNCHANGED <<sharedVars, regionVars, controlVars, envVars>>

FireLast(t) ==
    /\ pc[t] = "last"
    /\ RecordMode(at[t])
    /\ Goto(t, "switch")
    /\ UNCHANGED <<mode, latched, actionVars, wakeVars, shutdown, appPaused,
                   at, regionVars, controlVars, envVars>>

FireSwitch(t) ==
    /\ pc[t] = "switch"
    /\ StoreMode(ConfigOf[t], at[t])
    /\ Goto(t, "latch")
    /\ UNCHANGED <<lastMode, latched, actionVars, wakeVars, shutdown, appPaused,
                   at, regionVars, controlVars, envVars>>

FireLatch(t) ==
    /\ pc[t] = "latch"
    /\ LatchDomain(at[t])
    /\ at' = [at EXCEPT ![t] = @ + 1]
    /\ Goto(t, "check")
    /\ UNCHANGED <<mode, lastMode, actionVars, wakeVars, shutdown, appPaused,
                   regionVars, controlVars, envVars>>

\* pinsight_control_set_pending_action: one slot for the whole process.
FireSlot(t) ==
    /\ pc[t] = "slot"
    /\ slot' = ConfigOf[t]
    /\ Goto(t, "or")
    /\ UNCHANGED <<domainVars, actionVars, pending, sem, shutdown, appPaused,
                   at, regionVars, controlVars, envVars>>

\* pinsight_control_thread_wakeup: the OR of the reason, then the post.
FireOr(t) ==
    /\ pc[t] = "or"
    /\ pending' = pending \cup {ReasonOf(ConfigOf[t])}
    /\ Goto(t, "post")
    /\ UNCHANGED <<domainVars, actionVars, slot, sem, shutdown, appPaused, at,
                   regionVars, controlVars, envVars>>

FirePost(t) ==
    /\ pc[t] = "post"
    /\ sem' = sem + 1
    /\ Goto(t, "out")
    /\ UNCHANGED <<domainVars, actionVars, slot, pending, shutdown, appPaused,
                   at, regionVars, controlVars, envVars>>

-----------------------------------------------------------------------------
(***************************************************************************)
(* Signals, MPI_Init and the library's destructor.                         *)
(***************************************************************************)

\* SIGUSR1 arrives: its handler runs in some application thread.
SignalOr ==
    /\ signals < MaxSignals
    /\ signals' = signals + 1
    /\ handlers' = handlers + 1
    /\ pending' = pending \cup {"RELOAD"}
    /\ UNCHANGED <<domainVars, actionVars, slot, sem, shutdown, appPaused,
                   threadVars, controlVars, deadlines, nodeInfo>>

SignalPost ==
    /\ handlers > 0
    /\ handlers' = handlers - 1
    /\ sem' = sem + 1
    /\ UNCHANGED <<domainVars, actionVars, slot, pending, shutdown, appPaused,
                   threadVars, controlVars, signals, deadlines, nodeInfo>>

\* MPI_Init publishes the node topology and wakes the control thread with
\* no reason at all: wakeup(0).
NodeInfoPost ==
    /\ MpiInit
    /\ ~nodeInfo
    /\ pc[Main] = "out"
    /\ nodeInfo' = TRUE
    /\ sem' = sem + 1
    /\ UNCHANGED <<domainVars, actionVars, slot, pending, shutdown, appPaused,
                   threadVars, controlVars, signals, handlers, deadlines>>

\* pinsight_control_thread_stop: the flag, the post, the join.
StopFlag ==
    /\ pc[Main] = "out"
    /\ shutdown' = TRUE
    /\ Goto(Main, "stopping")
    /\ UNCHANGED <<domainVars, actionVars, wakeVars, appPaused, at,
                   regionVars, controlVars, envVars>>

StopPost ==
    /\ pc[Main] = "stopping"
    /\ sem' = sem + 1
    /\ Goto(Main, "joining")
    /\ UNCHANGED <<domainVars, actionVars, slot, pending, shutdown, appPaused,
                   at, regionVars, controlVars, envVars>>

StopJoin ==
    /\ pc[Main] = "joining"
    /\ cpc = "done"
    /\ Goto(Main, "gone")
    /\ UNCHANGED <<sharedVars, at, regionVars, controlVars, envVars>>

-----------------------------------------------------------------------------
(***************************************************************************)
(* The control thread's loop.  Its locals are cleared when they go out of  *)
(* scope.                                                                  *)
(***************************************************************************)
\* Faulty: the loop does not test the flag.
CLoopForever ==
    /\ cpc = "loop"
    /\ cpc' = "wait"
    /\ UNCHANGED <<sharedVars, threadVars, localVars, timerVars, envVars>>

\* The while test.
CLoop ==
    /\ cpc = "loop"
    /\ cpc' = IF shutdown THEN "done" ELSE "wait"
    /\ UNCHANGED <<sharedVars, threadVars, localVars, timerVars, envVars>>

\* Faulty: EINTR is taken for a token.
CWakeInterrupted ==
    /\ cpc = "wait"
    /\ sem' = sem - 1
    /\ cpc' = "woken"
    /\ UNCHANGED <<domainVars, actionVars, slot, pending, shutdown, appPaused,
                   threadVars, localVars, timerVars, envVars>>

\* sem_wait or sem_timedwait takes a token.
CWake ==
    /\ cpc = "wait"
    /\ sem > 0
    /\ sem' = sem - 1
    /\ cpc' = "woken"
    /\ UNCHANGED <<domainVars, actionVars, slot, pending, shutdown, appPaused,
                   threadVars, localVars, timerVars, envVars>>

\* Faulty: the wait prefers the manifest's deadline.
CExpireUnlessManifest ==
    /\ cpc = "wait"
    /\ sem = 0
    /\ windowArmed
    /\ ~manifestArmed
    /\ deadlines < MaxDeadlines
    /\ deadlines' = deadlines + 1
    /\ windowArmed' = FALSE
    /\ cpc' = "expired"
    /\ UNCHANGED <<sharedVars, threadVars, localVars, manifestArmed, signals,
                   handlers, nodeInfo>>

\* ETIMEDOUT on the window deadline: no token, and the one-shot timer is off.
CExpire ==
    /\ cpc = "wait"
    /\ sem = 0
    /\ windowArmed
    /\ deadlines < MaxDeadlines
    /\ deadlines' = deadlines + 1
    /\ windowArmed' = FALSE
    /\ cpc' = "expired"
    /\ UNCHANGED <<sharedVars, threadVars, localVars, manifestArmed, signals,
                   handlers, nodeInfo>>

\* ETIMEDOUT on the manifest deadline: a periodic burst, and the timer again.
CManifest ==
    /\ cpc = "wait"
    /\ sem = 0
    /\ manifestArmed
    /\ ArmManifest
    /\ cpc' = "loop"
    /\ UNCHANGED <<sharedVars, threadVars, localVars, windowArmed, envVars>>

\* The window deadline's handler asks whether another configuration's end has
\* already switched the domains.  Threads only set the latches it reads, so its
\* loop returns what one read of them all would at its last read.
CTestWindow ==
    /\ cpc = "expired"
    /\ cpc' = IF AlreadyEnded(Default) THEN "loop" ELSE "claim"
    /\ UNCHANGED <<sharedVars, threadVars, localVars, timerVars, envVars>>

\* Then the compare-and-swap; the store to the slot that follows it commutes
\* with every step of a thread that can come between them.
CClaimWindow ==
    /\ cpc = "claim"
    /\ \/ /\ WinLatch(Default)
          /\ slot' = Default
          /\ creason' = {ReasonOf(Default)}
          /\ cpc' = "take"
       \/ /\ fired[Default]
          /\ cpc' = "loop"
          /\ UNCHANGED <<fired, slot, creason>>
    /\ UNCHANGED <<domainVars, generation, pending, sem, shutdown, appPaused,
                   threadVars, cact, cat, cyclic, timerVars, envVars>>

\* After a token: leave on shutdown, else exchange the reasons with 0.
CConsume ==
    /\ cpc = "woken"
    /\ IF shutdown
         THEN cpc' = "done" /\ UNCHANGED <<pending, creason>>
         ELSE /\ creason' = pending
              /\ pending' = {}
              /\ cpc' = IF "RELOAD" \in pending THEN "reload" ELSE "take"
    /\ UNCHANGED <<domainVars, actionVars, slot, sem, shutdown, appPaused,
                   threadVars, cact, cat, cyclic, timerVars, envVars>>

\* trace_mode re-arms the latch when it changes a mode that was not OFF.
LoadDomains(m) ==
    /\ mode' = [d \in Domains |-> IF m[d] = "NONE" THEN mode[d] ELSE m[d]]
    /\ lastMode' = [d \in Domains |->
          IF m[d] = "NONE" THEN lastMode[d] ELSE mode[d]]
    /\ latched' = [d \in Domains |->
          latched[d] /\ (m[d] \in {"NONE", mode[d]} \/ mode[d] = "OFF")]

\* Faulty: the runtime state is parsed over.
LoadConfigAfresh(m) ==
    /\ LoadDomains(m)
    /\ fired' = [c \in Configs |-> FALSE]
    /\ generation' = [c \in Configs |-> 0]

(***************************************************************************)
(* pinsight_load_config on a file that carries the trace_mode values m     *)
(* ("NONE": the key is absent).  window_end_action keeps fired and         *)
(* generation; then each domain default without a section of its own is    *)
(* overwritten with lexgion_default, runtime state included.  Threads that *)
(* read the tables during the parse are not part of this module.           *)
(***************************************************************************)
LoadConfig(m) ==
    /\ LoadDomains(m)
    /\ fired' = [c \in Configs |->
          IF c \in Copies THEN fired[Default] ELSE fired[c]]
    /\ generation' = [c \in Configs |->
          IF c \in Copies THEN generation[Default] ELSE generation[c]]

\* The reload; a file that cannot be read changes nothing but the timer.
CReload ==
    /\ cpc = "reload"
    /\ \/ \E m \in FileModes : LoadConfig(m)
       \/ UNCHANGED <<domainVars, actionVars>>
    /\ ArmWindow
    /\ cpc' = "take"
    /\ UNCHANGED <<wakeVars, shutdown, appPaused, threadVars, localVars,
                   manifestArmed, envVars>>

\* Faulty: INTROSPECT alone does not ask for the action.
AsksForModeChange == "MODE_CHANGE" \in creason

AsksForAction == creason \cap {"MODE_CHANGE", "INTROSPECT"} # {}

\* The read of pending_mode_action, when the reasons ask for one.
CTake ==
    /\ cpc = "take"
    /\ IF AsksForAction /\ slot # None
         THEN cact' = slot /\ cpc' = "clear"
         ELSE /\ cpc' = IF creason = {} THEN "loop" ELSE "apply"
              /\ UNCHANGED cact
    /\ UNCHANGED <<sharedVars, threadVars, creason, cat, cyclic, timerVars,
                   envVars>>

\* The store of NULL that follows it.
CClear ==
    /\ cpc = "clear"
    /\ slot' = None
    /\ cpc' = IF "INTROSPECT" \in creason THEN "introspect" ELSE "modes"
    /\ UNCHANGED <<domainVars, actionVars, pending, sem, shutdown, appPaused,
                   threadVars, localVars, timerVars, envVars>>

-----------------------------------------------------------------------------
(***************************************************************************)
(* control_execute_introspect.                                             *)
(***************************************************************************)

\* Faulty: a pause of 0 waits too.
PausesAppAlways(c) == TRUE

PausesApp(c) == ActionOf[c].pause # "none"

\* The script is spawned; a pause of 0 ends here.
CIntrospect ==
    /\ cpc = "introspect"
    /\ IF PausesApp(cact)
         THEN cpc' = "paused" /\ appPaused' = TRUE
         ELSE cpc' = "modes" /\ UNCHANGED appPaused
    /\ UNCHANGED <<domainVars, actionVars, wakeVars, shutdown, threadVars,
                   localVars, timerVars, envVars>>

\* The pause waits on the same semaphore: any token ends it.
CPauseWoken ==
    /\ cpc = "paused"
    /\ sem > 0
    /\ sem' = sem - 1
    /\ cpc' = "resume"
    /\ UNCHANGED <<domainVars, actionVars, slot, pending, shutdown, appPaused,
                   threadVars, localVars, timerVars, envVars>>

CPauseTimeout ==
    /\ cpc = "paused"
    /\ ActionOf[cact].pause = "timed"
    /\ sem = 0
    /\ cpc' = "resume"
    /\ UNCHANGED <<sharedVars, threadVars, localVars, timerVars, envVars>>

\* Faulty: a signal instead of a broadcast.
WakeOneBlocked ==
    IF \E t \in Threads : pc[t] = "blocked"
      THEN \E t \in Threads : pc[t] = "blocked" /\ Goto(t, "gate")
      ELSE UNCHANGED pc

WakeBlocked ==
    pc' = [t \in Threads |-> IF pc[t] = "blocked" THEN "gate" ELSE pc[t]]

\* The flag falls and the condition is broadcast, under the mutex.
CResume ==
    /\ cpc = "resume"
    /\ appPaused' = FALSE
    /\ WakeBlocked
    /\ cpc' = "modes"
    /\ UNCHANGED <<domainVars, actionVars, wakeVars, shutdown, at, regionVars,
                   localVars, timerVars, envVars>>

-----------------------------------------------------------------------------
(***************************************************************************)
(* The mode targets, the cyclic reset and the tail of an iteration.        *)
(***************************************************************************)

\* The test for the next domain; a TRACING target asks for another cycle.
CCheck ==
    /\ cpc = "modes"
    /\ IF cat > NumDomains
         THEN /\ cpc' = IF cyclic THEN "latches" ELSE "apply"
              /\ cat' = 1
              /\ UNCHANGED cyclic
         ELSE /\ cyclic' = (cyclic \/ ActionOf[cact].mode[cat] = "TRACING")
              /\ IF SwitchDue(cact, cat)
                   THEN cpc' = "last" /\ UNCHANGED cat
                   ELSE cat' = cat + 1 /\ UNCHANGED cpc
    /\ UNCHANGED <<sharedVars, threadVars, creason, cact, timerVars, envVars>>

CLast ==
    /\ cpc = "last"
    /\ RecordMode(cat)
    /\ cpc' = "switch"
    /\ UNCHANGED <<mode, latched, actionVars, wakeVars, shutdown, appPaused,
                   threadVars, localVars, timerVars, envVars>>

CSwitch ==
    /\ cpc = "switch"
    /\ StoreMode(cact, cat)
    /\ cpc' = "latch"
    /\ UNCHANGED <<lastMode, latched, actionVars, wakeVars, shutdown, appPaused,
                   threadVars, localVars, timerVars, envVars>>

CLatch ==
    /\ cpc = "latch"
    /\ LatchDomain(cat)
    /\ cat' = cat + 1
    /\ cpc' = "modes"
    /\ UNCHANGED <<mode, lastMode, actionVars, wakeVars, shutdown, appPaused,
                   threadVars, creason, cact, cyclic, timerVars, envVars>>

\* A new cyclic window: the latches one by one, then fired, then the generation.
CResetLatches ==
    /\ cpc = "latches"
    /\ latched' = [latched EXCEPT ![cat] = FALSE]
    /\ IF cat = NumDomains
         THEN cpc' = "unfire" /\ UNCHANGED cat
         ELSE cat' = cat + 1 /\ UNCHANGED cpc
    /\ UNCHANGED <<mode, lastMode, actionVars, wakeVars, shutdown, appPaused,
                   threadVars, creason, cact, cyclic, timerVars, envVars>>

\* Faulty: the latch is left as it is.
CResetFiredNot ==
    /\ cpc = "unfire"
    /\ cpc' = "bump"
    /\ UNCHANGED <<sharedVars, threadVars, localVars, timerVars, envVars>>

CResetFired ==
    /\ cpc = "unfire"
    /\ fired' = [fired EXCEPT ![cact] = FALSE]
    /\ cpc' = "bump"
    /\ UNCHANGED <<domainVars, generation, wakeVars, shutdown, appPaused,
                   threadVars, localVars, timerVars, envVars>>

CBumpGeneration ==
    /\ cpc = "bump"
    /\ generation' = [generation EXCEPT ![cact] = @ + 1]
    /\ ArmWindow
    /\ cpc' = "apply"
    /\ UNCHANGED <<domainVars, fired, wakeVars, shutdown, appPaused,
                   threadVars, localVars, manifestArmed, envVars>>

\* The tail: the manifest timer follows the new modes.  The GPU callbacks,
\* the sampler kick and the burst are other components' state.
CApply ==
    /\ cpc = "apply"
    /\ ArmManifest
    /\ cpc' = "loop"
    /\ creason' = {}
    /\ cact' = None
    /\ cat' = 1
    /\ cyclic' = FALSE
    /\ UNCHANGED <<sharedVars, threadVars, windowArmed, envVars>>

-----------------------------------------------------------------------------
Callback(t) ==
    CheckPause(t) \/ PauseGate(t) \/ RegionBegin(t) \/ RegionEnd(t)

Fire(t) ==
    \/ FireCas(t)
    \/ FireCheck(t) \/ FireLast(t) \/ FireSwitch(t) \/ FireLatch(t)
    \/ FireSlot(t) \/ FireOr(t) \/ FirePost(t)

Environment == SignalOr \/ NodeInfoPost \/ StopFlag

Stop == StopPost \/ StopJoin

Control ==
    \/ CLoop \/ CWake \/ CManifest \/ CTestWindow \/ CClaimWindow
    \/ CConsume \/ CReload \/ CTake \/ CClear
    \/ CIntrospect \/ CPauseWoken \/ CPauseTimeout \/ CResume
    \/ CCheck \/ CLast \/ CSwitch \/ CLatch
    \/ CResetLatches \/ CResetFired \/ CBumpGeneration \/ CApply

\* The process is gone once the destructor has joined the control thread.
Exited == pc[Main] = "gone" /\ UNCHANGED vars

Next ==
    \/ \E t \in Threads : Callback(t) \/ Fire(t)
    \/ Environment
    \/ SignalPost
    \/ Stop
    \/ Control
    \/ CExpire
    \/ Exited

Spec == Init /\ [][Next]_vars

(***************************************************************************)
(* Fairness.  The control thread and a thread inside PInsight's own code   *)
(* are scheduled; a handler that has started returns; a deadline that is   *)
(* armed passes, and from then on it is the earliest one, so the wait      *)
(* cannot prefer the manifest's for ever (strong fairness).  Nothing is    *)
(* assumed of what the application does next.                              *)
(***************************************************************************)
Fairness ==
    /\ WF_vars(Control)
    /\ SF_vars(CExpire)
    /\ WF_vars(SignalPost)
    /\ WF_vars(Stop)
    /\ \A t \in Threads : WF_vars(Fire(t) \/ PauseGate(t) \/ RegionBegin(t))

FairSpec == Spec /\ Fairness

-----------------------------------------------------------------------------
Labels == {"out", "gate", "blocked", "enter", "in", "cas", "check", "last",
           "switch", "latch", "slot", "or", "post", "stopping", "joining",
           "gone"}

ControlLabels == {"loop", "wait", "woken", "expired", "claim", "reload", "take",
                  "clear", "introspect", "paused", "resume", "modes", "last",
                  "switch", "latch", "latches", "unfire", "bump", "apply",
                  "done"}

\* Every variable keeps its type; the semaphore is never taken below zero,
\* and a domain never gets the mode NONE, which says "no target".
TypeOK ==
    /\ mode \in [Domains -> Modes]
    /\ lastMode \in [Domains -> Targets]
    /\ latched \in [Domains -> BOOLEAN]
    /\ fired \in [Configs -> BOOLEAN]
    /\ generation \in [Configs -> Nat]
    /\ slot \in Configs \cup {None}
    /\ pending \in SUBSET Reasons
    /\ sem \in Nat
    /\ shutdown \in BOOLEAN
    /\ appPaused \in BOOLEAN
    /\ pc \in [Threads -> Labels]
    /\ at \in [Threads -> 1 .. NumDomains + 1]
    /\ runs \in [Threads -> Nat]
    /\ traceCounter \in [Threads -> Nat]
    /\ lexGen \in [Threads -> Nat]
    /\ traceBit \in [Threads -> BOOLEAN]
    /\ cpc \in ControlLabels
    /\ creason \in SUBSET Reasons
    /\ cact \in Configs \cup {None}
    /\ cat \in 1 .. NumDomains + 1
    /\ cyclic \in BOOLEAN
    /\ windowArmed \in BOOLEAN
    /\ manifestArmed \in BOOLEAN
    /\ signals \in Nat /\ handlers \in Nat /\ deadlines \in Nat
    /\ nodeInfo \in BOOLEAN
=============================================================================
