---------------------------- MODULE GpuActivity ----------------------------
(***************************************************************************)
(* The collection of GPU activity records: which process collects, when    *)
(* the runtime's callbacks and its buffering are on, and what becomes of   *)
(* the records, for roctracer (roctracer_callback.c, HIP) and for CUPTI    *)
(* (cupti_callback.c, CUDA).  The two differ where they say so.            *)
(*                                                                         *)
(* The control thread applies what a window end or a reload has stored: it *)
(* compares mode and last_mode, and the decision taken now with the one    *)
(* applied last.  Application threads store modes, launch work, reset the  *)
(* device and, with CUDA, start the collection at the first callback.  The *)
(* main thread finalizes while the control thread still runs.              *)
(*                                                                         *)
(* A behaviour is of one vendor.  The election and the clock of            *)
(* rotate_per_node are a bit here: whether this process is selected now    *)
(* (NodeRoles is about that).  Of the rate control and of what a host      *)
(* callback records nothing is kept.  A step is one call of the runtime or *)
(* the stores between two of them.                                         *)
(* Operators marked "Faulty" are plausible bugs no action uses.            *)
(***************************************************************************)
EXTENDS Integers, Sequences, FiniteSets

CONSTANTS
    Vendors,     \* the runtimes
    Threads,     \* application threads
    Main,        \* the one that runs the destructor
    Actions,     \* window ends: [introspect, mode, policy]
    FileModes,   \* trace_mode of a reloaded file, "NONE" if it has none
    FilePolicies,\* its device_activity
    CallsFail,   \* whether a call of the runtime may fail
    MaxChanges,  \* bound: window ends, reloads and rotation boundaries
    MaxOps       \* bound: operations launched

Modes == {"OFF", "STANDBY", "MONITORING", "TRACING"}
Policies == {"off", "on", "rotate"}
Idle == <<"OFF", "OFF">>
NoAction == [introspect |-> FALSE, mode |-> "NONE", policy |-> "NONE"]

ASSUME GpuAssumption ==
    /\ Vendors \subseteq {"HIP", "CUDA"} /\ Main \in Threads
    /\ Actions \subseteq [introspect : BOOLEAN, mode : Modes \cup {"NONE"},
                          policy : Policies \cup {"NONE"}]
    /\ FileModes \subseteq Modes \cup {"NONE"} /\ FilePolicies \subseteq Policies
    /\ CallsFail \in BOOLEAN /\ MaxChanges \in Nat /\ MaxOps \in Nat

VARIABLES
    vendor,
    mode,      \* domain_trace_config[d].mode
    last,      \* its last_mode
    latched,   \* its mode_change_fired
    policy,    \* its nodepolicy of device_activity
    mine,      \* the rotation, or the election, selects this process now
    slot,      \* pending_mode_action
    owed,      \* pending_wakeup_reason, with its token
    off,       \* hip_permanently_off, cuda_permanently_off
    collect,   \* hip_collect_state, cuda_collect_state
    emit,      \* hip_activity_emit, cuda_activity_emit
    pool,      \* activity_pool is open (HIP)
    initDone,  \* activity_init_done (CUDA)
    hostOn,    \* the runtime makes the host callbacks
    enabled,   \* the runtime collects activity
    ops,       \* operations of the device and what became of their records
    pc,        \* where each application thread is
    act,       \* the window end it fires
    cpc,       \* where the control thread is
    reasons,   \* what it was woken for
    applying,  \* the modes apply_mode has read
    back,      \* where apply_collect_state returns to
    timer,     \* its sleep ends at the next rotation boundary
    due,       \* that boundary has passed
    changes,   \* window ends, reloads and boundaries so far
    unread,    \* stores to the mode since apply_mode read it
    overtaken, \* it read the mode after more than one
    missed,    \* a boundary passed after the last decision, not in the sleep
    raced,     \* the decision changed during the first callback, or between
               \* apply_mode's read of OFF and its end
    failed,    \* a call of the runtime failed
    closedUse  \* a closed pool was flushed or closed

domainVars == <<mode, last, latched, policy>>
wakeVars == <<slot, owed>>
runtimeVars == <<hostOn, enabled, pool, ops>>
stateVars == <<off, collect, emit, initDone>>
threadVars == <<pc, act>>
controlVars == <<cpc, reasons, applying, back, timer, due>>
ghostVars == <<unread, overtaken, missed, raced, failed, closedUse>>
vars == <<vendor, domainVars, mine, wakeVars, runtimeVars, stateVars, threadVars,
          controlVars, changes, ghostVars>>

Active(m) == m \in {"MONITORING", "TRACING"}
Hip == vendor = "HIP"
Cuda == vendor = "CUDA"
Finalizing == pc[Main] \in {"fini", "disable", "close", "end", "done"}
InInit(t) == pc[t] \in {"decide", "enable", "start"}
\* apply_mode has read OFF and will turn the domain off for good.
TurnsOff == back = "host" /\ applying[2] = "OFF"

\* hip_should_collect_now, cuda_should_collect_now
Decision == mode = "TRACING" /\ (policy = "on" \/ (policy = "rotate" /\ mine))

\* hip_activity_callback, activity_bufferCompleted: all that is buffered is
\* delivered, and recorded if the flag says so.
Delivered(emits) ==
    [i \in DOMAIN ops |->
        IF ops[i].is = "buffered"
        THEN [ops[i] EXCEPT !.is = IF emits THEN "emitted" ELSE "dropped"]
        ELSE ops[i]]

\* LTTNG_ROCTRACER_Init and LTTNG_CUPTI_Init, before the control thread starts:
\* HIP applies the decision at once, CUDA at its first callback.
LTTNG_Init ==
    LET collects == Hip /\ Active(mode) /\ Decision IN
    /\ off = (mode = "OFF")
    /\ hostOn = Active(mode)
    /\ pool = collects /\ enabled = collects
    /\ emit = collects /\ collect = collects
    /\ initDone = FALSE

Init ==
    /\ vendor \in Vendors
    /\ mode \in Modes /\ last = mode /\ latched = FALSE
    /\ policy \in Policies /\ mine \in BOOLEAN
    /\ slot = NoAction /\ owed = {}
    /\ LTTNG_Init
    /\ ops = <<>>
    /\ pc = [t \in Threads |-> "run"] /\ act = [t \in Threads |-> NoAction]
    /\ cpc = "loop" /\ reasons = {} /\ applying = Idle /\ back = "loop"
    /\ timer = FALSE /\ due = FALSE /\ changes = 0
    /\ unread = 0 /\ overtaken = FALSE /\ missed = FALSE /\ raced = FALSE
    /\ failed = FALSE /\ closedUse = FALSE

-----------------------------------------------------------------------------
(***************************************************************************)
(* Changes of the mode and the policy.                                     *)
(***************************************************************************)
Change == changes < MaxChanges /\ changes' = changes + 1
Goto(t, l) == pc' = [pc EXCEPT ![t] = l]

\* The decision changes while a thread goes by the one it has taken, or by the
\* mode it has read.
Races ==
    raced' = (raced \/ (Decision' # Decision
                        /\ (TurnsOff \/ \E t \in Threads : InInit(t))))

\* What a change does to the ghosts, if it stores n modes.
Disturbs(n) ==
    /\ unread' = unread + n
    /\ Races
    /\ UNCHANGED <<overtaken, missed, failed, closedUse>>

SwitchDue(a) == a.mode # "NONE" /\ ~latched /\ a.mode # mode

\* The stores both paths make at a window's end.
StoreMode(a) ==
    IF SwitchDue(a)
    THEN last' = mode /\ mode' = a.mode /\ latched' = TRUE /\ Disturbs(1)
    ELSE UNCHANGED <<last, mode, latched>> /\ Disturbs(0)

\* pinsight_fire_window_end, by a region of this or of another domain.
Fire(t, a) ==
    /\ pc[t] = "run" /\ Change
    /\ UNCHANGED <<vendor, policy, mine, wakeVars, runtimeVars, stateVars,
                   controlVars>>
    /\ IF a.introspect THEN UNCHANGED <<last, mode, latched, ghostVars>>
       ELSE StoreMode(a)
    /\ act' = [act EXCEPT ![t] = a]
    /\ Goto(t, "post")

FirePost(t) ==
    /\ pc[t] = "post"
    /\ slot' = act[t] /\ owed' = owed \cup {"end"}
    /\ act' = [act EXCEPT ![t] = NoAction]
    /\ Goto(t, "run")
    /\ UNCHANGED <<vendor, domainVars, mine, runtimeVars, stateVars, controlVars,
                   changes, ghostVars>>

\* SIGUSR1
Signal ==
    /\ Change
    /\ owed' = owed \cup {"reload"}
    /\ UNCHANGED <<vendor, domainVars, mine, slot, runtimeVars, stateVars,
                   threadVars, controlVars, ghostVars>>

\* The clock enters the slot of another process, or that of this one.
Boundary ==
    /\ Change /\ cpc # "stopped" /\ policy = "rotate"
    /\ mine' = ~mine
    /\ UNCHANGED <<vendor, domainVars, wakeVars, runtimeVars, stateVars, threadVars,
                   cpc, reasons, applying, back, timer, unread, overtaken, failed,
                   closedUse>>
    /\ due' = (due \/ (cpc = "sleep" /\ timer))
    /\ missed' = (missed \/ ~(cpc = "sleep" /\ timer))
    /\ Races

-----------------------------------------------------------------------------
(***************************************************************************)
(* The control thread: its loop.                                           *)
(***************************************************************************)
\* pinsight_control_hip_rotate_period_ms > 0, or that of CUDA.
Rotates == mode = "TRACING" /\ policy = "rotate" /\ (Cuda => ~off)

Sleep ==
    /\ cpc = "loop"
    /\ cpc' = "sleep" /\ timer' = Rotates /\ due' = FALSE
    /\ UNCHANGED <<vendor, domainVars, mine, wakeVars, runtimeVars, stateVars,
                   threadVars, reasons, applying, back, changes, ghostVars>>

Wake ==
    /\ cpc = "sleep" /\ owed # {}
    /\ reasons' = owed /\ owed' = {}
    /\ cpc' = "reload" /\ timer' = FALSE /\ due' = FALSE
    /\ UNCHANGED <<vendor, domainVars, mine, slot, runtimeVars, stateVars, threadVars,
                   applying, back, changes, ghostVars>>

WakeAtBoundary ==
    /\ cpc = "sleep" /\ due
    /\ cpc' = "decide" /\ back' = "loop" /\ timer' = FALSE /\ due' = FALSE
    /\ UNCHANGED <<vendor, domainVars, mine, wakeVars, runtimeVars, stateVars,
                   threadVars, reasons, applying, changes, ghostVars>>

\* pinsight_load_config: a trace_mode line stores both modes, also one that is
\* the mode there is.
Reload ==
    /\ cpc = "reload"
    /\ cpc' = "window"
    /\ UNCHANGED <<vendor, mine, wakeVars, runtimeVars, stateVars, threadVars,
                   reasons, applying, back, timer, due, changes>>
    /\ \/ "reload" \notin reasons /\ UNCHANGED <<domainVars, ghostVars>>
       \/ /\ "reload" \in reasons
          /\ policy' \in FilePolicies
          /\ \E m \in FileModes :
               IF m = "NONE" THEN UNCHANGED <<mode, last, latched>> /\ Disturbs(0)
               ELSE /\ mode' = m /\ last' = mode
                    /\ latched' = (latched /\ (m = mode \/ mode = "OFF"))
                    /\ Disturbs(1)

\* The window's end: its modes, where the application has not stored them, its
\* device_activity target, and the next cycle.
WindowEnd ==
    /\ cpc = "window"
    /\ cpc' = "modes" /\ reasons' = {}
    /\ UNCHANGED <<vendor, mine, owed, runtimeVars, stateVars, threadVars, applying,
                   back, timer, due, changes>>
    /\ IF "end" \in reasons /\ slot # NoAction
       THEN /\ slot' = NoAction
            /\ policy' = IF slot.policy = "NONE" THEN policy ELSE slot.policy
            /\ LET due1 == SwitchDue(slot) IN
               /\ last' = IF due1 THEN mode ELSE last
               /\ mode' = IF due1 THEN slot.mode ELSE mode
               /\ latched' = (slot.mode # "TRACING" /\ (latched \/ due1))
               /\ Disturbs(IF due1 THEN 1 ELSE 0)
       ELSE UNCHANGED <<slot, domainVars, ghostVars>>

-----------------------------------------------------------------------------
(***************************************************************************)
(* apply_mode and apply_collect_state.                                     *)
(***************************************************************************)
\* Faulty: takes the activity for settled when the mode has not changed.
ReturnsEarly == "loop"

\* Where the control thread goes when apply_mode has nothing to do: the second
\* apply_collect_state of control_apply_all_modes.
AfterApplyMode == "decide"

\* apply_mode reads the modes, and returns or goes on to the activity.
ReadModes ==
    /\ cpc = "modes"
    /\ IF off \/ mode = last
       THEN cpc' = AfterApplyMode /\ back' = "loop" /\ UNCHANGED applying
       ELSE cpc' = "decide" /\ back' = "host" /\ applying' = <<last, mode>>
    /\ unread' = 0
    /\ overtaken' = (overtaken \/ unread > 1)
    /\ UNCHANGED <<vendor, domainVars, mine, wakeVars, runtimeVars, stateVars,
                   threadVars, reasons, timer, due, changes, missed, raced, failed,
                   closedUse>>

\* apply_collect_state compares the decision with the state.
Decide ==
    /\ cpc = "decide"
    /\ missed' = FALSE
    /\ cpc' = IF off \/ (Cuda /\ ~initDone) \/ Decision = collect THEN back
              ELSE IF Decision THEN "open" ELSE "flush"
    /\ UNCHANGED <<vendor, domainVars, mine, wakeVars, runtimeVars, stateVars,
                   threadVars, reasons, applying, back, timer, due, changes, unread,
                   overtaken, raced, failed, closedUse>>

\* roctracer_open_pool_expl and the enabling, or cuptiActivityEnable, whose
\* results are not looked at.
OpenPool ==
    /\ cpc = "open"
    /\ cpc' = "start"
    /\ \E works \in IF CallsFail THEN BOOLEAN ELSE {TRUE} :
          /\ enabled' = (enabled \/ works)
          /\ pool' = (pool \/ (Hip /\ works))
          /\ failed' = (failed \/ ~works)
    /\ UNCHANGED <<vendor, domainVars, mine, wakeVars, hostOn, ops, stateVars,
                   threadVars, reasons, applying, back, timer, due, changes, unread,
                   overtaken, missed, raced, closedUse>>

Start ==
    /\ cpc = "start"
    /\ emit' = TRUE /\ collect' = TRUE
    /\ cpc' = back
    /\ UNCHANGED <<vendor, domainVars, mine, wakeVars, runtimeVars, off, initDone,
                   threadVars, reasons, applying, back, timer, due, changes,
                   ghostVars>>

\* Faulty: the flag is cleared before the buffer is flushed.
FlushCleared ==
    /\ ops' = Delivered(FALSE)
    /\ emit' = FALSE

\* The stop begins with a flush that still records, then clears the flag.
FlushTail ==
    /\ ops' = IF Hip /\ ~pool THEN ops ELSE Delivered(emit)
    /\ UNCHANGED emit

Flush ==
    /\ cpc = "flush"
    /\ FlushTail
    /\ cpc' = "stop"
    /\ UNCHANGED <<vendor, domainVars, mine, wakeVars, hostOn, enabled, pool, off,
                   collect, initDone, threadVars, reasons, applying, back, timer, due,
                   changes, ghostVars>>

\* Disables and, with HIP, closes the pool, which delivers what is left in it.
Stop ==
    /\ cpc = "stop"
    /\ emit' = FALSE /\ enabled' = FALSE /\ collect' = FALSE
    /\ ops' = IF pool THEN Delivered(FALSE) ELSE ops
    /\ pool' = FALSE
    /\ cpc' = back
    /\ UNCHANGED <<vendor, domainVars, mine, wakeVars, hostOn, off, initDone,
                   threadVars, reasons, applying, back, timer, due, changes,
                   ghostVars>>

\* Faulty: forgets that MONITORING makes callbacks too.
CallbacksOnlyTraced(from, to) ==
    IF to \in {"OFF", "STANDBY"} THEN hostOn /\ from # "TRACING"
    ELSE hostOn \/ ~Active(from)

\* Both vendors; CUDA unsubscribes for good at OFF.
CallbacksAfter(from, to) ==
    IF to \in {"OFF", "STANDBY"}
    THEN hostOn /\ ~Active(from) /\ ~(Cuda /\ to = "OFF")
    ELSE hostOn \/ ~Active(from)

\* The rest of apply_mode, by the modes read before.
ApplyHost ==
    /\ cpc = "host"
    /\ LET from == applying[1]
           to == applying[2]
           final == to = "OFF"
       IN  /\ hostOn' = CallbacksAfter(from, to)
           /\ off' = (off \/ final)
           /\ ops' = IF Cuda /\ final /\ Active(from) THEN Delivered(emit) ELSE ops
           /\ emit' = (emit /\ ~(Cuda /\ final))
    /\ cpc' = AfterApplyMode /\ back' = "loop" /\ applying' = Idle
    /\ UNCHANGED <<vendor, domainVars, mine, wakeVars, enabled, pool, collect,
                   initDone, threadVars, reasons, timer, due, changes, ghostVars>>

-----------------------------------------------------------------------------
(***************************************************************************)
(* Application threads and the device.                                     *)
(***************************************************************************)
\* A call that gives the device work to do.
Launch(t) ==
    /\ pc[t] = "run" /\ Len(ops) < MaxOps /\ ~Finalizing
    /\ ops' = Append(ops, [is |-> "running", kept |-> FALSE])
    /\ UNCHANGED <<vendor, domainVars, mine, wakeVars, hostOn, enabled, pool,
                   stateVars, threadVars, controlVars, changes, ghostVars>>

\* The collection is on and nobody is at starting or stopping it.
Steady ==
    /\ collect /\ emit /\ ~raced
    /\ cpc \notin {"open", "start", "flush", "stop"}
    /\ ~Finalizing /\ \A t \in Threads : ~InInit(t)

\* The operation ends and the runtime buffers its record, if it collects.
Complete(i) ==
    /\ ops[i].is = "running"
    /\ ops' = [ops EXCEPT ![i] =
                 [is |-> IF enabled THEN "buffered" ELSE "unseen", kept |-> Steady]]
    /\ UNCHANGED <<vendor, domainVars, mine, wakeVars, hostOn, enabled, pool,
                   stateVars, threadVars, controlVars, changes, ghostVars>>

\* The runtime delivers a full buffer.
BufferFull ==
    /\ \E i \in DOMAIN ops : ops[i].is = "buffered"
    /\ ops' = Delivered(emit)
    /\ UNCHANGED <<vendor, domainVars, mine, wakeVars, hostOn, enabled, pool,
                   stateVars, threadVars, controlVars, changes, ghostVars>>

\* cupti_activity_init_once: a thread's callback is the first one.
InitOnce(t) ==
    /\ Cuda /\ pc[t] = "run" /\ hostOn /\ Active(mode) /\ ~initDone /\ ~Finalizing
    /\ initDone' = TRUE
    /\ Goto(t, "decide")
    /\ UNCHANGED <<vendor, domainVars, mine, wakeVars, runtimeVars, off, collect, emit,
                   act, controlVars, changes, ghostVars>>

InitDecide(t) ==
    /\ pc[t] = "decide"
    /\ Goto(t, IF Decision THEN "enable" ELSE "run")
    /\ UNCHANGED <<vendor, domainVars, mine, wakeVars, runtimeVars, stateVars, act,
                   controlVars, changes, ghostVars>>

InitEnable(t) ==
    /\ pc[t] = "enable"
    /\ enabled' = TRUE
    /\ Goto(t, "start")
    /\ UNCHANGED <<vendor, domainVars, mine, wakeVars, hostOn, pool, ops, stateVars,
                   act, controlVars, changes, ghostVars>>

InitStart(t) ==
    /\ pc[t] = "start"
    /\ emit' = TRUE /\ collect' = TRUE
    /\ Goto(t, "run")
    /\ UNCHANGED <<vendor, domainVars, mine, wakeVars, runtimeVars, off, initDone, act,
                   controlVars, changes, ghostVars>>

\* The callback of a device reset flushes: HIP looks first whether there is a
\* pool.
ResetBegin(t) ==
    /\ pc[t] = "run" /\ hostOn /\ Active(mode) /\ ~Finalizing
    /\ Hip => pool
    /\ Goto(t, "reset")
    /\ UNCHANGED <<vendor, domainVars, mine, wakeVars, runtimeVars, stateVars, act,
                   controlVars, changes, ghostVars>>

ResetFlush(t) ==
    /\ pc[t] = "reset"
    /\ ops' = Delivered(emit)
    /\ closedUse' = (closedUse \/ (Hip /\ ~pool))
    /\ Goto(t, "run")
    /\ UNCHANGED <<vendor, domainVars, mine, wakeVars, hostOn, enabled, pool,
                   stateVars, act, controlVars, changes, unread, overtaken, missed,
                   raced, failed>>

-----------------------------------------------------------------------------
(***************************************************************************)
(* LTTNG_ROCTRACER_Fini and LTTNG_CUPTI_Fini, then the control thread's    *)
(* stop.                                                                   *)
(***************************************************************************)
FiniBegin ==
    /\ pc[Main] = "run"
    /\ Goto(Main, IF off THEN "done" ELSE IF Cuda \/ pool THEN "fini" ELSE "end")
    /\ UNCHANGED <<vendor, domainVars, mine, wakeVars, runtimeVars, stateVars, act,
                   controlVars, changes, ghostVars>>

FiniFlush ==
    /\ pc[Main] = "fini"
    /\ ops' = Delivered(emit)
    /\ closedUse' = (closedUse \/ (Hip /\ ~pool))
    /\ Goto(Main, "disable")
    /\ UNCHANGED <<vendor, domainVars, mine, wakeVars, hostOn, enabled, pool,
                   stateVars, act, controlVars, changes, unread, overtaken, missed,
                   raced, failed>>

FiniDisable ==
    /\ pc[Main] = "disable"
    /\ enabled' = (enabled /\ ~emit)
    /\ Goto(Main, IF Hip THEN "close" ELSE "end")
    /\ UNCHANGED <<vendor, domainVars, mine, wakeVars, hostOn, pool, ops, stateVars,
                   act, controlVars, changes, ghostVars>>

FiniClose ==
    /\ pc[Main] = "close"
    /\ ops' = Delivered(emit)
    /\ pool' = FALSE
    /\ closedUse' = (closedUse \/ ~pool)
    /\ Goto(Main, "end")
    /\ UNCHANGED <<vendor, domainVars, mine, wakeVars, hostOn, enabled, stateVars, act,
                   controlVars, changes, unread, overtaken, missed, raced, failed>>

FiniEnd ==
    /\ pc[Main] = "end"
    /\ hostOn' = FALSE
    /\ emit' = (emit /\ Cuda)
    /\ off' = (off \/ Hip)
    /\ Goto(Main, "done")
    /\ UNCHANGED <<vendor, domainVars, mine, wakeVars, enabled, pool, ops, collect,
                   initDone, act, controlVars, changes, ghostVars>>

\* pinsight_control_thread_stop
ControlStop ==
    /\ cpc = "sleep" /\ pc[Main] = "done"
    /\ cpc' = "stopped"
    /\ UNCHANGED <<vendor, domainVars, mine, wakeVars, runtimeVars, stateVars,
                   threadVars, reasons, applying, back, timer, due, changes,
                   ghostVars>>

Done == cpc = "stopped" /\ UNCHANGED vars

Next ==
    \/ \E t \in Threads :
         \/ \E a \in Actions : Fire(t, a)
         \/ FirePost(t) \/ Launch(t)
         \/ InitOnce(t) \/ InitDecide(t) \/ InitEnable(t) \/ InitStart(t)
         \/ ResetBegin(t) \/ ResetFlush(t)
    \/ Signal \/ Boundary \/ BufferFull
    \/ \E i \in DOMAIN ops : Complete(i)
    \/ Sleep \/ Wake \/ WakeAtBoundary \/ Reload \/ WindowEnd
    \/ ReadModes \/ Decide \/ OpenPool \/ Start \/ Flush \/ Stop \/ ApplyHost
    \/ FiniBegin \/ FiniFlush \/ FiniDisable \/ FiniClose \/ FiniEnd \/ ControlStop
    \/ Done

Spec == Init /\ [][Next]_vars

-----------------------------------------------------------------------------
(***************************************************************************)
(* Properties.                                                             *)
(***************************************************************************)
TypeOK ==
    /\ {mode, last} \subseteq Modes /\ policy \in Policies
    /\ slot \in Actions \cup {NoAction} /\ owed \subseteq {"reload", "end"}
    /\ Cuda => ~pool
    /\ \A i \in DOMAIN ops :
          ops[i].is \in {"running", "unseen", "buffered", "emitted", "dropped"}
    /\ cpc \in {"loop", "sleep", "reload", "window", "modes", "decide", "open",
                "start", "flush", "stop", "host", "stopped"}
    /\ changes \in 0 .. MaxChanges

\* Everything stored has been applied and the control thread sleeps.
Settled ==
    /\ cpc = "sleep" /\ owed = {} /\ ~due
    /\ \A t \in Threads : pc[t] # "post" /\ ~InInit(t)
    /\ pc[Main] \notin {"fini", "disable", "close", "end", "done"}

\* The runtime makes the host callbacks in MONITORING and TRACING and in no
\* other mode, whatever stored it, once the control thread has applied it: as
\* long as no second store came before apply_mode had seen the first, because
\* last_mode holds one mode and not the one applied last.
CallbacksFollowMode ==
    Settled /\ ~overtaken => hostOn = (Active(mode) /\ ~off)

\* "STANDBY: cuptiEnableCallback(0) - dispatch off, subscriber alive."
\* (cupti_callback.c)
StandbyHasNoCallbacks == Settled /\ mode = "STANDBY" => ~hostOn

\* This process collects if the domain traces and its policy selects it now,
\* and does not otherwise, once that is applied: after window ends, reloads
\* that change the policy and not the mode, and rotation boundaries.  Excepted
\* are a failed call of the runtime, which is recorded as applied, a boundary
\* that passed when the control thread was not asleep, and a decision that
\* changed during CUDA's first callback or while apply_mode turned the domain
\* off: it goes by two reads of the mode, OFF and then what a window's end has
\* stored since, and leaves the collection on for good.
CollectsAsDecided ==
    Settled /\ ~missed /\ ~failed /\ ~raced
        => enabled = (Decision /\ ~off /\ (Cuda => initDone))

\* "collection exists only while TRACING and this rank is the selected
\* collector" (cupti_callback.c)
CollectsOnlyTracing == Settled /\ enabled => mode = "TRACING"

\* "Node-wide clock -> all local ranks agree" (roctracer_callback.c): the
\* process whose slot it is collects, and no other.
SlotCollects ==
    Settled /\ ~failed /\ ~raced /\ ~off /\ mode = "TRACING" /\ policy = "rotate"
        => enabled = (mine /\ (Cuda => initDone))

\* A record that was buffered while the collection was on is recorded in the
\* trace, whatever flushes it and whatever the mode is by then, and none is
\* left when the control thread has stopped, but for the same changes of the
\* decision.
CollectedIsEmitted ==
    ~raced => \A i \in DOMAIN ops :
                 ops[i].kept => /\ ops[i].is # "dropped"
                                /\ cpc = "stopped" => ops[i].is # "buffered"

\* The pool is "control-thread-owned" (roctracer_callback.c): no other thread
\* flushes or closes it after the control thread has closed it.
PoolNotUsedClosed == ~closedUse
=============================================================================
