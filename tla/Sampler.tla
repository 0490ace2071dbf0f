------------------------------ MODULE Sampler ------------------------------
(***************************************************************************)
(* The sampler framework (pinsight_sampler.c) and its one client so far,   *)
(* the Python stack probe (pysysmon_sampler.c, pysysmon_callback.c).       *)
(*                                                                         *)
(* Probes are spread over scheduling contexts, each with a lock, a         *)
(* condition variable and, once one of its probes is enabled, a thread.    *)
(* Callers register and unregister their probe; the control thread kicks   *)
(* all contexts after the configuration or a mode has changed.  A probe    *)
(* runs without its context's lock, and Python's needs the interpreter's   *)
(* lock, which the callers from Python hold.                               *)
(*                                                                         *)
(* A step holds a lock from one operation that can block to the next.      *)
(* Time is abstract: a deadline that is armed may pass at any moment, and  *)
(* by any amount.  A probe that loses the draw of process_fraction is as   *)
(* one whose interval is 0.  What a probe collects and the statistics are  *)
(* left out.                                                               *)
(* Operators marked "Faulty" are plausible bugs no action uses.            *)
(***************************************************************************)
EXTENDS Integers, Sequences, SequencesExt, FiniteSets

CONSTANTS
    Probes,
    GilProbes,      \* those whose callback takes the GIL
    OwnProbes,      \* whose domain may say sampler_thread = own
    ModeProbes,     \* whose infra_min_trace_mode is above NONE
    Callers,        \* threads that register and unregister
    Pythons,        \* the callers that come from Python, through the module
    ProbeOf,        \* the probe of each caller
    Scheds,         \* the contexts, as a sequence: the shared one first
    MaxProbes,      \* MAX_PROBES
    MaxStarts,      \* bound: registrations
    MaxChanges      \* bound: changes of the configuration and the modes

Control == "control"
Nobody == "nobody"
Contexts == ToSet(Scheds)
Shared == Scheds[1]
Kickers == Callers \cup {Control}

ASSUME SamplerAssumption ==
    /\ GilProbes \subseteq Probes /\ OwnProbes \subseteq Probes
    /\ ModeProbes \subseteq Probes
    /\ Pythons \subseteq Callers /\ ProbeOf \in [Callers -> Probes]
    /\ Scheds \in Seq(Contexts) /\ IsInjective(Scheds)
    /\ {Control, Nobody} \cap (Callers \cup Contexts) = {}
    /\ Callers \cap Contexts = {}
    /\ MaxProbes \in Nat /\ Len(Scheds) = MaxProbes + 1   \* MAX_SCHEDS
    /\ MaxStarts \in Nat /\ MaxChanges \in Nat

VARIABLES
    interval,   \* interval_us of the probe's domain; 0 is off
    modeUp,     \* the domain's mode reaches the probe's infra_min_trace_mode
    owed,       \* one of these changed and the control thread will kick
    changes,
    registry,   \* holder of registry_mtx
    registered, \* num_registered
    starts,
    schedOf,    \* p->sched, Nobody for NULL
    armed,      \* deadline_armed
    inCall,     \* in_call
    probes,     \* probes[] of each context
    created,    \* its thread exists
    stop,       \* it is told to stop
    mutex,      \* holder of its mtx
    waiting,    \* the actors asleep on its cv
    tpc,        \* where its thread is
    at,         \* its position in probes[]
    current,    \* the probe it deals with
    tick,       \* its copy of the interval
    pc,         \* where each kicker is
    visit,      \* its position in scheds[]
    sd,         \* the context a caller found its probe in
    gil,        \* holder of the GIL
    running,    \* probe_registered, of the Python module
    crashed     \* a division by zero

configVars == <<interval, modeUp, owed, changes>>
probeVars == <<schedOf, armed, inCall>>
schedVars == <<probes, created, stop>>
threadVars == <<tpc, at, current, tick, crashed>>
registryVars == <<registry, registered, starts>>
callerVars == <<pc, visit, sd, running>>
vars == <<configVars, registryVars, probeVars, schedVars, mutex, waiting,
          threadVars, callerVars, gil>>

\* probe_enabled
Enabled(p) ==
    /\ interval[p] # 0
    /\ p \in ModeProbes => modeUp[p]

\* sched_has_enabled
HasEnabled(s) == \E p \in ToSet(probes[s]) : Enabled(p)

Init ==
    /\ interval \in [Probes -> {0, 1}] /\ modeUp = [p \in Probes |-> TRUE]
    /\ owed = FALSE /\ changes = 0
    /\ registry = Nobody /\ registered = 0 /\ starts = 0
    /\ schedOf = [p \in Probes |-> Nobody]
    /\ armed = [p \in Probes |-> FALSE] /\ inCall = [p \in Probes |-> FALSE]
    /\ probes = [s \in Contexts |-> <<>>]
    /\ created = [s \in Contexts |-> FALSE] /\ stop = [s \in Contexts |-> FALSE]
    /\ mutex = [s \in Contexts |-> Nobody] /\ waiting = [s \in Contexts |-> {}]
    /\ tpc = [s \in Contexts |-> "none"] /\ at = [s \in Contexts |-> 1]
    /\ current = [s \in Contexts |-> Nobody] /\ tick = [s \in Contexts |-> 0]
    /\ pc = [k \in Kickers |-> "out"] /\ visit = [k \in Kickers |-> 1]
    /\ sd = [c \in Callers |-> Nobody]
    /\ gil = Nobody /\ running = FALSE /\ crashed = FALSE

Goto(k, label) == pc' = [pc EXCEPT ![k] = label]
Lock(s, a) == mutex[s] = Nobody /\ mutex' = [mutex EXCEPT ![s] = a]
Unlock(s) == mutex' = [mutex EXCEPT ![s] = Nobody]
Broadcast(s) == waiting' = [waiting EXCEPT ![s] = {}]

-----------------------------------------------------------------------------
(***************************************************************************)
(* The configuration, the GIL, and the kick.                               *)
(***************************************************************************)
\* A reload or a window end stores, and the control thread will kick.
Change ==
    /\ changes < MaxChanges
    /\ \E p \in Probes :
         \/ /\ interval' = [interval EXCEPT ![p] = 1 - @]
            /\ UNCHANGED modeUp
         \/ /\ p \in ModeProbes
            /\ modeUp' = [modeUp EXCEPT ![p] = ~@]
            /\ UNCHANGED interval
    /\ owed' = TRUE /\ changes' = changes + 1
    /\ UNCHANGED <<registryVars, probeVars, schedVars, mutex, waiting, threadVars,
                   callerVars, gil>>

\* A Python thread gets the GIL, for its own code or at the end of
\* stop_sampler; it gives it up between two calls of the module.
TakeGil(c) ==
    /\ c \in Pythons /\ gil = Nobody
    /\ pc[c] \in {"out", "return"}
    /\ gil' = c /\ Goto(c, "out")
    /\ UNCHANGED <<configVars, registryVars, probeVars, schedVars, mutex, waiting,
                   threadVars, visit, sd, running>>

GiveGil(c) ==
    /\ gil = c /\ pc[c] = "out"
    /\ gil' = Nobody
    /\ UNCHANGED <<configVars, registryVars, probeVars, schedVars, mutex, waiting,
                   threadVars, callerVars>>

\* pinsight_sampler_kick, by the control thread, at the end of a registration,
\* and from set_trace_mode and reset_trace_mode.
KickLock(k) ==
    /\ \/ k = Control /\ pc[k] = "out" /\ owed /\ owed' = FALSE
       \/ pc[k] = "kick" /\ UNCHANGED owed
       \/ k \in Pythons /\ gil = k /\ pc[k] = "mode" /\ UNCHANGED owed
    /\ registry = Nobody /\ registry' = k
    /\ Goto(k, "visit") /\ visit' = [visit EXCEPT ![k] = 1]
    /\ UNCHANGED <<interval, modeUp, changes, registered, starts, probeVars, schedVars,
                   mutex, waiting, threadVars, sd, running, gil>>

\* One context of the loop.  The creation of a thread may fail.
KickVisit(k) ==
    /\ pc[k] = "visit" /\ visit[k] <= Len(Scheds)
    /\ LET s == Scheds[visit[k]]
           spawns == probes[s] # <<>> /\ ~created[s] /\ HasEnabled(s)
       IN  /\ \/ /\ spawns
                 /\ created' = [created EXCEPT ![s] = TRUE]
                 /\ stop' = [stop EXCEPT ![s] = FALSE]
                 /\ tpc' = [tpc EXCEPT ![s] = "lock"]
              \/ /\ spawns
                 /\ stop' = [stop EXCEPT ![s] = FALSE]
                 /\ UNCHANGED <<created, tpc>>
              \/ ~spawns /\ UNCHANGED <<created, stop, tpc>>
           /\ IF probes[s] # <<>> /\ created'[s]
              THEN Goto(k, "broadcast") /\ UNCHANGED visit
              ELSE visit' = [visit EXCEPT ![k] = @ + 1] /\ UNCHANGED pc
    /\ UNCHANGED <<configVars, registryVars, probeVars, probes, mutex, waiting, at,
                   current, tick, crashed, sd, running, gil>>

\* Faulty: does not take the context's lock to wake its thread.
WakeUnlocked(s) == Broadcast(s)

\* The thread is woken where it cannot be between its look at the probes and
\* its sleep.
Wake(s) == mutex[s] = Nobody /\ Broadcast(s)

KickBroadcast(k) ==
    /\ pc[k] = "broadcast"
    /\ Wake(Scheds[visit[k]])
    /\ visit' = [visit EXCEPT ![k] = @ + 1] /\ Goto(k, "visit")
    /\ UNCHANGED <<configVars, registryVars, probeVars, schedVars, mutex, threadVars,
                   sd, running, gil>>

KickUnlock(k) ==
    /\ pc[k] = "visit" /\ visit[k] > Len(Scheds)
    /\ registry' = Nobody /\ Goto(k, "out") /\ visit' = [visit EXCEPT ![k] = 1]
    /\ UNCHANGED <<configVars, registered, starts, probeVars, schedVars, mutex,
                   waiting, threadVars, sd, running, gil>>

\* set_trace_mode, reset_trace_mode
SetTraceMode(c) ==
    /\ c \in Pythons /\ gil = c /\ pc[c] = "out"
    /\ Goto(c, "mode")
    /\ UNCHANGED <<configVars, registryVars, probeVars, schedVars, mutex, waiting,
                   threadVars, visit, sd, running, gil>>

-----------------------------------------------------------------------------
(***************************************************************************)
(* Registration and unregistration.                                        *)
(***************************************************************************)
\* pysysmon_sampler_start and pysysmon_sampler_stop look at probe_registered.
\* A caller that is not Python's calls the framework directly, in turn.
MayRegister(c) ==
    /\ pc[c] = "out" /\ starts < MaxStarts
    /\ IF c \in Pythons THEN gil = c /\ ~running
       ELSE schedOf[ProbeOf[c]] = Nobody

Register(c) ==
    /\ MayRegister(c)
    /\ starts' = starts + 1
    /\ Goto(c, "register")
    /\ UNCHANGED <<configVars, registry, registered, probeVars, schedVars, mutex,
                   waiting, threadVars, visit, sd, running, gil>>

\* The context of a probe: the first free one if it is to have its own, the
\* shared one else, or if none is free.
FreeContexts == {i \in 2 .. Len(Scheds) :
                   probes[Scheds[i]] = <<>> /\ ~created[Scheds[i]]}
ContextsFor(own) ==
    IF own /\ FreeContexts # {}
    THEN {Scheds[i] : i \in {j \in FreeContexts : \A k \in FreeContexts : j <= k}}
    ELSE {Shared}

\* pinsight_probe_register; -1 if the registry is full.
RegisterLock(c) ==
    LET p == ProbeOf[c] IN
    /\ pc[c] = "register" /\ registry = Nobody
    /\ IF registered >= MaxProbes
       THEN Goto(c, "out") /\ UNCHANGED <<registry, probeVars>>
       ELSE /\ registry' = c
            /\ armed' = [armed EXCEPT ![p] = FALSE]
            /\ inCall' = [inCall EXCEPT ![p] = FALSE]
            /\ schedOf' = [schedOf EXCEPT ![p] = Nobody]
            /\ Goto(c, "add")
    /\ UNCHANGED <<configVars, registered, starts, schedVars, mutex, waiting, threadVars,
                   visit, sd, running, gil>>

RegisterAdd(c) ==
    LET p == ProbeOf[c] IN
    \E own \in {FALSE} \cup (IF p \in OwnProbes THEN {TRUE} ELSE {}) :
    \E s \in ContextsFor(own) :
        /\ pc[c] = "add" /\ mutex[s] = Nobody
        /\ probes' = [probes EXCEPT ![s] = Append(@, p)]
        /\ schedOf' = [schedOf EXCEPT ![p] = s]
        /\ registered' = registered + 1
        /\ registry' = Nobody
        /\ running' = (running \/ c \in Pythons)
        /\ Goto(c, "kick")
        /\ UNCHANGED <<configVars, starts, armed, inCall, created, stop, mutex,
                       waiting, threadVars, visit, sd, gil>>

\* Faulty: stop_sampler keeps the GIL.
KeepsGil(c) == gil

\* Py_BEGIN_ALLOW_THREADS
AllowsThreads(c) == IF gil = c THEN Nobody ELSE gil

\* stop_sampler, or the call of pinsight_probe_unregister
Unregister(c) ==
    /\ pc[c] = "out" /\ (c \in Pythons => gil = c)
    /\ gil' = AllowsThreads(c)
    /\ Goto(c, "stop")
    /\ UNCHANGED <<configVars, registryVars, probeVars, schedVars, mutex, waiting,
                   threadVars, visit, sd, running>>

\* Where a stop returns to.
Stopped(c) == IF c \in Pythons THEN "return" ELSE "out"

\* Whether there is a probe to unregister, and where, is read without a lock.
UnregisterCheck(c) ==
    LET p == ProbeOf[c] IN
    /\ pc[c] = "stop"
    /\ IF schedOf[p] # Nobody /\ (c \in Pythons => running)
       THEN sd' = [sd EXCEPT ![c] = schedOf[p]] /\ Goto(c, "unregister")
       ELSE Goto(c, Stopped(c)) /\ UNCHANGED sd
    /\ UNCHANGED <<configVars, registryVars, probeVars, schedVars, mutex, waiting,
                   threadVars, visit, running, gil>>

UnregisterLock(c) ==
    /\ pc[c] = "unregister"
    /\ registry = Nobody /\ registry' = c
    /\ Goto(c, "remove")
    /\ UNCHANGED <<configVars, registered, starts, probeVars, schedVars, mutex, waiting,
                   threadVars, visit, sd, running, gil>>

\* Under the context's lock the caller waits for a callback in flight.
UnregisterWait(c) ==
    LET p == ProbeOf[c]
        s == sd[c]
    IN  /\ pc[c] = "remove" /\ c \notin waiting[s]
        /\ mutex[s] = Nobody /\ inCall[p]
        /\ waiting' = [waiting EXCEPT ![s] = @ \cup {c}]
        /\ UNCHANGED <<configVars, registryVars, probeVars, schedVars, mutex, threadVars,
                       callerVars, gil>>

\* probes[i] = probes[--num_probes]
Removed(seq, p) ==
    IF p \notin ToSet(seq) THEN seq
    ELSE LET i == CHOOSE j \in DOMAIN seq : seq[j] = p IN
         Front([seq EXCEPT ![i] = Last(seq)])

\* Faulty: the callback in flight is not waited for.
RemovesAnyway(p) == TRUE

MayRemove(p) == ~inCall[p]

\* Faulty: stops the thread that others still need.
JoinsAlways(s) == created[s]

Joins(s) == probes'[s] = <<>> /\ created[s]

UnregisterRemove(c) ==
    LET p == ProbeOf[c]
        s == sd[c]
    IN  /\ pc[c] = "remove" /\ c \notin waiting[s]
        /\ mutex[s] = Nobody /\ MayRemove(p)
        /\ probes' = [probes EXCEPT ![s] = Removed(@, p)]
        /\ stop' = [stop EXCEPT ![s] = @ \/ Joins(s)]
        /\ Broadcast(s)
        /\ Goto(c, IF Joins(s) THEN "join" ELSE "leave")
        /\ UNCHANGED <<configVars, registryVars, probeVars, created, mutex, threadVars,
                       visit, sd, running, gil>>

UnregisterJoin(c) ==
    LET s == sd[c] IN
    /\ pc[c] = "join" /\ tpc[s] = "exited"
    /\ created' = [created EXCEPT ![s] = FALSE]
    /\ tpc' = [tpc EXCEPT ![s] = "none"]
    /\ Goto(c, "leave")
    /\ UNCHANGED <<configVars, registryVars, probeVars, probes, stop, mutex, waiting,
                   at, current, tick, crashed, visit, sd, running, gil>>

UnregisterLeave(c) ==
    /\ pc[c] = "leave"
    /\ registered' = registered - 1
    /\ registry' = Nobody
    /\ sd' = [sd EXCEPT ![c] = Nobody]
    /\ schedOf' = [schedOf EXCEPT ![ProbeOf[c]] = Nobody]
    /\ running' = (running /\ c \notin Pythons)
    /\ Goto(c, Stopped(c))
    /\ UNCHANGED <<configVars, starts, armed, inCall, schedVars, mutex, waiting,
                   threadVars, visit, gil>>

-----------------------------------------------------------------------------
(***************************************************************************)
(* The scheduling thread.                                                  *)
(***************************************************************************)
ToStep(s, label) == tpc' = [tpc EXCEPT ![s] = label]

\* It looks at the probes, with the lock: at its start, after a kick, at the
\* end of a round.
Look(s) ==
    /\ \/ tpc[s] = "lock"
       \/ tpc[s] \in {"parked", "timed"} /\ s \notin waiting[s] /\ mutex[s] = Nobody
       \/ tpc[s] = "round" /\ at[s] > Len(probes[s])
    /\ mutex[s] \in {Nobody, s} /\ mutex' = [mutex EXCEPT ![s] = s]
    /\ armed' = [p \in Probes |->
                   IF p \in ToSet(probes[s]) THEN Enabled(p) ELSE armed[p]]
    /\ ToStep(s, CASE stop[s] -> "exit"
                   [] ~stop[s] /\ HasEnabled(s) -> "timed"
                   [] OTHER -> "parked")
    /\ waiting' = [waiting EXCEPT ![s] = @ \ {s}]
    /\ at' = [at EXCEPT ![s] = 1]
    /\ UNCHANGED <<configVars, registryVars, schedOf, inCall, schedVars, current, tick,
                   crashed, callerVars, gil>>

\* It gives the lock up and sleeps, or exits.
Rest(s) ==
    /\ tpc[s] \in {"parked", "timed", "exit"} /\ mutex[s] = s
    /\ Unlock(s)
    /\ IF tpc[s] = "exit" THEN ToStep(s, "exited") /\ UNCHANGED waiting
       ELSE /\ waiting' = [waiting EXCEPT ![s] = @ \cup {s}]
            /\ UNCHANGED tpc
    /\ UNCHANGED <<configVars, registryVars, probeVars, schedVars, at, current, tick,
                   crashed, callerVars, gil>>

\* The earliest deadline passes.
TimeOut(s) ==
    /\ tpc[s] = "timed" /\ s \in waiting[s]
    /\ Lock(s, s)
    /\ waiting' = [waiting EXCEPT ![s] = @ \ {s}]
    /\ at' = [at EXCEPT ![s] = 1]
    /\ ToStep(s, "round")
    /\ UNCHANGED <<configVars, registryVars, probeVars, schedVars, current, tick, crashed,
                   callerVars, gil>>

\* It has the lock and a probe to look at.
AtProbe(s) == tpc[s] = "round" /\ at[s] <= Len(probes[s])
Candidate(s) == probes[s][at[s]]
Proceed(s) == at' = [at EXCEPT ![s] = @ + 1]

\* A probe that is disabled or not due.
Pass(s) ==
    /\ AtProbe(s)
    /\ Proceed(s)
    /\ UNCHANGED <<configVars, registryVars, probeVars, schedVars, mutex, waiting, tpc,
                   current, tick, crashed, callerVars, gil>>

\* A probe that is enabled and due.
Choose(s) ==
    /\ AtProbe(s)
    /\ Enabled(Candidate(s)) /\ armed[Candidate(s)]
    /\ current' = [current EXCEPT ![s] = Candidate(s)]
    /\ ToStep(s, "interval")
    /\ UNCHANGED <<configVars, registryVars, probeVars, schedVars, mutex, waiting, at,
                   tick, crashed, callerVars, gil>>

\* "ONE read of the hot-reloadable interval for this whole tick"
ReadInterval(s) ==
    LET p == current[s] IN
    /\ tpc[s] = "interval"
    /\ IF interval[p] = 0
       THEN /\ armed' = [armed EXCEPT ![p] = FALSE]
            /\ current' = [current EXCEPT ![s] = Nobody]
            /\ Proceed(s) /\ ToStep(s, "round")
            /\ UNCHANGED <<inCall, mutex, tick>>
       ELSE /\ tick' = [tick EXCEPT ![s] = interval[p]]
            /\ inCall' = [inCall EXCEPT ![p] = TRUE]
            /\ Unlock(s)
            /\ ToStep(s, "call")
            /\ UNCHANGED <<armed, at, current>>
    /\ UNCHANGED <<configVars, registryVars, schedOf, schedVars, waiting, crashed,
                   callerVars, gil>>

\* p->probe, without the lock; Python's waits for the GIL.
Call(s) ==
    /\ tpc[s] = "call"
    /\ IF current[s] \in GilProbes THEN gil = Nobody /\ gil' = s ELSE UNCHANGED gil
    /\ ToStep(s, "probe")
    /\ UNCHANGED <<configVars, registryVars, probeVars, schedVars, mutex, waiting, at,
                   current, tick, crashed, callerVars>>

Return(s) ==
    /\ tpc[s] = "probe"
    /\ gil' = IF gil = s THEN Nobody ELSE gil
    /\ ToStep(s, "relock")
    /\ UNCHANGED <<configVars, registryVars, probeVars, schedVars, mutex, waiting, at,
                   current, tick, crashed, callerVars>>

\* Faulty: reads the interval again to count the missed ticks.
IntervalNow(s) == interval[current[s]]

Divisor(s) == tick[s]

\* The deadline advances; if it has passed again, missed ticks are counted.
Advance(s) ==
    /\ tpc[s] = "relock"
    /\ Lock(s, s)
    /\ inCall' = [inCall EXCEPT ![current[s]] = FALSE]
    /\ Broadcast(s)
    /\ \E behind \in BOOLEAN : crashed' = (crashed \/ (behind /\ Divisor(s) = 0))
    /\ Proceed(s) /\ ToStep(s, "round")
    /\ current' = [current EXCEPT ![s] = Nobody] /\ tick' = [tick EXCEPT ![s] = 0]
    /\ UNCHANGED <<configVars, registryVars, schedOf, armed, schedVars, callerVars, gil>>

CallerStep(c) ==
    \/ Register(c) \/ RegisterLock(c) \/ RegisterAdd(c)
    \/ Unregister(c) \/ UnregisterCheck(c) \/ UnregisterLock(c) \/ UnregisterWait(c)
    \/ UnregisterRemove(c) \/ UnregisterJoin(c) \/ UnregisterLeave(c)
    \/ TakeGil(c) \/ GiveGil(c) \/ SetTraceMode(c)

KickerStep(k) ==
    KickLock(k) \/ KickVisit(k) \/ KickBroadcast(k) \/ KickUnlock(k)

ThreadStep(s) ==
    \/ Look(s) \/ Rest(s) \/ Pass(s) \/ Choose(s) \/ ReadInterval(s)
    \/ Call(s) \/ Return(s) \/ Advance(s)

Next ==
    \/ Change
    \/ \E c \in Callers : CallerStep(c)
    \/ \E k \in Kickers : KickerStep(k)
    \/ \E s \in Contexts : ThreadStep(s) \/ TimeOut(s)

Spec == Init /\ [][Next]_vars

-----------------------------------------------------------------------------
(***************************************************************************)
(* Properties.                                                             *)
(***************************************************************************)
TypeOK ==
    /\ interval \in [Probes -> {0, 1}] /\ modeUp \in [Probes -> BOOLEAN]
    /\ owed \in BOOLEAN /\ changes \in 0 .. MaxChanges
    /\ registry \in Kickers \cup {Nobody}
    /\ registered \in 0 .. MaxProbes /\ starts \in 0 .. MaxStarts
    /\ schedOf \in [Probes -> Contexts \cup {Nobody}]
    /\ \A f \in {armed, inCall} : f \in [Probes -> BOOLEAN]
    /\ \A s \in Contexts : /\ ToSet(probes[s]) \subseteq Probes
                           /\ IsInjective(probes[s])
                           /\ mutex[s] \in {s, Nobody}
                           /\ waiting[s] \subseteq Callers \cup {s}
    /\ \A f \in {created, stop} : f \in [Contexts -> BOOLEAN]
    /\ tpc \in [Contexts -> {"none", "lock", "parked", "timed", "round", "interval",
                             "call", "probe", "relock", "exit",
                             "exited"}]
    /\ pc \in [Kickers -> {"out", "mode", "kick", "visit", "broadcast", "register",
                           "add", "stop", "unregister", "remove", "join", "leave", "return"}]
    /\ sd \in [Callers -> Contexts \cup {Nobody}]
    /\ gil \in Pythons \cup Contexts \cup {Nobody}

\* The kick of k is still to come to the context.
Approaches(k, s) ==
    \/ pc[k] \in {"visit", "broadcast"}
       /\ \E i \in DOMAIN Scheds : Scheds[i] = s /\ visit[k] <= i
    \/ pc[k] = "kick"

\* An enabled probe never sleeps through the change that enabled it: if its
\* thread is parked, a kick is on its way.  A kick that falls between the look
\* at the probes and the wait must not be lost.
NoLostKick ==
    \A s \in Contexts :
        tpc[s] = "parked" /\ s \in waiting[s] /\ HasEnabled(s) =>
            owed \/ \E k \in Kickers : Approaches(k, s)

\* After pinsight_probe_unregister has returned no callback of the probe is
\* running, and none will: the caller may free it, or finalize the interpreter.
NoCallOnceUnregistered ==
    \A p \in Probes :
        schedOf[p] = Nobody =>
            /\ ~inCall[p]
            /\ \A s \in Contexts :
                 /\ p \notin ToSet(probes[s])
                 /\ current[s] = p =>
                      tpc[s] \notin {"interval", "call", "probe", "relock"}

\* A thread that is told to stop has nothing left to sample: no registration
\* lands on a context whose thread is about to exit, where it would never run.
StoppingHasNoProbe ==
    \A s \in Contexts : created[s] /\ stop[s] => probes[s] = <<>>

\* A reload that stores 0 during a tick does not reach the division.
NoZeroDivision == ~crashed

\* Nobody who holds the GIL waits for the registry while the holder of the
\* registry waits for a callback that waits for the GIL.
NoGilDeadlock ==
    \A c \in Callers, k \in Kickers, s \in Contexts :
        ~(/\ registry = c /\ pc[c] = "remove" /\ inCall[ProbeOf[c]]
          /\ tpc[s] = "call" /\ current[s] = ProbeOf[c] /\ current[s] \in GilProbes
          /\ gil = k /\ (k = c \/ pc[k] \in {"kick", "mode", "register"}))

\* "Safe from any thread." (pinsight_sampler.h, of pinsight_sampler_kick), also
\* where a second Python thread calls the module.
SafeFromAnyThread == NoGilDeadlock
=============================================================================
