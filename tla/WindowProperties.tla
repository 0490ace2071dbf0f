-------------------------- MODULE WindowProperties --------------------------
(***************************************************************************)
(* What should hold of WindowControl: the invariants of its core, what     *)
(* comments and documents promise and the code does not keep, liveness,    *)
(* and the refinement of EndAction.                                        *)
(***************************************************************************)
EXTENDS WindowControl

(***************************************************************************)
(* Who answers for the end of c's window once fired[c] is set.             *)
(***************************************************************************)
Claiming == {"check", "last", "switch", "latch", "slot"}

Claimants(c) == {t \in Threads : ConfigOf[t] = c /\ pc[t] \in Claiming}

Acting(c) ==
    /\ cact = c
    /\ cpc \in {"clear", "introspect", "paused", "resume", "modes", "last",
                "switch", "latch", "latches", "unfire"}

Queued(c) == slot = c /\ ~Acting(c)

Cyclic(c) == \E d \in Domains : ActionOf[c].mode[d] = "TRACING"

Firing(t) == pc[t] \in Claiming \cup {"cas", "or", "post"}

\* The control thread sleeps and nothing is on its way to it.
Quiescent ==
    /\ cpc = "wait"
    /\ sem = 0
    /\ pending = {}
    /\ handlers = 0
    /\ \A t \in Threads : ~Firing(t)

OneOwner(c) ==
    /\ \A t, u \in Claimants(c) : t = u
    /\ Claimants(c) # {} => ~Queued(c) /\ ~Acting(c)
    /\ Acting(c) /\ slot = c => cpc = "clear"
    /\ ~fired[c] => Claimants(c) = {} /\ ~Queued(c) /\ ~Acting(c)

\* The end of a window has one owner at a time: one thread that won the
\* compare-and-swap, or the slot, or the control thread; an open window has
\* none.  (pinsight_fire_window_end: "only the FIRST lexgion to reach
\* max_num_traces fires the trigger"; the deadline goes through the same latch.)
\* A default that a reload overwrites is excluded: see OwnedEndIsLatched.
AtMostOneOwner == \A c \in Configs \ Copies : OneOwner(c)

\* A wakeup reason is never left behind: while one is set, the token posted
\* after it is still in the semaphore, still to be posted, or in the control
\* thread's hand (pinsight_control_thread_wakeup, the SIGUSR1 handler).
RequestsHaveToken ==
    pending # {} =>
        \/ sem > 0
        \/ handlers > 0
        \/ \E t \in Threads : pc[t] = "post"
        \/ cpc \in {"woken", "done"}

\* A cyclic window whose latch is set has an owner that will reset it: its
\* cycles cannot end by themselves (the cyclic_resume branch).
FiredCyclicIsOwed ==
    \A c \in Configs :
        fired[c] /\ Cyclic(c) => Claimants(c) # {} \/ Queued(c) \/ Acting(c)

\* The transition that latched a domain is visible to what compares the two
\* modes (apply_mode returns early when last_mode = mode).
LatchedSwitchVisible == \A d \in Domains : latched[d] => lastMode[d] # mode[d]

\* The dormancy rule: when nothing is under way, the periodic manifest is
\* armed exactly if something is being collected.
DormancyRule == Quiescent => (manifestArmed <=> ManifestWanted)

\* "so every TRACING window is bounded": while the window of the default
\* configuration is open and the control thread sleeps, its deadline is armed.
OpenWindowIsBounded ==
    WindowTimeout /\ cpc = "wait" /\ ~fired[Default] => windowArmed

\* A thread in pthread_cond_wait is there because the flag is up: a resume
\* never leaves one behind.
BlockedIsPaused == \A t \in Threads : pc[t] = "blocked" => appPaused

-----------------------------------------------------------------------------
(***************************************************************************)
(* What comments and documents promise and the code does not keep.  No     *)
(* configuration lists them; README.md says on which instance each fails.  *)
(***************************************************************************)

\* "If SIGUSR1 triggered config reload, re-reads the config file before
\* continuing" (domain_trace_modes.md:331): when the control thread sleeps
\* and nothing is on its way to it, no reload request is left unserved.
NoReloadLeftBehind ==
    /\ cpc = "wait" /\ sem = 0 /\ handlers = 0
    /\ \A t \in Threads : ~Firing(t)
    => "RELOAD" \notin pending

\* "-1: pause indefinitely - only SIGUSR1 resumes the app"
\* (trace_config_format.md:213); the destructor's stop is allowed too.
OnlySigusr1Resumes ==
    [][cpc = "paused" /\ cpc' = "resume" /\ ActionOf[cact].pause = "forever"
       => signals > 0 \/ shutdown]_vars

\* "Preserve runtime cycling state (generation, fired) across reload"
\* (trace_config_parse.c:837): an end that has an owner stays latched, so
\* nobody claims it again meanwhile.
OwnedEndIsLatched ==
    \A c \in Configs : Claimants(c) # {} \/ Queued(c) \/ Acting(c) => fired[c]

-----------------------------------------------------------------------------
(***************************************************************************)
(* Liveness, under FairSpec.                                               *)
(***************************************************************************)

\* The destructor's join returns: whatever the control thread was doing, and
\* even if a pause takes the token of the stop.
StopReturns == shutdown ~> cpc = "done"

\* No pause of bounded length holds a thread for ever.
BlockedResumes == \A t \in Threads : pc[t] = "blocked" ~> pc[t] # "blocked"

\* A cyclic window that ended opens again, unless the library stops.
CyclesContinue ==
    \A c \in Configs : Cyclic(c) => (fired[c] ~> ~fired[c] \/ shutdown)

\* "End the TRACING window after N wall-clock seconds [...] even if no region
\* reaches max_num_traces" (trace_config_format.md:217): with a deadline armed
\* a domain does not stay in TRACING.
TimeoutEndsTracing ==
    \A d \in Domains :
        windowArmed /\ mode[d] = "TRACING" ~> mode[d] # "TRACING" \/ shutdown

-----------------------------------------------------------------------------
(***************************************************************************)
(* The refinement: where the current window of each configuration is.      *)
(***************************************************************************)
Place(c) ==
    IF ~fired[c] THEN "open"
    ELSE IF Claimants(c) # {} THEN "claimed"
    ELSE IF Acting(c) THEN "acting"
    ELSE IF slot = c THEN "queued"
    ELSE "spent"

EndState == [c \in Configs |-> Place(c)]

CyclicConfigs == {c \in Configs : Cyclic(c)}

Abstract == INSTANCE EndAction WITH state <- EndState

\* The threads, the slot and the control thread implement EndAction.
EndsLikeEndAction == Abstract!Spec
=============================================================================
