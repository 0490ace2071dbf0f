--------------------------- MODULE PythonRegions ---------------------------
(***************************************************************************)
(* A Python thread: its calls, returns, exceptions and generators, and the *)
(* two callbacks of sys.monitoring the library registers, on_py_start and  *)
(* on_py_return (pysysmon_callback.c, pinsight.py).  An exception that     *)
(* leaves a frame, a yield and the resumption of a generator call nothing. *)
(*                                                                         *)
(* The callbacks read the mode of the domain, which other threads change,  *)
(* once to see whether it is active and again to see whether it traces:    *)
(* each is two steps.  The pause at on_py_start and the control thread are *)
(* those of WindowControl; here the domain's mode changes and cycles open  *)
(* as the environment pleases.  What the events carry is not modelled.     *)
(***************************************************************************)
EXTENDS Lexgions

CONSTANTS
    Generators,   \* the codes that are generators
    MaxFrames,    \* bound: depth of the program's calls
    MaxCalls,     \* bound: calls
    MaxSwitches,  \* bound: changes of the domain's mode
    MaxCycles     \* bound: new cycles

ASSUME PythonRegionsAssumption ==
    /\ Generators \subseteq Codes
    /\ MaxFrames \in Nat /\ MaxCalls \in Nat
    /\ MaxSwitches \in Nat /\ MaxCycles \in Nat

VARIABLES
    mode,        \* domain_trace_config[Python_domain_index].mode
    frames,      \* the program's running frames, outermost first
    suspended,   \* the frames of suspended generators
    pc,          \* "run" in the program, "started" and "ended" in a callback
    reopening,   \* the cycle the control thread is opening: between the
                 \* reset of its latch and the step of its generation
    calls,       \* calls so far
    switches,    \* mode changes so far
    missed,      \* a call found a record of its region but left none
    displaced,   \* a generator went on away from its record
    overlapped,  \* the codes that had two executions in progress
    begunTraces, \* traced executions that also began in the current cycle
    cycleTraces  \* traced executions since the current cycle opened

frameVars == <<frames, suspended>>
ghostVars == <<missed, displaced, overlapped, begunTraces, cycleTraces>>
boundVars == <<calls, switches>>
environmentVars == <<mode, reopening, boundVars>>
pythonVars == <<environmentVars, frameVars, pc, ghostVars>>
vars == <<lexgionVars, pythonVars>>

Modes == {"OFF", "STANDBY", "MONITORING", "TRACING"}

\* DOMAIN_TRACE_ACTIVE
Active == mode \in {"MONITORING", "TRACING"}

\* A frame knows the record its on_py_start pushed (0 for none) and the cycle
\* in which its trace bit was set (-1 for none).
Frame == [code : Codes, id : Nat, cycle : Nat \cup {-1}]

Top == frames[Len(frames)]
Callers == SubSeq(frames, 1, Len(frames) - 1)
InProgress(c) ==
    \/ \E i \in DOMAIN frames : frames[i].code = c
    \/ \E i \in DOMAIN suspended : suspended[i].code = c

Init ==
    /\ LexgionsInit
    /\ mode \in Modes
    /\ frames = <<>> /\ suspended = <<>>
    /\ pc = "run"
    /\ reopening = {}
    /\ calls = 0 /\ switches = 0
    /\ missed = FALSE /\ displaced = FALSE
    /\ overlapped = {}
    /\ begunTraces = [c \in Codes |-> 0]
    /\ cycleTraces = [c \in Codes |-> 0]

-----------------------------------------------------------------------------
(***************************************************************************)
(* on_py_start                                                             *)
(***************************************************************************)
\* The call, and the callback up to lexgion_begin.
Start(c) ==
    /\ pc = "run"
    /\ calls < MaxCalls /\ Len(frames) < MaxFrames
    /\ calls' = calls + 1
    /\ overlapped' = IF InProgress(c) THEN overlapped \cup {c} ELSE overlapped
    /\ IF Active THEN Begin(c) ELSE UNCHANGED <<seen, lexgion, stack>>
    /\ IF Active /\ Recorded(c)
       THEN /\ frames' = Append(frames, [code |-> c, cycle |-> -1,
                                         id |-> lexgion[c].counter + 1])
            /\ pc' = "started"
            /\ UNCHANGED missed
       ELSE /\ frames' = Append(frames, [code |-> c, cycle |-> -1, id |-> 0])
            /\ missed' = (missed \/ HoldsRecord(c))
            /\ UNCHANGED pc
    /\ UNCHANGED <<fired, generation, mode, reopening, suspended, switches,
                   displaced, begunTraces, cycleTraces>>

\* The trace decision, if the domain traces.
StartTrace ==
    /\ pc = "started"
    /\ pc' = "run"
    /\ IF mode = "TRACING"
       THEN /\ SetTraceBit(Top.code)
            /\ frames' = [frames EXCEPT ![Len(frames)].cycle =
                            IF lexgion'[Top.code].bit
                            THEN generation[ConfigOf[Top.code]] ELSE -1]
       ELSE UNCHANGED <<lexgion, frames>>
    /\ UNCHANGED <<seen, stack, fired, generation, environmentVars, suspended,
                   ghostVars>>

-----------------------------------------------------------------------------
(***************************************************************************)
(* on_py_return                                                            *)
(***************************************************************************)
\* The return, and the callback up to lexgion_end_match.
End ==
    /\ pc = "run"
    /\ frames # <<>>
    /\ IF Active THEN EndMatch(Top.code) ELSE UNCHANGED stack
    /\ IF Active /\ HoldsRecord(Top.code)
       THEN pc' = "ended" /\ UNCHANGED frames
       ELSE frames' = Callers /\ UNCHANGED pc
    /\ UNCHANGED <<tableVars, fired, generation, environmentVars, suspended,
                   ghostVars>>

\* The count, if the domain traces and so does the region.
EndTrace ==
    /\ pc = "ended"
    /\ pc' = "run"
    /\ frames' = Callers
    /\ LET c == Top.code
           thisCycle == Top.cycle = generation[ConfigOf[c]]
       IN  IF mode = "TRACING" /\ lexgion[c].bit
           THEN /\ PostTraceUpdate(c)
                /\ begunTraces' = IF thisCycle
                                  THEN [begunTraces EXCEPT ![c] = @ + 1]
                                  ELSE begunTraces
                /\ cycleTraces' = [cycleTraces EXCEPT ![c] = @ + 1]
           ELSE UNCHANGED <<lexgion, fired, begunTraces, cycleTraces>>
    /\ UNCHANGED <<seen, stack, generation, environmentVars, suspended,
                   missed, displaced, overlapped>>

-----------------------------------------------------------------------------
(***************************************************************************)
(* What happens without a callback.                                        *)
(***************************************************************************)
\* An exception leaves the frame.
Raise ==
    /\ pc = "run"
    /\ frames # <<>>
    /\ frames' = Callers
    /\ UNCHANGED <<lexgionVars, environmentVars, suspended, pc, ghostVars>>

\* A generator yields.
Suspend ==
    /\ pc = "run"
    /\ frames # <<>>
    /\ Top.code \in Generators
    /\ frames' = Callers
    /\ suspended' = Append(suspended, Top)
    /\ UNCHANGED <<lexgionVars, environmentVars, pc, ghostVars>>

\* The record of f is where its end will find it: on top of the stack, or
\* nowhere if it has none.
InPlace(f) ==
    IF f.id > 0
    THEN stack # <<>> /\ stack[Len(stack)] = [code |-> f.code, id |-> f.id]
    ELSE ~HoldsRecord(f.code)

\* Somebody takes its next value.
Resume(i) ==
    /\ pc = "run"
    /\ Len(frames) < MaxFrames
    /\ frames' = Append(frames, suspended[i])
    /\ suspended' = SubSeq(suspended, 1, i - 1)
                        \o SubSeq(suspended, i + 1, Len(suspended))
    /\ displaced' = (displaced \/ ~InPlace(suspended[i]))
    /\ UNCHANGED <<lexgionVars, environmentVars, pc, missed, overlapped,
                   begunTraces, cycleTraces>>

\* The control thread or another domain's window end changes the mode.
SwitchMode(m) ==
    /\ switches < MaxSwitches
    /\ m # mode
    /\ mode' = m
    /\ switches' = switches + 1
    /\ UNCHANGED <<lexgionVars, frameVars, pc, reopening, calls, ghostVars>>

\* The control thread opens the next cycle of a window that ended: first it
\* resets the latch, then it steps the generation.
Unlatch(k) ==
    /\ reopening = {}
    /\ fired[k] /\ generation[k] < MaxCycles
    /\ fired' = [fired EXCEPT ![k] = FALSE]
    /\ reopening' = {k}
    /\ UNCHANGED <<tableVars, stack, generation, mode, boundVars, frameVars, pc,
                   ghostVars>>

StepGeneration(k) ==
    /\ k \in reopening
    /\ generation' = [generation EXCEPT ![k] = @ + 1]
    /\ reopening' = {}
    /\ begunTraces' = [c \in Codes |->
                         IF ConfigOf[c] = k THEN 0 ELSE begunTraces[c]]
    /\ cycleTraces' = [c \in Codes |->
                         IF ConfigOf[c] = k THEN 0 ELSE cycleTraces[c]]
    /\ UNCHANGED <<tableVars, stack, fired, mode, boundVars, frameVars, pc,
                   missed, displaced, overlapped>>

\* The program is over, or the bounds are.
Done ==
    /\ pc = "run" /\ frames = <<>> /\ suspended = <<>>
    /\ calls = MaxCalls
    /\ UNCHANGED vars

Next ==
    \/ \E c \in Codes : Start(c)
    \/ StartTrace
    \/ End
    \/ EndTrace
    \/ Raise
    \/ Suspend
    \/ \E i \in DOMAIN suspended : Resume(i)
    \/ \E m \in Modes : SwitchMode(m)
    \/ \E k \in Configs : Unlatch(k) \/ StepGeneration(k)
    \/ Done

Spec == Init /\ [][Next]_vars

-----------------------------------------------------------------------------
(***************************************************************************)
(* Properties.                                                             *)
(***************************************************************************)

TypeOK ==
    /\ seen \subseteq Codes /\ Cardinality(seen) <= MaxLexgions
    /\ lexgion \in [Codes -> Lexgion]
    /\ stack \in Seq(Record) /\ Len(stack) <= MaxDepth
    /\ fired \in [Configs -> BOOLEAN]
    /\ generation \in [Configs -> Nat]
    /\ mode \in Modes
    /\ frames \in Seq(Frame) /\ suspended \in Seq(Frame)
    /\ pc \in {"run", "started", "ended"}
    /\ pc # "run" => frames # <<>>
    /\ reopening \subseteq Configs
    /\ calls \in Nat /\ switches \in Nat
    /\ missed \in BOOLEAN /\ displaced \in BOOLEAN
    /\ overlapped \subseteq Codes
    /\ begunTraces \in [Codes -> Nat]
    /\ cycleTraces \in [Codes -> Nat]

\* The frames whose on_py_return has not taken a record.
Live == IF pc = "ended" THEN Callers ELSE frames

HasRecord(f) == \E i \in DOMAIN stack : stack[i] = [code |-> f.code, id |-> f.id]

RecordsKept == \A i \in DOMAIN Live : Live[i].id > 0 => HasRecord(Live[i])

\* A frame that is running keeps the record its start pushed, whatever frames
\* above it left by an exception, were suspended, found the table or the stack
\* full, or ran while the domain was off: an unmatched end "must not pop an
\* enclosing record" (lexgion_end_match).  Excepted are a call that leaves no
\* record while the stack holds another of its region, which its end then
\* takes, and a generator that goes on elsewhere: see SweptAreStale.
LiveRecordsKept == ~missed /\ ~displaced => RecordsKept

\* "Records above the match are stale by construction (their frames are gone)"
\* (pinsight.c:298): no end sweeps the record of a frame that is running.
SweptAreStale == ~missed => RecordsKept

\* max_num_traces bounds what a cycle traces: of the executions of a region
\* that begin and end in it, at most that many are traced, unless executions
\* of the region overlap (they share one trace bit and each counts as it ends).
CycleCap ==
    \A c \in Codes \ overlapped :
        Cap[ConfigOf[c]] # Unlimited => begunTraces[c] <= Cap[ConfigOf[c]]

\* Every cycle starts a region's count afresh: what a region of the current
\* generation has counted was traced since the cycle opened (the generation
\* check of lexgion_set_top_trace_bit_domain_event).
FreshCount ==
    \A c \in Codes :
        Cap[ConfigOf[c]] # Unlimited /\ lexgion[c].gen = generation[ConfigOf[c]]
        => lexgion[c].traces <= cycleTraces[c]

\* "'all' fires only once every region THIS THREAD has seen has capped", with
\* counts that are "reset on the generation bump" (pinsight.h:244,
\* pinsight.c:94): the counts that end a cycle are counts of that cycle.
AllMeansAll ==
    [][\A k \in TriggerAll : ~fired[k] /\ fired'[k] =>
         \A c \in seen :
            /\ lexgion[c].resolved
            /\ ConfigOf[c] = k
            => lexgion'[c].gen = generation[k] /\ lexgion'[c].traces >= Cap[k]]_vars
=============================================================================
