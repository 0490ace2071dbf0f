------------------------- MODULE GpuActivityProofs -------------------------
(***************************************************************************)
(* Proofs about GpuActivity, for either vendor and any number of threads,  *)
(* window ends, reloads, boundaries and operations: the host callbacks     *)
(* follow the mode, the collection follows the decision, and the records   *)
(* of a steady collection are in the trace.                                *)
(*                                                                         *)
(* The three rest on one invariant, IInv, in layers: the types; where the  *)
(* control thread returns to (BackInv); the callbacks (HostInv); the       *)
(* collection (CollectInv), whose parts but the first hold until the       *)
(* decision races with its use or the main thread has finalized; and the   *)
(* records (KeptInv), which need that the collection is off when the       *)
(* domain is.                                                              *)
(***************************************************************************)
EXTENDS GpuActivity, SequenceTheorems, TLAPS

Pcs == {"run", "post", "decide", "enable", "start", "reset",
        "fini", "disable", "close", "end", "done"}
ControlPcs == {"loop", "sleep", "reload", "window", "modes", "decide", "open",
               "start", "flush", "stop", "host", "stopped"}
Fates == {"running", "unseen", "buffered", "emitted", "dropped"}
Ops == [is : Fates, kept : BOOLEAN]

\* The types of all variables, among them those TypeOK leaves to Init.
DomainTypes ==
    /\ vendor \in {"HIP", "CUDA"}
    /\ mode \in Modes /\ last \in Modes /\ latched \in BOOLEAN
    /\ policy \in Policies /\ mine \in BOOLEAN
    /\ slot \in Actions \cup {NoAction} /\ owed \subseteq {"reload", "end"}

RuntimeTypes ==
    /\ off \in BOOLEAN /\ collect \in BOOLEAN /\ emit \in BOOLEAN
    /\ pool \in BOOLEAN /\ initDone \in BOOLEAN /\ hostOn \in BOOLEAN
    /\ enabled \in BOOLEAN
    /\ Cuda => ~pool

ThreadTypes ==
    /\ pc \in [Threads -> Pcs]
    /\ act \in [Threads -> Actions \cup {NoAction}]

ControlTypes ==
    /\ cpc \in ControlPcs /\ reasons \subseteq {"reload", "end"}
    /\ applying \in Modes \X Modes /\ back \in {"loop", "host"}
    /\ timer \in BOOLEAN /\ due \in BOOLEAN
    /\ changes \in 0 .. MaxChanges

GhostTypes ==
    /\ unread \in Nat /\ overtaken \in BOOLEAN /\ missed \in BOOLEAN
    /\ raced \in BOOLEAN /\ failed \in BOOLEAN /\ closedUse \in BOOLEAN

ScalarTypes ==
    /\ DomainTypes /\ RuntimeTypes /\ ThreadTypes /\ ControlTypes /\ GhostTypes

TypeInv ==
    /\ DomainTypes /\ RuntimeTypes /\ ops \in Seq(Ops)
    /\ ThreadTypes /\ ControlTypes /\ GhostTypes

\* apply_mode calls apply_collect_state and takes over from it; a boundary only
\* passes unseen in the sleep; CUDA at OFF has no callbacks and never gets
\* some.
BackInv ==
    /\ cpc = "host" => back = "host"
    /\ cpc \in {"loop", "sleep", "reload", "window", "modes", "stopped"} => back = "loop"
    /\ due => cpc \in {"sleep", "stopped"}
    /\ cpc = "stopped" => pc[Main] = "done"
    /\ Cuda /\ off => ~hostOn /\ back = "loop"

\* The mode the callbacks are made for: that of before a store not read yet.
Present == IF unread = 0 THEN mode ELSE last

\* A window's end that is stored and not handed over.
Debt == \E t \in Threads : pc[t] = "post"

\* A store not read yet is on its way to apply_mode. Outside apply_mode the
\* callbacks are those of the mode it has read; within, they are still those of
\* the mode before, or they have not changed with it.
HostInv ==
    /\ unread > 0 => Debt \/ owed # {} \/ cpc \in {"reload", "window", "modes"}
    /\ \/ overtaken \/ unread > 1 \/ pc[Main] = "done"
       \/ IF back = "host"
          THEN /\ applying[2] = Present /\ ~off
               /\ hostOn = Active(applying[1]) \/ hostOn = Active(applying[2])
          ELSE hostOn = (Active(Present) /\ ~off)

\* Where the control thread starts or stops the collection.
Changing == {"open", "start", "flush", "stop"}
\* The main thread has flushed, or does not flush.
Ending == pc[Main] \in {"disable", "close", "end", "done"}

\* What no change of the decision disturbs: CUDA collects nothing before its
\* first callback, and HIP has a pool while the runtime collects.
CollectBase ==
    /\ emit => collect
    /\ Cuda /\ ~initDone => /\ ~collect /\ ~enabled /\ cpc \notin Changing
                            /\ \A t \in Threads : ~InInit(t)
    /\ Hip => \A t \in Threads : ~InInit(t)
    /\ Hip /\ ~Ending => (enabled => pool)

\* What the collection is to become, and who will still bring that about.
Goal == Decision /\ ~off /\ (Cuda => initDone)
Pending == owed # {} \/ \E t \in Threads : pc[t] = "post" \/ InInit(t)

\* A domain that is to be turned off is not to collect, and when it is off it
\* does not.
TurnsOffInv ==
    /\ TurnsOff => /\ ~Decision /\ cpc \in {"decide", "flush", "stop", "host"}
                   /\ cpc = "host" => ~collect
    /\ off => /\ ~collect /\ cpc \notin Changing
              /\ \A t \in Threads : InInit(t) => ~Decision

\* The first callback and the control thread do not work against each other: if
\* the decision is to collect nobody stops, and if not nobody starts.
InitInv ==
    \A t \in Threads : InInit(t) =>
        IF Decision THEN cpc \notin {"flush", "stop"}
        ELSE pc[t] = "decide" /\ ~collect /\ cpc \notin Changing

\* The control thread goes to sleep with the collection as decided, or with
\* something pending; and it starts and stops what it has decided to.
GoalInv ==
    ~missed =>
        /\ cpc \in {"loop", "sleep"} => collect = Goal \/ Pending \/ due
        /\ cpc \in {"open", "start"} /\ back = "loop" => Goal \/ Pending
        /\ cpc \in {"flush", "stop"} /\ back = "loop" => ~Goal \/ Pending

\* The runtime collects if the process says it does, or is about to say so.
EnabledInv ==
    ~failed =>
        /\ collect \/ cpc = "start" \/ (\E t \in Threads : pc[t] = "start") => enabled
        /\ enabled => collect \/ cpc = "start" \/ \E t \in Threads : pc[t] = "start"

CollectInv ==
    /\ CollectBase
    /\ ~raced /\ ~Ending => TurnsOffInv /\ InitInv /\ GoalInv /\ EnabledInv

\* Of the records of operations that ended while the collection was on, none is
\* dropped, and as long as one is buffered what delivers it records it.
NoneDropped == \A i \in DOMAIN ops : ops[i].kept => ops[i].is # "dropped"
NoneLeft == \A i \in DOMAIN ops : ~(ops[i].kept /\ ops[i].is = "buffered")
Emitting == emit /\ cpc # "stop" /\ (Hip => pool) /\ ~Ending

KeptInv == ~raced => NoneDropped /\ (NoneLeft \/ Emitting)

IInv == TypeInv /\ BackInv /\ HostInv /\ CollectInv /\ KeptInv

-----------------------------------------------------------------------------
(***************************************************************************)
(* Types.                                                                  *)
(***************************************************************************)
LEMMA ActionFields ==
    ASSUME NEW a \in Actions \cup {NoAction}
    PROVE  a.mode \in Modes \cup {"NONE"} /\ a.policy \in Policies \cup {"NONE"}
  BY GpuAssumption DEF NoAction

LEMMA DeliveredOps ==
    ASSUME ops \in Seq(Ops), NEW e \in BOOLEAN
    PROVE  /\ Delivered(e) \in Seq(Ops) /\ DOMAIN Delivered(e) = DOMAIN ops
           /\ \A i \in DOMAIN ops :
                Delivered(e)[i] = IF ops[i].is = "buffered"
                                  THEN [is |-> IF e THEN "emitted" ELSE "dropped",
                                        kept |-> ops[i].kept]
                                  ELSE ops[i]
<1>1. /\ DOMAIN ops = 1 .. Len(ops) /\ Len(ops) \in Nat
      /\ \A i \in DOMAIN ops : ops[i] \in Ops
  OBVIOUS
<1>2. \A i \in DOMAIN ops : /\ ops[i] = [is |-> ops[i].is, kept |-> ops[i].kept]
                            /\ ops[i].kept \in BOOLEAN
  BY <1>1 DEF Ops
<1>3. \A i \in DOMAIN ops :
        Delivered(e)[i] = IF ops[i].is = "buffered"
                          THEN [is |-> IF e THEN "emitted" ELSE "dropped",
                                kept |-> ops[i].kept]
                          ELSE ops[i]
  BY <1>1, <1>2 DEF Delivered
<1>4. ASSUME NEW i \in DOMAIN ops PROVE Delivered(e)[i] \in Ops
  <2>1. CASE ops[i].is = "buffered"
    <3>1. PICK f \in Fates : Delivered(e)[i] = [is |-> f, kept |-> ops[i].kept]
      BY <1>3, <2>1 DEF Fates
    <3> QED
      BY <1>2, <3>1 DEF Ops
  <2>2. CASE ops[i].is # "buffered"
    BY <1>1, <1>3, <2>2
  <2> QED
    BY <2>1, <2>2
<1>5. DOMAIN Delivered(e) = 1 .. Len(ops)
  BY <1>1 DEF Delivered
<1>6. Delivered(e) \in [1 .. Len(ops) -> Ops]
  BY <1>1, <1>4, <1>5 DEF Delivered
<1>7. Delivered(e) \in Seq(Ops)
  BY <1>1, <1>6, IsASeq
<1> QED
  BY <1>1, <1>3, <1>5, <1>7

LEMMA TypeInit == Init => TypeInv
<1> SUFFICES ASSUME Init PROVE TypeInv
  OBVIOUS
<1> USE DEF Init, LTTNG_Init, Cuda, Hip
<1>1. DomainTypes
  BY GpuAssumption DEF DomainTypes
<1>2. RuntimeTypes
  <2>1. off \in BOOLEAN /\ enabled \in BOOLEAN
    OBVIOUS
  <2>2. hostOn \in BOOLEAN
    BY DEF Active
  <2>3. pool \in BOOLEAN /\ emit \in BOOLEAN /\ collect \in BOOLEAN
    OBVIOUS
  <2> QED
    BY <2>1, <2>2, <2>3 DEF RuntimeTypes
<1>3. ops \in Seq(Ops)
  OBVIOUS
<1>4. ThreadTypes
  BY DEF ThreadTypes, Pcs
<1>5. ControlTypes
  <2>1. applying \in Modes \X Modes /\ back \in {"loop", "host"}
    BY DEF Idle, Modes
  <2>2. changes \in 0 .. MaxChanges
    BY GpuAssumption
  <2> QED
    BY <2>1, <2>2 DEF ControlTypes, ControlPcs
<1>6. GhostTypes
  BY DEF GhostTypes
<1> QED
  BY <1>1, <1>2, <1>3, <1>4, <1>5, <1>6 DEF TypeInv

LEMMA TypeStep ==
    ASSUME TypeInv, [Next]_vars
    PROVE  ScalarTypes'
<1> USE DEF ScalarTypes, TypeInv, DomainTypes, RuntimeTypes, ThreadTypes, ControlTypes,
            GhostTypes, domainVars, wakeVars, runtimeVars, stateVars, threadVars,
            controlVars, ghostVars, Pcs, ControlPcs, Cuda, Hip
<1>1. ASSUME NEW t \in Threads, NEW a \in Actions, Fire(t, a) PROVE ScalarTypes'
  <2>1. mode' \in Modes /\ last' \in Modes
    BY <1>1, ActionFields DEF Fire, StoreMode, SwitchDue
  <2>2. latched' \in BOOLEAN
    BY <1>1 DEF Fire, StoreMode
  <2>3. raced' \in BOOLEAN
    BY <1>1 DEF Fire, StoreMode, Disturbs, Races
  <2>4. unread' \in Nat
    BY <1>1 DEF Fire, StoreMode, Disturbs
  <2>5. changes' \in 0 .. MaxChanges
    BY <1>1, GpuAssumption DEF Fire, Change
  <2>6. ThreadTypes'
    BY <1>1 DEF Fire, Goto
  <2>7. RuntimeTypes' /\ UNCHANGED <<policy, mine, wakeVars, controlVars>>
    BY <1>1 DEF Fire
  <2>8. UNCHANGED <<overtaken, missed, failed, closedUse>>
    BY <1>1 DEF Fire, StoreMode, Disturbs
  <2> QED
    BY <1>1, <2>1, <2>2, <2>3, <2>4, <2>5, <2>6, <2>7, <2>8 DEF Fire
<1>2. ASSUME NEW t \in Threads, FirePost(t) PROVE ScalarTypes'
  BY <1>2 DEF FirePost, Goto
<1>3. ASSUME NEW t \in Threads, Launch(t) PROVE ScalarTypes'
  BY <1>3 DEF Launch
<1>4. ASSUME NEW t \in Threads, InitOnce(t) PROVE ScalarTypes'
  BY <1>4 DEF InitOnce, Goto
<1>5. ASSUME NEW t \in Threads, InitDecide(t) PROVE ScalarTypes'
  BY <1>5 DEF InitDecide, Goto
<1>6. ASSUME NEW t \in Threads, InitEnable(t) PROVE ScalarTypes'
  BY <1>6 DEF InitEnable, Goto
<1>7. ASSUME NEW t \in Threads, InitStart(t) PROVE ScalarTypes'
  BY <1>7 DEF InitStart, Goto
<1>8. ASSUME NEW t \in Threads, ResetBegin(t) PROVE ScalarTypes'
  BY <1>8 DEF ResetBegin, Goto
<1>9. ASSUME NEW t \in Threads, ResetFlush(t) PROVE ScalarTypes'
  BY <1>9 DEF ResetFlush, Goto
<1>10. ASSUME Signal PROVE ScalarTypes'
  BY <1>10, GpuAssumption DEF Signal, Change
<1>11. ASSUME Boundary PROVE ScalarTypes'
  BY <1>11, GpuAssumption DEF Boundary, Change, Races
<1>12. ASSUME BufferFull PROVE ScalarTypes'
  BY <1>12 DEF BufferFull
<1>13. ASSUME NEW i \in DOMAIN ops, Complete(i) PROVE ScalarTypes'
  BY <1>13 DEF Complete
<1>14. ASSUME Sleep PROVE ScalarTypes'
  <2>1. DomainTypes'
    BY <1>14 DEF Sleep, Rotates
  <2>2. RuntimeTypes'
    BY <1>14 DEF Sleep, Rotates
  <2>3. ThreadTypes'
    BY <1>14 DEF Sleep, Rotates
  <2>4. ControlTypes'
    BY <1>14 DEF Sleep, Rotates
  <2>5. GhostTypes'
    BY <1>14 DEF Sleep, Rotates
  <2> QED
    BY <2>1, <2>2, <2>3, <2>4, <2>5
<1>15. ASSUME Wake PROVE ScalarTypes'
  <2>1. DomainTypes'
    BY <1>15 DEF Wake
  <2>2. RuntimeTypes'
    BY <1>15 DEF Wake
  <2>3. ThreadTypes'
    BY <1>15 DEF Wake
  <2>4. ControlTypes'
    BY <1>15 DEF Wake
  <2>5. GhostTypes'
    BY <1>15 DEF Wake
  <2> QED
    BY <2>1, <2>2, <2>3, <2>4, <2>5
<1>16. ASSUME WakeAtBoundary PROVE ScalarTypes'
  <2>1. DomainTypes'
    BY <1>16 DEF WakeAtBoundary
  <2>2. RuntimeTypes'
    BY <1>16 DEF WakeAtBoundary
  <2>3. ThreadTypes'
    BY <1>16 DEF WakeAtBoundary
  <2>4. ControlTypes'
    BY <1>16 DEF WakeAtBoundary
  <2>5. GhostTypes'
    BY <1>16 DEF WakeAtBoundary
  <2> QED
    BY <2>1, <2>2, <2>3, <2>4, <2>5
<1>17. ASSUME Reload PROVE ScalarTypes'
  <2>1. policy' \in Policies /\ mode' \in Modes /\ last' \in Modes
    BY <1>17, GpuAssumption DEF Reload
  <2>2. latched' \in BOOLEAN
    BY <1>17 DEF Reload
  <2>3. raced' \in BOOLEAN
    BY <1>17 DEF Reload, Disturbs, Races
  <2>4. unread' \in Nat
    BY <1>17 DEF Reload, Disturbs
  <2>5. RuntimeTypes' /\ ThreadTypes'
    BY <1>17 DEF Reload
  <2>6. ControlTypes' /\ UNCHANGED <<mine, wakeVars>>
    BY <1>17 DEF Reload
  <2>7. UNCHANGED <<overtaken, missed, failed, closedUse>>
    BY <1>17 DEF Reload, Disturbs
  <2> QED
    BY <1>17, <2>1, <2>2, <2>3, <2>4, <2>5, <2>6, <2>7 DEF Reload
<1>18. ASSUME WindowEnd PROVE ScalarTypes'
  <2>1. policy' \in Policies /\ mode' \in Modes /\ last' \in Modes
    <3>1. policy' \in Policies
      BY <1>18, ActionFields DEF WindowEnd
    <3>2. mode' \in Modes
      BY <1>18, ActionFields DEF WindowEnd, SwitchDue
    <3>3. last' \in Modes
      BY <1>18, ActionFields DEF WindowEnd, SwitchDue
    <3> QED
      BY <3>1, <3>2, <3>3
  <2>2. latched' \in BOOLEAN
    BY <1>18 DEF WindowEnd
  <2>3. raced' \in BOOLEAN
    BY <1>18 DEF WindowEnd, Disturbs, Races
  <2>4. unread' \in Nat
    BY <1>18 DEF WindowEnd, Disturbs
  <2>5. RuntimeTypes' /\ ThreadTypes'
    BY <1>18 DEF WindowEnd
  <2>6. ControlTypes'
    BY <1>18 DEF WindowEnd
  <2>7. UNCHANGED <<mine, owed>> /\ slot' \in Actions \cup {NoAction}
    BY <1>18 DEF WindowEnd
  <2>8. UNCHANGED <<overtaken, missed, failed, closedUse>>
    BY <1>18 DEF WindowEnd, Disturbs
  <2> QED
    BY <1>18, <2>1, <2>2, <2>3, <2>4, <2>5, <2>6, <2>7, <2>8 DEF WindowEnd
<1>19. ASSUME ReadModes PROVE ScalarTypes'
  BY <1>19 DEF ReadModes, AfterApplyMode
<1>20. ASSUME Decide PROVE ScalarTypes'
  <2>1. DomainTypes'
    BY <1>20 DEF Decide
  <2>2. RuntimeTypes'
    BY <1>20 DEF Decide
  <2>3. ThreadTypes'
    BY <1>20 DEF Decide
  <2>4. ControlTypes'
    BY <1>20 DEF Decide
  <2>5. GhostTypes'
    BY <1>20 DEF Decide
  <2> QED
    BY <2>1, <2>2, <2>3, <2>4, <2>5
<1>21. ASSUME OpenPool PROVE ScalarTypes'
  BY <1>21 DEF OpenPool
<1>22. ASSUME Start PROVE ScalarTypes'
  BY <1>22 DEF Start
<1>23. ASSUME Flush PROVE ScalarTypes'
  BY <1>23 DEF Flush, FlushTail
<1>24. ASSUME Stop PROVE ScalarTypes'
  <2>1. DomainTypes'
    BY <1>24 DEF Stop
  <2>2. RuntimeTypes'
    BY <1>24 DEF Stop
  <2>3. ThreadTypes'
    BY <1>24 DEF Stop
  <2>4. ControlTypes'
    BY <1>24 DEF Stop
  <2>5. GhostTypes'
    BY <1>24 DEF Stop
  <2> QED
    BY <2>1, <2>2, <2>3, <2>4, <2>5
<1>25. ASSUME ApplyHost PROVE ScalarTypes'
  <2>1. hostOn' \in BOOLEAN
    BY <1>25 DEF ApplyHost, CallbacksAfter
  <2>2. off' \in BOOLEAN
    BY <1>25 DEF ApplyHost
  <2>3. emit' \in BOOLEAN
    BY <1>25 DEF ApplyHost
  <2>4. DomainTypes' /\ ThreadTypes' /\ GhostTypes'
    BY <1>25 DEF ApplyHost
  <2>5. ControlTypes'
    BY <1>25 DEF ApplyHost, AfterApplyMode, Idle, Modes
  <2>6. RuntimeTypes'
    BY <1>25, <2>1, <2>2, <2>3 DEF ApplyHost
  <2> QED
    BY <2>4, <2>5, <2>6
<1>26. ASSUME FiniBegin PROVE ScalarTypes'
  BY <1>26, GpuAssumption DEF FiniBegin, Goto
<1>27. ASSUME FiniFlush PROVE ScalarTypes'
  BY <1>27, GpuAssumption DEF FiniFlush, Goto
<1>28. ASSUME FiniDisable PROVE ScalarTypes'
  BY <1>28, GpuAssumption DEF FiniDisable, Goto
<1>29. ASSUME FiniClose PROVE ScalarTypes'
  <2>1. DomainTypes'
    BY <1>29 DEF FiniClose, Goto
  <2>2. RuntimeTypes'
    BY <1>29 DEF FiniClose, Goto
  <2>3. ThreadTypes'
    BY <1>29 DEF FiniClose, Goto
  <2>4. ControlTypes'
    BY <1>29 DEF FiniClose, Goto
  <2>5. GhostTypes'
    BY <1>29 DEF FiniClose, Goto
  <2> QED
    BY <2>1, <2>2, <2>3, <2>4, <2>5
<1>30. ASSUME FiniEnd PROVE ScalarTypes'
  <2>1. DomainTypes'
    BY <1>30 DEF FiniEnd, Goto
  <2>2. RuntimeTypes'
    BY <1>30 DEF FiniEnd, Goto
  <2>3. ThreadTypes'
    BY <1>30 DEF FiniEnd, Goto
  <2>4. ControlTypes'
    BY <1>30 DEF FiniEnd, Goto
  <2>5. GhostTypes'
    BY <1>30 DEF FiniEnd, Goto
  <2> QED
    BY <2>1, <2>2, <2>3, <2>4, <2>5
<1>31. ASSUME ControlStop PROVE ScalarTypes'
  BY <1>31 DEF ControlStop
<1>32. CASE UNCHANGED vars
  BY <1>32 DEF vars
<1> QED
  BY <1>1, <1>2, <1>3, <1>4, <1>5, <1>6, <1>7, <1>8, <1>9, <1>10, <1>11,
     <1>12, <1>13, <1>14, <1>15, <1>16, <1>17, <1>18, <1>19, <1>20, <1>21, <1>22,
     <1>23, <1>24, <1>25, <1>26, <1>27, <1>28, <1>29, <1>30, <1>31, <1>32 DEF Next, Done

LEMMA OpsStep ==
    ASSUME TypeInv, [Next]_vars
    PROVE  (ops \in Seq(Ops))'
<1> USE DEF runtimeVars
<1>0. ops \in Seq(Ops) /\ emit \in BOOLEAN /\ enabled \in BOOLEAN
  BY DEF TypeInv, RuntimeTypes
<1>1. ASSUME NEW t \in Threads, NEW a \in Actions, Fire(t, a) PROVE (ops \in Seq(Ops))'
  BY <1>0, <1>1 DEF Fire
<1>2. ASSUME NEW t \in Threads, FirePost(t) PROVE (ops \in Seq(Ops))'
  BY <1>0, <1>2 DEF FirePost
<1>3. ASSUME NEW t \in Threads, Launch(t) PROVE (ops \in Seq(Ops))'
  <2>1. [is |-> "running", kept |-> FALSE] \in Ops
    BY DEF Ops, Fates
  <2> QED
    BY <1>0, <1>3, <2>1 DEF Launch
<1>4. ASSUME NEW t \in Threads, InitOnce(t) PROVE (ops \in Seq(Ops))'
  BY <1>0, <1>4 DEF InitOnce
<1>5. ASSUME NEW t \in Threads, InitDecide(t) PROVE (ops \in Seq(Ops))'
  BY <1>0, <1>5 DEF InitDecide
<1>6. ASSUME NEW t \in Threads, InitEnable(t) PROVE (ops \in Seq(Ops))'
  BY <1>0, <1>6 DEF InitEnable
<1>7. ASSUME NEW t \in Threads, InitStart(t) PROVE (ops \in Seq(Ops))'
  BY <1>0, <1>7 DEF InitStart
<1>8. ASSUME NEW t \in Threads, ResetBegin(t) PROVE (ops \in Seq(Ops))'
  BY <1>0, <1>8 DEF ResetBegin
<1>9. ASSUME NEW t \in Threads, ResetFlush(t) PROVE (ops \in Seq(Ops))'
  BY <1>0, <1>9, DeliveredOps DEF ResetFlush
<1>10. ASSUME Signal PROVE (ops \in Seq(Ops))'
  BY <1>0, <1>10 DEF Signal
<1>11. ASSUME Boundary PROVE (ops \in Seq(Ops))'
  BY <1>0, <1>11 DEF Boundary
<1>12. ASSUME BufferFull PROVE (ops \in Seq(Ops))'
  BY <1>0, <1>12, DeliveredOps DEF BufferFull
<1>13. ASSUME NEW i \in DOMAIN ops, Complete(i) PROVE (ops \in Seq(Ops))'
  <2>1. [is |-> IF enabled THEN "buffered" ELSE "unseen", kept |-> Steady] \in Ops
    <3>1. Steady \in BOOLEAN
      BY DEF Steady
    <3> QED
      BY <1>0, <3>1 DEF Ops, Fates
  <2> QED
    BY <1>0, <1>13, <2>1, ExceptSeq DEF Complete
<1>14. ASSUME Sleep PROVE (ops \in Seq(Ops))'
  BY <1>0, <1>14 DEF Sleep
<1>15. ASSUME Wake PROVE (ops \in Seq(Ops))'
  BY <1>0, <1>15 DEF Wake
<1>16. ASSUME WakeAtBoundary PROVE (ops \in Seq(Ops))'
  BY <1>0, <1>16 DEF WakeAtBoundary
<1>17. ASSUME Reload PROVE (ops \in Seq(Ops))'
  BY <1>0, <1>17 DEF Reload
<1>18. ASSUME WindowEnd PROVE (ops \in Seq(Ops))'
  BY <1>0, <1>18 DEF WindowEnd
<1>19. ASSUME ReadModes PROVE (ops \in Seq(Ops))'
  BY <1>0, <1>19 DEF ReadModes, AfterApplyMode
<1>20. ASSUME Decide PROVE (ops \in Seq(Ops))'
  BY <1>0, <1>20 DEF Decide
<1>21. ASSUME OpenPool PROVE (ops \in Seq(Ops))'
  BY <1>0, <1>21 DEF OpenPool
<1>22. ASSUME Start PROVE (ops \in Seq(Ops))'
  BY <1>0, <1>22 DEF Start
<1>23. ASSUME Flush PROVE (ops \in Seq(Ops))'
  BY <1>0, <1>23, DeliveredOps DEF Flush, FlushTail
<1>24. ASSUME Stop PROVE (ops \in Seq(Ops))'
  BY <1>0, <1>24, DeliveredOps DEF Stop
<1>25. ASSUME ApplyHost PROVE (ops \in Seq(Ops))'
  BY <1>0, <1>25, DeliveredOps DEF ApplyHost, AfterApplyMode
<1>26. ASSUME FiniBegin PROVE (ops \in Seq(Ops))'
  BY <1>0, <1>26 DEF FiniBegin
<1>27. ASSUME FiniFlush PROVE (ops \in Seq(Ops))'
  BY <1>0, <1>27, DeliveredOps DEF FiniFlush
<1>28. ASSUME FiniDisable PROVE (ops \in Seq(Ops))'
  BY <1>0, <1>28 DEF FiniDisable
<1>29. ASSUME FiniClose PROVE (ops \in Seq(Ops))'
  BY <1>0, <1>29, DeliveredOps DEF FiniClose
<1>30. ASSUME FiniEnd PROVE (ops \in Seq(Ops))'
  BY <1>0, <1>30 DEF FiniEnd
<1>31. ASSUME ControlStop PROVE (ops \in Seq(Ops))'
  BY <1>0, <1>31 DEF ControlStop
<1>32. CASE UNCHANGED vars
  BY <1>0, <1>32 DEF vars
<1> QED
  BY <1>1, <1>2, <1>3, <1>4, <1>5, <1>6, <1>7, <1>8, <1>9, <1>10, <1>11,
     <1>12, <1>13, <1>14, <1>15, <1>16, <1>17, <1>18, <1>19, <1>20, <1>21, <1>22,
     <1>23, <1>24, <1>25, <1>26, <1>27, <1>28, <1>29, <1>30, <1>31, <1>32 DEF Next, Done

LEMMA TypeInductive == TypeInv /\ [Next]_vars => TypeInv'
  BY TypeStep, OpsStep DEF TypeInv, ScalarTypes

-----------------------------------------------------------------------------
(***************************************************************************)
(* The host callbacks.                                                     *)
(***************************************************************************)
LEMMA BackStep ==
    ASSUME TypeInv, BackInv, [Next]_vars
    PROVE  BackInv'
<1> USE DEF BackInv, domainVars, wakeVars, runtimeVars, stateVars, threadVars,
            controlVars, ghostVars, Cuda, Hip
<1>0. pc \in [Threads -> Pcs] /\ Main \in Threads
  BY GpuAssumption DEF TypeInv, ThreadTypes
<1>1. ASSUME NEW t \in Threads, NEW a \in Actions, Fire(t, a) PROVE BackInv'
  BY <1>0, <1>1 DEF Fire, Goto
<1>2. ASSUME NEW t \in Threads, FirePost(t) PROVE BackInv'
  BY <1>0, <1>2 DEF FirePost, Goto
<1>3. ASSUME NEW t \in Threads, Launch(t) PROVE BackInv'
  BY <1>3 DEF Launch
<1>4. ASSUME NEW t \in Threads, InitOnce(t) PROVE BackInv'
  BY <1>0, <1>4 DEF InitOnce, Goto
<1>5. ASSUME NEW t \in Threads, InitDecide(t) PROVE BackInv'
  BY <1>0, <1>5 DEF InitDecide, Goto
<1>6. ASSUME NEW t \in Threads, InitEnable(t) PROVE BackInv'
  BY <1>0, <1>6 DEF InitEnable, Goto
<1>7. ASSUME NEW t \in Threads, InitStart(t) PROVE BackInv'
  BY <1>0, <1>7 DEF InitStart, Goto
<1>8. ASSUME NEW t \in Threads, ResetBegin(t) PROVE BackInv'
  BY <1>0, <1>8 DEF ResetBegin, Goto
<1>9. ASSUME NEW t \in Threads, ResetFlush(t) PROVE BackInv'
  BY <1>0, <1>9 DEF ResetFlush, Goto
<1>10. ASSUME Signal PROVE BackInv'
  BY <1>10 DEF Signal
<1>11. ASSUME Boundary PROVE BackInv'
  BY <1>11 DEF Boundary
<1>12. ASSUME BufferFull PROVE BackInv'
  BY <1>12 DEF BufferFull
<1>13. ASSUME NEW i \in DOMAIN ops, Complete(i) PROVE BackInv'
  BY <1>13 DEF Complete
<1>14. ASSUME Sleep PROVE BackInv'
  BY <1>14 DEF Sleep
<1>15. ASSUME Wake PROVE BackInv'
  BY <1>15 DEF Wake
<1>16. ASSUME WakeAtBoundary PROVE BackInv'
  BY <1>16 DEF WakeAtBoundary
<1>17. ASSUME Reload PROVE BackInv'
  BY <1>17 DEF Reload
<1>18. ASSUME WindowEnd PROVE BackInv'
  BY <1>18 DEF WindowEnd
<1>19. ASSUME ReadModes PROVE BackInv'
  BY <1>19 DEF ReadModes, AfterApplyMode
<1>20. ASSUME Decide PROVE BackInv'
  BY <1>20 DEF TypeInv, ControlTypes, Decide
<1>21. ASSUME OpenPool PROVE BackInv'
  BY <1>21 DEF OpenPool
<1>22. ASSUME Start PROVE BackInv'
  BY <1>22 DEF TypeInv, ControlTypes, Start
<1>23. ASSUME Flush PROVE BackInv'
  BY <1>23 DEF Flush, FlushTail
<1>24. ASSUME Stop PROVE BackInv'
  BY <1>24 DEF TypeInv, ControlTypes, Stop
<1>25. ASSUME ApplyHost PROVE BackInv'
  BY <1>25 DEF ApplyHost, AfterApplyMode, CallbacksAfter
<1>26. ASSUME FiniBegin PROVE BackInv'
  BY <1>0, <1>26 DEF FiniBegin, Goto
<1>27. ASSUME FiniFlush PROVE BackInv'
  BY <1>0, <1>27 DEF FiniFlush, Goto
<1>28. ASSUME FiniDisable PROVE BackInv'
  BY <1>0, <1>28 DEF FiniDisable, Goto
<1>29. ASSUME FiniClose PROVE BackInv'
  BY <1>0, <1>29 DEF FiniClose, Goto
<1>30. ASSUME FiniEnd PROVE BackInv'
  BY <1>0, <1>30 DEF FiniEnd, Goto
<1>31. ASSUME ControlStop PROVE BackInv'
  BY <1>31 DEF ControlStop
<1>32. CASE UNCHANGED vars
  BY <1>32 DEF vars
<1> QED
  BY <1>1, <1>2, <1>3, <1>4, <1>5, <1>6, <1>7, <1>8, <1>9, <1>10, <1>11,
     <1>12, <1>13, <1>14, <1>15, <1>16, <1>17, <1>18, <1>19, <1>20, <1>21, <1>22,
     <1>23, <1>24, <1>25, <1>26, <1>27, <1>28, <1>29, <1>30, <1>31, <1>32 DEF Next, Done

LEMMA HostStep ==
    ASSUME TypeInv, BackInv, HostInv, [Next]_vars
    PROVE  HostInv'
<1> USE DEF HostInv, Present, Debt, domainVars, wakeVars, runtimeVars, stateVars,
            threadVars, controlVars, ghostVars, Cuda, Hip
<1>0. /\ pc \in [Threads -> Pcs] /\ Main \in Threads /\ unread \in Nat
      /\ hostOn \in BOOLEAN /\ off \in BOOLEAN /\ back \in {"loop", "host"}
  BY GpuAssumption DEF TypeInv, ThreadTypes, GhostTypes, RuntimeTypes, ControlTypes
<1>1. ASSUME NEW t \in Threads, NEW a \in Actions, Fire(t, a) PROVE HostInv'
  BY <1>0, <1>1 DEF Fire, StoreMode, SwitchDue, Disturbs, Goto
<1>2. ASSUME NEW t \in Threads, FirePost(t) PROVE HostInv'
  BY <1>0, <1>2 DEF FirePost, Goto
<1>3. ASSUME NEW t \in Threads, Launch(t) PROVE HostInv'
  BY <1>0, <1>3 DEF Launch
<1>4. ASSUME NEW t \in Threads, InitOnce(t) PROVE HostInv'
  BY <1>0, <1>4 DEF InitOnce, Goto
<1>5. ASSUME NEW t \in Threads, InitDecide(t) PROVE HostInv'
  BY <1>0, <1>5 DEF InitDecide, Goto
<1>6. ASSUME NEW t \in Threads, InitEnable(t) PROVE HostInv'
  BY <1>0, <1>6 DEF InitEnable, Goto
<1>7. ASSUME NEW t \in Threads, InitStart(t) PROVE HostInv'
  BY <1>0, <1>7 DEF InitStart, Goto
<1>8. ASSUME NEW t \in Threads, ResetBegin(t) PROVE HostInv'
  BY <1>0, <1>8 DEF ResetBegin, Goto
<1>9. ASSUME NEW t \in Threads, ResetFlush(t) PROVE HostInv'
  BY <1>0, <1>9 DEF ResetFlush, Goto
<1>10. ASSUME Signal PROVE HostInv'
  BY <1>0, <1>10 DEF Signal
<1>11. ASSUME Boundary PROVE HostInv'
  BY <1>0, <1>11 DEF Boundary
<1>12. ASSUME BufferFull PROVE HostInv'
  BY <1>0, <1>12 DEF BufferFull
<1>13. ASSUME NEW i \in DOMAIN ops, Complete(i) PROVE HostInv'
  BY <1>0, <1>13 DEF Complete
<1>14. ASSUME Sleep PROVE HostInv'
  BY <1>0, <1>14 DEF Sleep
<1>15. ASSUME Wake PROVE HostInv'
  BY <1>0, <1>15 DEF Wake
<1>16. ASSUME WakeAtBoundary PROVE HostInv'
  BY <1>0, <1>16 DEF BackInv, WakeAtBoundary
<1>17. ASSUME Reload PROVE HostInv'
  BY <1>0, <1>17 DEF BackInv, Reload, Disturbs
<1>18. ASSUME WindowEnd PROVE HostInv'
  BY <1>0, <1>18 DEF BackInv, WindowEnd, SwitchDue, Disturbs
<1>19. ASSUME ReadModes PROVE HostInv'
  <2>1. unread' = 0 /\ overtaken' = (overtaken \/ unread > 1) /\ back = "loop"
    BY <1>19 DEF BackInv, ReadModes
  <2>2. UNCHANGED <<mode, last, off, hostOn, pc, owed>>
    BY <1>19 DEF ReadModes
  <2>3. CASE overtaken \/ unread > 1 \/ pc[Main] = "done"
    <3>1. overtaken' \/ pc'[Main] = "done"
      BY <2>1, <2>2, <2>3
    <3> QED
      BY <2>1, <3>1
  <2>4. CASE ~(overtaken \/ unread > 1 \/ pc[Main] = "done")
    <3>1. hostOn = (Active(Present) /\ ~off) /\ unread \in {0, 1}
      BY <1>0, <2>1, <2>4
    <3>2. CASE off \/ mode = last
      <4>1. back' = "loop" /\ hostOn = (Active(mode) /\ ~off)
        BY <3>1, <3>2, <1>19 DEF ReadModes
      <4> QED
        BY <2>1, <2>2, <4>1
    <3>3. CASE ~(off \/ mode = last)
      <4>1. back' = "host" /\ applying' = <<last, mode>> /\ ~off
        BY <3>3, <1>19 DEF ReadModes
      <4>2. hostOn = Active(last) \/ hostOn = Active(mode)
        BY <1>0, <3>1, <4>1 DEF Active
      <4> QED
        BY <2>1, <2>2, <4>1, <4>2
    <3> QED
      BY <3>2, <3>3
  <2> QED
    BY <2>3, <2>4
<1>20. ASSUME Decide PROVE HostInv'
  BY <1>0, <1>20 DEF Decide
<1>21. ASSUME OpenPool PROVE HostInv'
  BY <1>0, <1>21 DEF OpenPool
<1>22. ASSUME Start PROVE HostInv'
  BY <1>0, <1>22 DEF Start
<1>23. ASSUME Flush PROVE HostInv'
  BY <1>0, <1>23 DEF Flush, FlushTail
<1>24. ASSUME Stop PROVE HostInv'
  BY <1>0, <1>24 DEF Stop
<1>25. ASSUME ApplyHost PROVE HostInv'
  <2>1. /\ UNCHANGED <<mode, last, pc, owed, unread, overtaken>>
        /\ cpc = "host" /\ back = "host" /\ back' = "loop"
    BY <1>25 DEF BackInv, ApplyHost
  <2>2. CASE overtaken \/ unread > 1 \/ pc[Main] = "done"
    BY <2>1, <2>2
  <2>3. CASE ~(overtaken \/ unread > 1 \/ pc[Main] = "done")
    <3> DEFINE from == applying[1]
               to == applying[2]
    <3>1. /\ to = Present /\ ~off
          /\ hostOn = Active(from) \/ hostOn = Active(to)
      BY <2>1, <2>3
    <3>2. hostOn' = CallbacksAfter(from, to) /\ off' = (to = "OFF")
      BY <3>1, <1>25 DEF ApplyHost
    <3>3. to \in Modes
      BY DEF TypeInv, ControlTypes
    <3>4. hostOn' = (Active(to) /\ ~off')
      <4>1. CASE to \in {"OFF", "STANDBY"}
        BY <1>0, <3>1, <3>2, <4>1 DEF CallbacksAfter, Active
      <4>2. CASE to \in {"MONITORING", "TRACING"}
        BY <1>0, <3>1, <3>2, <4>2 DEF CallbacksAfter, Active
      <4> QED
        BY <3>3, <4>1, <4>2 DEF Modes
    <3> QED
      BY <2>1, <3>1, <3>4
  <2> QED
    BY <2>2, <2>3
<1>26. ASSUME FiniBegin PROVE HostInv'
  BY <1>0, <1>26 DEF FiniBegin, Goto
<1>27. ASSUME FiniFlush PROVE HostInv'
  BY <1>0, <1>27 DEF FiniFlush, Goto
<1>28. ASSUME FiniDisable PROVE HostInv'
  BY <1>0, <1>28 DEF FiniDisable, Goto
<1>29. ASSUME FiniClose PROVE HostInv'
  BY <1>0, <1>29 DEF FiniClose, Goto
<1>30. ASSUME FiniEnd PROVE HostInv'
  BY <1>0, <1>30 DEF FiniEnd, Goto
<1>31. ASSUME ControlStop PROVE HostInv'
  BY <1>0, <1>31 DEF ControlStop
<1>32. CASE UNCHANGED vars
  BY <1>0, <1>32 DEF vars
<1> QED
  BY <1>1, <1>2, <1>3, <1>4, <1>5, <1>6, <1>7, <1>8, <1>9, <1>10, <1>11,
     <1>12, <1>13, <1>14, <1>15, <1>16, <1>17, <1>18, <1>19, <1>20, <1>21, <1>22,
     <1>23, <1>24, <1>25, <1>26, <1>27, <1>28, <1>29, <1>30, <1>31, <1>32 DEF Next, Done

-----------------------------------------------------------------------------
(***************************************************************************)
(* The collection.                                                         *)
(***************************************************************************)
LEMMA QuietStep ==
    ASSUME TypeInv, ~(raced' \/ Ending'), [Next]_vars
    PROVE  ~(raced \/ Ending)
<1> USE DEF Ending, RuntimeTypes, domainVars, wakeVars, runtimeVars, stateVars,
            threadVars, controlVars, ghostVars
<1>0. /\ pc \in [Threads -> Pcs] /\ Main \in Threads /\ RuntimeTypes
      /\ mode \in Modes /\ policy \in Policies /\ mine \in BOOLEAN
      /\ missed \in BOOLEAN /\ raced \in BOOLEAN /\ failed \in BOOLEAN
      /\ back \in {"loop", "host"} /\ vendor \in {"HIP", "CUDA"}
  BY GpuAssumption DEF TypeInv, ThreadTypes, GhostTypes, ControlTypes, DomainTypes
<1>1. ASSUME NEW t \in Threads, NEW a \in Actions, Fire(t, a) PROVE ~(raced \/ Ending)
  BY <1>0, <1>1 DEF Fire, StoreMode, Disturbs, Races, Goto
<1>2. ASSUME NEW t \in Threads, FirePost(t) PROVE ~(raced \/ Ending)
  BY <1>0, <1>2 DEF FirePost, Goto
<1>3. ASSUME NEW t \in Threads, Launch(t) PROVE ~(raced \/ Ending)
  BY <1>0, <1>3 DEF Launch
<1>4. ASSUME NEW t \in Threads, InitOnce(t) PROVE ~(raced \/ Ending)
  BY <1>0, <1>4 DEF InitOnce, Goto
<1>5. ASSUME NEW t \in Threads, InitDecide(t) PROVE ~(raced \/ Ending)
  BY <1>0, <1>5 DEF InitDecide, Goto
<1>6. ASSUME NEW t \in Threads, InitEnable(t) PROVE ~(raced \/ Ending)
  BY <1>0, <1>6 DEF InitEnable, Goto
<1>7. ASSUME NEW t \in Threads, InitStart(t) PROVE ~(raced \/ Ending)
  BY <1>0, <1>7 DEF InitStart, Goto
<1>8. ASSUME NEW t \in Threads, ResetBegin(t) PROVE ~(raced \/ Ending)
  BY <1>0, <1>8 DEF ResetBegin, Goto
<1>9. ASSUME NEW t \in Threads, ResetFlush(t) PROVE ~(raced \/ Ending)
  BY <1>0, <1>9 DEF ResetFlush, Goto
<1>10. ASSUME Signal PROVE ~(raced \/ Ending)
  BY <1>0, <1>10 DEF Signal
<1>11. ASSUME Boundary PROVE ~(raced \/ Ending)
  BY <1>0, <1>11 DEF Boundary, Races
<1>12. ASSUME BufferFull PROVE ~(raced \/ Ending)
  BY <1>0, <1>12 DEF BufferFull
<1>13. ASSUME NEW i \in DOMAIN ops, Complete(i) PROVE ~(raced \/ Ending)
  BY <1>0, <1>13 DEF Complete
<1>14. ASSUME Sleep PROVE ~(raced \/ Ending)
  BY <1>0, <1>14 DEF Sleep
<1>15. ASSUME Wake PROVE ~(raced \/ Ending)
  BY <1>0, <1>15 DEF Wake
<1>16. ASSUME WakeAtBoundary PROVE ~(raced \/ Ending)
  BY <1>0, <1>16 DEF WakeAtBoundary
<1>17. ASSUME Reload PROVE ~(raced \/ Ending)
  BY <1>0, <1>17 DEF Reload, Disturbs, Races
<1>18. ASSUME WindowEnd PROVE ~(raced \/ Ending)
  BY <1>0, <1>18 DEF WindowEnd, Disturbs, Races
<1>19. ASSUME ReadModes PROVE ~(raced \/ Ending)
  BY <1>0, <1>19 DEF ReadModes, AfterApplyMode
<1>20. ASSUME Decide PROVE ~(raced \/ Ending)
  BY <1>0, <1>20 DEF Decide
<1>21. ASSUME OpenPool PROVE ~(raced \/ Ending)
  BY <1>0, <1>21 DEF OpenPool
<1>22. ASSUME Start PROVE ~(raced \/ Ending)
  BY <1>0, <1>22 DEF Start
<1>23. ASSUME Flush PROVE ~(raced \/ Ending)
  BY <1>0, <1>23 DEF Flush, FlushTail
<1>24. ASSUME Stop PROVE ~(raced \/ Ending)
  BY <1>0, <1>24 DEF Stop
<1>25. ASSUME ApplyHost PROVE ~(raced \/ Ending)
  BY <1>0, <1>25 DEF ApplyHost, AfterApplyMode
<1>26. ASSUME FiniBegin PROVE ~(raced \/ Ending)
  BY <1>0, <1>26 DEF FiniBegin, Goto
<1>27. ASSUME FiniFlush PROVE ~(raced \/ Ending)
  BY <1>0, <1>27 DEF FiniFlush, Goto
<1>28. ASSUME FiniDisable PROVE ~(raced \/ Ending)
  BY <1>0, <1>28 DEF FiniDisable, Goto
<1>29. ASSUME FiniClose PROVE ~(raced \/ Ending)
  BY <1>0, <1>29 DEF FiniClose, Goto
<1>30. ASSUME FiniEnd PROVE ~(raced \/ Ending)
  BY <1>0, <1>30 DEF FiniEnd, Goto
<1>31. ASSUME ControlStop PROVE ~(raced \/ Ending)
  BY <1>0, <1>31 DEF ControlStop
<1>32. CASE UNCHANGED vars
  BY <1>0, <1>32 DEF vars
<1> QED
  BY <1>1, <1>2, <1>3, <1>4, <1>5, <1>6, <1>7, <1>8, <1>9, <1>10, <1>11,
     <1>12, <1>13, <1>14, <1>15, <1>16, <1>17, <1>18, <1>19, <1>20, <1>21, <1>22,
     <1>23, <1>24, <1>25, <1>26, <1>27, <1>28, <1>29, <1>30, <1>31, <1>32 DEF Next, Done

LEMMA BaseStep ==
    ASSUME TypeInv, BackInv, CollectBase, [Next]_vars
    PROVE  CollectBase'
<1> USE DEF CollectBase, Changing, InInit, Ending, RuntimeTypes, Cuda, Hip, domainVars,
            wakeVars, runtimeVars, stateVars, threadVars, controlVars, ghostVars
<1>0. /\ pc \in [Threads -> Pcs] /\ Main \in Threads /\ RuntimeTypes
      /\ mode \in Modes /\ policy \in Policies /\ mine \in BOOLEAN
      /\ missed \in BOOLEAN /\ raced \in BOOLEAN /\ failed \in BOOLEAN
      /\ back \in {"loop", "host"} /\ vendor \in {"HIP", "CUDA"}
  BY GpuAssumption DEF TypeInv, ThreadTypes, GhostTypes, ControlTypes, DomainTypes
<1>1. ASSUME NEW t \in Threads, NEW a \in Actions, Fire(t, a) PROVE CollectBase'
  BY <1>0, <1>1 DEF Fire, Goto
<1>2. ASSUME NEW t \in Threads, FirePost(t) PROVE CollectBase'
  BY <1>0, <1>2 DEF FirePost, Goto
<1>3. ASSUME NEW t \in Threads, Launch(t) PROVE CollectBase'
  BY <1>0, <1>3 DEF Launch
<1>4. ASSUME NEW t \in Threads, InitOnce(t) PROVE CollectBase'
  BY <1>0, <1>4 DEF InitOnce, Goto
<1>5. ASSUME NEW t \in Threads, InitDecide(t) PROVE CollectBase'
  BY <1>0, <1>5 DEF InitDecide, Goto
<1>6. ASSUME NEW t \in Threads, InitEnable(t) PROVE CollectBase'
  BY <1>0, <1>6 DEF InitEnable, Goto
<1>7. ASSUME NEW t \in Threads, InitStart(t) PROVE CollectBase'
  BY <1>0, <1>7 DEF InitStart, Goto
<1>8. ASSUME NEW t \in Threads, ResetBegin(t) PROVE CollectBase'
  BY <1>0, <1>8 DEF ResetBegin, Goto
<1>9. ASSUME NEW t \in Threads, ResetFlush(t) PROVE CollectBase'
  BY <1>0, <1>9 DEF ResetFlush, Goto
<1>10. ASSUME Signal PROVE CollectBase'
  BY <1>0, <1>10 DEF Signal
<1>11. ASSUME Boundary PROVE CollectBase'
  BY <1>0, <1>11 DEF Boundary
<1>12. ASSUME BufferFull PROVE CollectBase'
  BY <1>0, <1>12 DEF BufferFull
<1>13. ASSUME NEW i \in DOMAIN ops, Complete(i) PROVE CollectBase'
  BY <1>0, <1>13 DEF Complete
<1>14. ASSUME Sleep PROVE CollectBase'
  BY <1>0, <1>14 DEF Sleep
<1>15. ASSUME Wake PROVE CollectBase'
  BY <1>0, <1>15 DEF Wake
<1>16. ASSUME WakeAtBoundary PROVE CollectBase'
  BY <1>0, <1>16 DEF WakeAtBoundary
<1>17. ASSUME Reload PROVE CollectBase'
  BY <1>0, <1>17 DEF Reload
<1>18. ASSUME WindowEnd PROVE CollectBase'
  BY <1>0, <1>18 DEF WindowEnd
<1>19. ASSUME ReadModes PROVE CollectBase'
  BY <1>0, <1>19 DEF ReadModes, AfterApplyMode
<1>20. ASSUME Decide PROVE CollectBase'
  BY <1>0, <1>20 DEF Decide
<1>21. ASSUME OpenPool PROVE CollectBase'
  BY <1>0, <1>21 DEF OpenPool
<1>22. ASSUME Start PROVE CollectBase'
  BY <1>0, <1>22 DEF Start
<1>23. ASSUME Flush PROVE CollectBase'
  BY <1>0, <1>23 DEF Flush, FlushTail
<1>24. ASSUME Stop PROVE CollectBase'
  BY <1>0, <1>24 DEF Stop
<1>25. ASSUME ApplyHost PROVE CollectBase'
  BY <1>0, <1>25 DEF ApplyHost, AfterApplyMode
<1>26. ASSUME FiniBegin PROVE CollectBase'
  BY <1>0, <1>26 DEF FiniBegin, Goto
<1>27. ASSUME FiniFlush PROVE CollectBase'
  BY <1>0, <1>27 DEF FiniFlush, Goto
<1>28. ASSUME FiniDisable PROVE CollectBase'
  BY <1>0, <1>28 DEF FiniDisable, Goto
<1>29. ASSUME FiniClose PROVE CollectBase'
  BY <1>0, <1>29 DEF FiniClose, Goto
<1>30. ASSUME FiniEnd PROVE CollectBase'
  BY <1>0, <1>30 DEF FiniEnd, Goto
<1>31. ASSUME ControlStop PROVE CollectBase'
  BY <1>0, <1>31 DEF ControlStop
<1>32. CASE UNCHANGED vars
  BY <1>0, <1>32 DEF vars
<1> QED
  BY <1>1, <1>2, <1>3, <1>4, <1>5, <1>6, <1>7, <1>8, <1>9, <1>10, <1>11,
     <1>12, <1>13, <1>14, <1>15, <1>16, <1>17, <1>18, <1>19, <1>20, <1>21, <1>22,
     <1>23, <1>24, <1>25, <1>26, <1>27, <1>28, <1>29, <1>30, <1>31, <1>32 DEF Next, Done

LEMMA TurnsOffStep ==
    ASSUME TypeInv, BackInv, CollectBase, TurnsOffInv, InitInv, ~(raced \/ Ending),
           ~(raced' \/ Ending'), [Next]_vars
    PROVE  TurnsOffInv'
<1> USE DEF TurnsOffInv, Changing, InInit, TurnsOff, RuntimeTypes, Cuda, Hip, domainVars,
            wakeVars, runtimeVars, stateVars, threadVars, controlVars, ghostVars
<1>0. /\ pc \in [Threads -> Pcs] /\ Main \in Threads /\ RuntimeTypes
      /\ mode \in Modes /\ policy \in Policies /\ mine \in BOOLEAN
      /\ missed \in BOOLEAN /\ raced \in BOOLEAN /\ failed \in BOOLEAN
      /\ back \in {"loop", "host"} /\ vendor \in {"HIP", "CUDA"}
  BY GpuAssumption DEF TypeInv, ThreadTypes, GhostTypes, ControlTypes, DomainTypes
<1>a. UNCHANGED <<mode, policy, mine>> => Decision' = Decision
  BY DEF Decision
<1>b. Decision \in BOOLEAN /\ Decision' \in BOOLEAN
  BY DEF Decision
<1>1. ASSUME NEW t \in Threads, NEW a \in Actions, Fire(t, a) PROVE TurnsOffInv'
  BY <1>0, <1>a, <1>b, <1>1 DEF Fire, StoreMode, SwitchDue, Disturbs, Races, Goto
<1>2. ASSUME NEW t \in Threads, FirePost(t) PROVE TurnsOffInv'
  BY <1>0, <1>a, <1>b, <1>2 DEF FirePost, Goto
<1>3. ASSUME NEW t \in Threads, Launch(t) PROVE TurnsOffInv'
  BY <1>0, <1>a, <1>b, <1>3 DEF Launch
<1>4. ASSUME NEW t \in Threads, InitOnce(t) PROVE TurnsOffInv'
  BY <1>0, <1>a, <1>b, <1>4 DEF BackInv, InitOnce, Goto
<1>5. ASSUME NEW t \in Threads, InitDecide(t) PROVE TurnsOffInv'
  BY <1>0, <1>a, <1>b, <1>5 DEF InitDecide, Goto
<1>6. ASSUME NEW t \in Threads, InitEnable(t) PROVE TurnsOffInv'
  BY <1>0, <1>a, <1>b, <1>6 DEF InitEnable, Goto
<1>7. ASSUME NEW t \in Threads, InitStart(t) PROVE TurnsOffInv'
  BY <1>0, <1>a, <1>b, <1>7 DEF InitInv, InitStart, Goto
<1>8. ASSUME NEW t \in Threads, ResetBegin(t) PROVE TurnsOffInv'
  BY <1>0, <1>a, <1>b, <1>8 DEF ResetBegin, Goto
<1>9. ASSUME NEW t \in Threads, ResetFlush(t) PROVE TurnsOffInv'
  BY <1>0, <1>a, <1>b, <1>9 DEF ResetFlush, Goto
<1>10. ASSUME Signal PROVE TurnsOffInv'
  BY <1>0, <1>a, <1>b, <1>10 DEF Signal
<1>11. ASSUME Boundary PROVE TurnsOffInv'
  BY <1>0, <1>a, <1>b, <1>11 DEF Boundary, Races
<1>12. ASSUME BufferFull PROVE TurnsOffInv'
  BY <1>0, <1>a, <1>b, <1>12 DEF BufferFull
<1>13. ASSUME NEW i \in DOMAIN ops, Complete(i) PROVE TurnsOffInv'
  BY <1>0, <1>a, <1>b, <1>13 DEF Complete
<1>14. ASSUME Sleep PROVE TurnsOffInv'
  BY <1>0, <1>a, <1>b, <1>14 DEF Sleep
<1>15. ASSUME Wake PROVE TurnsOffInv'
  BY <1>0, <1>a, <1>b, <1>15 DEF Wake
<1>16. ASSUME WakeAtBoundary PROVE TurnsOffInv'
  BY <1>0, <1>a, <1>b, <1>16 DEF WakeAtBoundary
<1>17. ASSUME Reload PROVE TurnsOffInv'
  BY <1>0, <1>a, <1>b, <1>17 DEF Reload, Disturbs, Races
<1>18. ASSUME WindowEnd PROVE TurnsOffInv'
  BY <1>0, <1>a, <1>b, <1>18 DEF WindowEnd, SwitchDue, Disturbs, Races
<1>19. ASSUME ReadModes PROVE TurnsOffInv'
  BY <1>0, <1>a, <1>b, <1>19 DEF BackInv, Decision, ReadModes, AfterApplyMode
<1>20. ASSUME Decide PROVE TurnsOffInv'
  BY <1>0, <1>a, <1>b, <1>20 DEF BackInv, CollectBase, Decide
<1>21. ASSUME OpenPool PROVE TurnsOffInv'
  BY <1>0, <1>a, <1>b, <1>21 DEF OpenPool
<1>22. ASSUME Start PROVE TurnsOffInv'
  BY <1>0, <1>a, <1>b, <1>22 DEF Start
<1>23. ASSUME Flush PROVE TurnsOffInv'
  BY <1>0, <1>a, <1>b, <1>23 DEF Flush, FlushTail
<1>24. ASSUME Stop PROVE TurnsOffInv'
  BY <1>0, <1>a, <1>b, <1>24 DEF Stop
<1>25. ASSUME ApplyHost PROVE TurnsOffInv'
  BY <1>0, <1>a, <1>b, <1>25 DEF BackInv, ApplyHost, AfterApplyMode, CallbacksAfter
<1>26. ASSUME FiniBegin PROVE TurnsOffInv'
  BY <1>0, <1>a, <1>b, <1>26 DEF FiniBegin, Goto
<1>27. ASSUME FiniFlush PROVE TurnsOffInv'
  BY <1>0, <1>a, <1>b, <1>27 DEF FiniFlush, Goto
<1>28. ASSUME FiniDisable PROVE TurnsOffInv'
  BY <1>0, <1>a, <1>b, <1>28 DEF FiniDisable, Goto
<1>29. ASSUME FiniClose PROVE TurnsOffInv'
  BY <1>0, <1>a, <1>b, <1>29 DEF FiniClose, Goto
<1>30. ASSUME FiniEnd PROVE TurnsOffInv'
  BY <1>0, <1>a, <1>b, <1>30 DEF Ending, FiniEnd, Goto
<1>31. ASSUME ControlStop PROVE TurnsOffInv'
  BY <1>0, <1>a, <1>b, <1>31 DEF ControlStop
<1>32. CASE UNCHANGED vars
  BY <1>0, <1>a, <1>b, <1>32 DEF vars
<1> QED
  BY <1>1, <1>2, <1>3, <1>4, <1>5, <1>6, <1>7, <1>8, <1>9, <1>10, <1>11,
     <1>12, <1>13, <1>14, <1>15, <1>16, <1>17, <1>18, <1>19, <1>20, <1>21, <1>22,
     <1>23, <1>24, <1>25, <1>26, <1>27, <1>28, <1>29, <1>30, <1>31, <1>32 DEF Next, Done

LEMMA InitStep ==
    ASSUME TypeInv, BackInv, CollectBase, TurnsOffInv, InitInv, ~(raced \/ Ending),
           ~(raced' \/ Ending'), [Next]_vars
    PROVE  InitInv'
<1> USE DEF InitInv, Changing, InInit, TurnsOff, RuntimeTypes, Cuda, Hip, domainVars,
            wakeVars, runtimeVars, stateVars, threadVars, controlVars, ghostVars
<1>0. /\ pc \in [Threads -> Pcs] /\ Main \in Threads /\ RuntimeTypes
      /\ mode \in Modes /\ policy \in Policies /\ mine \in BOOLEAN
      /\ missed \in BOOLEAN /\ raced \in BOOLEAN /\ failed \in BOOLEAN
      /\ back \in {"loop", "host"} /\ vendor \in {"HIP", "CUDA"}
  BY GpuAssumption DEF TypeInv, ThreadTypes, GhostTypes, ControlTypes, DomainTypes
<1>a. UNCHANGED <<mode, policy, mine>> => Decision' = Decision
  BY DEF Decision
<1>b. Decision \in BOOLEAN /\ Decision' \in BOOLEAN
  BY DEF Decision
<1>1. ASSUME NEW t \in Threads, NEW a \in Actions, Fire(t, a) PROVE InitInv'
  BY <1>0, <1>a, <1>b, <1>1 DEF Fire, StoreMode, SwitchDue, Disturbs, Races, Goto
<1>2. ASSUME NEW t \in Threads, FirePost(t) PROVE InitInv'
  BY <1>0, <1>a, <1>b, <1>2 DEF FirePost, Goto
<1>3. ASSUME NEW t \in Threads, Launch(t) PROVE InitInv'
  BY <1>0, <1>a, <1>b, <1>3 DEF Launch
<1>4. ASSUME NEW t \in Threads, InitOnce(t) PROVE InitInv'
  BY <1>0, <1>a, <1>b, <1>4 DEF CollectBase, InitOnce, Goto
<1>5. ASSUME NEW t \in Threads, InitDecide(t) PROVE InitInv'
  BY <1>0, <1>a, <1>b, <1>5 DEF InitDecide, Goto
<1>6. ASSUME NEW t \in Threads, InitEnable(t) PROVE InitInv'
  BY <1>0, <1>a, <1>b, <1>6 DEF InitEnable, Goto
<1>7. ASSUME NEW t \in Threads, InitStart(t) PROVE InitInv'
  BY <1>0, <1>a, <1>b, <1>7 DEF InitStart, Goto
<1>8. ASSUME NEW t \in Threads, ResetBegin(t) PROVE InitInv'
  BY <1>0, <1>a, <1>b, <1>8 DEF ResetBegin, Goto
<1>9. ASSUME NEW t \in Threads, ResetFlush(t) PROVE InitInv'
  BY <1>0, <1>a, <1>b, <1>9 DEF ResetFlush, Goto
<1>10. ASSUME Signal PROVE InitInv'
  BY <1>0, <1>a, <1>b, <1>10 DEF Signal
<1>11. ASSUME Boundary PROVE InitInv'
  BY <1>0, <1>a, <1>b, <1>11 DEF Boundary, Races
<1>12. ASSUME BufferFull PROVE InitInv'
  BY <1>0, <1>a, <1>b, <1>12 DEF BufferFull
<1>13. ASSUME NEW i \in DOMAIN ops, Complete(i) PROVE InitInv'
  BY <1>0, <1>a, <1>b, <1>13 DEF Complete
<1>14. ASSUME Sleep PROVE InitInv'
  BY <1>0, <1>a, <1>b, <1>14 DEF Sleep
<1>15. ASSUME Wake PROVE InitInv'
  BY <1>0, <1>a, <1>b, <1>15 DEF Wake
<1>16. ASSUME WakeAtBoundary PROVE InitInv'
  BY <1>0, <1>a, <1>b, <1>16 DEF WakeAtBoundary
<1>17. ASSUME Reload PROVE InitInv'
  BY <1>0, <1>a, <1>b, <1>17 DEF Reload, Disturbs, Races
<1>18. ASSUME WindowEnd PROVE InitInv'
  BY <1>0, <1>a, <1>b, <1>18 DEF WindowEnd, SwitchDue, Disturbs, Races
<1>19. ASSUME ReadModes PROVE InitInv'
  BY <1>0, <1>a, <1>b, <1>19 DEF ReadModes, AfterApplyMode
<1>20. ASSUME Decide PROVE InitInv'
  BY <1>0, <1>a, <1>b, <1>20 DEF Decide
<1>21. ASSUME OpenPool PROVE InitInv'
  BY <1>0, <1>a, <1>b, <1>21 DEF OpenPool
<1>22. ASSUME Start PROVE InitInv'
  BY <1>0, <1>a, <1>b, <1>22 DEF Start
<1>23. ASSUME Flush PROVE InitInv'
  BY <1>0, <1>a, <1>b, <1>23 DEF Flush, FlushTail
<1>24. ASSUME Stop PROVE InitInv'
  BY <1>0, <1>a, <1>b, <1>24 DEF Stop
<1>25. ASSUME ApplyHost PROVE InitInv'
  BY <1>0, <1>a, <1>b, <1>25 DEF ApplyHost, AfterApplyMode, CallbacksAfter
<1>26. ASSUME FiniBegin PROVE InitInv'
  BY <1>0, <1>a, <1>b, <1>26 DEF FiniBegin, Goto
<1>27. ASSUME FiniFlush PROVE InitInv'
  BY <1>0, <1>a, <1>b, <1>27 DEF FiniFlush, Goto
<1>28. ASSUME FiniDisable PROVE InitInv'
  BY <1>0, <1>a, <1>b, <1>28 DEF FiniDisable, Goto
<1>29. ASSUME FiniClose PROVE InitInv'
  BY <1>0, <1>a, <1>b, <1>29 DEF FiniClose, Goto
<1>30. ASSUME FiniEnd PROVE InitInv'
  BY <1>0, <1>a, <1>b, <1>30 DEF FiniEnd, Goto
<1>31. ASSUME ControlStop PROVE InitInv'
  BY <1>0, <1>a, <1>b, <1>31 DEF ControlStop
<1>32. CASE UNCHANGED vars
  BY <1>0, <1>a, <1>b, <1>32 DEF vars
<1> QED
  BY <1>1, <1>2, <1>3, <1>4, <1>5, <1>6, <1>7, <1>8, <1>9, <1>10, <1>11,
     <1>12, <1>13, <1>14, <1>15, <1>16, <1>17, <1>18, <1>19, <1>20, <1>21, <1>22,
     <1>23, <1>24, <1>25, <1>26, <1>27, <1>28, <1>29, <1>30, <1>31, <1>32 DEF Next, Done

LEMMA GoalStep ==
    ASSUME TypeInv, BackInv, CollectBase, TurnsOffInv, InitInv, ~(raced \/ Ending),
           ~(raced' \/ Ending'), GoalInv, [Next]_vars
    PROVE  GoalInv'
<1> USE DEF GoalInv, Goal, Pending, Changing, InInit, TurnsOff, RuntimeTypes, Cuda, Hip,
            domainVars, wakeVars, runtimeVars, stateVars, threadVars, controlVars,
            ghostVars
<1>0. /\ pc \in [Threads -> Pcs] /\ Main \in Threads /\ RuntimeTypes
      /\ mode \in Modes /\ policy \in Policies /\ mine \in BOOLEAN
      /\ missed \in BOOLEAN /\ raced \in BOOLEAN /\ failed \in BOOLEAN
      /\ back \in {"loop", "host"} /\ vendor \in {"HIP", "CUDA"}
  BY GpuAssumption DEF TypeInv, ThreadTypes, GhostTypes, ControlTypes, DomainTypes
<1>a. UNCHANGED <<mode, policy, mine>> => Decision' = Decision
  BY DEF Decision
<1>b. Decision \in BOOLEAN /\ Decision' \in BOOLEAN
  BY DEF Decision
<1>1. ASSUME NEW t \in Threads, NEW a \in Actions, Fire(t, a) PROVE GoalInv'
  BY <1>0, <1>a, <1>b, <1>1 DEF Fire, StoreMode, SwitchDue, Disturbs, Races, Goto
<1>2. ASSUME NEW t \in Threads, FirePost(t) PROVE GoalInv'
  BY <1>0, <1>a, <1>b, <1>2 DEF FirePost, Goto
<1>3. ASSUME NEW t \in Threads, Launch(t) PROVE GoalInv'
  BY <1>0, <1>a, <1>b, <1>3 DEF Launch
<1>4. ASSUME NEW t \in Threads, InitOnce(t) PROVE GoalInv'
  BY <1>0, <1>a, <1>b, <1>4 DEF InitOnce, Goto
<1>5. ASSUME NEW t \in Threads, InitDecide(t) PROVE GoalInv'
  BY <1>0, <1>a, <1>b, <1>5 DEF InitInv, InitDecide, Goto
<1>6. ASSUME NEW t \in Threads, InitEnable(t) PROVE GoalInv'
  BY <1>0, <1>a, <1>b, <1>6 DEF InitEnable, Goto
<1>7. ASSUME NEW t \in Threads, InitStart(t) PROVE GoalInv'
  BY <1>0, <1>a, <1>b, <1>7 DEF InitInv, TurnsOffInv, CollectBase, InitStart, Goto
<1>8. ASSUME NEW t \in Threads, ResetBegin(t) PROVE GoalInv'
  BY <1>0, <1>a, <1>b, <1>8 DEF ResetBegin, Goto
<1>9. ASSUME NEW t \in Threads, ResetFlush(t) PROVE GoalInv'
  BY <1>0, <1>a, <1>b, <1>9 DEF ResetFlush, Goto
<1>10. ASSUME Signal PROVE GoalInv'
  BY <1>0, <1>a, <1>b, <1>10 DEF Signal
<1>11. ASSUME Boundary PROVE GoalInv'
  BY <1>0, <1>a, <1>b, <1>11 DEF Boundary, Races
<1>12. ASSUME BufferFull PROVE GoalInv'
  BY <1>0, <1>a, <1>b, <1>12 DEF BufferFull
<1>13. ASSUME NEW i \in DOMAIN ops, Complete(i) PROVE GoalInv'
  BY <1>0, <1>a, <1>b, <1>13 DEF Complete
<1>14. ASSUME Sleep PROVE GoalInv'
  BY <1>0, <1>a, <1>b, <1>14 DEF BackInv, Sleep
<1>15. ASSUME Wake PROVE GoalInv'
  BY <1>0, <1>a, <1>b, <1>15 DEF Wake
<1>16. ASSUME WakeAtBoundary PROVE GoalInv'
  BY <1>0, <1>a, <1>b, <1>16 DEF WakeAtBoundary
<1>17. ASSUME Reload PROVE GoalInv'
  BY <1>0, <1>a, <1>b, <1>17 DEF Reload, Disturbs, Races
<1>18. ASSUME WindowEnd PROVE GoalInv'
  BY <1>0, <1>a, <1>b, <1>18 DEF WindowEnd, SwitchDue, Disturbs, Races
<1>19. ASSUME ReadModes PROVE GoalInv'
  BY <1>0, <1>a, <1>b, <1>19 DEF ReadModes, AfterApplyMode
<1>20. ASSUME Decide PROVE GoalInv'
  BY <1>0, <1>a, <1>b, <1>20 DEF BackInv, TurnsOffInv, CollectBase, Decide
<1>21. ASSUME OpenPool PROVE GoalInv'
  BY <1>0, <1>a, <1>b, <1>21 DEF OpenPool
<1>22. ASSUME Start PROVE GoalInv'
  BY <1>0, <1>a, <1>b, <1>22 DEF Start
<1>23. ASSUME Flush PROVE GoalInv'
  BY <1>0, <1>a, <1>b, <1>23 DEF Flush, FlushTail
<1>24. ASSUME Stop PROVE GoalInv'
  BY <1>0, <1>a, <1>b, <1>24 DEF Stop
<1>25. ASSUME ApplyHost PROVE GoalInv'
  BY <1>0, <1>a, <1>b, <1>25 DEF ApplyHost, AfterApplyMode, CallbacksAfter
<1>26. ASSUME FiniBegin PROVE GoalInv'
  BY <1>0, <1>a, <1>b, <1>26 DEF FiniBegin, Goto
<1>27. ASSUME FiniFlush PROVE GoalInv'
  BY <1>0, <1>a, <1>b, <1>27 DEF FiniFlush, Goto
<1>28. ASSUME FiniDisable PROVE GoalInv'
  BY <1>0, <1>a, <1>b, <1>28 DEF FiniDisable, Goto
<1>29. ASSUME FiniClose PROVE GoalInv'
  BY <1>0, <1>a, <1>b, <1>29 DEF FiniClose, Goto
<1>30. ASSUME FiniEnd PROVE GoalInv'
  BY <1>0, <1>a, <1>b, <1>30 DEF Ending, FiniEnd, Goto
<1>31. ASSUME ControlStop PROVE GoalInv'
  BY <1>0, <1>a, <1>b, <1>31 DEF ControlStop
<1>32. CASE UNCHANGED vars
  BY <1>0, <1>a, <1>b, <1>32 DEF vars
<1> QED
  BY <1>1, <1>2, <1>3, <1>4, <1>5, <1>6, <1>7, <1>8, <1>9, <1>10, <1>11,
     <1>12, <1>13, <1>14, <1>15, <1>16, <1>17, <1>18, <1>19, <1>20, <1>21, <1>22,
     <1>23, <1>24, <1>25, <1>26, <1>27, <1>28, <1>29, <1>30, <1>31, <1>32 DEF Next, Done

LEMMA EnabledStep ==
    ASSUME TypeInv, BackInv, CollectBase, TurnsOffInv, InitInv, ~(raced \/ Ending),
           ~(raced' \/ Ending'), EnabledInv, [Next]_vars
    PROVE  EnabledInv'
<1> USE DEF EnabledInv, Changing, InInit, TurnsOff, RuntimeTypes, Cuda, Hip, domainVars,
            wakeVars, runtimeVars, stateVars, threadVars, controlVars, ghostVars
<1>0. /\ pc \in [Threads -> Pcs] /\ Main \in Threads /\ RuntimeTypes
      /\ mode \in Modes /\ policy \in Policies /\ mine \in BOOLEAN
      /\ missed \in BOOLEAN /\ raced \in BOOLEAN /\ failed \in BOOLEAN
      /\ back \in {"loop", "host"} /\ vendor \in {"HIP", "CUDA"}
  BY GpuAssumption DEF TypeInv, ThreadTypes, GhostTypes, ControlTypes, DomainTypes
<1>a. UNCHANGED <<mode, policy, mine>> => Decision' = Decision
  BY DEF Decision
<1>b. Decision \in BOOLEAN /\ Decision' \in BOOLEAN
  BY DEF Decision
<1>1. ASSUME NEW t \in Threads, NEW a \in Actions, Fire(t, a) PROVE EnabledInv'
  BY <1>0, <1>a, <1>b, <1>1 DEF Fire, StoreMode, SwitchDue, Disturbs, Races, Goto
<1>2. ASSUME NEW t \in Threads, FirePost(t) PROVE EnabledInv'
  BY <1>0, <1>a, <1>b, <1>2 DEF FirePost, Goto
<1>3. ASSUME NEW t \in Threads, Launch(t) PROVE EnabledInv'
  BY <1>0, <1>a, <1>b, <1>3 DEF Launch
<1>4. ASSUME NEW t \in Threads, InitOnce(t) PROVE EnabledInv'
  BY <1>0, <1>a, <1>b, <1>4 DEF InitOnce, Goto
<1>5. ASSUME NEW t \in Threads, InitDecide(t) PROVE EnabledInv'
  BY <1>0, <1>a, <1>b, <1>5 DEF InitDecide, Goto
<1>6. ASSUME NEW t \in Threads, InitEnable(t) PROVE EnabledInv'
  BY <1>0, <1>a, <1>b, <1>6 DEF InitEnable, Goto
<1>7. ASSUME NEW t \in Threads, InitStart(t) PROVE EnabledInv'
  BY <1>0, <1>a, <1>b, <1>7 DEF InitStart, Goto
<1>8. ASSUME NEW t \in Threads, ResetBegin(t) PROVE EnabledInv'
  BY <1>0, <1>a, <1>b, <1>8 DEF ResetBegin, Goto
<1>9. ASSUME NEW t \in Threads, ResetFlush(t) PROVE EnabledInv'
  BY <1>0, <1>a, <1>b, <1>9 DEF ResetFlush, Goto
<1>10. ASSUME Signal PROVE EnabledInv'
  BY <1>0, <1>a, <1>b, <1>10 DEF Signal
<1>11. ASSUME Boundary PROVE EnabledInv'
  BY <1>0, <1>a, <1>b, <1>11 DEF Boundary, Races
<1>12. ASSUME BufferFull PROVE EnabledInv'
  BY <1>0, <1>a, <1>b, <1>12 DEF BufferFull
<1>13. ASSUME NEW i \in DOMAIN ops, Complete(i) PROVE EnabledInv'
  BY <1>0, <1>a, <1>b, <1>13 DEF Complete
<1>14. ASSUME Sleep PROVE EnabledInv'
  BY <1>0, <1>a, <1>b, <1>14 DEF Sleep
<1>15. ASSUME Wake PROVE EnabledInv'
  BY <1>0, <1>a, <1>b, <1>15 DEF Wake
<1>16. ASSUME WakeAtBoundary PROVE EnabledInv'
  BY <1>0, <1>a, <1>b, <1>16 DEF WakeAtBoundary
<1>17. ASSUME Reload PROVE EnabledInv'
  BY <1>0, <1>a, <1>b, <1>17 DEF Reload, Disturbs, Races
<1>18. ASSUME WindowEnd PROVE EnabledInv'
  BY <1>0, <1>a, <1>b, <1>18 DEF WindowEnd, SwitchDue, Disturbs, Races
<1>19. ASSUME ReadModes PROVE EnabledInv'
  BY <1>0, <1>a, <1>b, <1>19 DEF ReadModes, AfterApplyMode
<1>20. ASSUME Decide PROVE EnabledInv'
  BY <1>0, <1>a, <1>b, <1>20 DEF Decide
<1>21. ASSUME OpenPool PROVE EnabledInv'
  BY <1>0, <1>a, <1>b, <1>21 DEF OpenPool
<1>22. ASSUME Start PROVE EnabledInv'
  BY <1>0, <1>a, <1>b, <1>22 DEF Start
<1>23. ASSUME Flush PROVE EnabledInv'
  BY <1>0, <1>a, <1>b, <1>23 DEF Flush, FlushTail
<1>24. ASSUME Stop PROVE EnabledInv'
  BY <1>0, <1>a, <1>b, <1>24 DEF InitInv, Stop
<1>25. ASSUME ApplyHost PROVE EnabledInv'
  BY <1>0, <1>a, <1>b, <1>25 DEF ApplyHost, AfterApplyMode, CallbacksAfter
<1>26. ASSUME FiniBegin PROVE EnabledInv'
  BY <1>0, <1>a, <1>b, <1>26 DEF FiniBegin, Goto
<1>27. ASSUME FiniFlush PROVE EnabledInv'
  BY <1>0, <1>a, <1>b, <1>27 DEF FiniFlush, Goto
<1>28. ASSUME FiniDisable PROVE EnabledInv'
  BY <1>0, <1>a, <1>b, <1>28 DEF Ending, FiniDisable, Goto
<1>29. ASSUME FiniClose PROVE EnabledInv'
  BY <1>0, <1>a, <1>b, <1>29 DEF FiniClose, Goto
<1>30. ASSUME FiniEnd PROVE EnabledInv'
  BY <1>0, <1>a, <1>b, <1>30 DEF FiniEnd, Goto
<1>31. ASSUME ControlStop PROVE EnabledInv'
  BY <1>0, <1>a, <1>b, <1>31 DEF ControlStop
<1>32. CASE UNCHANGED vars
  BY <1>0, <1>a, <1>b, <1>32 DEF vars
<1> QED
  BY <1>1, <1>2, <1>3, <1>4, <1>5, <1>6, <1>7, <1>8, <1>9, <1>10, <1>11,
     <1>12, <1>13, <1>14, <1>15, <1>16, <1>17, <1>18, <1>19, <1>20, <1>21, <1>22,
     <1>23, <1>24, <1>25, <1>26, <1>27, <1>28, <1>29, <1>30, <1>31, <1>32 DEF Next, Done

LEMMA CollectStep ==
    ASSUME TypeInv, BackInv, CollectInv, [Next]_vars
    PROVE  CollectInv'
<1>1. CollectBase'
  BY BaseStep DEF CollectInv
<1>2. ASSUME ~(raced' \/ Ending')
      PROVE  (TurnsOffInv /\ InitInv /\ GoalInv /\ EnabledInv)'
  <2>1. ~(raced \/ Ending)
    BY <1>2, QuietStep
  <2>2. CollectBase /\ TurnsOffInv /\ InitInv /\ GoalInv /\ EnabledInv
    BY <2>1 DEF CollectInv
  <2>3. TurnsOffInv' /\ InitInv'
    BY <1>2, <2>1, <2>2, TurnsOffStep, InitStep
  <2>4. GoalInv' /\ EnabledInv'
    BY <1>2, <2>1, <2>2, GoalStep, EnabledStep
  <2> QED
    BY <2>3, <2>4
<1> QED
  BY <1>1, <1>2 DEF CollectInv

-----------------------------------------------------------------------------
(***************************************************************************)
(* The records.                                                            *)
(***************************************************************************)
LEMMA RacedStays ==
    ASSUME TypeInv, ~raced', [Next]_vars
    PROVE  ~raced
<1> USE DEF RuntimeTypes, domainVars, wakeVars, runtimeVars, stateVars, threadVars,
            controlVars, ghostVars
<1>0. /\ pc \in [Threads -> Pcs] /\ Main \in Threads /\ RuntimeTypes
      /\ mode \in Modes /\ policy \in Policies /\ mine \in BOOLEAN
      /\ missed \in BOOLEAN /\ raced \in BOOLEAN /\ failed \in BOOLEAN
      /\ back \in {"loop", "host"} /\ vendor \in {"HIP", "CUDA"}
  BY GpuAssumption DEF TypeInv, ThreadTypes, GhostTypes, ControlTypes, DomainTypes
<1>1. ASSUME NEW t \in Threads, NEW a \in Actions, Fire(t, a) PROVE ~raced
  BY <1>0, <1>1 DEF Fire, StoreMode, Disturbs, Races, Goto
<1>2. ASSUME NEW t \in Threads, FirePost(t) PROVE ~raced
  BY <1>0, <1>2 DEF FirePost, Goto
<1>3. ASSUME NEW t \in Threads, Launch(t) PROVE ~raced
  BY <1>0, <1>3 DEF Launch
<1>4. ASSUME NEW t \in Threads, InitOnce(t) PROVE ~raced
  BY <1>0, <1>4 DEF InitOnce, Goto
<1>5. ASSUME NEW t \in Threads, InitDecide(t) PROVE ~raced
  BY <1>0, <1>5 DEF InitDecide, Goto
<1>6. ASSUME NEW t \in Threads, InitEnable(t) PROVE ~raced
  BY <1>0, <1>6 DEF InitEnable, Goto
<1>7. ASSUME NEW t \in Threads, InitStart(t) PROVE ~raced
  BY <1>0, <1>7 DEF InitStart, Goto
<1>8. ASSUME NEW t \in Threads, ResetBegin(t) PROVE ~raced
  BY <1>0, <1>8 DEF ResetBegin, Goto
<1>9. ASSUME NEW t \in Threads, ResetFlush(t) PROVE ~raced
  BY <1>0, <1>9 DEF ResetFlush, Goto
<1>10. ASSUME Signal PROVE ~raced
  BY <1>0, <1>10 DEF Signal
<1>11. ASSUME Boundary PROVE ~raced
  BY <1>0, <1>11 DEF Boundary, Races
<1>12. ASSUME BufferFull PROVE ~raced
  BY <1>0, <1>12 DEF BufferFull
<1>13. ASSUME NEW i \in DOMAIN ops, Complete(i) PROVE ~raced
  BY <1>0, <1>13 DEF Complete
<1>14. ASSUME Sleep PROVE ~raced
  BY <1>0, <1>14 DEF Sleep
<1>15. ASSUME Wake PROVE ~raced
  BY <1>0, <1>15 DEF Wake
<1>16. ASSUME WakeAtBoundary PROVE ~raced
  BY <1>0, <1>16 DEF WakeAtBoundary
<1>17. ASSUME Reload PROVE ~raced
  BY <1>0, <1>17 DEF Reload, Disturbs, Races
<1>18. ASSUME WindowEnd PROVE ~raced
  BY <1>0, <1>18 DEF WindowEnd, Disturbs, Races
<1>19. ASSUME ReadModes PROVE ~raced
  BY <1>0, <1>19 DEF ReadModes, AfterApplyMode
<1>20. ASSUME Decide PROVE ~raced
  BY <1>0, <1>20 DEF Decide
<1>21. ASSUME OpenPool PROVE ~raced
  BY <1>0, <1>21 DEF OpenPool
<1>22. ASSUME Start PROVE ~raced
  BY <1>0, <1>22 DEF Start
<1>23. ASSUME Flush PROVE ~raced
  BY <1>0, <1>23 DEF Flush, FlushTail
<1>24. ASSUME Stop PROVE ~raced
  BY <1>0, <1>24 DEF Stop
<1>25. ASSUME ApplyHost PROVE ~raced
  BY <1>0, <1>25 DEF ApplyHost, AfterApplyMode
<1>26. ASSUME FiniBegin PROVE ~raced
  BY <1>0, <1>26 DEF FiniBegin, Goto
<1>27. ASSUME FiniFlush PROVE ~raced
  BY <1>0, <1>27 DEF FiniFlush, Goto
<1>28. ASSUME FiniDisable PROVE ~raced
  BY <1>0, <1>28 DEF FiniDisable, Goto
<1>29. ASSUME FiniClose PROVE ~raced
  BY <1>0, <1>29 DEF FiniClose, Goto
<1>30. ASSUME FiniEnd PROVE ~raced
  BY <1>0, <1>30 DEF FiniEnd, Goto
<1>31. ASSUME ControlStop PROVE ~raced
  BY <1>0, <1>31 DEF ControlStop
<1>32. CASE UNCHANGED vars
  BY <1>0, <1>32 DEF vars
<1> QED
  BY <1>1, <1>2, <1>3, <1>4, <1>5, <1>6, <1>7, <1>8, <1>9, <1>10, <1>11,
     <1>12, <1>13, <1>14, <1>15, <1>16, <1>17, <1>18, <1>19, <1>20, <1>21, <1>22,
     <1>23, <1>24, <1>25, <1>26, <1>27, <1>28, <1>29, <1>30, <1>31, <1>32 DEF Next, Done

LEMMA DeliveredKept ==
    ASSUME ops \in Seq(Ops), NEW e \in BOOLEAN, NoneDropped, NoneLeft \/ e,
           ops' = Delivered(e)
    PROVE  NoneDropped' /\ NoneLeft'
<1>1. DOMAIN ops' = DOMAIN ops
  BY DeliveredOps
<1>2. ASSUME NEW i \in DOMAIN ops
      PROVE  ops'[i].is # "buffered" /\ (ops'[i].kept => ops'[i].is # "dropped")
  <2>1. CASE ops[i].is = "buffered"
    <3>1. ops'[i] = [is |-> IF e THEN "emitted" ELSE "dropped", kept |-> ops[i].kept]
      BY <2>1, DeliveredOps
    <3> QED
      BY <2>1, <3>1 DEF NoneLeft
  <2>2. CASE ops[i].is # "buffered"
    <3>1. ops'[i] = ops[i]
      BY <2>2, DeliveredOps
    <3> QED
      BY <2>2, <3>1 DEF NoneDropped
  <2> QED
    BY <2>1, <2>2
<1> QED
  BY <1>1, <1>2 DEF NoneDropped, NoneLeft

LEMMA KeptStep ==
    ASSUME TypeInv, BackInv, CollectInv, KeptInv, [Next]_vars
    PROVE  KeptInv'
<1> USE DEF Emitting, Ending, RuntimeTypes, Hip, Cuda, domainVars, wakeVars, runtimeVars,
            stateVars, threadVars, controlVars, ghostVars
<1>0. /\ pc \in [Threads -> Pcs] /\ Main \in Threads /\ RuntimeTypes
      /\ mode \in Modes /\ policy \in Policies /\ mine \in BOOLEAN
      /\ missed \in BOOLEAN /\ raced \in BOOLEAN /\ failed \in BOOLEAN
      /\ back \in {"loop", "host"} /\ vendor \in {"HIP", "CUDA"}
  BY GpuAssumption DEF TypeInv, ThreadTypes, GhostTypes, ControlTypes, DomainTypes
<1>a. SUFFICES ASSUME ~raced' PROVE (NoneDropped /\ (NoneLeft \/ Emitting))'
  BY DEF KeptInv
<1>b. ~raced /\ NoneDropped /\ (NoneLeft \/ Emitting) /\ ops \in Seq(Ops)
  BY <1>a, RacedStays DEF KeptInv, TypeInv
<1>c. UNCHANGED ops => NoneDropped' /\ (NoneLeft => NoneLeft')
  BY <1>b DEF NoneDropped, NoneLeft
<1>d. ASSUME NEW e \in BOOLEAN, ops' = Delivered(e), NoneLeft \/ e
      PROVE  NoneDropped' /\ NoneLeft'
  BY <1>b, <1>d, DeliveredKept
<1>1. ASSUME NEW t \in Threads, NEW a \in Actions, Fire(t, a)
      PROVE  (NoneDropped /\ (NoneLeft \/ Emitting))'
  BY <1>0, <1>b, <1>c, <1>1 DEF Fire, Goto
<1>2. ASSUME NEW t \in Threads, FirePost(t) PROVE (NoneDropped /\ (NoneLeft \/ Emitting))'
  BY <1>0, <1>b, <1>c, <1>2 DEF FirePost, Goto
<1>3. ASSUME NEW t \in Threads, Launch(t) PROVE (NoneDropped /\ (NoneLeft \/ Emitting))'
  <2>1. ops' = Append(ops, [is |-> "running", kept |-> FALSE])
    BY <1>3 DEF Launch
  <2>2. /\ DOMAIN ops' = DOMAIN ops \cup {Len(ops) + 1}
        /\ \A i \in DOMAIN ops : ops'[i] = ops[i]
        /\ ops'[Len(ops) + 1] = [is |-> "running", kept |-> FALSE]
    BY <1>b, <2>1
  <2>3. NoneDropped' /\ (NoneLeft => NoneLeft')
    BY <1>b, <2>2 DEF NoneDropped, NoneLeft
  <2> QED
    BY <1>0, <1>b, <1>3, <2>3 DEF Launch
<1>4. ASSUME NEW t \in Threads, InitOnce(t) PROVE (NoneDropped /\ (NoneLeft \/ Emitting))'
  BY <1>0, <1>b, <1>c, <1>4 DEF InitOnce, Goto
<1>5. ASSUME NEW t \in Threads, InitDecide(t)
      PROVE  (NoneDropped /\ (NoneLeft \/ Emitting))'
  BY <1>0, <1>b, <1>c, <1>5 DEF InitDecide, Goto
<1>6. ASSUME NEW t \in Threads, InitEnable(t)
      PROVE  (NoneDropped /\ (NoneLeft \/ Emitting))'
  BY <1>0, <1>b, <1>c, <1>6 DEF InitEnable, Goto
<1>7. ASSUME NEW t \in Threads, InitStart(t)
      PROVE  (NoneDropped /\ (NoneLeft \/ Emitting))'
  BY <1>0, <1>b, <1>c, <1>7 DEF InitStart, Goto
<1>8. ASSUME NEW t \in Threads, ResetBegin(t)
      PROVE  (NoneDropped /\ (NoneLeft \/ Emitting))'
  BY <1>0, <1>b, <1>c, <1>8 DEF ResetBegin, Goto
<1>9. ASSUME NEW t \in Threads, ResetFlush(t)
      PROVE  (NoneDropped /\ (NoneLeft \/ Emitting))'
  BY <1>0, <1>b, <1>d, <1>9 DEF ResetFlush, Goto
<1>10. ASSUME Signal PROVE (NoneDropped /\ (NoneLeft \/ Emitting))'
  BY <1>0, <1>b, <1>c, <1>10 DEF Signal
<1>11. ASSUME Boundary PROVE (NoneDropped /\ (NoneLeft \/ Emitting))'
  BY <1>0, <1>b, <1>c, <1>11 DEF Boundary
<1>12. ASSUME BufferFull PROVE (NoneDropped /\ (NoneLeft \/ Emitting))'
  BY <1>0, <1>b, <1>d, <1>12 DEF BufferFull
<1>13. ASSUME NEW i \in DOMAIN ops, Complete(i)
       PROVE  (NoneDropped /\ (NoneLeft \/ Emitting))'
  <2>1. DOMAIN ops' = DOMAIN ops /\ \A j \in DOMAIN ops \ {i} : ops'[j] = ops[j]
    BY <1>13 DEF Complete
  <2>2. ops'[i] = [is |-> IF enabled THEN "buffered" ELSE "unseen", kept |-> Steady]
    BY <1>13 DEF Complete
  <2>3. NoneDropped'
    BY <1>b, <2>1, <2>2 DEF NoneDropped
  <2>4. Emitting' = Emitting
    BY <1>13 DEF Complete
  <2>5. CASE Steady /\ enabled
    <3>1. emit /\ cpc # "stop" /\ ~Ending
      BY <2>5 DEF Steady, Finalizing
    <3>2. Hip => pool
      BY <1>0, <2>5, <3>1 DEF CollectInv, CollectBase
    <3> QED
      BY <2>3, <2>4, <3>1, <3>2
  <2>6. CASE ~(Steady /\ enabled)
    <3>1. NoneLeft => NoneLeft'
      BY <2>1, <2>2, <2>6 DEF NoneLeft
    <3> QED
      BY <1>b, <2>3, <2>4, <3>1
  <2> QED
    BY <2>5, <2>6
<1>14. ASSUME Sleep PROVE (NoneDropped /\ (NoneLeft \/ Emitting))'
  BY <1>0, <1>b, <1>c, <1>14 DEF Sleep
<1>15. ASSUME Wake PROVE (NoneDropped /\ (NoneLeft \/ Emitting))'
  BY <1>0, <1>b, <1>c, <1>15 DEF Wake
<1>16. ASSUME WakeAtBoundary PROVE (NoneDropped /\ (NoneLeft \/ Emitting))'
  BY <1>0, <1>b, <1>c, <1>16 DEF WakeAtBoundary
<1>17. ASSUME Reload PROVE (NoneDropped /\ (NoneLeft \/ Emitting))'
  BY <1>0, <1>b, <1>c, <1>17 DEF Reload
<1>18. ASSUME WindowEnd PROVE (NoneDropped /\ (NoneLeft \/ Emitting))'
  BY <1>0, <1>b, <1>c, <1>18 DEF WindowEnd
<1>19. ASSUME ReadModes PROVE (NoneDropped /\ (NoneLeft \/ Emitting))'
  BY <1>0, <1>b, <1>c, <1>19 DEF ReadModes, AfterApplyMode
<1>20. ASSUME Decide PROVE (NoneDropped /\ (NoneLeft \/ Emitting))'
  BY <1>0, <1>b, <1>c, <1>20 DEF Decide
<1>21. ASSUME OpenPool PROVE (NoneDropped /\ (NoneLeft \/ Emitting))'
  BY <1>0, <1>b, <1>c, <1>21 DEF OpenPool
<1>22. ASSUME Start PROVE (NoneDropped /\ (NoneLeft \/ Emitting))'
  BY <1>0, <1>b, <1>c, <1>22 DEF Start
<1>23. ASSUME Flush PROVE (NoneDropped /\ (NoneLeft \/ Emitting))'
  <2>1. CASE Hip /\ ~pool
    <3>1. UNCHANGED ops /\ NoneLeft
      BY <1>0, <1>b, <1>23, <2>1 DEF Flush, FlushTail
    <3> QED
      BY <1>c, <3>1
  <2>2. CASE ~(Hip /\ ~pool)
    <3>1. ops' = Delivered(emit)
      BY <1>0, <1>23, <2>2 DEF Flush, FlushTail
    <3> QED
      BY <1>0, <1>b, <1>d, <3>1
  <2> QED
    BY <2>1, <2>2
<1>24. ASSUME Stop PROVE (NoneDropped /\ (NoneLeft \/ Emitting))'
  <2>1. NoneLeft
    BY <1>b, <1>24 DEF Stop
  <2>2. CASE pool
    <3>1. ops' = Delivered(FALSE)
      BY <1>24, <2>2 DEF Stop
    <3> QED
      BY <1>d, <2>1, <3>1
  <2>3. CASE ~pool
    BY <1>c, <1>24, <2>1, <2>3 DEF Stop
  <2> QED
    BY <2>2, <2>3
<1>25. ASSUME ApplyHost PROVE (NoneDropped /\ (NoneLeft \/ Emitting))'
  <2>1. CASE Cuda /\ applying[2] = "OFF" /\ ~Ending
    <3>1. ~emit
      <4>1. TurnsOff /\ cpc = "host"
        BY <1>25, <2>1 DEF ApplyHost, TurnsOff, BackInv
      <4> QED
        BY <1>b, <2>1, <4>1 DEF CollectInv, CollectBase, TurnsOffInv
    <3>2. NoneLeft
      BY <1>b, <3>1
    <3>3. ops' = Delivered(emit) \/ UNCHANGED ops
      BY <1>25 DEF ApplyHost
    <3> QED
      BY <1>0, <1>c, <1>d, <3>2, <3>3
  <2>2. CASE Ending
    <3>1. NoneLeft
      BY <1>b, <2>2
    <3>2. ops' = Delivered(emit) \/ UNCHANGED ops
      BY <1>25 DEF ApplyHost
    <3> QED
      BY <1>0, <1>c, <1>d, <3>1, <3>2
  <2>3. CASE ~(Cuda /\ applying[2] = "OFF") /\ ~Ending
    <3>1. UNCHANGED <<ops, pc, vendor, pool>> /\ emit' = emit /\ cpc' = "decide"
      BY <1>0, <1>25, <2>3 DEF ApplyHost, AfterApplyMode
    <3> QED
      BY <1>b, <1>c, <3>1
  <2> QED
    BY <2>1, <2>2, <2>3
<1>26. ASSUME FiniBegin PROVE (NoneDropped /\ (NoneLeft \/ Emitting))'
  <2>1. UNCHANGED ops /\ ~Ending
    BY <1>26 DEF FiniBegin
  <2>2. CASE off
    <3>1. ~emit
      BY <1>b, <2>1, <2>2 DEF CollectInv, CollectBase, TurnsOffInv
    <3> QED
      BY <1>b, <1>c, <2>1, <3>1
  <2>3. CASE ~off /\ Hip /\ ~pool
    BY <1>b, <1>c, <2>1, <2>3
  <2>4. CASE ~off /\ (Cuda \/ pool)
    BY <1>0, <1>b, <1>c, <1>26, <2>4 DEF FiniBegin, Goto
  <2> QED
    BY <1>0, <2>2, <2>3, <2>4
<1>27. ASSUME FiniFlush PROVE (NoneDropped /\ (NoneLeft \/ Emitting))'
  BY <1>0, <1>b, <1>d, <1>27 DEF FiniFlush, Goto
<1>28. ASSUME FiniDisable PROVE (NoneDropped /\ (NoneLeft \/ Emitting))'
  BY <1>0, <1>b, <1>c, <1>28 DEF FiniDisable, Goto
<1>29. ASSUME FiniClose PROVE (NoneDropped /\ (NoneLeft \/ Emitting))'
  BY <1>0, <1>b, <1>d, <1>29 DEF FiniClose, Goto
<1>30. ASSUME FiniEnd PROVE (NoneDropped /\ (NoneLeft \/ Emitting))'
  BY <1>0, <1>b, <1>c, <1>30 DEF FiniEnd, Goto
<1>31. ASSUME ControlStop PROVE (NoneDropped /\ (NoneLeft \/ Emitting))'
  BY <1>0, <1>b, <1>c, <1>31 DEF ControlStop
<1>32. CASE UNCHANGED vars
  BY <1>0, <1>b, <1>c, <1>32 DEF vars
<1> QED
  BY <1>1, <1>2, <1>3, <1>4, <1>5, <1>6, <1>7, <1>8, <1>9, <1>10, <1>11,
     <1>12, <1>13, <1>14, <1>15, <1>16, <1>17, <1>18, <1>19, <1>20, <1>21, <1>22,
     <1>23, <1>24, <1>25, <1>26, <1>27, <1>28, <1>29, <1>30, <1>31, <1>32 DEF Next, Done

-----------------------------------------------------------------------------
(***************************************************************************)
(* The invariant and what follows from it.                                 *)
(***************************************************************************)
LEMMA RestInit == Init => BackInv /\ HostInv /\ CollectInv /\ KeptInv
<1> SUFFICES ASSUME Init PROVE BackInv /\ HostInv /\ CollectInv /\ KeptInv
  OBVIOUS
<1>0. /\ Main \in Threads /\ \A t \in Threads : pc[t] = "run"
      /\ cpc = "loop" /\ back = "loop" /\ unread = 0 /\ ops = << >>
      /\ vendor \in {"HIP", "CUDA"} /\ mode \in Modes
  BY GpuAssumption DEF Init
<1>1. BackInv
  BY <1>0 DEF BackInv, Init, LTTNG_Init, Cuda, Active
<1>2. HostInv
  <2>1. hostOn = (Active(mode) /\ ~off)
    <3>1. /\ hostOn = Active(mode) /\ off = (mode = "OFF")
          /\ hostOn \in BOOLEAN /\ off \in BOOLEAN
      BY TypeInit DEF Init, LTTNG_Init, TypeInv, RuntimeTypes
    <3>2. CASE mode = "OFF"
      BY <3>1, <3>2 DEF Active
    <3>3. CASE mode # "OFF"
      <4>1. ~off /\ Active(mode) \in BOOLEAN
        BY <3>1, <3>3 DEF Active
      <4> QED
        BY <3>1, <4>1
    <3> QED
      BY <3>2, <3>3
  <2> QED
    BY <1>0, <2>1 DEF HostInv, Present
<1>3. CollectBase
  BY <1>0 DEF CollectBase, Init, LTTNG_Init, InInit, Ending, Changing, Hip, Cuda
<1>4. TurnsOffInv /\ InitInv
  BY <1>0 DEF TurnsOffInv, TurnsOff, InitInv, Init, LTTNG_Init, InInit, Changing, Active
<1>5. collect = Goal
  BY <1>0 DEF Init, LTTNG_Init, Goal, Decision, Active, Hip, Cuda
<1>6. GoalInv
  BY <1>0, <1>5 DEF GoalInv, Pending
<1>7. EnabledInv
  BY <1>0 DEF EnabledInv, Init, LTTNG_Init
<1>8. KeptInv
  BY <1>0 DEF KeptInv, NoneDropped, NoneLeft
<1> QED
  BY <1>1, <1>2, <1>3, <1>4, <1>6, <1>7, <1>8 DEF CollectInv

LEMMA Invariant == Spec => []IInv
<1>1. Init => IInv
  BY TypeInit, RestInit DEF IInv
<1>2. IInv /\ [Next]_vars => IInv'
  BY TypeInductive, BackStep, HostStep, CollectStep, KeptStep DEF IInv
<1> QED
  BY <1>1, <1>2, PTL DEF Spec

\* The type invariant, for any number of threads, changes and operations.
THEOREM TypeCorrect == Spec => []TypeOK
<1>1. TypeInv => TypeOK
  <2> SUFFICES ASSUME TypeInv PROVE TypeOK
    OBVIOUS
  <2>1. \A i \in DOMAIN ops :
          ops[i].is \in {"running", "unseen", "buffered", "emitted", "dropped"}
    <3>1. \A i \in DOMAIN ops : ops[i] \in Ops
      BY DEF TypeInv
    <3> QED
      BY <3>1 DEF Ops, Fates
  <2> QED
    BY <2>1 DEF TypeInv, DomainTypes, RuntimeTypes, ControlTypes, ControlPcs, TypeOK
<1> QED
  BY <1>1, Invariant, PTL DEF IInv

\* Whatever window ends and reloads come in whatever order, the callbacks are
\* those of the mode once it is applied: roctracer_apply_mode,
\* cupti_apply_mode.
THEOREM CallbacksFollowModeAlways == Spec => []CallbacksFollowMode
<1>1. IInv => CallbacksFollowMode
  <2> SUFFICES ASSUME IInv, Settled, ~overtaken
               PROVE  hostOn = (Active(mode) /\ ~off)
    BY DEF CallbacksFollowMode
  <2>1. unread = 0 /\ back = "loop" /\ pc[Main] # "done"
    BY DEF IInv, BackInv, HostInv, Debt, Settled, TypeInv, GhostTypes
  <2> QED
    BY <2>1 DEF IInv, HostInv, Present
<1> QED
  BY <1>1, Invariant, PTL

\* Once all is applied the process collects if and only if it was decided so,
\* with the exceptions that CollectsAsDecided names: apply_collect_state,
\* cupti_activity_init_once.
THEOREM CollectsAsDecidedAlways == Spec => []CollectsAsDecided
<1>1. IInv => CollectsAsDecided
  <2> SUFFICES ASSUME IInv, Settled, ~missed, ~failed, ~raced
               PROVE  enabled = (Decision /\ ~off /\ (Cuda => initDone))
    BY DEF CollectsAsDecided
  <2>1. ~Ending /\ ~Pending /\ cpc = "sleep" /\ ~due
    BY DEF Settled, Ending, Pending
  <2>2. collect = Goal
    BY <2>1 DEF IInv, CollectInv, GoalInv
  <2>3. enabled = collect
    <3>1. \A t \in Threads : pc[t] # "start"
      BY DEF Settled, InInit
    <3>2. collect => enabled
      BY <2>1, <3>1 DEF IInv, CollectInv, EnabledInv
    <3>3. enabled => collect
      BY <2>1, <3>1 DEF IInv, CollectInv, EnabledInv
    <3> QED
      BY <3>2, <3>3 DEF IInv, TypeInv, RuntimeTypes
  <2> QED
    BY <2>2, <2>3 DEF Goal
<1> QED
  BY <1>1, Invariant, PTL

\* No record of an operation that ended in a steady collection is dropped or
\* left over: the order of flush and flag in the stop, apply_mode and the
\* finalization.
THEOREM CollectedIsEmittedAlways == Spec => []CollectedIsEmitted
<1>1. IInv => CollectedIsEmitted
  <2> SUFFICES ASSUME IInv, ~raced, NEW i \in DOMAIN ops, ops[i].kept
               PROVE  ops[i].is # "dropped" /\ (cpc = "stopped" => ops[i].is # "buffered")
    BY DEF CollectedIsEmitted
  <2>1. ops[i].is # "dropped"
    BY DEF IInv, KeptInv, NoneDropped
  <2>2. cpc = "stopped" => NoneLeft
    BY DEF IInv, BackInv, KeptInv, Emitting, Ending
  <2> QED
    BY <2>1, <2>2 DEF NoneLeft
<1> QED
  BY <1>1, Invariant, PTL
=============================================================================
