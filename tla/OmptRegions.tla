---------------------------- MODULE OmptRegions ----------------------------
(***************************************************************************)
(* A team of OpenMP threads, the callbacks the OpenMP runtime makes        *)
(* (ompt_callback.c), and the MPI wrappers (pmpi_mpi.c) as another client  *)
(* of the same record stacks, while the domain's mode changes.             *)
(*                                                                         *)
(* The callbacks are registered once, by the mode the program starts in:   *)
(* the control thread's call of pinsight_control_openmp_apply_mode is      *)
(* commented out.  A change of mode changes the flag that each callback    *)
(* reads at its entry, and nothing else.                                   *)
(*                                                                         *)
(* Unlike on_py_return, the ends of OpenMP constructs pop whatever is on   *)
(* top (lexgion_end), and threads point into each other's stacks: a worker *)
(* finds its parallel region in a slot of its master's stack.  A slot      *)
(* keeps its content when it is popped, so such a pointer reads what the   *)
(* slot holds now.                                                         *)
(*                                                                         *)
(* Whether the rate control traces an execution is left open: Lexgions is  *)
(* about that.  So are the pause at the begins, and what events carry.  A  *)
(* callback is one step, except that parallel_end reads the mode again.    *)
(* The callbacks of mutexes, explicit tasks and targets are not in the     *)
(* domain's event table, hence never registered.  A nested region is       *)
(* executed by the thread that encounters it.  Operators marked "Faulty"   *)
(* are plausible bugs no action uses.                                      *)
(***************************************************************************)
EXTENDS Integers, Sequences, SequencesExt, FiniteSets

CONSTANTS
    Workers,         \* the workers of the team
    ParallelCodes,   \* code addresses of parallel constructs
    WorkCodes,       \* of worksharing constructs (none of a combined one)
    MaskedCodes,     \* of masked constructs
    Addressed,       \* the addresses that have a configuration of their own
    EnabledEvents,   \* the kinds whose events the configurations leave on
    MpiMode,         \* mode of the MPI domain
    NestedBy,        \* the threads that encounter nested regions
    MaxDepth,        \* MAX_LEXGION_STACK_DEPTH
    MaxConstructs,   \* bound: constructs the program executes and changes of
                     \* the domain's mode, together
    MaxSwitches      \* bound: changes of the domain's mode

Master == "master"
Threads == {Master} \cup Workers
Initial == "initial"       \* INITIAL_PARALLEL_CODEPTR
MpiCode == "mpi"
NoCode == "none"
UserCodes == ParallelCodes \cup WorkCodes \cup MaskedCodes
Codes == UserCodes \cup {Initial, MpiCode}
Kinds == {"parallel", "task", "work", "masked", "barrier", "mpi"}
Modes == {"OFF", "MONITORING", "TRACING"}   \* STANDBY is like OFF here

ASSUME OmptAssumption ==
    /\ Master \notin Workers
    /\ {Initial, MpiCode} \cap UserCodes = {}
    /\ Addressed \subseteq UserCodes /\ EnabledEvents \subseteq Kinds
    /\ MpiMode \in Modes /\ NestedBy \subseteq Threads
    /\ MaxDepth \in Nat /\ MaxDepth > 1
    /\ MaxConstructs \in Nat /\ MaxSwitches \in Nat

\* The callbacks in the order of the event table, but for those of the
\* threads' lifecycle.
Callbacks == <<"parallel_begin", "parallel_end", "implicit_task",
               "sync_region_wait", "work", "masked", "sync_region">>

\* Faulty: the monitoring of regions leaves out their ends.
BeginsOnly(m) ==
    CASE m = "TRACING" -> ToSet(Callbacks)
      [] m = "MONITORING" -> {"parallel_begin"}
      [] OTHER -> {}

\* Faulty: the implicit tasks, which carry the context, are left out.
WithoutTasks(m) ==
    CASE m = "TRACING" -> ToSet(Callbacks) \ {"implicit_task"}
      [] m = "MONITORING" -> {"parallel_begin", "parallel_end"}
      [] OTHER -> {}

CallbacksOf(m) ==
    CASE m = "TRACING" -> ToSet(Callbacks)
      [] m = "MONITORING" -> {"parallel_begin", "parallel_end"}
      [] OTHER -> {}

VARIABLES
    mode,        \* domain_trace_config[OpenMP_domain_index].mode
    registered,  \* the callbacks the runtime makes
    slots,       \* lexgion_stack of each thread
    top,         \* its stack_top, from 1; 0 when it is empty
    traced,      \* the lexgions whose trace_bit is set
    context,     \* the thread-local pointers to the enclosing records
    nest,        \* the program: open constructs of each thread, outermost first
    team,        \* the outermost region: whether it is open, its
                 \* parallel_data->ptr, who entered it, who arrived at its join
    restoring,   \* threads in the second half of parallel_end
    ended,       \* thread_end of the initial thread has run
    crashed,     \* a NULL pointer was followed, or an assertion failed
    constructs,  \* constructs begun
    switches,    \* mode changes
    disturbed,   \* threads that had a construct open when the mode changed
    unpaired,    \* the kinds of constructs, on threads not disturbed, with an
                 \* end event but no begin event or the reverse
    miscounted   \* threads, not disturbed, on which a traced region was counted
                 \* though nested and without a configuration of its own, or
                 \* was not counted though it is not nested

controlVars == <<mode, registered, switches>>
stackVars == <<slots, top>>
ghostVars == <<unpaired, miscounted>>
vars == <<controlVars, disturbed, stackVars, traced, context, nest, team, restoring,
          ended, crashed, constructs, ghostVars>>

\* A pointer to a record, and what it finds.
NULL == <<>>
Pointers == {NULL} \cup (Threads \X (1 .. MaxDepth))
Deref(p) == slots[p[1]][p[2]]
LexgionOf(p) == <<p[1], Deref(p).kind, Deref(p).code>>
TopOf(t) == IF top[t] = 0 THEN NULL ELSE <<t, top[t]>>
Parent(p) == IF p[2] = 1 THEN NULL ELSE <<p[1], p[2] - 1>>

\* lexgion_record_t; kind and code tell the lexgion within its thread.
Record == [kind : Kinds, code : Codes]
Lexgions == Threads \X Kinds \X Codes

Context == [par : Pointers,                 \* enclosing_parallel_lexgion_record
            task : Pointers,                \* enclosing_task_lexgion_record
            parcode : Codes \cup {NoCode},  \* parallel_codeptr
            taskcode : Codes \cup {NoCode}, \* task_codeptr
            work : Lexgions \cup {NULL}]    \* enclosing_work_lgp

\* A construct in progress: what the runtime keeps for the tool, parallel_data
\* and task_data, the record its begin pushed and whether its begin event was
\* recorded; and
\* whether a task or region has its join barrier behind it.
Construct == [kind : Kinds, code : Codes, pdata : Pointers, tdata : Pointers,
              own : Pointers, shown : BOOLEAN, joined : BOOLEAN]
Opened(k, c, pdata, tdata, own, shown) ==
    [kind |-> k, code |-> c, pdata |-> pdata, tdata |-> tdata, own |-> own,
     shown |-> shown, joined |-> FALSE]

Inner(t) == Last(nest[t])
Idle(t) == nest[t] = <<>>
In(t, kinds) == ~Idle(t) /\ Inner(t).kind \in kinds
AtInitialTask(t) == t = Master /\ Len(nest[t]) = 1
InTeam(t) == IF t = Master THEN Len(nest[t]) = 3 ELSE Len(nest[t]) = 1

Active(m) == m \in {"MONITORING", "TRACING"}
Delivered(cb) == cb \in registered /\ Active(mode)
Tracing == mode = "TRACING"
\* Whether an event of the kind is recorded that goes by the lexgion at p.
Shows(k, lexgion) == Tracing /\ lexgion \in traced /\ k \in EnabledEvents

-----------------------------------------------------------------------------
(***************************************************************************)
(* The stacks, and what every step does.                                   *)
(***************************************************************************)
Full(t) == top[t] = MaxDepth
Pushed(t) == <<t, top[t] + 1>>

\* lexgion_begin, where there is room.
Push(t, k, c) ==
    /\ slots' = [slots EXCEPT ![t][top[t] + 1] = [kind |-> k, code |-> c]]
    /\ top' = [top EXCEPT ![t] = @ + 1]

\* lexgion_end
Pop(t) == top' = [top EXCEPT ![t] = @ - 1] /\ UNCHANGED slots

\* lexgion_end_match
PopMatch(t, c) ==
    LET held == {i \in 1 .. top[t] : slots[t][i].code = c} IN
    /\ top' = [top EXCEPT ![t] =
                 IF held = {} THEN @
                 ELSE (CHOOSE i \in held : \A j \in held : j <= i) - 1]
    /\ UNCHANGED slots

\* lexgion_set_rate_trace_bit, if the domain traces; its decision is open.
Decide(t, k, c) ==
    IF Tracing
    THEN \E bit \in BOOLEAN :
            traced' = IF bit THEN traced \cup {<<t, k, c>>}
                             ELSE traced \ {<<t, k, c>>}
    ELSE UNCHANGED traced

Enter(t, construct) ==
    /\ nest' = [nest EXCEPT ![t] = Append(@, construct)]
    /\ UNCHANGED disturbed

\* The innermost construct ends; whether its events pair.
LeaveTo(t, rest, shown) ==
    /\ nest' = [nest EXCEPT ![t] = rest]
    /\ UNCHANGED disturbed
    /\ unpaired' = IF t \notin disturbed /\ Inner(t).shown # shown
                   THEN unpaired \cup {<<t, Inner(t).kind, Inner(t).own # NULL>>}
                   ELSE unpaired

Leave(t, shown) == LeaveTo(t, Front(nest[t]), shown)

Crash ==
    /\ crashed' = TRUE
    /\ UNCHANGED <<controlVars, disturbed, stackVars, traced, context, nest, team,
                   restoring, ended, constructs, ghostVars>>

Executes(t) == ~crashed /\ t \notin restoring
WithinBounds == constructs + switches < MaxConstructs
MayBegin(t) == Executes(t) /\ WithinBounds
Counted == constructs' = constructs + 1
\* t executes the body of an implicit task.
InBody(t) == In(t, {"task"}) /\ ~AtInitialTask(t) /\ ~Inner(t).joined

\* ompt_initialize: the only registration.
OmptInitialize == registered = CallbacksOf(mode)

\* A program that starts OFF gets no callback, not even the thread's lifecycle.
\* In the others thread_begin of the initial thread pushes the initial parallel
\* region, and the initial task begins like any other.
Init ==
    /\ mode \in Modes
    /\ OmptInitialize
    /\ LET task == IF Tracing THEN <<Master, 2>> ELSE NULL
           region == IF Active(mode) THEN <<Master, 1>> ELSE NULL
       IN  /\ slots = [t \in Threads |-> [i \in 1 .. MaxDepth |->
                [kind |-> IF t = Master /\ i = 2 THEN "task" ELSE "parallel",
                 code |-> Initial]]]
           /\ top = [t \in Threads |->
                IF t # Master THEN 0 ELSE Cardinality({region, task} \ {NULL})]
           /\ context = [t \in Threads |->
                IF t = Master
                THEN [par |-> region, task |-> task,
                      parcode |-> IF Active(mode) THEN Initial ELSE NoCode,
                      taskcode |-> IF Tracing THEN Initial ELSE NoCode,
                      work |-> NULL]
                ELSE [par |-> NULL, task |-> NULL, parcode |-> NoCode,
                      taskcode |-> NoCode, work |-> NULL]]
           /\ nest = [t \in Threads |->
                IF t = Master
                THEN <<Opened("task", Initial, IF Tracing THEN region ELSE NULL,
                              task, task, FALSE)>>
                ELSE <<>>]
    /\ traced = {}
    /\ team = [open |-> FALSE, pdata |-> NULL, entered |-> {}, arrived |-> {}]
    /\ restoring = {} /\ ended = FALSE /\ crashed = FALSE
    /\ constructs = 0 /\ switches = 0
    /\ disturbed = {} /\ unpaired = {} /\ miscounted = {}

-----------------------------------------------------------------------------
(***************************************************************************)
(* Parallel regions and their implicit tasks.                              *)
(***************************************************************************)
\* A region that is nested in one of its own is PythonRegions' concern: the
\* two would share a trace bit.
ParallelBegin(t, c) ==
    /\ MayBegin(t)
    /\ \/ AtInitialTask(t) /\ ~team.open
       \/ InBody(t) /\ t \in NestedBy
    /\ \A i \in DOMAIN nest[t] : nest[t][i].code # c
    /\ LET pushes == Delivered("parallel_begin")
           record == IF pushes THEN Pushed(t) ELSE NULL
       IN  IF pushes /\ Full(t) THEN Crash
           ELSE /\ IF pushes
                   THEN /\ Push(t, "parallel", c)
                        /\ context' = [context EXCEPT ![t].par = record,
                                                      ![t].parcode = c]
                        /\ Decide(t, "parallel", c)
                   ELSE UNCHANGED <<stackVars, context, traced>>
                /\ Enter(t, Opened("parallel", c, record, NULL, record,
                               pushes /\ Tracing /\ <<t, "parallel", c>> \in traced'))
                /\ team' = IF AtInitialTask(t)
                           THEN [open |-> TRUE, pdata |-> record,
                                 entered |-> {}, arrived |-> {}]
                           ELSE team
                /\ Counted
                /\ UNCHANGED <<controlVars, ghostVars, restoring, ended, crashed>>

\* The thread enters a region: its master after parallel_begin, a worker when
\* the runtime releases it.
ImplicitTaskBegin(t) ==
    /\ Executes(t)
    /\ IF Idle(t) THEN team.open /\ t \notin team.entered
       ELSE In(t, {"parallel"}) /\ ~Inner(t).joined
    /\ LET outer == Idle(t) \/ (t = Master /\ Len(nest[t]) = 2)
           pdata == IF Idle(t) THEN team.pdata ELSE Inner(t).pdata
           c == Deref(pdata).code
           code == IF Idle(t) THEN Initial ELSE Inner(t).code
           pushes == Delivered("implicit_task") /\ pdata # NULL
           task == IF pushes THEN Pushed(t) ELSE NULL
       IN  IF pushes /\ Full(t) THEN Crash
           ELSE /\ IF pushes
                   THEN /\ Push(t, "task", c)
                        /\ context' = [context EXCEPT ![t] =
                             [par |-> pdata, task |-> task, parcode |-> c,
                              taskcode |-> c, work |-> @.work]]
                   ELSE /\ context' = IF Delivered("implicit_task")
                                      THEN [context EXCEPT ![t].par = NULL]
                                      ELSE context
                        /\ UNCHANGED stackVars
                /\ Enter(t, Opened("task", code, pdata, task, task,
                                   pushes /\ Shows("task", LexgionOf(pdata))))
                /\ team' = IF outer THEN [team EXCEPT !.entered = @ \cup {t}]
                           ELSE team
                /\ UNCHANGED <<controlVars, traced, ghostVars, restoring, ended, crashed,
                               constructs>>

\* After the join barrier; a worker's comes as late as its next release.  The
\* initial task ends with the program.
ImplicitTaskEnd(t) ==
    /\ Executes(t)
    /\ In(t, {"task"})
    /\ IF AtInitialTask(t) THEN ~team.open
       ELSE Inner(t).joined
    /\ LET pops == Delivered("implicit_task") /\ Inner(t).tdata # NULL
           par == context[t].par
       IN  IF pops /\ top[t] = 0 THEN Crash
           ELSE /\ IF pops THEN Pop(t) ELSE UNCHANGED stackVars
                /\ Leave(t, pops /\ par # NULL /\ Shows("task", LexgionOf(par)))
                /\ UNCHANGED <<controlVars, traced, context, team, miscounted,
                               restoring, ended, crashed, constructs>>

\* Faulty: takes the initial region for an enclosing one.
NothingBelow(i, t) == \A j \in 1 .. i - 1 : slots[t][j].kind # "parallel"

\* No enclosing parallel record below slot i, the initial one aside.
IsTopmost(i, t) ==
    \A j \in 1 .. i - 1 :
        ~(slots[t][j].kind = "parallel" /\ slots[t][j].code # Initial)

\* The first half of parallel_end: it pops, records and counts.
ParallelEnd(t) ==
    /\ Executes(t)
    /\ In(t, {"parallel"}) /\ Inner(t).joined
    /\ LET record == TopOf(t)
           outermost == t = Master /\ Len(nest[t]) = 2
           shows == /\ Delivered("parallel_end") /\ Tracing
                    /\ LexgionOf(record) \in traced
           counts == /\ shows
                     /\ \/ Deref(record).code \in Addressed
                        \/ IsTopmost(top[t], t)
       IN  IF /\ Delivered("parallel_end")
              /\ \/ record = NULL
                 \/ Inner(t).pdata # context[t].par       \* assert
           THEN Crash
           ELSE /\ IF Delivered("parallel_end")
                   THEN Pop(t) /\ restoring' = restoring \cup {t}
                   ELSE UNCHANGED <<stackVars, restoring>>
                /\ Leave(t, shows)
                /\ miscounted' =
                     IF /\ t \notin disturbed /\ shows
                        /\ counts # (outermost \/ Inner(t).code \in Addressed)
                     THEN miscounted \cup {t} ELSE miscounted
                /\ team' = IF outermost THEN [team EXCEPT !.open = FALSE] ELSE team
                /\ UNCHANGED <<controlVars, traced, context, ended, crashed,
                               constructs>>

\* Faulty: leaves the encountering task's region unset.
RestoreTaskOnly(t, task) ==
    [context[t] EXCEPT !.task = task, !.taskcode = Deref(task).code]

\* What parallel_end restores: the encountering task and its region.
Restored(t, task) ==
    [context[t] EXCEPT !.task = task, !.taskcode = Deref(task).code,
                       !.par = Parent(task), !.parcode = Deref(Parent(task)).code]

\* The second half of parallel_end.
ParallelRestore(t) ==
    /\ ~crashed /\ t \in restoring
    /\ LET task == Inner(t).tdata IN
       IF Active(mode) /\ task # NULL /\ Parent(task) = NULL THEN Crash
       ELSE /\ context' = IF Active(mode) /\ task # NULL
                          THEN [context EXCEPT ![t] = Restored(t, task)]
                          ELSE context
            /\ restoring' = restoring \ {t}
            /\ UNCHANGED <<controlVars, disturbed, stackVars, traced, nest, team,
                           ended, crashed, constructs, ghostVars>>

-----------------------------------------------------------------------------
(***************************************************************************)
(* Worksharing, masked and barriers.                                       *)
(***************************************************************************)
\* Whether the construct gets a lexgion of its own; a worksharing construct
\* does not if it is combined with its parallel.
HasOwnLexgion(t, k, c) ==
    /\ c \in Addressed
    /\ k = "work" => c \notin {context[t].parcode, context[t].taskcode}

\* on_ompt_callback_work and on_ompt_callback_masked, at the begin.  Without
\* a lexgion of its own the construct goes by its parallel region's.
WorkBegin(t, k, c) ==
    /\ MayBegin(t)
    /\ InBody(t)
    /\ k = "masked" => t = Master \/ Len(nest[t]) > 1
    /\ LET owns == Delivered(k) /\ HasOwnLexgion(t, k, c)
           region == IF k = "work" THEN context[t].par ELSE Inner(t).pdata
       IN  IF Delivered(k) /\ (IF owns THEN Full(t) ELSE region = NULL) THEN Crash
           ELSE /\ IF owns THEN Push(t, k, c) /\ Decide(t, k, c)
                   ELSE UNCHANGED <<stackVars, traced>>
                /\ context' = IF Delivered(k) /\ k = "work"
                              THEN [context EXCEPT ![t].work =
                                      IF owns THEN <<t, k, c>> ELSE NULL]
                              ELSE context
                /\ Enter(t, Opened(k, c, Inner(t).pdata, Inner(t).tdata,
                             IF owns THEN Pushed(t) ELSE NULL,
                             /\ Delivered(k) /\ Tracing /\ k \in EnabledEvents
                             /\ IF owns THEN <<t, k, c>> \in traced'
                                ELSE LexgionOf(region) \in traced))
                /\ Counted
                /\ UNCHANGED <<controlVars, team, restoring, ended, crashed, ghostVars>>

\* Their ends tell by the type of the top record whether there is a lexgion
\* to pop.
WorkEnd(t) ==
    /\ Executes(t)
    /\ In(t, {"work", "masked"})
    /\ LET k == Inner(t).kind
           owns == Deref(TopOf(t)).kind = k
           by == IF owns \/ k = "work" THEN TopOf(t) ELSE Inner(t).pdata
       IN  IF Delivered(k) /\ (top[t] = 0 \/ by = NULL) THEN Crash
           ELSE /\ IF Delivered(k) /\ owns THEN Pop(t) ELSE UNCHANGED stackVars
                /\ Leave(t, Delivered(k) /\ Shows(k, LexgionOf(by)))
                /\ UNCHANGED <<controlVars, traced, context, team, miscounted,
                               restoring, ended, crashed, constructs>>

\* Both callbacks of a barrier do nothing where they have no task.
Synchronizes(t, cb) == Tracing /\ cb \in registered /\ Inner(t).tdata # NULL

\* Whether on_ompt_callback_sync_region_wait follows a NULL region, at the
\* begin and at the end.
CrashesInWait(t, isJoin, byWork) ==
    /\ Synchronizes(t, "sync_region_wait") /\ ~byWork
    /\ IF isJoin THEN Inner(t).pdata = NULL ELSE context[t].par = NULL

CrashesAfterWait(t, byWork) ==
    Synchronizes(t, "sync_region_wait") /\ ~byWork /\ context[t].par = NULL

\* on_ompt_callback_sync_region and _wait at the begin of a barrier.  It is the
\* join barrier for a worker that is told no address, or if the address is the
\* current region's.
BarrierBegin(t, join) ==
    /\ Executes(t)
    /\ InBody(t)
    /\ ~join => WithinBounds
    /\ constructs' = IF join THEN constructs ELSE constructs + 1
    /\ LET sync == Synchronizes(t, "sync_region")
           isJoin == join /\ \/ t # Master /\ InTeam(t)
                             \/ context[t].parcode = Inner(t).code
           byWork == ~isJoin /\ context[t].work # NULL
           crashes == \/ sync /\ ~byWork /\ Inner(t).pdata = NULL
                      \/ CrashesInWait(t, isJoin, byWork)
           by == IF byWork THEN context[t].work ELSE LexgionOf(Inner(t).pdata)
       IN  /\ crashed' = crashes
           /\ Enter(t, [Opened("barrier", Inner(t).code, Inner(t).pdata,
                               Inner(t).tdata, NULL,
                               sync /\ ~crashes /\ by \in traced
                               /\ (isJoin \/ "barrier" \in EnabledEvents))
                        EXCEPT !.joined = join])
           /\ team' = IF join /\ InTeam(t)
                      THEN [team EXCEPT !.arrived = @ \cup {t}] ELSE team
    /\ UNCHANGED <<controlVars, stackVars, traced, context, restoring,
                   ended, ghostVars>>

\* At the end of the barrier; a worker's from a join is as late as its release.
BarrierEnd(t) ==
    /\ Executes(t)
    /\ In(t, {"barrier"})
    /\ LET join == Inner(t).joined
           depth == Len(nest[t]) - 1
           sync == Synchronizes(t, "sync_region")
           inTeam == depth = IF t = Master THEN 3 ELSE 1
           isJoin == join /\ \/ t # Master /\ inTeam
                             \/ context[t].parcode = Inner(t).code
           byWork == ~isJoin /\ context[t].work # NULL
           crashes == \/ sync /\ ~byWork /\ context[t].par = NULL
                      \/ CrashesAfterWait(t, byWork)
           by == IF byWork THEN context[t].work ELSE LexgionOf(context[t].par)
       IN  /\ join /\ inTeam => team.arrived = Threads \/ t \notin team.entered
           /\ IF crashes THEN Crash
              ELSE /\ LeaveTo(t, [i \in 1 .. depth |->
                            IF join /\ i >= depth - 1
                            THEN [nest[t][i] EXCEPT !.joined = TRUE]
                            ELSE nest[t][i]],
                          sync /\ by \in traced
                               /\ (isJoin \/ "barrier" \in EnabledEvents))
                   /\ context' = IF sync /\ ~isJoin
                                 THEN [context EXCEPT ![t].work = NULL]
                                 ELSE context
                   /\ UNCHANGED <<controlVars, stackVars, traced, team, miscounted,
                                  restoring, ended, crashed, constructs>>

-----------------------------------------------------------------------------
(***************************************************************************)
(* MPI calls, the end of the initial thread, and the control thread.       *)
(***************************************************************************)
\* PMPI_CALL_PROLOGUE, of a program that leaves MPI to its initial thread.
MpiBegin(t) ==
    /\ MayBegin(t) /\ t = Master
    /\ In(t, {"task"}) /\ ~Inner(t).joined
    /\ IF Active(MpiMode) /\ Full(t) /\ MpiMode = "TRACING" THEN Crash
       ELSE LET begins == Active(MpiMode) /\ ~Full(t) IN
            /\ IF begins THEN Push(t, "mpi", MpiCode) ELSE UNCHANGED stackVars
            /\ Enter(t, Opened("mpi", MpiCode, Inner(t).pdata, Inner(t).tdata,
                               IF begins THEN Pushed(t) ELSE NULL, FALSE))
            /\ Counted
            /\ UNCHANGED <<controlVars, traced, context, team, restoring, ended,
                           crashed, ghostVars>>

\* PMPI_CALL_EPILOGUE
MpiEnd(t) ==
    /\ Executes(t)
    /\ In(t, {"mpi"})
    /\ IF Inner(t).own # NULL THEN PopMatch(t, MpiCode) ELSE UNCHANGED stackVars
    /\ Leave(t, FALSE)
    /\ UNCHANGED <<controlVars, traced, context, team, miscounted, restoring, ended,
                   crashed, constructs>>

\* Faulty: pops the initial region's record and nothing that was left on it.
DrainOne == top[Master] - 1

\* What thread_end leaves of the initial thread's stack.
Drained ==
    LET initial == {i \in 1 .. top[Master] : slots[Master][i].code = Initial} IN
    IF initial = {} THEN 0
    ELSE (CHOOSE i \in initial : \A j \in initial : j <= i) - 1

ThreadEnd ==
    /\ ~crashed /\ ~ended
    /\ Idle(Master) /\ Master \notin restoring
    /\ ended' = TRUE
    /\ top' = IF registered = {} THEN top ELSE [top EXCEPT ![Master] = Drained]
    /\ UNCHANGED <<controlVars, disturbed, slots, traced, context, nest, team, restoring,
                   crashed, constructs, ghostVars>>

\* The threads whose constructs a change of mode cuts through.
Disturb ==
    /\ disturbed' = disturbed \cup
         {t \in Threads : t \in restoring \/ ~(Idle(t) \/ AtInitialTask(t))}

\* A window end, a reload, or the control thread at the end of a pause.
SwitchMode(m) ==
    /\ ~crashed
    /\ switches < MaxSwitches /\ WithinBounds /\ m # mode
    /\ mode' = m
    /\ switches' = switches + 1
    /\ Disturb
    /\ UNCHANGED <<registered, stackVars, traced, context, nest, team,
                   restoring, ended, crashed, constructs, ghostVars>>

\* The program is over, or it has crashed.
Done == (ended \/ crashed) /\ UNCHANGED vars

Next ==
    \/ \E t \in Threads :
         \/ \E c \in ParallelCodes : ParallelBegin(t, c)
         \/ ImplicitTaskBegin(t) \/ ImplicitTaskEnd(t)
         \/ ParallelEnd(t) \/ ParallelRestore(t)
         \/ \E c \in WorkCodes : WorkBegin(t, "work", c)
         \/ \E c \in MaskedCodes : WorkBegin(t, "masked", c)
         \/ WorkEnd(t)
         \/ \E join \in BOOLEAN : BarrierBegin(t, join)
         \/ BarrierEnd(t)
         \/ MpiBegin(t) \/ MpiEnd(t)
    \/ ThreadEnd
    \/ \E m \in Modes : SwitchMode(m)
    \/ Done

Spec == Init /\ [][Next]_vars

-----------------------------------------------------------------------------
(***************************************************************************)
(* Properties.                                                             *)
(***************************************************************************)
TypeOK ==
    /\ mode \in Modes
    /\ registered \subseteq ToSet(Callbacks)
    /\ slots \in [Threads -> [1 .. MaxDepth -> Record]]
    /\ top \in [Threads -> 0 .. MaxDepth]
    /\ traced \subseteq Lexgions
    /\ context \in [Threads -> Context]
    /\ \A t \in Threads : \A i \in DOMAIN nest[t] : nest[t][i] \in Construct
    /\ team.pdata \in Pointers
    /\ team.entered \subseteq Threads /\ team.arrived \subseteq team.entered
    /\ restoring \subseteq Threads /\ disturbed \subseteq Threads
    /\ unpaired \subseteq Threads \X Kinds \X BOOLEAN /\ miscounted \subseteq Threads
    /\ constructs \in 0 .. MaxConstructs /\ switches \in 0 .. MaxSwitches

\* The records on a thread's stack, above the initial region's, are those of its
\* open constructs, in their order: although parallel_end, implicit_task_end,
\* work_end and masked_end pop what is on top, each takes the record of its own
\* begin, in teams, nested regions and MPI calls, as long as nothing changed in
\* an open construct.
RecordsMatch ==
    \A t \in Threads \ disturbed :
        nest[t] # <<>> =>
        LET base == IF t = Master /\ registered # {} THEN 1 ELSE 0
            owners == {i \in DOMAIN nest[t] : nest[t][i].own # NULL} IN
        /\ \A i \in owners : Deref(nest[t][i].own).kind = nest[t][i].kind
        /\ \A i, j \in owners : i < j => nest[t][i].own[2] < nest[t][j].own[2]
        /\ top[t] >= base
        /\ {nest[t][i].own : i \in owners} = {<<t, n>> : n \in base + 1 .. top[t]}

\* In the body of a task that has a record, the thread-local pointers are the
\* task and the region it executes, also after a nested region ended in it
\* ("Restore enclosing context", parallel_end).
ContextRestored ==
    \A t \in Threads \ (disturbed \cup restoring) :
        In(t, {"task"}) /\ Inner(t).tdata # NULL /\ ~crashed =>
            /\ context[t].task = Inner(t).tdata
            /\ context[t].par = Inner(t).pdata

\* On the master a construct has both its events or neither, while its mode
\* stands: the bit its begin went by is the bit its end goes by.  Excepted are
\* worksharing constructs without a lexgion of their own: see EventsPair.
MasterEventsPair ==
    \A u \in unpaired : u[1] = Master => u[2] = "work" /\ ~u[3]

\* "All begin/end event pairs match perfectly" (domain_trace_modes.md).
EventsPair == unpaired = {}

\* While the domain traces, a crash needs a construct that was open when the
\* mode changed, a full record stack, a program that did not start TRACING
\* (where a nested region crashes: see NestedRegionsReturn), or the end of a
\* region that a worker nested in the team's: parallel_end takes the region
\* around it for the record below its task's, and a worker's stack has none.
CrashOnlyIfDisturbed ==
    crashed /\ Tracing => \/ disturbed # {} \/ \E t \in Threads : Full(t)
                          \/ registered # CallbacksOf("TRACING")
                          \/ restoring \cap Workers # {}

\* "All 6 bidirectional transitions completed without crashes"
\* (domain_trace_modes.md).
TransitionsDontCrash == ~crashed

\* The inner region "parallel inside parallel" ends and its thread goes on.
NestedRegionsReturn == ~crashed

\* On the master a traced region is counted if it is not nested or has a
\* configuration of its own, and only then: the walk over the records below
\* finds the enclosing region, and nothing that an ended one has left.
MasterCountsOutermost == Master \notin miscounted

\* "Only the outermost parallel triggers rate-limiting by default"
\* (rate-limit-tracing.md).
OnlyOutermostCounts == miscounted = {}

\* thread_end pops what undelivered ends have left: of the initial
\* thread at most the initial region's record stays.
StackDrained == ended => top[Master] <= 1
=============================================================================
