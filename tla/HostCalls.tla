----------------------------- MODULE HostCalls -----------------------------
(***************************************************************************)
(* One thread's calls of MPI and of a GPU runtime, and what is recorded    *)
(* before and after each: the wrappers of pmpi_mpi.c, and the host         *)
(* callbacks of roctracer_callback.c (HIP) and cupti_callback.c (CUDA).    *)
(* A GPU call may be made inside an MPI call, and MPI_Finalize may run     *)
(* callbacks of the application that call MPI.                             *)
(*                                                                         *)
(* A region (Codes of Lexgions) is a class, an event and a code address.   *)
(* The mode of a domain is read at every decision, and it changes between  *)
(* any two reads; whether the GPU runtime calls back at all follows it     *)
(* with a lag.  OFF acts like STANDBY here.  Of what events carry only the *)
(* device is kept, which HIP's callback caches.  GpuActivity has the rest. *)
(* Operators marked "Faulty" are plausible bugs no action uses.            *)
(***************************************************************************)
EXTENDS Lexgions

CONSTANTS
    Vendors,     \* the GPU runtimes, one per process
    Kernels,     \* kernel functions
    Kinds,       \* directions of a copy
    Sites,       \* places in the program that call MPI
    MpiCalls,    \* the MPI functions
    Devices,     \* devices hipSetDevice selects
    MaxCalls,    \* bound: calls
    MaxSwitches  \* bound: changes of a mode

Domains == {"MPI", "GPU"}
Modes == {"STANDBY", "MONITORING", "TRACING"}
Region(api, event, address) == [api |-> api, event |-> event, address |-> address]
NoAddress == "none"
NoRegion == Region("none", "none", NoAddress)
NoDevice == -1

\* The wrapped functions; the later ones add up the counts of a vector.
BasicCalls ==
    {"MPI_Init", "MPI_Init_thread", "MPI_Finalize", "MPI_Send", "MPI_Recv", "MPI_Barrier",
     "MPI_Reduce", "MPI_Allreduce", "MPI_Bcast", "MPI_Sendrecv", "MPI_Isend", "MPI_Irecv",
     "MPI_Wait", "MPI_Waitall", "MPI_Scatter", "MPI_Gather"}
CollectiveCalls ==
    {"MPI_Allgather", "MPI_Alltoall", "MPI_Gatherv", "MPI_Scatterv", "MPI_Allgatherv",
     "MPI_Alltoallv", "MPI_Alltoallw", "MPI_Reduce_scatter", "MPI_Reduce_scatter_block",
     "MPI_Scan", "MPI_Exscan"}

ASSUME HostCallsAssumption ==
    /\ MpiCalls \subseteq BasicCalls \cup CollectiveCalls
    /\ Vendors \subseteq {"HIP", "CUDA"}
    /\ Devices \subseteq Nat /\ 0 \in Devices
    /\ MaxCalls \in Nat /\ MaxSwitches \in Nat

VARIABLES
    vendor,
    mode,      \* domain_trace_config[d].mode
    hostOn,    \* the runtime calls the host callback
    frames,    \* the calls in progress, outermost first
    pc,        \* where the thread is in a wrapper or a callback
    ending,    \* the region (lgp) whose end event is decided
    mpiCode,   \* mpi_codeptr
    device,    \* the thread's device
    cached,    \* hip_tls_devId, NoDevice while hip_tls_dev_cached is 0
    calls,     \* calls so far
    switches,  \* mode changes so far
    excused,   \* records whose calls could not remove them
    missed     \* a call found a record at its address and left none

modeVars == <<vendor, mode, hostOn, switches>>
callVars == <<frames, pc, ending, mpiCode, calls>>
deviceVars == <<device, cached>>
ghostVars == <<excused, missed>>
latchVars == <<fired, generation>>
vars == <<lexgionVars, modeVars, callVars, deviceVars, ghostVars>>

\* A call in progress: its record (0 for none), whether its begin event was
\* emitted, whether its mode changed meanwhile and whether it "missed".
Frame == [region : Codes, id : Nat, begun : BOOLEAN, disturbed : BOOLEAN,
          missed : BOOLEAN]

DomainOf(r) == IF r.api = "MPI" THEN "MPI" ELSE "GPU"
Active(d) == mode[d] \in {"MONITORING", "TRACING"}
Tracing(r) == mode[DomainOf(r)] = "TRACING"
CalledBack == hostOn /\ Active("GPU")

Top == frames[Len(frames)]
Callers == SubSeq(frames, 1, Len(frames) - 1)
AtAddress(a) == {i \in DOMAIN stack : stack[i].code.address = a}

Init ==
    /\ LexgionsInit
    /\ vendor \in Vendors
    /\ mode \in [Domains -> Modes]
    /\ hostOn = Active("GPU")
    /\ frames = <<>> /\ pc = "run" /\ ending = NoRegion /\ mpiCode = NoAddress
    /\ device = 0 /\ cached = NoDevice
    /\ calls = 0 /\ switches = 0 /\ excused = {} /\ missed = FALSE

-----------------------------------------------------------------------------
(***************************************************************************)
(* The regions: what each handler takes for its event and its address.     *)
(***************************************************************************)
ByName(api, event) == {Region(api, event, event)}

HipLaunchKernel == {Region("HIP", "launch", k) : k \in Kernels}
HipMemcpy == {Region("HIP", kind, kind) : kind \in Kinds}
HipMemcpyAsync == ByName("HIP", "memcpyAsync")
HipMalloc == ByName("HIP", "malloc")
HipFree == ByName("HIP", "free")
HipDeviceSynchronize == ByName("HIP", "deviceSync")
HipStreamSynchronize == ByName("HIP", "streamSync")

CudaLaunchKernel == {Region("CUDA", "launch", k) : k \in Kernels}
CudaMemcpy == {Region("CUDA", kind, "memcpy") : kind \in Kinds}
CudaMemcpyAsync == ByName("CUDA", "memcpyAsync")
CudaMalloc == ByName("CUDA", "malloc")
CudaFree == ByName("CUDA", "free")
CudaDeviceSynchronize == ByName("CUDA", "deviceSync")
CudaStreamSynchronize == ByName("CUDA", "streamSync")

HipRegions ==
    UNION {HipLaunchKernel, HipMemcpy, HipMemcpyAsync, HipMalloc, HipFree,
           HipDeviceSynchronize, HipStreamSynchronize}
CudaRegions ==
    UNION {CudaLaunchKernel, CudaMemcpy, CudaMemcpyAsync, CudaMalloc, CudaFree,
           CudaDeviceSynchronize, CudaStreamSynchronize}
MpiRegions == {Region("MPI", f, s) : f \in MpiCalls, s \in Sites}

\* The address of an MPI call is where it returns to, which is no kernel and
\* no function of the runtime.
ASSUME RegionsAssumption ==
    /\ Codes \subseteq HipRegions \cup CudaRegions \cup MpiRegions
    /\ \A c, d \in Codes : c.api = "MPI" /\ d.api # "MPI" => c.address # d.address

-----------------------------------------------------------------------------
(***************************************************************************)
(* Calls.                                                                  *)
(***************************************************************************)
\* Who may call r: the program, a GPU-aware MPI call, a callback that
\* MPI_Finalize runs.
MayCall(r) ==
    /\ pc = "run" /\ calls < MaxCalls
    /\ \/ frames = <<>>
       \/ /\ Len(frames) = 1 /\ Top.region.api = "MPI"
          /\ r.api = "MPI" => Top.region.event = "MPI_Finalize"
             /\ r.event # "MPI_Finalize"

\* The call begins, and its wrapper or callback with lexgion_begin if it sees
\* the domain active.
Enters(r, active) ==
    /\ MayCall(r)
    /\ calls' = calls + 1
    /\ IF active THEN Begin(r) ELSE UNCHANGED <<seen, lexgion, stack>>
    /\ LET recorded == active /\ Recorded(r)
           misses == ~recorded /\ AtAddress(r.address) # {}
       IN  /\ frames' = Append(frames,
                  [region |-> r, begun |-> FALSE, disturbed |-> FALSE,
                   missed |-> misses,
                   id |-> IF recorded THEN lexgion[r].counter + 1 ELSE 0])
           /\ missed' = (missed \/ misses)
    /\ UNCHANGED <<latchVars, modeVars, ending, device, excused>>

\* hip_get_cached_device, where the callback is HIP's.
QueryDevice ==
    cached' = IF vendor = "HIP" /\ cached = NoDevice THEN device ELSE cached

\* The ENTER half of a handler.
HostEnter(r) ==
    /\ r.api = vendor
    /\ Enters(r, CalledBack)
    /\ pc' = IF CalledBack /\ Recorded(r) THEN "entered" ELSE "run"
    /\ IF CalledBack THEN QueryDevice ELSE UNCHANGED cached
    /\ UNCHANGED mpiCode

\* PMPI_CALL_PROLOGUE
MpiEnter(r) ==
    /\ r.api = "MPI"
    /\ Enters(r, Active("MPI"))
    /\ IF Active("MPI") THEN mpiCode' = r.address /\ pc' = "entered"
       ELSE UNCHANGED <<mpiCode, pc>>
    /\ UNCHANGED cached

\* The trace decision; an MPI call decides and emits at once, and takes it for
\* granted that there is a record.
Decide ==
    /\ pc = "entered"
    /\ IF ~Tracing(Top.region) THEN UNCHANGED <<lexgion, frames>>
       ELSE IF Top.id = 0 THEN UNCHANGED <<lexgion, frames>>
       ELSE /\ SetTraceBit(Top.region)
            /\ frames' = [frames EXCEPT ![Len(frames)].begun =
                            Top.region.api = "MPI" /\ lexgion'[Top.region].bit]
    /\ pc' = IF Top.region.api # "MPI" THEN "decided"
             ELSE IF Tracing(Top.region) /\ Top.id = 0 THEN "crashed" ELSE "run"
    /\ UNCHANGED <<seen, stack, latchVars, modeVars, ending, mpiCode, calls,
                   deviceVars, ghostVars>>

\* The begin event of a GPU call, by the mode that is read for it.
BeginEvent ==
    /\ pc = "decided"
    /\ frames' = [frames EXCEPT ![Len(frames)].begun =
                    Tracing(Top.region) /\ lexgion[Top.region].bit]
    /\ pc' = "run"
    /\ UNCHANGED <<lexgionVars, modeVars, ending, mpiCode, calls, deviceVars,
                   ghostVars>>

\* Faulty: pops whatever record is on top.
EndTopAt(a) == stack' = IF stack = <<>> THEN <<>> ELSE SubSeq(stack, 1, Len(stack) - 1)

\* lexgion_end_match: by address, whatever the region.
EndMatchAt(a) ==
    IF AtAddress(a) = {} THEN UNCHANGED stack
    ELSE \E top \in AtAddress(a) :
            /\ \A i \in AtAddress(a) : i <= top
            /\ stack' = SubSeq(stack, 1, top - 1)

\* Faulty: the region of the record on top.
MatchTop(a) == IF stack = <<>> THEN NoRegion ELSE stack[Len(stack)].code

\* The region of the record EndMatchAt ends at.
MatchAt(a) ==
    IF AtAddress(a) = {} THEN NoRegion
    ELSE stack[CHOOSE top \in AtAddress(a) : \A i \in AtAddress(a) : i <= top].code

\* A call is over; what it leaves on the stack is excused if the code could
\* not know better.
Excuses(leaves) ==
    excused' = IF leaves
               THEN excused \cup {[code |-> Top.region, id |-> Top.id]}
               ELSE excused

\* The EXIT half of a handler: the callback, if it comes, ends the record.
HostExit ==
    /\ pc = "run" /\ frames # <<>> /\ Top.region.api # "MPI"
    /\ IF CalledBack
       THEN /\ EndMatchAt(Top.region.address) /\ QueryDevice
            /\ ending' = MatchAt(Top.region.address)
       ELSE UNCHANGED <<stack, ending, cached>>
    /\ Excuses(~CalledBack /\ Top.id > 0)
    /\ IF CalledBack /\ MatchAt(Top.region.address) # NoRegion
       THEN pc' = "exited" /\ UNCHANGED frames
       ELSE frames' = Callers /\ UNCHANGED pc
    /\ UNCHANGED <<seen, lexgion, latchVars, modeVars, mpiCode, calls, device, missed>>

\* Faulty: the epilogue looks at the mode, as the prologue does.
EpilogueIfActive == Top.id > 0 /\ Active("MPI")

\* if (lgp)
EpilogueRuns == Top.id > 0

\* PMPI_CALL_EPILOGUE: looks at lgp and not at the mode.
MpiExit ==
    /\ pc = "run" /\ frames # <<>> /\ Top.region.api = "MPI"
    /\ IF EpilogueRuns
       THEN /\ EndMatchAt(mpiCode)
            /\ ending' = Top.region
            /\ pc' = "exited" /\ UNCHANGED frames
       ELSE frames' = Callers /\ UNCHANGED <<stack, ending, pc>>
    /\ Excuses(Top.id > 0 /\ mpiCode # Top.region.address)
    /\ UNCHANGED <<seen, lexgion, latchVars, modeVars, mpiCode, calls, deviceVars,
                   missed>>

\* The end event and its count.
EndEvent ==
    /\ pc = "exited"
    /\ IF Tracing(Top.region) /\ lexgion[ending].bit THEN PostTraceUpdate(ending)
       ELSE UNCHANGED <<lexgion, fired>>
    /\ frames' = Callers /\ pc' = "run" /\ ending' = NoRegion
    /\ UNCHANGED <<seen, stack, generation, modeVars, mpiCode, calls, deviceVars,
                   ghostVars>>

\* hipSetDevice, whose callback comes at its EXIT.
HipSetDevice(d) ==
    /\ vendor = "HIP" /\ pc = "run" /\ frames = <<>> /\ calls < MaxCalls
    /\ calls' = calls + 1
    /\ device' = d
    /\ cached' = IF CalledBack THEN NoDevice ELSE cached
    /\ UNCHANGED <<lexgionVars, modeVars, frames, pc, ending, mpiCode, ghostVars>>

-----------------------------------------------------------------------------
(***************************************************************************)
(* Modes.                                                                  *)
(***************************************************************************)
Disturb(d) ==
    frames' = [i \in DOMAIN frames |->
                 [frames[i] EXCEPT !.disturbed = @ \/ DomainOf(frames[i].region) = d]]

\* A window's end on this or another thread, or a reload.
SwitchMode(d, m) ==
    /\ switches < MaxSwitches /\ m # mode[d]
    /\ switches' = switches + 1
    /\ mode' = [mode EXCEPT ![d] = m]
    /\ Disturb(d)
    /\ UNCHANGED <<lexgionVars, vendor, hostOn, pc, ending, mpiCode, calls,
                   deviceVars, ghostVars>>

\* apply_mode on the control thread.
ApplyMode ==
    /\ hostOn # Active("GPU")
    /\ hostOn' = Active("GPU")
    /\ Disturb("GPU")
    /\ UNCHANGED <<lexgionVars, vendor, mode, switches, pc, ending, mpiCode, calls,
                   deviceVars, ghostVars>>

\* The program has made its calls, or crashed.
Done ==
    /\ pc = "crashed" \/ (frames = <<>> /\ calls = MaxCalls)
    /\ UNCHANGED vars

Next ==
    \/ \E r \in Codes : HostEnter(r) \/ MpiEnter(r)
    \/ Decide \/ BeginEvent \/ HostExit \/ MpiExit \/ EndEvent
    \/ \E d \in Devices : HipSetDevice(d)
    \/ \E d \in Domains, m \in Modes : SwitchMode(d, m)
    \/ ApplyMode
    \/ Done

Spec == Init /\ [][Next]_vars

-----------------------------------------------------------------------------
(***************************************************************************)
(* Properties.                                                             *)
(***************************************************************************)
Records == {stack[i] : i \in DOMAIN stack}
RecordOf(f) == [code |-> f.region, id |-> f.id]
Running == IF pc = "exited" THEN Callers ELSE frames

TypeOK ==
    /\ seen \subseteq Codes /\ Cardinality(seen) <= MaxLexgions
    /\ Records \subseteq Record /\ Len(stack) <= MaxDepth
    /\ frames \in Seq(Frame) /\ Len(frames) <= 2
    /\ pc \in {"run", "entered", "decided", "exited", "crashed"}
    /\ pc = "exited" <=> ending \in Codes
    /\ pc \in {"entered", "decided", "exited"} => frames # <<>>

\* The begin and the end event of a call come together: a call whose mode did
\* not change meanwhile has its end event, counted for its own region, if and
\* only if it had its begin event, whatever the calls before it or inside it
\* went through and left on the stack.  Excepted is a call that left no record
\* where an earlier one's is still at its address.
EventsPair ==
    [][Len(frames') < Len(frames) /\ ~Top.disturbed /\ ~Top.missed
       => /\ lexgion'[Top.region].traces =
                lexgion[Top.region].traces + (IF Top.begun THEN 1 ELSE 0)
          /\ \A c \in Codes \ {Top.region} :
                lexgion'[c].traces = lexgion[c].traces]_vars

\* A record stays on the stack no longer than its call, so that the stack does
\* not fill up: excepted are the calls whose EXIT callback did not come, and
\* an MPI call during which the thread's mpi_codeptr was overwritten.
RecordsBalance ==
    Records \subseteq excused \cup {RecordOf(Running[i]) : i \in DOMAIN Running}

\* The record of an MPI call stays until its epilogue, whatever GPU calls
\* inside it and changes of either mode do, unless a call inside it "missed".
EnclosingKept ==
    ~missed => \A i \in DOMAIN Running :
                  Running[i].id > 0 => RecordOf(Running[i]) \in Records

\* "NULL on lexgion-table overflow: lgp stays NULL, epilogue skips"
\* (PMPI_CALL_PROLOGUE): a full table makes the wrapper skip the call.
OverflowSkips == pc # "crashed"

\* "Cache the result per-thread; invalidate when it changes (rare)"
\* (roctracer_callback.c): the device that events name is the thread's device.
CacheIsCurrent == cached # NoDevice => cached = device
=============================================================================
