---------------------------- MODULE MCHostCalls ----------------------------
(***************************************************************************)
(* Instances of HostCalls for TLC: of each runtime a kernel, copies of two *)
(* directions and an allocation, and two MPI functions.                    *)
(***************************************************************************)
EXTENDS HostCalls

CONSTANTS MaxNumTraces, TracingRate

SomeRegions ==
    UNION {HipLaunchKernel, HipMemcpy, HipMalloc, CudaLaunchKernel, CudaMemcpy,
           CudaMalloc, MpiRegions}
Default == {"default"}
ToDefault == [c \in Codes |-> "default"]
DefCap == [k \in Configs |-> MaxNumTraces]
DefRate == [k \in Configs |-> TracingRate]
FromTheStart == [k \in Configs |-> 0]
=============================================================================
