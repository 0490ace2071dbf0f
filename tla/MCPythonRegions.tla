-------------------------- MODULE MCPythonRegions --------------------------
(***************************************************************************)
(* Instances of PythonRegions for TLC: the regions of one configuration.   *)
(***************************************************************************)
EXTENDS PythonRegions, TLC

CONSTANTS f, g, h, def, MaxNumTraces, TracingRate

OneConfig == {def}
ToDefault == [c \in Codes |-> def]
DefCap == [k \in Configs |-> MaxNumTraces]
DefRate == [k \in Configs |-> TracingRate]
FromTheStart == [k \in Configs |-> 0]

\* Where g is the only generator.
Symmetry == Permutations({f, h})
=============================================================================
