--------------------------- MODULE MCGpuActivity ---------------------------
(***************************************************************************)
(* Instances of GpuActivity for TLC: window ends that leave TRACING or     *)
(* enter it, ends that the control thread makes after an introspection and *)
(* one that turns the collection off and leaves the mode alone.            *)
(***************************************************************************)
EXTENDS GpuActivity

End(i, m, p) == [introspect |-> i, mode |-> m, policy |-> p]
WindowEnds == {End(FALSE, "STANDBY", "NONE"), End(FALSE, "TRACING", "NONE"),
               End(TRUE, "TRACING", "off"), End(TRUE, "OFF", "NONE")}
=============================================================================
