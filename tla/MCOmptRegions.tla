--------------------------- MODULE MCOmptRegions ---------------------------
(***************************************************************************)
(* Instances of OmptRegions for TLC: an outer and a nested region, two     *)
(* worksharing loops and a masked construct, of which one loop has a       *)
(* configuration of its own.                                               *)
(***************************************************************************)
EXTENDS OmptRegions, TLC

CONSTANTS outerRegion, innerRegion

AllKinds == Kinds
RegionSymmetry == Permutations({outerRegion, innerRegion})
=============================================================================
