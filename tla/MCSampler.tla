----------------------------- MODULE MCSampler -----------------------------
(***************************************************************************)
(* Instances of Sampler for TLC: the Python stack probe and a probe of     *)
(* another domain that depends on the domain's mode.                       *)
(***************************************************************************)
EXTENDS Sampler

ProbesOfCallers == [c \in {"main", "other", "native"} \cap Callers |->
                      IF c = "native" THEN "counters" ELSE "python_stack"]
OneShared == <<"shared", "own1", "own2">>
=============================================================================
