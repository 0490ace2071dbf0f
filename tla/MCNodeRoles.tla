---------------------------- MODULE MCNodeRoles ----------------------------
(***************************************************************************)
(* Instances of NodeRoles for TLC.                                         *)
(***************************************************************************)
EXTENDS NodeRoles

NoHint == [r \in Ranks |-> Unset]
\* The launcher chose the last process.
LastHint == [r \in Ranks |-> IF r = Size - 1 THEN "1" ELSE "0"]
SomeHints == {NoHint, LastHint}
OnlyNoHint == {NoHint}

\* None, or the number of tasks that were asked for.
NoSize == {Unknown}
SomeSizes == {Unknown, 3}
NoMeasureEnv == {Unset}

F(measure, activity, tracing) ==
    [measure |-> measure, activity |-> activity, tracing |-> tracing]
SomeFiles == {F("off", "leader", FALSE), F("leader", "rotate", TRUE),
              F("anyone", "off", TRUE)}
LateFiles == {F("off", "off", FALSE), F("leader", "off", FALSE)}
=============================================================================
