-------------------------- MODULE MCWindowControl --------------------------
(***************************************************************************)
(* Instances of WindowControl for TLC.  t1 runs the destructor.  The       *)
(* configurations are those the library can have:                          *)
(*   - no config file: every region resolves to the default, whose action  *)
(*     is that of PINSIGHT_WINDOW;                                         *)
(*   - a config file: the regions of a domain resolve to that domain's     *)
(*     default - a copy of the global one (cp1, cp2) or the domain's own    *)
(*     section (own1, own2) - while the deadline is still the global one's. *)
(***************************************************************************)
EXTENDS WindowProperties

CONSTANTS t1, t2, def, cp1, cp2, own1, own2

TwoThreads == {t1, t2}

\* window_end_action values, for two domains.
Switch(m) == [introspect |-> FALSE, pause |-> "none", mode |-> m]
Script(m) == [introspect |-> TRUE, pause |-> "none", mode |-> m]
Timed(m) == [introspect |-> TRUE, pause |-> "timed", mode |-> m]
Forever(m) == [introspect |-> TRUE, pause |-> "forever", mode |-> m]

Each(action) == [c \in Configs |-> action]

\* The modes of one and of two domains.
MonitorOne == <<"MONITORING">>
TraceOne == <<"TRACING">>
OffBoth == <<"OFF", "OFF">>

SwitchOff == Each(Switch(OffBoth))
SwitchMonitor == Each(Switch(MonitorOne))
CycleTimedOne == Each(Timed(TraceOne))
SwitchBoth == Each(Switch(<<"MONITORING", "MONITORING">>))
CycleBoth == Each(Timed(<<"TRACING", "TRACING">>))
PauseForever == Each(Forever(MonitorOne))
\* A section of its own for one region, whose end runs a script first.
OwnActions ==
    [c \in Configs |-> IF c = own1 THEN Script(OffBoth) ELSE Switch(OffBoth)]

\* Where the threads' regions resolve to.
AllDefault == [t \in Threads |-> def]
AllCopy1 == [t \in Threads |-> cp1]
TwoCopies == [t \in Threads |-> IF t = t1 THEN cp1 ELSE cp2]
TwoOwn == [t \in Threads |-> IF t = t1 THEN own1 ELSE own2]

FirstDomain == [t \in Threads |-> 1]
EachItsDomain == [t \in Threads |-> IF t = t1 THEN 1 ELSE 2]

\* trace_mode values of a reloaded file.
NoFile == {}
SilentFile == {[d \in Domains |-> "NONE"]}
TracingFile == {[d \in Domains |-> "TRACING"]}
AnyFile == {[d \in Domains |-> "TRACING"], [d \in Domains |-> "NONE"]}
=============================================================================
