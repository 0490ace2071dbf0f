SPECIFICATION Spec
CONSTANTS
  Probes = {"python_stack", "counters"}
  GilProbes = {"python_stack"}
  OwnProbes = {"counters"}
  ModeProbes = {"counters"}
  Callers = {"main", "native"}
  Pythons = {"main"}
  ProbeOf <- ProbesOfCallers
  Scheds <- OneShared
  MaxProbes = 2
  MaxStarts = 2
  MaxChanges = 1
INVARIANTS
  NoLostKick
  NoCallOnceUnregistered
  StoppingHasNoProbe
  NoZeroDivision
  NoGilDeadlock
