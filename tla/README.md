# PInsight in TLA+

PInsight is a library that is loaded into an application and traces its OpenMP, MPI,
CUDA, HIP and Python activity with LTTng. It decides at run time what to trace: every
code region counts its executions, traces some of them, and when a *window* ends - a
region has been traced often enough, or a deadline passes - a control thread switches
the domains' modes, pauses the application for an introspection, rotates the trace and
possibly opens the next window. Configuration can be reloaded with SIGUSR1 at any time.

That logic is spread over application threads, a control thread, signal handlers,
sampler threads and runtime callbacks, mostly without locks. The modules here model it
from the source, TLC checks the models on small instances, and TLAPS proves the central
invariants for any number of threads, domains, processes, probes and configurations.

Paths below are relative to the repository's `src/` directory unless they begin with `doc/`.

## 1. The system and its parts

| Component | Source | State | Operations | Interacts with |
|---|---|---|---|---|
| Window end and control thread | `pinsight_control_thread.c`, `pinsight.c:1-75` | `control_sem`, `pending_wakeup_reason`, `pending_mode_action`, the timers, `pinsight_app_paused`; per configuration `fired`, `generation`; per domain `mode`, `last_mode`, `mode_change_fired` | `pinsight_fire_window_end` (application threads), `pinsight_control_loop`, `control_execute_introspect`, stop, SIGUSR1 handler | everything: it is called by the region callbacks and calls configuration, GPU, energy, manifest and sampler |
| Lexgions | `pinsight.c`, `pinsight.h` | thread-local table of regions with their counters, stack of records | begin, end, end_match, trace bit, count, `all` gate | called by every domain's callbacks; reads `generation`, fires the window end |
| Python callbacks | `pysysmon_callback.c`, `pinsight.py` | - | `on_py_start`, `on_py_return`, mode set and reset | Lexgions, the pause |
| OpenMP callbacks | `ompt_callback.c` | enclosing-region pointers into the record stacks | begins and ends of regions, tasks, work, barriers | Lexgions of several threads |
| Host calls: MPI, HIP, CUDA | `pmpi_mpi.c`, `roctracer_callback.c`, `cupti_callback.c` | the thread's `mpi_codeptr`, cached device | wrappers and host callbacks | Lexgions, node policy |
| GPU activity | `roctracer_callback.c`, `cupti_callback.c` | activity pool, applied collection state | apply_mode, apply_collect_state, init, fini, buffer completion | control thread, node policy |
| Configuration | `trace_config.c`, `trace_config_parse.c` | default, domain, address and name tables, knobs, the change counter | initial load, reload, resolution, hash and dump | read by the callbacks without locks |
| Node policy, energy spans | `trace_config.c:961-1150`, `energy.c` | role cache, lock file; armed, latched variant, span number | election, claim, rotation; arm, disarm, apply_config | MPI_Init, GPU, control thread |
| Sampler | `pinsight_sampler.c`, `pysysmon_sampler.c` | registry of probes, one scheduling thread per context | register, unregister, kick, loop | control thread, Python's GIL |
| Manifest, knobs, bit sets, backtraces | `manifest.c`, `app_knob.c`, `bitset.c`, `backtrace.c` | - ; table of values; - ; - | bursts; lookup and set; parsing; capture | control thread, parser |

What is hard, component by component, and what makes it correct:

- **Window end.** Several threads and a deadline may end the same window; the end is
  handed over through one latch, one pointer and one semaphore that also carries
  reloads, benign wakeups and the stop, and during a pause the control thread waits on
  that same semaphore. Correct is: an end is acted on once and by one owner; no request
  is left without a wakeup; a cycle that ended opens again; no thread stays paused; the
  mode transition is visible to the code that compares `mode` and `last_mode`; every
  open window has its deadline; the stop returns.
- **Lexgions and their clients.** Begins and ends do not pair, since tables and stacks are
  bounded, modes change between the two, exceptions and generators leave without a callback.
  Python's ends search the stack for their record; OpenMP's pop what is on top, and a worker
  points into its master's stack. Correct is: an end never takes another's record; a construct has both its
  events or neither; a window traces at most `max_num_traces` executions; a new cycle counts afresh.
- **Configuration.** A reload rewrites tables that threads search; entries are snapshots
  and outlive the load. Correct is: a load gives every region what the file says, an unedited file reloads
  to the same tables, and no resolution of the present counter is out of date.
- **GPU activity.** Mode, policy and clock select the collector; OFF is final. Correct is: what runs
  is what was decided last, and a record that was collected is emitted.
- **Node policy.** Processes that know different things elect one of them; energy spans are closed once.
- **Sampler.** No lost kick, no deadlock with the GIL, no callback after unregister returned.

Every hazard found while reading is in `PROJECT.json` at its line, with the properties about it.

## 2. Modules

| Module | What it is |
|---|---|
| `WindowControl` | application threads in `pinsight_fire_window_end`, the control thread, the handlers and the timers, one action per access to shared memory |
| `EndAction` | abstract: the life of one configuration's window end - open, claimed, queued, acting, spent |
| `WindowProperties` | the properties of `WindowControl` and the mapping to `EndAction` |
| `Lexgions` | one thread's region table, record stack, trace bit and counters, as operators its clients use |
| `PythonRegions` | a Python program and its two callbacks over `Lexgions` |
| `HostCalls` | MPI wrappers and HIP or CUDA host callbacks of one thread over `Lexgions` |
| `OmptRegions` | an OpenMP team whose threads push, pop and point into each other's record stacks |
| `GpuActivity` | the collection of GPU activity records, HIP and CUDA, from the mode store to the emitted record |
| `ConfigFile`, `PunitSets` | the parser, the tables, the reload and the resolution; the unit lists of a section |
| `NodeRoles` | the processes of a node: elections, rotation, energy spans |
| `Sampler` | probes, contexts, their threads, the kick and Python's GIL |
| `MC...` | the instances TLC checks, one module per family |
| `...Proofs` | the theorems and proofs of the module named, with its inductive invariant; `WindowControlProofs` also those of `WindowProperties`, `PythonRegionsProofs` and `HostCallsProofs` each the lemmas about `Lexgions` that it needs |

`PythonRegions` and `HostCalls` EXTEND `Lexgions`, `ConfigFile` EXTENDS `PunitSets`,
`WindowProperties` EXTENDS `WindowControl` and instantiates `EndAction`. Otherwise each family stands in the
others as its environment: `WindowControl` gives every thread one region without a
stack; in the clients of `Lexgions` modes change at any time; `GpuActivity` takes an election as one bit,
which `NodeRoles` computes; `Sampler` takes a reload as a store that owes a kick.

Operators marked *Faulty* are plausible bugs. No action uses them; each shows, put in
the place of the definition after it, that a property can fail. `PROJECT.json` maps every
definition to its lines.

### WindowControl

A thread's `pc` is "out" of a region, at the "gate" of the pause or "blocked" in it, at
"enter" (about to set its trace bit), "in" the region, or at one of the steps of
`pinsight_fire_window_end`: the compare-and-swap "cas", per domain "check", "last", "switch", "latch", then "slot",
"or" and "post". The control thread's `cpc` follows `pinsight_control_loop`: "wait" on the
semaphore, "woken" or "expired", the deadline's claim, "reload", "take" and "clear" of the slot,
"introspect", "paused" and "resume", the domain loop, the three resets of a cycle, and
"apply". The shared variables have the code's names; `pending` is the set of bits of
`pending_wakeup_reason`, `sem` the value of `control_sem`.
A step is one access to memory that another thread writes. Longer steps are those whose
parts nobody can observe; the comment of each says why.

### Lexgions, PythonRegions, HostCalls

`seen`, `lexgion` and `stack` are `lexgions[]` and `lexgion_stack` of
`pinsight_thread_data_t`. A record is named by its region and the counter it was pushed with
(`record_id`). `frames` is what the program runs; each frame remembers the record its start
pushed, which the code does not know, and the properties compare the two.

In `PythonRegions`, `missed`, `displaced` and `overlapped` record facts about the program that the
properties except; `begunTraces` and `cycleTraces` count what was traced in the current cycle.
`on_py_start` and `on_py_return` read the domain's mode twice, so each is two actions.
An exception (`Raise`), a yield (`Suspend`) and a resumption (`Resume`) call nothing,
because `pinsight.py` registers only PY_START and PY_RETURN.

In `HostCalls` a call is entered (`HostEnter`, `MpiEnter`: look up, push), decided (`Decide`: the trace
bit), begun (`BeginEvent`), ended (`HostExit`, `MpiExit`) and counted (`EndEvent`), with the mode read
wherever the code reads it. The EXIT callback of a GPU call comes only while the runtime
makes callbacks, which follows the mode with a lag (`ApplyMode`).

### OmptRegions

`slots` and `top` are each thread's stack; a slot keeps its content when it is popped, because the code
only lowers `stack_top`, and a pointer is a thread and a slot. `context` holds the thread-local
enclosing pointers, `team.pdata` what `parallel_data->ptr` points to. The callbacks are registered
once, by the mode the program starts in (`CallbacksOf`), since the call that would change them is commented out;
a mode change therefore moves only the flag every callback reads. `disturbed`, `unpaired` and `miscounted` are
history. Each callback is a step, except that `parallel_end` reads the mode again in the middle (`ParallelRestore`).

### GpuActivity

One step per call of the runtime, or for the stores between two of them. The control thread's path is
`Sleep`, `Wake` or `WakeAtBoundary`, `Reload`, `WindowEnd`, `ReadModes` (what `apply_mode` compares), `Decide`,
`OpenPool`, `Start`, `Flush`, `Stop`, `ApplyHost`; a CUDA thread's first callback is
`InitOnce` to `InitStart`; `FiniBegin` to `FiniEnd` run on the main thread before `ControlStop`, in the order of the destructor.
`ops` follows every operation from the device to the trace: running, unseen, buffered, emitted or dropped.

### ConfigFile and PunitSets

A file is a sequence of line records: a header `[ACTION target] : Inheritance : units`, or a key with a value
that is good or refused. `ReadLine` is one step of `parse_trace_config_file`; there is one operator per target and
per key. A load goes from "start" through "parsing", "environment" and "dump" to "running" (or "crashed").
`table`, `domDefault` and `default` are the region tables, the copies that inheritance makes of `trace`, `range` and
`punits` included; `sampling`, `knobs` and `service` are what the process keeps beside them; `found` and `cache` are an
application thread's resolution of a region: `Search` reads the tables, `Store` caches the result with
the counter. `ValueFor` says from the file alone, without tables or order of reading, what a field of a region must be:
the last line that gives it in the bodies of the sections that are its own (`Value`, `Giving`).

### NodeRoles

A process has its launcher's environment, what MPI_Init `published`, its own copy of the file (`config`), its
role per service (`role`, `basis`: unknown until first used, then kept), the lock it holds, and the energy spans it
emitted. `NodeRole` is `pinsight_node_role`, `LeaderBasis` where the answer came from. `Boundary` moves the clock to
the next rotation slot, the only thing of it that matters.

### Sampler

`registry`, `mutex` and `gil` name the holders of the three kinds of locks, `waiting` who sleeps on a condition variable.
A step holds its locks from one operation that can block to the next. A caller's `pc` goes
through `pinsight_probe_register` and `_unregister`, `tpc` through `sampler_thread_fn`: look at the probes, sleep, go round, read the
interval, call without the lock, advance.

## 3. What is checked

Passing runs:

| Run | Instance | Properties |
|---|---|---|
| `cycle_timed` | two threads, one cyclic configuration with a timed pause and a deadline, two executions each; fair | `TypeOK`, `FiredCyclicIsOwed`, `LatchedSwitchVisible`, `OpenWindowIsBounded`, `BlockedIsPaused`, `EndsLikeEndAction`, `StopReturns`, `BlockedResumes`, `CyclesContinue` |
| `switch_off` | two threads, two domains, each region with a section of its own (one runs a script first), deadline, periodic manifest, MPI_Init's wakeup, a SIGUSR1 that reloads; one execution each, two deadlines; fair | `DormancyRule`, `AtMostOneOwner`, `RequestsHaveToken`, `TimeoutEndsTracing` |
| `python_regions` | three regions, one a generator; table of two, stack of two, three frames, four calls, a mode change, a cycle | `LiveRecordsKept`, `CycleCap`, `FreshCount` |
| `ompt_team` | a master and a worker, two parallel regions, worksharing with and without a configuration, masked, barriers, MPI; stack of seven, four constructs and changes, two of them mode changes; every starting mode | `RecordsMatch`, `ContextRestored`, `MasterEventsPair`, `CrashOnlyIfDisturbed`, `StackDrained`, `MasterCountsOutermost` |
| `host_calls` | HIP or CUDA and MPI with MPI_Finalize; table of two, stack of two, three calls, two mode changes | `RecordsBalance`, `EnclosingKept`, `EventsPair` |
| `gpu_collect` | HIP or CUDA, two threads, two changes (window ends, reloads, boundaries), one operation, failing calls | `CallbacksFollowMode`, `CollectsAsDecided`, `CollectedIsEmitted` |
| `config_files` | some 480 files of up to three sections, two domains, two regions, table of three, two environments, two loads | `EffectiveAsWritten`, `ReloadIdempotent`, `ResolvedIsCurrent` |
| `node_elections` | two processes, ranks from the launcher, MPI or nothing, right and wrong sizes, hints; two edits, two slots | `OneWinner`, `SomeoneWins`, `SpansPair`, `RotationAgrees` |
| `sampler_threads` | two probes, one of Python's; a Python and a native caller; three contexts, two registrations, one change | `NoLostKick`, `NoCallOnceUnregistered`, `StoppingHasNoProbe`, `NoZeroDivision`, `NoGilDeadlock` |

What they say:

- `AtMostOneOwner`: a latched end belongs to one thread, the slot or the control
  thread, and an open window to nobody. `FiredCyclicIsOwed`: the latch of a cyclic window
  that is set has an owner that will reset it. `EndsLikeEndAction`: both, as a refinement.
- `RequestsHaveToken`: a reason that is set has its token in the semaphore or on the way.
- `LatchedSwitchVisible`: a switched domain shows `last_mode # mode` to `apply_mode`.
- `OpenWindowIsBounded`, `DormancyRule`: when the control thread sleeps, an open
  window has a deadline, and the periodic manifest is armed iff something is collected.
- `BlockedIsPaused`, `BlockedResumes`: nobody is left waiting in a pause.
- `StopReturns`, `CyclesContinue`, `TimeoutEndsTracing`: the other liveness properties.
- `LiveRecordsKept`: a Python end never takes the record of a running frame. `CycleCap`: a
  cycle traces at most `max_num_traces` of the executions that begin in it. `FreshCount`: a
  new cycle starts from zero.
- `RecordsMatch`: although OpenMP's ends pop what is on top, each takes its own record. `ContextRestored`: after a nested region
  the pointers are those of the enclosing one. `MasterEventsPair`: both events or neither. `MasterCountsOutermost`: only regions that are
  not nested, or have a configuration, count. `StackDrained`: `thread_end` leaves the initial region at most. All except threads
  that had a construct open when the mode changed; `CrashOnlyIfDisturbed` says that while the domain traces only those,
  a full stack, a start outside TRACING, or a worker that returns from a nested region can crash.
- `EventsPair`: the end event of a host call comes exactly with its begin event and counts for its own region;
  `RecordsBalance`: no record outlives its call; `EnclosingKept`: an MPI call's record survives the GPU calls in it.
- `CallbacksFollowMode`, `CollectsAsDecided`: once the control thread sleeps with nothing owed, host callbacks
  and collection are what mode, policy and rotation say. `CollectedIsEmitted`: no buffered record is dropped or left. The last two
  except a decision that changes while it is used (`raced`): CUDA's first callback, or an `apply_mode` that has read OFF.
- `EffectiveAsWritten`: the rates in effect after the first load are what an independent reading of the
  file gives, if it keeps to the documentation (`Proper`), fits the table and has no sections of one function in two files (`OneFile`;
  `config_functions` shows what happens otherwise). `ReloadIdempotent`: reloading the same file changes no table. `ResolvedIsCurrent`: a cached entry of the present
  counter is what a search would find now.
- `OneWinner`, `SomeoneWins`: elections answered from one source have one winner, and no election that everybody took part in
  has none. `RotationAgrees`: a slot has one collector. `SpansPair`: every span has its number, one enter and one exit.
- `NoLostKick`: no enabled probe sleeps through the change that enabled it. `NoCallOnceUnregistered`: no callback runs or starts after
  `pinsight_probe_unregister`. `StoppingHasNoProbe`, `NoZeroDivision`, `NoGilDeadlock`: as named.
- A `TypeOK` stands in each family; that of `WindowControl` also bounds the semaphore from below and is run. Those of
  `WindowControl`, `PythonRegions`, `OmptRegions`, `HostCalls`, `GpuActivity` and `NodeRoles` are proved.

Bounds and why they suffice. Two threads give every race of a window's end: a third could only
lose the same compare-and-swap, and the slot holds one action. `MaxTraces = 1` makes
each execution reach the cap, so that two executions already straddle a reset. One or two signals
and deadlines allow each to fall into every step of the loop. Two domains are
needed for the switches of one end to affect the other's. Tables and stacks are one
smaller than the program's needs where an overflow is a question (`python_regions`, `host_calls`), and
fit where it is not (`ompt_team`: seven is the initial region and its task, a region, task and construct in each of two levels, less one,
so that the deepest nesting overflows). One worker is enough for `ompt_team`, since workers share nothing but what they read of the
master. Two changes and one operation put every change into every step of the GPU code and another one after it. Three
sections contain every pair of a section with one it inherits from and one that edits it, and a table of three is full for
the longest. Two processes lose or win every election against each other. Two registrations allow one probe to return, and both to meet.
All `Max...` bounds appear only in guards; the proofs hold for all their values.

Deadlock is checked except in `node_elections` and `config_files`, `config_hash`, `config_functions`, where the processes are gone, or all edits and loads are done,
in the end. Symmetry is used in `python_regions` and `ompt_team`, over the code addresses that nothing tells apart.

Fairness (`FairSpec` of `WindowControl`, the only liveness stated). Weak fairness of the control thread, of a thread inside PInsight's
own code (it is scheduled, and nothing in it waits except the pause gate, whose exit is
enabled while the flag is down), of a handler that has started and of the stop once
begun. Strong fairness of the expiry of a deadline: the wait is repeated with the same
absolute time, so other wakeups postpone it but not for ever. Nothing is assumed about
the application's next step, and an indefinite pause is not assumed to end.

### What the code does not keep

Three runs refute a statement of a comment or document; the quotation is in `PROJECT.json`.

| Run | Statement | What happens |
|---|---|---|
| `overflow_crash` | a full region table makes the MPI epilogue skip the call | the prologue itself uses the record it did not get |
| `config_hash` | the hash and the dump are of the configuration in effect | they are taken before the `PINSIGHT_TRACE_*` variables change it |
| `config_functions` | a section of a file's function is in effect in that file | a second section of the same function in another file merges into the first's entry, which keeps the first's file |

The following statements are properties of the modules that no configuration lists; each fails on the instance named.

| Property | Instance | What happens |
|---|---|---|
| `NoReloadLeftBehind` | `CycleTimed`, `SPECIFICATION Spec`, `MaxSignals = 1` | a SIGUSR1 in a pause is taken as its end; the reason stays set and the loop sleeps |
| `OnlySigusr1Resumes` | `CycleTimed`, `Spec`, `ActionOf <- PauseForever`, `MpiInit = TRUE` | an indefinite pause is ended by any token, MPI_Init's or one left over from the request itself |
| `FiredCyclicIsOwed` | `CycleTimed`, `Spec`, two copies of the default, each with its domain, that cycle | two configurations that end together share one slot; the one overwritten never opens again |
| `OwnedEndIsLatched` | `CycleTimed`, `Spec`, one copy of the default, `FileModes <- AnyFile`, `MaxSignals = 1` | a reload overwrites the copy, latch included, while its end is acted on |
| `LatchedSwitchVisible` | as for `FiredCyclicIsOwed`, with `ActionOf <- SwitchBoth` | two threads pass the per-domain latch; the second records the new mode as the previous one |
| `TimeoutEndsTracing` | `SwitchOff` with one domain and the default only (`Configs = {def}`, `ConfigOf <- AllDefault`, `ActionOf <- SwitchMonitor`), `FileModes <- TracingFile`, no manifest, no MPI | after a reload returns to TRACING the default's latch is still set and the deadline does nothing |
| `SweptAreStale` | `PythonRegions` | a generator resumed by a deeper frame sweeps the records of running frames |
| `AllMeansAll` | `PythonRegions`, `TriggerAll = {def}`, no generators, `MaxFrames = 2` | `all` does not wait for every region: counts of an earlier cycle count as capped |
| `EventsPair` (`OmptRegions`) | `OmptTeam` | "begin/end event pairs match": worksharing without a lexgion, and workers, decide begin and end by different records |
| `TransitionsDontCrash` | `OmptTeam` | an end after a mode change follows a pointer its begin did not set |
| `NestedRegionsReturn` | `OmptTeam`, `MaxSwitches = 0` | in MONITORING a nested region has no task whose pointers could be restored |
| `NestedRegionsReturn` | `OmptTeam`, `MaxSwitches = 0`, `NestedBy = {"worker"}` | in TRACING too: `parallel_end` goes on to the record below the task's (`ompt_callback.c:503`), and a worker's task has none below it |
| `OnlyOutermostCounts` | `OmptTeam`, `MaxSwitches = 0`, `NestedBy = {"worker"}` | a region nested in a worker's does not see the master's record below it |
| `SafeFromAnyThread` | `SamplerThreads`, `Callers` and `Pythons` both `{"main", "other"}` | a Python thread that kicks holds the GIL and waits for the registry, whose holder waits for a probe that waits for the GIL |
| `StandbyHasNoCallbacks` | `GpuCollect`, also `CallsFail = FALSE` | a reload stores STANDBY in `mode` and `last_mode` before `apply_mode` saw the switch |
| `CollectsOnlyTracing` | the same | the same, and CUDA's first callback races a window end |
| `SlotCollects` | the same | a rotation boundary that passes while the control thread is at work is not noticed |
| `PoolNotUsedClosed` | `GpuCollect` | a device reset flushes a pool that finalization has closed |
| `CacheIsCurrent` | `HostCallsMixed` | HIP's cached device is not invalidated by a `hipSetDevice` that is not called back |
| `OneLeader` | `NodeElections` | without a launcher's ranks a process asked before MPI_Init leads by the lock, one asked after it by its rank |

Other disagreements found in the code and documents, which are text only or left out of the instances:

- `apply_mode` reads OFF, and a window's end that stores TRACING before `apply_collect_state` reads the mode again has the collection
  started; then the domain is turned off for good and nothing stops it (`roctracer_callback.c:887-906`). Excepted by `raced`; the
  proof of `CollectsAsDecided` does not go through without it, nor does the run.
- The cap test of a region that began before a cycle's reset ignores the generation (`pinsight_control_thread.c:530`);
  `sem_destroy` runs while the SIGUSR1 handler is installed (`:600`).
- The end of a Python region reads a trace bit its begin may not have set (`pysysmon_callback.c:229`), and executions that overlap
  share one bit (`pinsight.h:241`).
- A failed open or enable of the pool is recorded as applied (`roctracer_callback.c:852`).
- A role is cached at its first use, under the name of its lock: a hint given only to the chosen rank beside a launcher's ranks makes two leaders
  (`trace_config.c:1119`).
- A section named again after a reload keeps its old values, though the comment at `trace_config_parse.c:414` says they were cleared;
  `[RESET Lexgion(x)]` warns that it ignores what it then creates; `[Lexgion(D).default]` starts over where
  `doc/user/trace_config_format.md:48` says it merges (excluded by `Proper`).
- An edited `Lexgion.default` does not reach existing address entries at a reload; a unit limit is never cleared, and one with an unknown domain
  makes its region match nothing.
- Values set by the environment are lost at the first reload. The hash and the dump leave out the sections on lexgions and `device_activity`.
- With a full table a section by address dereferences NULL (the "crashed" state of `ConfigFile`). A thread that
  stores the counter after its search may cache an entry of the load before (excluded through `cache.at`).
- `doc/user/trace_config_format.md:140,150` says that rotation is not implemented; it is.

## 4. What is proved

Assumptions are the named ASSUMEs of the modules only. In `WindowControl` the domains are
numbered from 1, configurations and threads are arbitrary sets (infinite ones included),
and an action pauses only if it introspects; in `Lexgions` and `PythonRegions` the
constants have their types: any set of regions, any caps, starts and rates, any table size
and stack depth, zero included; in `OmptRegions` any set of workers, finite or not, any codes
distinct from the initial one's and MPI's, any stack of at least two records and any bounds; in `HostCalls` the regions are MPI, HIP or CUDA calls and no MPI call site is a GPU call's address; in
`GpuActivity` the main thread is a thread and the modes and policies are those of the code; in `NodeRoles` any number of processes, environments and files; in `Sampler` any probes, callers and
contexts, the contexts being a sequence without repetition; in `ConfigFile` any domains, any regions that have a domain and an address,
any table size and any files: sequences of lines whose headers have one of the three actions and a list of names.

- `TypeCorrect`: `Spec => []TypeOK`. `TypeOK` alone is not inductive: it allows a domain
  loop past its last domain, or at work without an action. `TypeInv` adds that a loop which is about to
  switch a domain has one, with a target other than `NONE`, and that an action is at hand where
  one is used (`LoopsInRange`); there is one lemma per group of actions.
- `OneOwnerAlways`: `Spec => []AtMostOneOwner`. The argument follows the end through its
  owners: the winner of the compare-and-swap is the only claimant because it saw the latch down,
  and with the latch down there is no owner; the slot receives it when the claimant
  leaves; "take" makes the control thread its owner while the slot still holds it ("clear"); the latch is
  reset only by the owner. `OwnersKept` says what of the state an action must leave alone
  for this to survive, so that the actions that do not touch an end share one lemma. A reload
  overwrites the copies of the default, which is why the theorem is about
  configurations outside `Copies` - and the counterexample to `OwnedEndIsLatched` shows the restriction is necessary.
- `NoneLeftBlocked`: `Spec => []BlockedIsPaused`; the flag is lowered and the waiters
  released in the same critical section.
- `TokenKept`: if no action pauses, `Spec => []RequestsHaveToken`. The premise is what
  breaks `NoReloadLeftBehind`: a pause consumes tokens without looking at the reasons.
- `DormancyAlways`: `Spec => []DormancyRule`. The modes change behind the control
  thread's back, so the invariant says that whoever changed one still owes a wakeup, or that the
  control thread is on its way to the evaluation.
- `EndsRefine`: if no configuration is a copy, `Spec => EndsLikeEndAction`. Beside the owners it
  needs that the control thread knows whether the action at hand is cyclic: `cyclic` holds exactly if
  the domain loop has passed a domain that goes back to TRACING, so only a cyclic end is
  reopened and every other is spent (`CyclicInv`).
- `CyclicIsOwedAlways`, `OpenWindowIsBoundedAlways`, `SwitchVisibleAlways`, under the premise `OneEnd`: every region resolves to the
  default, which is what the library does without a configuration file. With two ends one overwrites the other's slot and two
  threads switch a domain at once (section 3). Given one end, whoever switches the domains is alone and the latch is set
  (`OneSwitches`, from `AtMostOneOwner`). A set latch of a cyclic window then has an owner because nobody puts down the end before
  it is reset (`OwedInv`). An open window is bounded because every way into the wait evaluates the timer
  again, and a region or the deadline closes it before the timer is spent (`BoundedInv`; it finds no domain latched, since those
  latches fall before the window's, `LatchInv`). A latched domain shows
  its transition because a switch has found it in another mode than its target and nobody stores to it in between (`SwitchInv`). The last theorem needs `SilentFiles` too:
  a reload whose file says MONITORING, while a thread has stored MONITORING and not yet set the latch,
  makes `last_mode` equal to `mode` (TLC: `CycleTimed`, `Spec`, `ActionOf <- SwitchMonitor`, such a file, `MaxSignals = 1`).

- `PythonTypeCorrect`: `Spec => []TypeOK` of `PythonRegions`. `TypeInv` adds that the table is
  finite, without which its size means nothing. What `begin`, `end_match`, the trace bit and the count do to the table and the stack
  is stated once in each client's proofs (`BeginType`, `EndMatchType`, `SetTraceBitEffect`, `PostTraceEffect`, ...).
- `PythonRecordsKept`: `Spec => []LiveRecordsKept`. That every running frame has its record (`Grounded`) is not
  inductive: an end pops down to its match, so one must know that the match lies above the
  records of all callers (`Ordered`), for a frame without a record too, whose end
  would take another record of its region. A generator that goes on in place keeps that order only if no other
  frame has its record: records and frames are unique (`Distinct`), because none is newer
  than its region's counter (`Numbered`). The two exceptions in the property are where `Ordered` breaks.
- `PythonCycleCap`, `PythonFreshCount`: `Spec => []CycleCap`, `Spec => []FreshCount`. The trace bit is
  decided at the begin and the count moves at the end, so the invariant gives an execution that
  has begun traced in the current cycle a place below the cap (`RoomLeft`); only one execution of the
  region may hold it (`Alone`, hence the exception for overlaps), and the region's count must be at least
  what the cycle traced (`Counted`). A new cycle starts from nothing because no count and no execution is of
  a generation to come (`NoLaterCycle`).

- `OmptTypeCorrect`: `Spec => []TypeOK` of `OmptRegions`. That who arrived at a join had entered the region needs `TeamInv`.
- `RecordsMatchAlways`, `StackDrainedAlways`: `Spec => []RecordsMatch`, `Spec => []StackDrained`, for any team and any depth of
  nesting. `CoreInv` describes the program first: tasks and regions take turns and every other construct is innermost (`ShapeAt`),
  a construct takes its region and task from the one around it (`LinkAt`), and a thread that executes the region's body
  is of the present team: one of an earlier has its join behind it (`TeamInv`).
  With callbacks delivered at the begin as at the end (`DeliveredAt`), the records on a stack are those of the open constructs (`StackInv`).
  The initial region's record is at the bottom, and no user's record bears its address (`CodeInv`), which is what `thread_end` goes by.
- `MasterCountsAlways`: `Spec => []MasterCountsOutermost`, from `CoreInv`: the record on top is the ending region's, and
  another one of a region lies between it and the initial one's exactly if the region is nested (`TopmostOutermost`).
- `ContextRestoredAlways`: `Spec => []ContextRestored`. Inductive only with what the pointers are inside other constructs and between the
  halves of `parallel_end` (`ContextInv`), and for the initial task while the domain is off (`InitialInv`), whose body runs on when it is
  turned on again. What `parallel_end` restores is right because the record below a task's is its region's (`TaskOnRegion`).
- `CrashOnlyIfDisturbedAlways`: `Spec => []CrashOnlyIfDisturbed`. A program that has traced all through has a region's record for every
  construct but the initial task (`TracedInv`), and with `ContextInv` no callback finds NULL. The exception for workers was found by
  this proof: below a worker's task there may be no record, and the run nests on the master only; see section 3.
- `MasterEventsPairAlways`: `Spec => []MasterEventsPair`. `EventInv` says of each open construct of the master that its begin event was recorded
  just if the end, now, would be (`ShownAt`): no thread but the master decides the master's trace bits, a region's bit is decided at its begin only,
  and the worksharing lexgion of a barrier is the thread's own (`WorkOwn`).
- `HostTypeCorrect`: `Spec => []TypeOK` of `HostCalls`.
- `RecordsBalanceAlways`, `EnclosingKeptAlways`: `Spec => []RecordsBalance`, `Spec => []EnclosingKept`. Records are told apart by
  region and number, and no number is given twice (`Numbered`); the records of the running calls lie in the order of the calls
  (`Placed`). A GPU call's end pops down to the topmost record at its address, which is its own if it has one; what it pops
  above belongs to calls that are over. An MPI epilogue goes by the thread's `mpi_codeptr`, so one must know that the topmost record there is
  the running call's unless a call inside it overwrote the pointer (`EndingInv`, `MissedInv`). A call without a record
  would take another's, which is what `missed` notes.
- `EventsPairAlways`: `Spec => EventsPair`, an action property. The end goes by the trace bit of the record, and the record by its region, so
  the invariant says that the bit of the running call's region is what its begin decided (`PairInv`) and that a call inside it, of
  the same region even, leaves it so or `disturbs` it; and that the record on top is the running call's (`TopInv`). `EndPairs` is the
  property of one step; it follows from the invariant before the step.

- `TypeCorrect`, `CallbacksFollowModeAlways`, `CollectsAsDecidedAlways`, `CollectedIsEmittedAlways` of `GpuActivity`, for both
  runtimes. None is inductive: all speak of a control thread that sleeps. `HostInv` says at every step what the callbacks are and which
  modes `apply_mode` still goes by, the number of stores it has not seen included; `CollectInv` says that a decision which is not applied is owed,
  pending in a wakeup, in a step of the control thread or in a CUDA thread's first callback (`GoalInv`, `InitInv`), and that a domain turned off stays without
  collection (`TurnsOffInv`); `KeptInv` says that no buffered record waits unless the flag that lets it through is up and the
  pool is open, which is the reason why the code flushes before it clears the flag.

- `NodeTypeCorrect`: `Spec => []TypeOK` of `NodeRoles`.
- `OneWinnerAlways`, `SomeoneWinsAlways`: for a node of any size, `OneWinner` if the launcher names no two leaders (`NoTwoHints`), and
  `SomeoneWins` if it names one where it names any (`HintsNameOne`). The invariant records with each role why it was
  given (`RoleInv`): by hint, by rank, or by the lock, whose holder is the one living process whose role rests on it
  (`LockInv`). The second follows because rank 0 leads where ranks are asked, and the first that
  asks for a free lock gets it.
- `SpansPairAlways`: `Spec => []SpansPair`. A span's number moves at the enter only, and a reload that changes the variant
  closes the span before it opens the next: the open span is the last event, with the number at hand (`InPairs`, `Numbered`).
- `RotationAgreesAlways`: `Spec => []RotationAgrees`. A decision still stands when it was taken in the present slot with
  the present size (`TurnInv`); with MPI's sizes everybody divides by the same number, and one rank is the slot's remainder.

- `NoLostKickAlways`: `Spec => []NoLostKick`. The thread looks and goes to sleep under its lock, and the kick wakes it under the same
  lock: the invariant covers the thread that is about to sleep as well (`Sleepy`), and a kick *approaches* while it has not passed the
  context (`Approaches`). A context without a thread cannot be parked, which is why the kick may skip it.
- `StoppingHasNoProbeAlways`: `Spec => []StoppingHasNoProbe`. Who told a thread to stop holds the registry until it has joined
  it (`StopInv`), so no registration and no kick comes between (`HolderInv`).
- `NoZeroDivisionAlways`: `Spec => []NoZeroDivision`. A tick holds the interval it read and tested (`TickInv`).
- `CallsEnd`: `Spec => []NoCallOnceUnregistered` if no two callers share a probe and one of them at most is Python's. What is in
  flight is in the context its probe is registered with (`FlightInv`, `RegisteredInv`): the removal, under the
  context's lock, finds the thread outside its round and the probe not called. Each probe is in one context and once in it, so that
  `probes[i] = probes[--n]` removes it.
- `NoGilDeadlockAlways`: `Spec => []NoGilDeadlock` if only one Python thread stops the probes that need the GIL: from the
  call to the return of `stop_sampler` it is without the GIL (`GilInv`). The premise is necessary: see `SafeFromAnyThread`.

- `EffectiveAlways`: `Spec => []EffectiveAsWritten`, for files of any length, order and content within the property's premises.
  The search is about the tables and the property about lines, so the invariant says what the tables hold *when n lines are read*
  (`ParseInv`): the context is the header the parser is in (`SectionInv`), `Lexgion.default` and the domains' defaults hold the last
  values that the standing sections give (`DefaultInv`, `DomainInv`), every entry of the table belongs to one target, in the order in which
  targets are first named, with the values of all its sections (`TableInv`), and is out of effect exactly if the last
  section that lists it removes it (`RemovedInv`). The order of the documentation is what makes it inductive: an entry is a copy of the
  default, and stays what the file says only because no default comes after it (`InOrder`). There is a lemma for each kind of header and for a key
  (`DefaultHeaderRead`, `DomainHeaderRead`, `LexgionsHeaderRead`, `LexgionKeyRead`, `OtherHeader`, `OtherKey`) and `LineRead` for all of them. The names of
  a header are a fold over a sequence: `SelectAllSteps` unrolls it, and `Good` is the invariant of its steps. The
  prover's theorems of induction take an operator that it cannot instantiate; `Inductive` replaces them, for a *set* of numbers, by the
  least element of its complement. At the end of the file `Loaded` follows, and from it, by the cases of `ValueFor`, that the search finds
  the entry whose sections they are (`AddressSet`, `NameSet`, `LoadedEffective`). The premise of a table with room is used at every name; without `OneFile` the
  entry a name finds may bear another file (`EntryHint`), and `Proper` without its third part lets a second section of a domain's default forget the first.
- `ResolvedIsCurrentAlways`: `Spec => []ResolvedIsCurrent`. What a thread holds, found or cached, under the present counter is what the search
  would find whenever no file is read (`FreshInv`). The end of a load moves the counter past whatever was searched for before or during it
  (`CounterInv`); a search during a load is of the counter before it, and one that ends after it keeps that in `at`.

Only model-checked: liveness under fairness, which is beyond the prover; the three properties under `OneEnd` for the instances with more ends that keep
them; and `ReloadIdempotent`, which needs what `ParseInv` says of the rates for every field of every table, and from tables
that a load before has left.

## 5. What is left out

- Memory models: accesses are sequentially consistent and a field is read and written whole.
  Most shared fields are volatile or accessed with `__ATOMIC_SEQ_CST`; the others are words.
- What events carry, the introspection script, `lttng rotate`, and the files: effects outside the process.
- `sem_destroy` after the join: undefined behaviour that has no state to check.
- The match of a section's units against the unit a thread runs on (`domain_punit_set_match`), and the tables of domains that the DSL
  headers generate.
- OpenMP's task, mutex, target and device callbacks: compiled, but registered by no mode.
- The discovery of energy backends and what they measure, the clock calibration and record decoding of the GPU
  runtimes, the thread table of the Python stack probe, the contents of a manifest burst: input and output, without control.
- Failure to open the lock file of an election; the claim cache, which nothing consults.
- `backtrace.c`, tracepoint providers and third-party headers: no state of the program's own. Most of the code that the map does not cover
  is `experiment/`, third-party headers and event emission.

## 6. What is next

1. Done: the window family and its refinement, Lexgions with Python, OpenMP, MPI and GPU clients, GPU activity, configuration,
   node roles and energy spans, sampler; proofs of every safety invariant that a run checks.
2. `OmptRegions`: what of `MasterEventsPair` holds on workers, whose constructs go by their master's lexgions.
3. `ReloadIdempotent`: a `ParseInv` of all fields that starts from the tables of the load before.
4. The unit match of a section, and `ConfigFile`'s resolution beside `Lexgions`' callers instead of a fixed configuration.
