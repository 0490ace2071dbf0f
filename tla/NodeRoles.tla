------------------------------ MODULE NodeRoles ------------------------------
(***************************************************************************)
(* The processes of one node, and which of them measure the node's energy  *)
(* and collect the activity of its GPUs: the node policies of              *)
(* trace_config.c, the spans of energy.c and the collect decision of       *)
(* roctracer_callback.c (that of cupti_callback.c is the same).            *)
(*                                                                         *)
(* Every process decides by itself, from the environment it was launched   *)
(* with, from what MPI_Init published if that is past, from its own copy   *)
(* of the configuration file, which it reloads when it is told to, from a  *)
(* lock file and from the clock.  The ordinals of processes are their      *)
(* local ranks.  Only the value of the clock that matters is kept: its     *)
(* slot of the rotation.  GpuActivity has what a decision then does to a   *)
(* pool.  Operators marked "Faulty" are plausible bugs no action uses.     *)
(***************************************************************************)
EXTENDS Integers, Sequences, FiniteSets

CONSTANTS
    Size,        \* processes on the node
    Hints,       \* what PINSIGHT_NODE_LEADER may be: functions on Ranks
    EnvRanks,    \* whether the launcher exports the local rank: BOOLEANs
    EnvSizes,    \* the local sizes it may export, Unknown if none
    MeasureEnvs, \* what PINSIGHT_MEASURE_ENERGY may be
    Files,       \* contents of the configuration file
    MaxEdits,    \* bound: edits of the file
    MaxSlots     \* bound: rotation boundaries

Ranks == 0 .. Size - 1
Services == {"energy", "hip_activity"}
PerNode == {"anyone", "leader", "rotate"}
Policies == {"off", "on"} \cup PerNode
Unknown == -1
Unset == "unset"
Nobody == -1

ASSUME NodeAssumption ==
    /\ Size \in Nat \ {0}
    /\ Hints \subseteq [Ranks -> {Unset, "0", "1"}]
    /\ EnvRanks \subseteq BOOLEAN
    /\ EnvSizes \subseteq (Nat \ {0}) \cup {Unknown}
    /\ MeasureEnvs \subseteq Policies \cup {Unset}
    /\ Files \subseteq [measure : Policies, activity : Policies, tracing : BOOLEAN]
    /\ MaxEdits \in Nat /\ MaxSlots \in Nat

VARIABLES
    hint,       \* PINSIGHT_NODE_LEADER of each
    envRank,    \* the launcher exports the local rank
    envSize,    \* the local size it exports
    menv,       \* PINSIGHT_MEASURE_ENERGY
    pc,         \* where each process is in its life
    published,  \* MPI_Init has published rank and size
    file,       \* the file now
    config,     \* the file each process loaded last
    edits,      \* edits so far
    role,       \* pinsight_node_role's cache, Unknown before the first use
    lock,       \* who holds each lock file
    energy,     \* the armed span of each process
    events,     \* the energy_enter and energy_exit it emitted
    pinned,     \* hip_pinned_method, Unset before
    collects,   \* the collect decision it took last
    at,         \* the slot it took it in, Unknown if MPI_Init was later
    slot,       \* the slot of the clock
    basis       \* what each role was decided from

envVars == <<hint, envRank, envSize, menv>>
electVars == <<role, lock, basis>>
energyVars == <<energy, events>>
gpuVars == <<pinned, collects, at>>
vars == <<envVars, pc, published, file, config, edits, electVars, energyVars,
          gpuVars, slot>>

Init ==
    /\ hint \in Hints /\ envRank \in EnvRanks
    /\ envSize \in IF envRank THEN EnvSizes ELSE {Unknown}
    /\ menv \in MeasureEnvs
    /\ pc = [r \in Ranks |-> "launched"]
    /\ published = [r \in Ranks |-> FALSE]
    /\ file \in Files
    /\ config = [r \in Ranks |-> file]
    /\ edits = 0
    /\ role = [r \in Ranks |-> [s \in Services |-> Unknown]]
    /\ basis = [r \in Ranks |-> [s \in Services |-> "none"]]
    /\ lock = [s \in Services |-> Nobody]
    /\ energy = [r \in Ranks |->
                    [armed |-> FALSE, latched |-> Unset, seq |-> 0]]
    /\ events = [r \in Ranks |-> <<>>]
    /\ pinned = [r \in Ranks |-> Unset]
    /\ collects = [r \in Ranks |-> FALSE]
    /\ at = [r \in Ranks |-> 0]
    /\ slot = 0

-----------------------------------------------------------------------------
(***************************************************************************)
(* What a process knows of the node.                                       *)
(***************************************************************************)
\* pinsight_local_rank: the environment first.
LocalRank(r) == IF envRank \/ published[r] THEN r ELSE Unknown

\* Faulty: the environment first here too.
SizeFromEnv(r) ==
    IF envSize # Unknown THEN envSize ELSE IF published[r] THEN Size ELSE Unknown

\* pinsight_ranks_per_node: MPI first.
RanksPerNode(r) == IF published[r] THEN Size ELSE envSize

TopologyKnown(r) == LocalRank(r) # Unknown /\ RanksPerNode(r) # Unknown

\* node_leader_status: what it answers from, and the answer.
LeaderBasis(r) ==
    IF hint[r] # Unset THEN "hint"
    ELSE IF LocalRank(r) # Unknown THEN "rank" ELSE "lock"

Leads(r) == IF hint[r] # Unset THEN hint[r] = "1" ELSE LocalRank(r) = 0

-----------------------------------------------------------------------------
(***************************************************************************)
(* The election.                                                           *)
(***************************************************************************)
\* claim_node_singleton.  Its own cache is never asked: the role's is first.
ClaimSingleton(r, s) ==
    /\ lock' = [lock EXCEPT ![s] = IF @ = Nobody THEN r ELSE @]
    /\ role' = [role EXCEPT ![r][s] = IF lock[s] = Nobody THEN 1 ELSE 0]

Decided(r, s, wins) ==
    /\ role' = [role EXCEPT ![r][s] = IF wins THEN 1 ELSE 0]
    /\ UNCHANGED lock

\* Faulty: a process that does not know its rank does not lead.
UnknownNeverLeads(r, s) ==
    IF LeaderBasis(r) = "lock" THEN Decided(r, s, FALSE) ELSE Decided(r, s, Leads(r))

\* Faulty: a process that does not know its rank leads.
UnknownLeads(r, s) ==
    IF LeaderBasis(r) = "lock" THEN Decided(r, s, TRUE) ELSE Decided(r, s, Leads(r))

\* LEADER_PER_NODE, and a rotation that does not know the node.
ElectLeader(r, s) ==
    IF LeaderBasis(r) = "lock" THEN ClaimSingleton(r, s)
    ELSE Decided(r, s, Leads(r))

\* pinsight_node_role: decided once per lock, whatever the policy is later.
NodeRole(r, s, policy) ==
    IF role[r][s] # Unknown THEN UNCHANGED electVars
    ELSE /\ IF policy \in {"on", "off"} THEN Decided(r, s, policy = "on")
            ELSE IF policy = "anyone" THEN ClaimSingleton(r, s)
            ELSE ElectLeader(r, s)
         /\ basis' = [basis EXCEPT ![r][s] =
                        IF policy \in {"on", "off"} THEN "policy"
                        ELSE IF policy = "anyone" THEN "lock" ELSE LeaderBasis(r)]

-----------------------------------------------------------------------------
(***************************************************************************)
(* Energy.                                                                 *)
(***************************************************************************)
\* energy_resolved_policy, on the configuration c.
Measure(c) == IF menv # Unset THEN menv ELSE c.measure

\* energy_emit, by the process that measures.
Emit(r, kind, seq, measures) ==
    events' = IF measures THEN [events EXCEPT ![r] = Append(@, <<kind, seq>>)]
              ELSE events

\* pinsight_energy_arm: the first arm latches the variant and elects.
Arm(r, policy) ==
    IF energy[r].armed \/ policy = "off" THEN UNCHANGED <<energyVars, electVars>>
    ELSE /\ IF energy[r].latched = Unset THEN NodeRole(r, "energy", policy)
            ELSE UNCHANGED electVars
         /\ energy' = [energy EXCEPT ![r].armed = TRUE,
                                     ![r].latched = IF @ = Unset THEN policy ELSE @]
         /\ Emit(r, "enter", energy[r].seq, role'[r]["energy"] = 1)

\* Faulty: a bare stop.
DisarmSilently(r) ==
    /\ energy' = [energy EXCEPT ![r].armed = FALSE]
    /\ UNCHANGED events

\* pinsight_energy_disarm
Disarm(r) ==
    IF ~energy[r].armed THEN UNCHANGED energyVars
    ELSE /\ energy' = [energy EXCEPT ![r].armed = FALSE, ![r].seq = @ + 1]
         /\ Emit(r, "exit", energy[r].seq, role[r]["energy"] = 1)

\* pinsight_energy_apply_config
ApplyEnergy(r, policy) ==
    IF energy[r].armed /\ policy = "off" THEN Disarm(r) /\ UNCHANGED electVars
    ELSE Arm(r, policy)

-----------------------------------------------------------------------------
(***************************************************************************)
(* GPU activity.                                                           *)
(***************************************************************************)
\* hip_should_collect_now on the configuration c: pins the method and answers.
Decide(r, c) ==
    LET method == IF pinned[r] = Unset THEN c.activity ELSE pinned[r]
        gated == ~c.tracing \/ c.activity \notin PerNode
    IN  /\ pinned' = IF gated THEN pinned ELSE [pinned EXCEPT ![r] = method]
        /\ IF gated
           THEN /\ collects' = [collects EXCEPT ![r] = c.tracing /\ c.activity = "on"]
                /\ UNCHANGED electVars
           ELSE IF method = "rotate" /\ TopologyKnown(r)
           THEN /\ collects' = [collects EXCEPT ![r] =
                                  slot % RanksPerNode(r) = LocalRank(r)]
                /\ UNCHANGED electVars
           ELSE /\ NodeRole(r, "hip_activity",
                            IF method = "rotate" THEN "leader" ELSE method)
                /\ collects' = [collects EXCEPT ![r] = role'[r]["hip_activity"] = 1]
        /\ at' = [at EXCEPT ![r] = slot]

-----------------------------------------------------------------------------
(***************************************************************************)
(* The life of a process.                                                  *)
(***************************************************************************)
Live(r) == pc[r] = "running"

\* enter_pinsight_func up to pinsight_energy_arm.
EnterEnergy(r) ==
    /\ pc[r] = "launched"
    /\ pc' = [pc EXCEPT ![r] = "armed"]
    /\ config' = [config EXCEPT ![r] = file]
    /\ Arm(r, Measure(file))
    /\ UNCHANGED <<envVars, published, file, edits, gpuVars, slot>>

\* LTTNG_ROCTRACER_Init, and the control thread starts.
EnterGpu(r) ==
    /\ pc[r] = "armed"
    /\ pc' = [pc EXCEPT ![r] = "running"]
    /\ Decide(r, config[r])
    /\ UNCHANGED <<envVars, published, file, config, edits, energyVars, slot>>

\* MPI_Init, which every process of the node calls, publishes.
Publish(r) ==
    /\ Live(r) /\ ~published[r]
    /\ \A p \in Ranks : published[p] \/ pc[p] \in {"running", "applying"}
    /\ published' = [published EXCEPT ![r] = TRUE]
    /\ at' = [at EXCEPT ![r] = Unknown]
    /\ UNCHANGED <<envVars, pc, file, config, edits, electVars, energyVars, pinned,
                   collects, slot>>

\* Somebody edits the file.
Edit(f) ==
    /\ edits < MaxEdits /\ f # file
    /\ edits' = edits + 1 /\ file' = f
    /\ UNCHANGED <<envVars, pc, published, config, electVars, energyVars, gpuVars,
                   slot>>

\* The control thread reloads: the energy, and then the modes.
Reload(r) ==
    /\ Live(r) /\ config[r] # file
    /\ config' = [config EXCEPT ![r] = file]
    /\ ApplyEnergy(r, Measure(file))
    /\ pc' = [pc EXCEPT ![r] = "applying"]
    /\ UNCHANGED <<envVars, published, file, edits, gpuVars, slot>>

ApplyModes(r) ==
    /\ pc[r] = "applying"
    /\ Decide(r, config[r])
    /\ pc' = [pc EXCEPT ![r] = "running"]
    /\ UNCHANGED <<envVars, published, file, config, edits, energyVars, slot>>

\* It wakes without a reload: for the MPI_Init's token or at a boundary.
Wake(r) ==
    /\ Live(r)
    /\ Decide(r, config[r])
    /\ UNCHANGED <<envVars, pc, published, file, config, edits, energyVars, slot>>

Boundary ==
    /\ slot < MaxSlots
    /\ slot' = slot + 1
    /\ UNCHANGED <<envVars, pc, published, file, config, edits, electVars, energyVars,
                   gpuVars>>

\* The control thread ends: the open span is closed.
Stop(r) ==
    /\ Live(r)
    /\ Disarm(r)
    /\ pc' = [pc EXCEPT ![r] = "stopped"]
    /\ UNCHANGED <<envVars, published, file, config, edits, electVars, gpuVars, slot>>

\* The process ends, and its locks with it.
Gone(r) ==
    /\ pc[r] = "stopped"
    /\ pc' = [pc EXCEPT ![r] = "gone"]
    /\ lock' = [s \in Services |-> IF lock[s] = r THEN Nobody ELSE lock[s]]
    /\ collects' = [collects EXCEPT ![r] = FALSE]
    /\ UNCHANGED <<envVars, published, file, config, edits, role, basis, energyVars,
                   pinned, at, slot>>

Next ==
    \/ \E r \in Ranks : EnterEnergy(r) \/ EnterGpu(r) \/ Publish(r) \/ Reload(r)
                        \/ ApplyModes(r) \/ Wake(r) \/ Stop(r) \/ Gone(r)
    \/ \E f \in Files : Edit(f)
    \/ Boundary

Spec == Init /\ [][Next]_vars

-----------------------------------------------------------------------------
(***************************************************************************)
(* Properties.                                                             *)
(***************************************************************************)
TypeOK ==
    /\ pc \in [Ranks -> {"launched", "armed", "running", "applying", "stopped", "gone"}]
    /\ role \in [Ranks -> [Services -> {Unknown, 0, 1}]]
    /\ basis \in [Ranks -> [Services -> {"none", "policy", "hint", "rank", "lock"}]]
    /\ lock \in [Services -> Ranks \cup {Nobody}]
    /\ \A r \in Ranks : energy[r].latched \in Policies \cup {Unset}
    /\ pinned \in [Ranks -> PerNode \cup {Unset}]

Alive(r) == pc[r] # "gone"
Elected(r, s) == Alive(r) /\ role[r][s] = 1 /\ basis[r][s] # "policy"

\* Of the processes that live at the same time at most one wins an election of
\* those that answered it from the same source: reloads at different times,
\* elections before and after MPI_Init, a new election when the lock's holder
\* is gone.
OneWinner ==
    \A s \in Services : \A p, q \in Ranks :
        Elected(p, s) /\ Elected(q, s) /\ basis[p][s] = basis[q][s] => p = q

\* If every process was asked and none has gone, one of them measures or
\* collects, whatever each knew.
SomeoneWins ==
    \A s \in Services :
        (\A r \in Ranks : Alive(r) /\ basis[r][s] \notin {"none"}
                          /\ ~(basis[r][s] = "policy" /\ role[r][s] = 0))
        => \E r \in Ranks : role[r][s] = 1

\* "enter/exit pair shares seq - never a bare stop": the spans of a process
\* are numbered in order, one is open if and only if the process is armed and
\* measures, and none is open when it is gone.
SpansPair ==
    \A r \in Ranks :
        /\ \A i \in DOMAIN events[r] :
              /\ events[r][i][1] = IF i % 2 = 1 THEN "enter" ELSE "exit"
              /\ i % 2 = 0 => events[r][i][2] = events[r][i - 1][2]
              /\ i > 2 => events[r][i][2] > events[r][i - 2][2]
        /\ Len(events[r]) % 2 =
              IF energy[r].armed /\ role[r]["energy"] = 1 THEN 1 ELSE 0
        /\ pc[r] \in {"stopped", "gone"} => Len(events[r]) % 2 = 0

\* "Node-wide clock -> all local ranks agree with zero IPC": when all processes
\* rotate, know the node from MPI_Init, and took their decisions in one slot,
\* exactly one collects.
RotationAgrees ==
    (\A r \in Ranks : Live(r) /\ published[r] /\ pinned[r] = "rotate"
                      /\ config[r].tracing /\ config[r].activity \in PerNode
                      /\ config[r] = file /\ at[r] = slot)
    => Cardinality({r \in Ranks : collects[r]}) = 1

\* leader_per_node is "exactly one deterministic rank/node"
\* (trace_config_format.md): no two processes that measure for it.
OneLeader ==
    \A p, q \in Ranks :
        Elected(p, "energy") /\ Elected(q, "energy")
        /\ energy[p].latched = "leader" /\ energy[q].latched = "leader" => p = q
=============================================================================
