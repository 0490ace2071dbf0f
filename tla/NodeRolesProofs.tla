-------------------------- MODULE NodeRolesProofs --------------------------
(***************************************************************************)
(* Proofs about NodeRoles, for a node of any number of processes: types,   *)
(* the winners of elections, energy spans and rotations.                   *)
(***************************************************************************)
EXTENDS NodeRoles, SequenceTheorems, FiniteSetTheorems, TLAPS

-----------------------------------------------------------------------------
(***************************************************************************)
(* Types.                                                                  *)
(***************************************************************************)
Bases == {"none", "policy", "hint", "rank", "lock"}
Spans == {"enter", "exit"} \X Nat

TypeInv ==
    /\ hint \in Hints /\ envRank \in BOOLEAN
    /\ envSize \in (Nat \ {0}) \cup {Unknown}
    /\ menv \in Policies \cup {Unset}
    /\ pc \in [Ranks -> {"launched", "armed", "running", "applying", "stopped", "gone"}]
    /\ published \in [Ranks -> BOOLEAN]
    /\ file \in Files /\ config \in [Ranks -> Files]
    /\ edits \in Nat
    /\ role \in [Ranks -> [Services -> {Unknown, 0, 1}]]
    /\ basis \in [Ranks -> [Services -> Bases]]
    /\ lock \in [Services -> Ranks \cup {Nobody}]
    /\ energy \in [Ranks -> [armed : BOOLEAN, latched : Policies \cup {Unset}, seq : Nat]]
    /\ events \in [Ranks -> Seq(Spans)]
    /\ pinned \in [Ranks -> PerNode \cup {Unset}]
    /\ collects \in [Ranks -> BOOLEAN]
    /\ at \in [Ranks -> Nat \cup {Unknown}]
    /\ slot \in Nat

ElectTypes ==
    /\ role \in [Ranks -> [Services -> {Unknown, 0, 1}]]
    /\ basis \in [Ranks -> [Services -> Bases]]
    /\ lock \in [Services -> Ranks \cup {Nobody}]

LEMMA RanksAreNaturals == Ranks \subseteq Nat /\ 0 \in Ranks /\ Nobody \notin Ranks
BY NodeAssumption DEF Ranks, Nobody

LEMMA FilesHaveTypes ==
    ASSUME NEW f \in Files
    PROVE  f.measure \in Policies /\ f.activity \in Policies /\ f.tracing \in BOOLEAN
BY NodeAssumption

LEMMA MeasureType ==
    ASSUME TypeInv, NEW f \in Files
    PROVE  Measure(f) \in Policies
BY FilesHaveTypes DEF TypeInv, Measure

-----------------------------------------------------------------------------
(***************************************************************************)
(* What one use of pinsight_node_role may do.                              *)
(***************************************************************************)
\* The role of r for s is decided, and from what.
Answers(r, s) ==
    /\ role[r][s] = Unknown /\ role'[r][s] \in {0, 1}
    /\ \A q \in Ranks, t \in Services :
          q # r \/ t # s => role'[q][t] = role[q][t] /\ basis'[q][t] = basis[q][t]
    /\ \A t \in Services \ {s} : lock'[t] = lock[t]
    /\ \/ basis'[r][s] = "policy" /\ lock'[s] = lock[s]
       \/ /\ basis'[r][s] = "hint" /\ lock'[s] = lock[s]
          /\ hint[r] # Unset /\ (role'[r][s] = 1 <=> hint[r] = "1")
       \/ /\ basis'[r][s] = "rank" /\ lock'[s] = lock[s]
          /\ hint[r] = Unset /\ (role'[r][s] = 1 <=> r = 0)
       \/ /\ basis'[r][s] = "lock"
          /\ IF lock[s] = Nobody THEN role'[r][s] = 1 /\ lock'[s] = r
             ELSE role'[r][s] = 0 /\ lock'[s] = lock[s]

LEMMA NodeRoleAnswers ==
    ASSUME TypeInv, NEW r \in Ranks, NEW s \in Services, NEW policy \in Policies,
           NodeRole(r, s, policy)
    PROVE  /\ ElectTypes'
           /\ IF role[r][s] # Unknown THEN UNCHANGED electVars ELSE Answers(r, s)
<1>1. CASE role[r][s] # Unknown
  BY <1>1 DEF NodeRole, electVars, ElectTypes, TypeInv
<1>2. CASE role[r][s] = Unknown
  <2> DEFINE b == IF policy \in {"on", "off"} THEN "policy"
                  ELSE IF policy = "anyone" THEN "lock" ELSE LeaderBasis(r)
  <2>1. basis' = [basis EXCEPT ![r][s] = b] /\ b \in Bases \ {"none"}
    BY <1>2 DEF NodeRole, LeaderBasis, Bases
  <2>2. basis' \in [Ranks -> [Services -> Bases]] /\ basis'[r][s] = b
        /\ \A q \in Ranks, t \in Services : q # r \/ t # s => basis'[q][t] = basis[q][t]
    BY <2>1 DEF TypeInv
  <2>3. ASSUME NEW wins \in BOOLEAN, Decided(r, s, wins)
        PROVE  /\ role' \in [Ranks -> [Services -> {Unknown, 0, 1}]]
               /\ role'[r][s] = (IF wins THEN 1 ELSE 0)
               /\ \A q \in Ranks, t \in Services :
                     q # r \/ t # s => role'[q][t] = role[q][t]
               /\ lock' = lock
    BY <2>3 DEF Decided, TypeInv
  <2>4. ASSUME ClaimSingleton(r, s)
        PROVE  /\ role' \in [Ranks -> [Services -> {Unknown, 0, 1}]]
               /\ role'[r][s] = (IF lock[s] = Nobody THEN 1 ELSE 0)
               /\ \A q \in Ranks, t \in Services :
                     q # r \/ t # s => role'[q][t] = role[q][t]
               /\ lock' \in [Services -> Ranks \cup {Nobody}]
               /\ lock'[s] = (IF lock[s] = Nobody THEN r ELSE lock[s])
               /\ \A t \in Services \ {s} : lock'[t] = lock[t]
    BY <2>4 DEF ClaimSingleton, TypeInv
  <2>5. CASE policy \in {"on", "off"}
    <3>1. b = "policy" /\ (Decided(r, s, TRUE) \/ Decided(r, s, FALSE))
      BY <1>2, <2>5 DEF NodeRole
    <3> QED
      BY <1>2, <2>2, <2>3, <3>1 DEF ElectTypes, Answers, TypeInv
  <2>6. CASE policy = "anyone"
    <3>1. b = "lock" /\ ClaimSingleton(r, s)
      BY <1>2, <2>6 DEF NodeRole
    <3> QED
      BY <1>2, <2>2, <2>4, <3>1 DEF ElectTypes, Answers, TypeInv
  <2>7. CASE policy \in {"leader", "rotate"}
    <3>1. b = LeaderBasis(r) /\ ElectLeader(r, s)
      BY <1>2, <2>7 DEF NodeRole
    <3>2. CASE LeaderBasis(r) = "lock"
      <4>1. ClaimSingleton(r, s)
        BY <3>1, <3>2 DEF ElectLeader
      <4> QED
        BY <1>2, <2>2, <2>4, <3>1, <3>2, <4>1 DEF ElectTypes, Answers, TypeInv
    <3>3. CASE LeaderBasis(r) = "hint"
      <4>1. hint[r] # Unset /\ (Leads(r) <=> hint[r] = "1") /\ Leads(r) \in BOOLEAN
        BY <3>3 DEF LeaderBasis, Leads
      <4>2. Decided(r, s, Leads(r))
        BY <3>1, <3>3 DEF ElectLeader
      <4> QED
        BY <1>2, <2>2, <2>3, <3>1, <3>3, <4>1, <4>2 DEF ElectTypes, Answers, TypeInv
    <3>4. CASE LeaderBasis(r) = "rank"
      <4>1. hint[r] = Unset /\ (Leads(r) <=> r = 0) /\ Leads(r) \in BOOLEAN
        BY <3>4 DEF LeaderBasis, Leads, LocalRank
      <4>2. Decided(r, s, Leads(r))
        BY <3>1, <3>4 DEF ElectLeader
      <4> QED
        BY <1>2, <2>2, <2>3, <3>1, <3>4, <4>1, <4>2 DEF ElectTypes, Answers, TypeInv
    <3> QED
      BY <3>2, <3>3, <3>4 DEF LeaderBasis
  <2> QED
    BY <2>5, <2>6, <2>7 DEF Policies, PerNode
<1> QED
  BY <1>1, <1>2

-----------------------------------------------------------------------------
(***************************************************************************)
(* The parts of the actions.                                               *)
(***************************************************************************)
EnergyTypes ==
    /\ energy \in [Ranks -> [armed : BOOLEAN, latched : Policies \cup {Unset}, seq : Nat]]
    /\ events \in [Ranks -> Seq(Spans)]

\* A span of r begins; the role was decided when the variant was latched.
Begins(r) ==
    /\ ~energy[r].armed
    /\ energy'[r].armed /\ energy'[r].latched # Unset /\ energy'[r].seq = energy[r].seq
    /\ energy[r].latched # Unset => UNCHANGED electVars
    /\ energy[r].latched = Unset =>
          IF role[r]["energy"] # Unknown THEN UNCHANGED electVars ELSE Answers(r, "energy")
    /\ events'[r] = IF role'[r]["energy"] = 1
                    THEN Append(events[r], <<"enter", energy[r].seq>>) ELSE events[r]
    /\ \A q \in Ranks \ {r} : energy'[q] = energy[q] /\ events'[q] = events[q]

\* It ends.
Ends(r) ==
    /\ energy[r].armed
    /\ ~energy'[r].armed /\ energy'[r].latched = energy[r].latched
    /\ energy'[r].seq = energy[r].seq + 1
    /\ events'[r] = IF role[r]["energy"] = 1
                    THEN Append(events[r], <<"exit", energy[r].seq>>) ELSE events[r]
    /\ \A q \in Ranks \ {r} : energy'[q] = energy[q] /\ events'[q] = events[q]
    /\ UNCHANGED electVars

LEMMA ArmBegins ==
    ASSUME TypeInv, NEW r \in Ranks, NEW policy \in Policies, Arm(r, policy)
    PROVE  /\ ElectTypes' /\ EnergyTypes'
           /\ UNCHANGED <<energyVars, electVars>> \/ Begins(r)
<1>1. CASE energy[r].armed \/ policy = "off"
  BY <1>1 DEF Arm, TypeInv, ElectTypes, EnergyTypes, electVars, energyVars
<1>2. CASE ~(energy[r].armed \/ policy = "off")
  <2> DEFINE latched == energy[r].latched
  <2>1. /\ IF latched = Unset THEN NodeRole(r, "energy", policy) ELSE UNCHANGED electVars
        /\ energy' = [energy EXCEPT ![r].armed = TRUE,
                         ![r].latched = IF @ = Unset THEN policy ELSE @]
        /\ Emit(r, "enter", energy[r].seq, role'[r]["energy"] = 1)
    BY <1>2 DEF Arm
  <2>2. "energy" \in Services
    BY DEF Services
  <2>3. /\ ElectTypes'
        /\ latched # Unset => UNCHANGED electVars
        /\ latched = Unset =>
             IF role[r]["energy"] # Unknown THEN UNCHANGED electVars ELSE Answers(r, "energy")
    BY <2>1, <2>2, NodeRoleAnswers DEF TypeInv, ElectTypes, electVars
  <2>4. /\ energy' \in [Ranks -> [armed : BOOLEAN, latched : Policies \cup {Unset}, seq : Nat]]
        /\ energy'[r].armed /\ energy'[r].latched # Unset /\ energy'[r].seq = energy[r].seq
        /\ \A q \in Ranks \ {r} : energy'[q] = energy[q]
    BY <2>1 DEF TypeInv, Policies, PerNode, Unset
  <2>5. /\ events' \in [Ranks -> Seq(Spans)]
        /\ events'[r] = IF role'[r]["energy"] = 1
                        THEN Append(events[r], <<"enter", energy[r].seq>>) ELSE events[r]
        /\ \A q \in Ranks \ {r} : events'[q] = events[q]
    <3>1. <<"enter", energy[r].seq>> \in Spans /\ events[r] \in Seq(Spans)
      BY DEF Spans, TypeInv
    <3>2. Append(events[r], <<"enter", energy[r].seq>>) \in Seq(Spans)
      BY <3>1
    <3> QED
      BY <2>1, <3>2 DEF Emit, TypeInv
  <2> QED
    BY <1>2, <2>3, <2>4, <2>5 DEF EnergyTypes, Begins
<1> QED
  BY <1>1, <1>2

LEMMA DisarmEnds ==
    ASSUME TypeInv, NEW r \in Ranks, Disarm(r), UNCHANGED electVars
    PROVE  /\ EnergyTypes'
           /\ IF energy[r].armed THEN Ends(r) ELSE UNCHANGED energyVars
<1>1. CASE ~energy[r].armed
  BY <1>1 DEF Disarm, TypeInv, EnergyTypes, energyVars
<1>2. CASE energy[r].armed
  <2>1. /\ energy' = [energy EXCEPT ![r].armed = FALSE, ![r].seq = @ + 1]
        /\ Emit(r, "exit", energy[r].seq, role[r]["energy"] = 1)
    BY <1>2 DEF Disarm
  <2>2. /\ energy' \in [Ranks -> [armed : BOOLEAN, latched : Policies \cup {Unset}, seq : Nat]]
        /\ ~energy'[r].armed /\ energy'[r].latched = energy[r].latched
        /\ energy'[r].seq = energy[r].seq + 1
        /\ \A q \in Ranks \ {r} : energy'[q] = energy[q]
    <3> DEFINE span == [armed |-> FALSE, latched |-> energy[r].latched,
                        seq |-> energy[r].seq + 1]
    <3>1. energy[r] \in [armed : BOOLEAN, latched : Policies \cup {Unset}, seq : Nat]
      BY DEF TypeInv
    <3>2. /\ span \in [armed : BOOLEAN, latched : Policies \cup {Unset}, seq : Nat]
          /\ ~span.armed /\ span.latched = energy[r].latched /\ span.seq = energy[r].seq + 1
      BY <3>1
    <3>3. /\ DOMAIN energy' = Ranks /\ energy' = [q \in Ranks |-> energy'[q]]
          /\ energy'[r] = [[energy[r] EXCEPT !.armed = FALSE] EXCEPT !.seq = energy[r].seq + 1]
          /\ \A q \in Ranks \ {r} : energy'[q] = energy[q]
      BY <2>1 DEF TypeInv
    <3>4. energy'[r] = span
      BY <3>1, <3>3
    <3> HIDE DEF span
    <3>5. ASSUME NEW q \in Ranks
          PROVE  energy'[q] \in [armed : BOOLEAN, latched : Policies \cup {Unset}, seq : Nat]
      <4>1. CASE q = r
        BY <3>2, <3>4, <4>1
      <4>2. CASE q # r
        BY <3>3, <4>2 DEF TypeInv
      <4> QED
        BY <4>1, <4>2
    <3>6. energy' \in [Ranks -> [armed : BOOLEAN, latched : Policies \cup {Unset}, seq : Nat]]
      BY <3>3, <3>5
    <3> QED
      BY <3>2, <3>3, <3>4, <3>6
  <2>3. <<"exit", energy[r].seq>> \in Spans /\ events[r] \in Seq(Spans)
    BY DEF Spans, TypeInv
  <2>4. Append(events[r], <<"exit", energy[r].seq>>) \in Seq(Spans)
    BY <2>3
  <2>5. /\ events' \in [Ranks -> Seq(Spans)]
        /\ events'[r] = IF role[r]["energy"] = 1
                        THEN Append(events[r], <<"exit", energy[r].seq>>) ELSE events[r]
        /\ \A q \in Ranks \ {r} : events'[q] = events[q]
    BY <2>1, <2>4 DEF Emit, TypeInv
  <2> QED
    BY <1>2, <2>2, <2>5 DEF EnergyTypes, Ends
<1> QED
  BY <1>1, <1>2

GpuTypes ==
    /\ pinned \in [Ranks -> PerNode \cup {Unset}]
    /\ collects \in [Ranks -> BOOLEAN]
    /\ at \in [Ranks -> Nat \cup {Unknown}]

\* The decision of r is taken now: by the rotation, if it is pinned and the
\* node is known.
Turns(r) ==
    /\ published[r] /\ pinned'[r] = "rotate" /\ config[r].tracing
       /\ config[r].activity \in PerNode
       => collects'[r] = (slot % Size = r)
    /\ at'[r] = slot
    /\ \A q \in Ranks \ {r} :
          pinned'[q] = pinned[q] /\ collects'[q] = collects[q] /\ at'[q] = at[q]

LEMMA DecideTurns ==
    ASSUME TypeInv, NEW r \in Ranks, Decide(r, config[r])
    PROVE  /\ ElectTypes' /\ GpuTypes'
           /\ UNCHANGED electVars \/ Answers(r, "hip_activity")
           /\ Turns(r)
<1> DEFINE c == config[r]
           method == IF pinned[r] = Unset THEN c.activity ELSE pinned[r]
           gated == ~c.tracing \/ c.activity \notin PerNode
<1>1. c.activity \in Policies /\ c.tracing \in BOOLEAN
  BY FilesHaveTypes DEF TypeInv
<1>2. /\ pinned' = IF gated THEN pinned ELSE [pinned EXCEPT ![r] = method]
      /\ at' = [at EXCEPT ![r] = slot]
  BY DEF Decide
<1>3. /\ pinned' \in [Ranks -> PerNode \cup {Unset}]
      /\ at' \in [Ranks -> Nat \cup {Unknown}]
      /\ at'[r] = slot
      /\ \A q \in Ranks \ {r} : pinned'[q] = pinned[q] /\ at'[q] = at[q]
      /\ ~gated => pinned'[r] = method /\ method \in PerNode
  BY <1>1, <1>2 DEF TypeInv, PerNode, Unset
<1>4. CASE gated
  <2>1. /\ collects' = [collects EXCEPT ![r] = c.tracing /\ c.activity = "on"]
        /\ UNCHANGED electVars
    BY <1>4 DEF Decide
  <2>2. /\ collects' \in [Ranks -> BOOLEAN]
        /\ \A q \in Ranks \ {r} : collects'[q] = collects[q]
    BY <1>1, <2>1 DEF TypeInv
  <2> QED
    BY <1>3, <1>4, <2>1, <2>2 DEF Turns, GpuTypes, ElectTypes, TypeInv, electVars
<1>5. CASE ~gated /\ method = "rotate" /\ TopologyKnown(r)
  <2>1. /\ collects' = [collects EXCEPT ![r] = slot % RanksPerNode(r) = LocalRank(r)]
        /\ UNCHANGED electVars
    BY <1>5 DEF Decide
  <2>2. /\ collects' \in [Ranks -> BOOLEAN]
        /\ collects'[r] = (slot % RanksPerNode(r) = LocalRank(r))
        /\ \A q \in Ranks \ {r} : collects'[q] = collects[q]
    BY <2>1 DEF TypeInv
  <2>3. published[r] => RanksPerNode(r) = Size /\ LocalRank(r) = r
    BY DEF RanksPerNode, LocalRank
  <2> QED
    BY <1>3, <2>1, <2>2, <2>3 DEF Turns, GpuTypes, ElectTypes, TypeInv, electVars
<1>6. CASE ~gated /\ ~(method = "rotate" /\ TopologyKnown(r))
  <2> DEFINE policy == IF method = "rotate" THEN "leader" ELSE method
  <2>1. /\ NodeRole(r, "hip_activity", policy)
        /\ collects' = [collects EXCEPT ![r] = role'[r]["hip_activity"] = 1]
    BY <1>6 DEF Decide
  <2>2. policy \in Policies /\ "hip_activity" \in Services
    BY <1>3, <1>6 DEF Policies, PerNode, Services
  <2>3. ElectTypes' /\ (UNCHANGED electVars \/ Answers(r, "hip_activity"))
    BY <2>1, <2>2, NodeRoleAnswers
  <2>4. /\ collects' \in [Ranks -> BOOLEAN]
        /\ \A q \in Ranks \ {r} : collects'[q] = collects[q]
    BY <2>1 DEF TypeInv
  <2>5. ~(published[r] /\ pinned'[r] = "rotate")
    <3>1. SUFFICES ASSUME published[r], pinned'[r] = "rotate" PROVE FALSE
      OBVIOUS
    <3>2. LocalRank(r) = r /\ RanksPerNode(r) = Size /\ r # Unknown /\ Size # Unknown
      BY <3>1, RanksAreNaturals, NodeAssumption DEF LocalRank, RanksPerNode, Unknown
    <3> QED
      BY <1>3, <1>6, <3>1, <3>2 DEF TopologyKnown
  <2> QED
    BY <1>3, <2>3, <2>4, <2>5 DEF Turns, GpuTypes
<1> QED
  BY <1>4, <1>5, <1>6

-----------------------------------------------------------------------------
(***************************************************************************)
(* Type correctness.                                                       *)
(***************************************************************************)
LEMMA TypeInit == Init => TypeInv
<1> SUFFICES ASSUME Init PROVE TypeInv
  OBVIOUS
<1>1. /\ hint \in Hints /\ envRank \in BOOLEAN /\ envSize \in (Nat \ {0}) \cup {Unknown}
      /\ menv \in Policies \cup {Unset} /\ file \in Files /\ edits \in Nat /\ slot \in Nat
  BY NodeAssumption DEF Init
<1>2. events \in [Ranks -> Seq(Spans)]
  BY DEF Init
<1> QED
  BY <1>1, <1>2 DEF Init, TypeInv, Bases

LEMMA TypeStep == TypeInv /\ [Next]_vars => TypeInv'
<1> SUFFICES ASSUME TypeInv, [Next]_vars PROVE TypeInv'
  OBVIOUS
<1> USE DEF TypeInv, ElectTypes, EnergyTypes, GpuTypes, envVars, electVars, energyVars, gpuVars
<1>1. ASSUME NEW r \in Ranks, EnterEnergy(r) PROVE TypeInv'
  <2>1. ElectTypes' /\ EnergyTypes'
    BY <1>1, MeasureType, ArmBegins DEF EnterEnergy
  <2> QED
    BY <1>1, <2>1 DEF EnterEnergy
<1>2. ASSUME NEW r \in Ranks, EnterGpu(r) PROVE TypeInv'
  <2>1. ElectTypes' /\ GpuTypes'
    BY <1>2, DecideTurns DEF EnterGpu
  <2> QED
    BY <1>2, <2>1 DEF EnterGpu
<1>3. ASSUME NEW r \in Ranks, Publish(r) PROVE TypeInv'
  BY <1>3 DEF Publish
<1>4. ASSUME NEW r \in Ranks, Reload(r) PROVE TypeInv'
  <2>1. ElectTypes' /\ EnergyTypes'
    BY <1>4, MeasureType, ArmBegins, DisarmEnds DEF Reload, ApplyEnergy
  <2> QED
    BY <1>4, <2>1 DEF Reload
<1>5. ASSUME NEW r \in Ranks, ApplyModes(r) PROVE TypeInv'
  <2>1. ElectTypes' /\ GpuTypes'
    BY <1>5, DecideTurns DEF ApplyModes
  <2> QED
    BY <1>5, <2>1 DEF ApplyModes
<1>6. ASSUME NEW r \in Ranks, Wake(r) PROVE TypeInv'
  <2>1. ElectTypes' /\ GpuTypes'
    BY <1>6, DecideTurns DEF Wake
  <2> QED
    BY <1>6, <2>1 DEF Wake
<1>7. ASSUME NEW r \in Ranks, Stop(r) PROVE TypeInv'
  <2>1. EnergyTypes'
    BY <1>7, DisarmEnds DEF Stop
  <2> QED
    BY <1>7, <2>1 DEF Stop
<1>8. ASSUME NEW r \in Ranks, Gone(r) PROVE TypeInv'
  BY <1>8 DEF Gone
<1>9. ASSUME NEW f \in Files, Edit(f) PROVE TypeInv'
  BY <1>9 DEF Edit
<1>10. CASE Boundary
  BY <1>10 DEF Boundary
<1>11. CASE UNCHANGED vars
  BY <1>11 DEF vars
<1> QED
  BY <1>1, <1>2, <1>3, <1>4, <1>5, <1>6, <1>7, <1>8, <1>9, <1>10, <1>11 DEF Next

LEMMA TypesKept == Spec => []TypeInv
BY TypeInit, TypeStep, PTL DEF Spec

\* Every variable keeps its type: a role is decided once and for all, and a
\* lock is held by a process of the node or by nobody.
THEOREM NodeTypeCorrect == Spec => []TypeOK
<1>1. TypeInv => TypeOK
  BY DEF TypeInv, TypeOK, Bases
<1> QED
  BY <1>1, TypesKept, PTL

-----------------------------------------------------------------------------
(***************************************************************************)
(* Elections.                                                              *)
(***************************************************************************)
LEMMA StepElects ==
    ASSUME TypeInv, [Next]_vars
    PROVE  /\ hint' = hint
           /\ \/ UNCHANGED electVars /\ \A q \in Ranks : pc[q] = "gone" => pc'[q] = "gone"
              \/ \E r \in Ranks, s \in Services :
                    /\ Answers(r, s)
                    /\ \A q \in Ranks : pc[q] = "gone" => pc'[q] = "gone"
              \/ \E r \in Ranks : Gone(r)
<1> USE DEF envVars, electVars, Services
<1>1. ASSUME NEW r \in Ranks,
             EnterEnergy(r) \/ EnterGpu(r) \/ Reload(r) \/ ApplyModes(r) \/ Wake(r)
      PROVE  /\ hint' = hint
             /\ UNCHANGED electVars \/ \E s \in Services : Answers(r, s)
             /\ \A q \in Ranks : pc[q] = "gone" => pc'[q] = "gone"
  <2>1. hint' = hint /\ \A q \in Ranks : pc[q] = "gone" => pc'[q] = "gone"
    BY <1>1 DEF EnterEnergy, EnterGpu, Reload, ApplyModes, Wake, Live, TypeInv
  <2>2. CASE EnterEnergy(r)
    BY <2>2, MeasureType, ArmBegins DEF EnterEnergy, Begins, TypeInv
  <2>3. CASE Reload(r)
    <3>1. UNCHANGED electVars \/ Arm(r, Measure(file))
      BY <2>3 DEF Reload, ApplyEnergy
    <3>2. Arm(r, Measure(file)) => UNCHANGED electVars \/ Answers(r, "energy")
      BY MeasureType, ArmBegins DEF Begins, TypeInv
    <3> QED
      BY <2>1, <3>1, <3>2
  <2>4. CASE EnterGpu(r) \/ ApplyModes(r) \/ Wake(r)
    <3>1. Decide(r, config[r])
      BY <2>4 DEF EnterGpu, ApplyModes, Wake
    <3>2. UNCHANGED electVars \/ Answers(r, "hip_activity")
      BY <3>1, DecideTurns
    <3> QED
      BY <2>1, <3>2
  <2> QED
    BY <1>1, <2>1, <2>2, <2>3, <2>4
<1>2. ASSUME NEW r \in Ranks, Publish(r) \/ Stop(r)
      PROVE  /\ hint' = hint /\ UNCHANGED electVars
             /\ \A q \in Ranks : pc[q] = "gone" => pc'[q] = "gone"
  BY <1>2 DEF Publish, Stop, Live, TypeInv
<1>3. ASSUME NEW r \in Ranks, Gone(r) PROVE hint' = hint
  BY <1>3 DEF Gone
<1>4. CASE (\E f \in Files : Edit(f)) \/ Boundary \/ UNCHANGED vars
  BY <1>4 DEF Edit, Boundary, vars
<1> QED
  BY <1>1, <1>2, <1>3, <1>4 DEF Next

\* What a role was decided from, and what that says of the others.
RoleInv(r, s) ==
    /\ role[r][s] = Unknown <=> basis[r][s] = "none"
    /\ basis[r][s] = "hint" => hint[r] # Unset /\ (role[r][s] = 1 <=> hint[r] = "1")
    /\ basis[r][s] = "rank" => hint[r] = Unset /\ (role[r][s] = 1 <=> r = 0)
    /\ basis[r][s] = "lock" /\ role[r][s] = 1 /\ Alive(r) => lock[s] = r

LockInv(s) ==
    /\ lock[s] # Nobody => role[lock[s]][s] = 1
    /\ (\E r \in Ranks : basis[r][s] = "lock") /\ (\A r \in Ranks : Alive(r))
         => lock[s] # Nobody

ElectInv == \A s \in Services : LockInv(s) /\ \A r \in Ranks : RoleInv(r, s)

LEMMA ElectInit == Init => ElectInv
BY RanksAreNaturals DEF Init, ElectInv, RoleInv, LockInv

LEMMA ElectStep == TypeInv /\ ElectInv /\ [Next]_vars => ElectInv'
<1> SUFFICES ASSUME TypeInv, ElectInv, [Next]_vars PROVE ElectInv'
  OBVIOUS
<1> hint' = hint
  BY StepElects
<1>1. CASE UNCHANGED electVars /\ \A q \in Ranks : pc[q] = "gone" => pc'[q] = "gone"
  BY <1>1 DEF electVars, ElectInv, RoleInv, LockInv, Alive
<1>2. ASSUME NEW r \in Ranks, NEW s \in Services, Answers(r, s),
             \A q \in Ranks : pc[q] = "gone" => pc'[q] = "gone"
      PROVE  ElectInv'
  <2>1. ASSUME NEW q \in Ranks, NEW t \in Services, q # r \/ t # s PROVE RoleInv(q, t)'
    <3>1. role'[q][t] = role[q][t] /\ basis'[q][t] = basis[q][t] /\ (Alive(q)' => Alive(q))
      BY <1>2, <2>1 DEF Answers, Alive
    <3>2. RoleInv(q, t)
      BY DEF ElectInv
    <3>3. lock[t] = q => lock'[t] = q
      BY <1>2, RanksAreNaturals DEF Answers
    <3> QED
      BY <3>1, <3>2, <3>3 DEF RoleInv
  <2>2. RoleInv(r, s)'
    BY <1>2, RanksAreNaturals DEF Answers, RoleInv, Unknown
  <2>3. ASSUME NEW t \in Services PROVE LockInv(t)'
    <3>1. LockInv(t) /\ \A q \in Ranks : Alive(q)' => Alive(q)
      BY <1>2 DEF ElectInv, Alive
    <3>2. CASE t # s
      <4>1. /\ lock'[t] = lock[t]
            /\ \A q \in Ranks : role'[q][t] = role[q][t] /\ basis'[q][t] = basis[q][t]
        BY <1>2, <3>2 DEF Answers
      <4>2. lock[t] \in Ranks \cup {Nobody}
        BY DEF TypeInv
      <4> QED
        BY <3>1, <4>1, <4>2 DEF LockInv
    <3>3. CASE t = s /\ lock[s] # Nobody
      <4>1. lock[s] \in Ranks /\ role[lock[s]][s] = 1 /\ lock'[s] = lock[s]
        BY <1>2, <3>1, <3>3 DEF TypeInv, LockInv, Answers
      <4>2. role'[lock[s]][s] = 1
        BY <1>2, <4>1 DEF Answers, Unknown
      <4> QED
        BY <3>3, <4>1, <4>2 DEF LockInv
    <3>4. CASE t = s /\ lock[s] = Nobody
      <4>1. \/ basis'[r][s] = "lock" /\ lock'[s] = r /\ role'[r][s] = 1
            \/ basis'[r][s] # "lock" /\ lock'[s] = Nobody
        BY <1>2, <3>4 DEF Answers
      <4>2. \A q \in Ranks \ {r} : basis'[q][s] = basis[q][s]
        BY <1>2 DEF Answers
      <4> QED
        BY <3>1, <3>4, <4>1, <4>2, RanksAreNaturals DEF LockInv
    <3> QED
      BY <3>2, <3>3, <3>4
  <2> QED
    BY <2>1, <2>2, <2>3 DEF ElectInv
<1>3. ASSUME NEW r \in Ranks, Gone(r) PROVE ElectInv'
  <2>1. /\ role' = role /\ basis' = basis /\ ~Alive(r)'
        /\ \A q \in Ranks : Alive(q)' => Alive(q) /\ q # r
        /\ \A s \in Services : lock'[s] = IF lock[s] = r THEN Nobody ELSE lock[s]
    BY <1>3 DEF Gone, Alive, TypeInv
  <2> QED
    BY <2>1 DEF ElectInv, RoleInv, LockInv
<1> QED
  BY <1>1, <1>2, <1>3, StepElects

LEMMA ElectKept == Spec => []ElectInv
<1>1. TypeInv /\ ElectInv /\ [Next]_vars => ElectInv'
  BY ElectStep
<1> QED
  BY <1>1, ElectInit, TypesKept, PTL DEF Spec

\* The launcher names no two leaders; it names one if it names any.
NoTwoHints == \A h \in Hints : \A p, q \in Ranks : h[p] = "1" /\ h[q] = "1" => p = q
HintsNameOne ==
    \A h \in Hints : \/ \A r \in Ranks : h[r] = Unset
                    \/ /\ \A r \in Ranks : h[r] # Unset
                       /\ \E r \in Ranks : h[r] = "1"

\* Elections answered from one source have one winner, on a node of any size:
\* pinsight_node_role, claim_node_singleton.
THEOREM OneWinnerAlways == NoTwoHints => (Spec => []OneWinner)
<1> SUFFICES ASSUME NoTwoHints PROVE Spec => []OneWinner
  OBVIOUS
<1>1. TypeInv /\ ElectInv => OneWinner
  <2> SUFFICES ASSUME TypeInv, ElectInv, NEW s \in Services, NEW p \in Ranks, NEW q \in Ranks,
                      Elected(p, s), Elected(q, s), basis[p][s] = basis[q][s]
               PROVE  p = q
    BY DEF OneWinner
  <2>1. /\ RoleInv(p, s) /\ RoleInv(q, s)
        /\ role[p][s] = 1 /\ role[q][s] = 1 /\ Alive(p) /\ Alive(q)
        /\ basis[p][s] \in {"hint", "rank", "lock"}
    BY DEF ElectInv, Elected, TypeInv, Bases, RoleInv, Unknown
  <2>2. CASE basis[p][s] = "hint"
    BY <2>1, <2>2 DEF RoleInv, NoTwoHints, TypeInv
  <2>3. CASE basis[p][s] = "rank"
    BY <2>1, <2>3 DEF RoleInv
  <2>4. CASE basis[p][s] = "lock"
    BY <2>1, <2>4 DEF RoleInv
  <2> QED
    BY <2>1, <2>2, <2>3, <2>4
<1> QED
  BY <1>1, TypesKept, ElectKept, PTL

\* When all were asked and none has gone, one has the role, although they may
\* have answered from different sources.
THEOREM SomeoneWinsAlways == HintsNameOne => (Spec => []SomeoneWins)
<1> SUFFICES ASSUME HintsNameOne PROVE Spec => []SomeoneWins
  OBVIOUS
<1>1. TypeInv /\ ElectInv => SomeoneWins
  <2> SUFFICES ASSUME TypeInv, ElectInv, NEW s \in Services,
                      \A r \in Ranks : /\ Alive(r) /\ basis[r][s] # "none"
                                       /\ ~(basis[r][s] = "policy" /\ role[r][s] = 0)
               PROVE  \E r \in Ranks : role[r][s] = 1
    BY DEF SomeoneWins
  <2>1. ASSUME NEW r \in Ranks
        PROVE  /\ role[r][s] # 1 => basis[r][s] \in {"hint", "rank", "lock"}
               /\ RoleInv(r, s)
    BY DEF ElectInv, RoleInv, TypeInv, Bases
  <2>2. CASE \E r \in Ranks : basis[r][s] = "lock"
    <3>1. lock[s] # Nobody /\ role[lock[s]][s] = 1
      BY <2>2 DEF ElectInv, LockInv
    <3> QED
      BY <3>1 DEF TypeInv
  <2>3. CASE ~\E r \in Ranks : basis[r][s] = "lock"
    <3>1. CASE \A r \in Ranks : hint[r] = Unset
      BY <2>1, <2>3, <3>1, RanksAreNaturals DEF RoleInv
    <3>2. CASE (\A r \in Ranks : hint[r] # Unset) /\ \E r \in Ranks : hint[r] = "1"
      BY <2>1, <2>3, <3>2 DEF RoleInv
    <3> QED
      BY <3>1, <3>2 DEF HintsNameOne, TypeInv
  <2> QED
    BY <2>2, <2>3
<1> QED
  BY <1>1, TypesKept, ElectKept, PTL

-----------------------------------------------------------------------------
(***************************************************************************)
(* Energy spans.                                                           *)
(***************************************************************************)
Over(r) == pc[r] \in {"stopped", "gone"}
Measures(r) == role[r]["energy"] = 1

LEMMA StepSpans ==
    ASSUME TypeInv, [Next]_vars
    PROVE  \/ /\ UNCHANGED energyVars
              /\ \A q \in Ranks : /\ role'[q]["energy"] = role[q]["energy"]
                                  /\ Over(q)' => Over(q) \/ ~energy[q].armed
           \/ \E r \in Ranks : /\ Begins(r) /\ ~Over(r)'
                                /\ \A q \in Ranks \ {r} : Over(q)' => Over(q)
           \/ \E r \in Ranks : /\ Ends(r)
                                /\ \A q \in Ranks \ {r} : Over(q)' => Over(q)
<1> DEFINE Others(r) == \A q \in Ranks \ {r} : Over(q)' => Over(q)
           Idles == /\ UNCHANGED energyVars
                    /\ \A q \in Ranks : /\ role'[q]["energy"] = role[q]["energy"]
                                        /\ Over(q)' => Over(q) \/ ~energy[q].armed
<1>1. ASSUME NEW r \in Ranks, EnterEnergy(r)
      PROVE  Idles \/ (Begins(r) /\ ~Over(r)' /\ Others(r))
  <2>1. ~Over(r)' /\ Others(r)
    BY <1>1 DEF EnterEnergy, Over, TypeInv
  <2>2. UNCHANGED <<energyVars, electVars>> \/ Begins(r)
    BY <1>1, MeasureType, ArmBegins DEF EnterEnergy, TypeInv
  <2> QED
    BY <2>1, <2>2 DEF electVars
<1>2. ASSUME NEW r \in Ranks, Reload(r)
      PROVE  Idles \/ (Begins(r) /\ ~Over(r)' /\ Others(r)) \/ (Ends(r) /\ Others(r))
  <2>1. ~Over(r)' /\ Others(r)
    BY <1>2 DEF Reload, Over, Live, TypeInv
  <2>2. UNCHANGED <<energyVars, electVars>> \/ Begins(r) \/ Ends(r)
    <3>1. CASE energy[r].armed /\ Measure(file) = "off"
      BY <1>2, <3>1, DisarmEnds DEF Reload, ApplyEnergy
    <3>2. CASE ~(energy[r].armed /\ Measure(file) = "off")
      <4>1. Arm(r, Measure(file))
        BY <1>2, <3>2 DEF Reload, ApplyEnergy
      <4> QED
        BY <4>1, MeasureType, ArmBegins DEF TypeInv
    <3> QED
      BY <3>1, <3>2
  <2> QED
    BY <2>1, <2>2 DEF electVars
<1>3. ASSUME NEW r \in Ranks, EnterGpu(r) \/ ApplyModes(r) \/ Wake(r) PROVE Idles
  <2>1. UNCHANGED energyVars /\ \A q \in Ranks : Over(q)' => Over(q)
    BY <1>3 DEF EnterGpu, ApplyModes, Wake, Over, TypeInv
  <2>2. Decide(r, config[r])
    BY <1>3 DEF EnterGpu, ApplyModes, Wake
  <2>3. UNCHANGED electVars \/ Answers(r, "hip_activity")
    BY <2>2, DecideTurns
  <2>4. \A q \in Ranks : role'[q]["energy"] = role[q]["energy"]
    BY <2>3 DEF electVars, Answers, Services
  <2> QED
    BY <2>1, <2>4
<1>4. ASSUME NEW r \in Ranks, Stop(r) PROVE Idles \/ (Ends(r) /\ Others(r))
  <2>1. Others(r) /\ UNCHANGED electVars
    BY <1>4 DEF Stop, Over, TypeInv
  <2>2. IF energy[r].armed THEN Ends(r) ELSE UNCHANGED energyVars
    BY <1>4, <2>1, DisarmEnds DEF Stop
  <2> QED
    BY <2>1, <2>2 DEF electVars
<1>5. ASSUME NEW r \in Ranks, Publish(r) \/ Gone(r) PROVE Idles
  BY <1>5 DEF Publish, Gone, Over, electVars, TypeInv
<1>6. CASE (\E f \in Files : Edit(f)) \/ Boundary \/ UNCHANGED vars
  BY <1>6 DEF Edit, Boundary, vars, electVars, Over
<1> QED
  BY <1>1, <1>2, <1>3, <1>4, <1>5, <1>6 DEF Next

\* A span is open.
Open(r) == energy[r].armed /\ Measures(r)

\* A sequence of spans in order: odd events enter, even ones exit with the
\* number of the one before.
InPairs(es) ==
    \A i \in DOMAIN es :
        /\ es[i][1] = IF i % 2 = 1 THEN "enter" ELSE "exit"
        /\ i % 2 = 0 => es[i][2] = es[i - 1][2]
        /\ i > 2 => es[i][2] > es[i - 2][2]

\* The numbers so far; those of closed spans are below the next.
Numbered(es, seq) ==
    \A i \in DOMAIN es : es[i][2] <= seq /\ (i % 2 = 0 => es[i][2] < seq)

SpanInv(r) ==
    /\ energy[r].latched = Unset => ~energy[r].armed /\ role[r]["energy"] = Unknown
    /\ Over(r) => ~energy[r].armed
    /\ ~Measures(r) => events[r] = <<>>
    /\ InPairs(events[r]) /\ Numbered(events[r], energy[r].seq)
    /\ Len(events[r]) % 2 = IF Open(r) THEN 1 ELSE 0
    /\ Open(r) => events[r][Len(events[r])][2] = energy[r].seq

LEMMA Parity ==
    ASSUME NEW n \in Nat
    PROVE  /\ n % 2 \in {0, 1}
           /\ n % 2 = 0 <=> (n + 1) % 2 = 1
           /\ n % 2 = 1 <=> (n + 1) % 2 = 0
           /\ n > 1 => (n - 1) % 2 = (n + 1) % 2
OBVIOUS

\* A begin after closed spans, and an end after an open one.
LEMMA EnterPairs ==
    ASSUME NEW es \in Seq(Spans), NEW seq \in Nat, InPairs(es), Numbered(es, seq),
           Len(es) % 2 = 0
    PROVE  LET new == Append(es, <<"enter", seq>>) IN
           /\ InPairs(new) /\ Numbered(new, seq)
           /\ Len(new) % 2 = 1 /\ new[Len(new)][2] = seq
<1> DEFINE n == Len(es)
           new == Append(es, <<"enter", seq>>)
<1>1. /\ n \in Nat /\ Len(new) = n + 1 /\ DOMAIN es = 1 .. n /\ DOMAIN new = 1 .. n + 1
      /\ new[n + 1] = <<"enter", seq>> /\ \A i \in 1 .. n : new[i] = es[i]
      /\ \A i \in 1 .. n : es[i][2] \in Nat
  BY DEF Spans
<1>2. (n + 1) % 2 = 1
  BY <1>1, Parity
<1> HIDE DEF new
<1>3. n > 1 => es[n - 1][2] < seq
  <2>1. n > 1 => es[n][2] = es[n - 1][2] /\ es[n][2] < seq
    BY <1>1 DEF InPairs, Numbered
  <2> QED
    BY <1>1, <2>1
<1>4. InPairs(new)
  <2>1. ASSUME NEW i \in 1 .. n
        PROVE  /\ new[i][1] = IF i % 2 = 1 THEN "enter" ELSE "exit"
               /\ i % 2 = 0 => new[i][2] = new[i - 1][2]
               /\ i > 2 => new[i][2] > new[i - 2][2]
    <3>1. (i % 2 = 0 => i - 1 \in 1 .. n) /\ (i > 2 => i - 2 \in 1 .. n)
      <4>1. 1 % 2 = 1
        OBVIOUS
      <4>2. i % 2 = 0 => i # 1
        BY <4>1
      <4>3. n \in Nat => /\ i # 1 => i - 1 \in 1 .. n
                         /\ i > 2 => i - 2 \in 1 .. n
        OBVIOUS
      <4>4. n \in Nat
        BY <1>1
      <4> QED
        BY <4>2, <4>3, <4>4
    <3>2. /\ new[i] = es[i] /\ (i % 2 = 0 => new[i - 1] = es[i - 1])
          /\ i > 2 => new[i - 2] = es[i - 2]
      BY <1>1, <3>1
    <3>3. /\ es[i][1] = IF i % 2 = 1 THEN "enter" ELSE "exit"
          /\ i % 2 = 0 => es[i][2] = es[i - 1][2]
          /\ i > 2 => es[i][2] > es[i - 2][2]
      BY <1>1 DEF InPairs
    <3> QED
      BY <3>2, <3>3
  <2>2. /\ new[n + 1][1] = "enter" /\ new[n + 1][2] = seq
        /\ n + 1 > 2 => new[n + 1 - 2][2] < seq
    BY <1>1, <1>3
  <2>3. ASSUME NEW i \in 1 .. n + 1
        PROVE  /\ new[i][1] = IF i % 2 = 1 THEN "enter" ELSE "exit"
               /\ i % 2 = 0 => new[i][2] = new[i - 1][2]
               /\ i > 2 => new[i][2] > new[i - 2][2]
    <3>1. CASE i \in 1 .. n
      BY <2>1, <3>1
    <3>2. CASE i = n + 1
      <4>1. n + 1 > 2 => new[n + 1 - 2][2] \in Nat
        BY <1>1
      <4> QED
        BY <1>1, <1>2, <2>2, <3>2, <4>1
    <3> QED
      BY <1>1, <3>1, <3>2
  <2> QED
    BY <1>1, <2>3 DEF InPairs
<1>5. Numbered(new, seq)
  BY <1>1, <1>2 DEF Numbered
<1> QED
  BY <1>1, <1>2, <1>4, <1>5 DEF new

LEMMA ExitPairs ==
    ASSUME NEW es \in Seq(Spans), NEW seq \in Nat, InPairs(es), Numbered(es, seq),
           Len(es) % 2 = 1, es[Len(es)][2] = seq
    PROVE  LET new == Append(es, <<"exit", seq>>) IN
           InPairs(new) /\ Numbered(new, seq + 1) /\ Len(new) % 2 = 0
<1> DEFINE n == Len(es)
           new == Append(es, <<"exit", seq>>)
<1>1. /\ n \in Nat /\ Len(new) = n + 1 /\ DOMAIN es = 1 .. n /\ DOMAIN new = 1 .. n + 1
      /\ new[n + 1] = <<"exit", seq>> /\ \A i \in 1 .. n : new[i] = es[i]
      /\ \A i \in 1 .. n : es[i][2] \in Nat
  BY DEF Spans
<1>2. (n + 1) % 2 = 0 /\ n >= 1
  BY <1>1, Parity
<1> HIDE DEF new
<1>3. n > 1 => es[n - 1][2] < seq
  <2>1. n > 1 => (n - 1) % 2 = 0 /\ n - 1 \in 1 .. n
    BY <1>1, <1>2, Parity
  <2> QED
    BY <1>1, <2>1 DEF Numbered
<1>4. InPairs(new)
  <2>1. ASSUME NEW i \in 1 .. n
        PROVE  /\ new[i][1] = IF i % 2 = 1 THEN "enter" ELSE "exit"
               /\ i % 2 = 0 => new[i][2] = new[i - 1][2]
               /\ i > 2 => new[i][2] > new[i - 2][2]
    <3>1. (i % 2 = 0 => i - 1 \in 1 .. n) /\ (i > 2 => i - 2 \in 1 .. n)
      <4>1. 1 % 2 = 1
        OBVIOUS
      <4>2. i % 2 = 0 => i # 1
        BY <4>1
      <4>3. n \in Nat => /\ i # 1 => i - 1 \in 1 .. n
                         /\ i > 2 => i - 2 \in 1 .. n
        OBVIOUS
      <4>4. n \in Nat
        BY <1>1
      <4> QED
        BY <4>2, <4>3, <4>4
    <3>2. /\ new[i] = es[i] /\ (i % 2 = 0 => new[i - 1] = es[i - 1])
          /\ i > 2 => new[i - 2] = es[i - 2]
      BY <1>1, <3>1
    <3>3. /\ es[i][1] = IF i % 2 = 1 THEN "enter" ELSE "exit"
          /\ i % 2 = 0 => es[i][2] = es[i - 1][2]
          /\ i > 2 => es[i][2] > es[i - 2][2]
      BY <1>1 DEF InPairs
    <3> QED
      BY <3>2, <3>3
  <2>2. /\ new[n + 1][1] = "exit" /\ new[n + 1][2] = seq /\ new[n + 1 - 1][2] = seq
        /\ n + 1 > 2 => new[n + 1 - 2][2] < seq
    BY <1>1, <1>2, <1>3
  <2>3. ASSUME NEW i \in 1 .. n + 1
        PROVE  /\ new[i][1] = IF i % 2 = 1 THEN "enter" ELSE "exit"
               /\ i % 2 = 0 => new[i][2] = new[i - 1][2]
               /\ i > 2 => new[i][2] > new[i - 2][2]
    <3>1. CASE i \in 1 .. n
      BY <2>1, <3>1
    <3>2. CASE i = n + 1
      <4>1. n + 1 > 2 => new[n + 1 - 2][2] \in Nat
        BY <1>1
      <4> QED
        BY <1>1, <1>2, <2>2, <3>2, <4>1
    <3> QED
      BY <1>1, <3>1, <3>2
  <2> QED
    BY <1>1, <2>3 DEF InPairs
<1>5. Numbered(new, seq + 1)
  <2>1. ASSUME NEW i \in 1 .. n PROVE new[i][2] < seq + 1
    <3>1. new[i] = es[i] /\ es[i][2] \in Nat /\ es[i][2] <= seq
      BY <1>1 DEF Numbered
    <3> QED
      BY <3>1
  <2>2. new[n + 1][2] < seq + 1
    BY <1>1
  <2>3. \A i \in 1 .. n + 1 : new[i][2] < seq + 1 /\ new[i][2] <= seq + 1
    BY <1>1, <2>1, <2>2
  <2> QED
    BY <1>1, <2>3 DEF Numbered
<1> QED
  BY <1>1, <1>2, <1>4, <1>5 DEF new

LEMMA SpanInit == Init => \A r \in Ranks : SpanInv(r)
BY DEF Init, SpanInv, InPairs, Numbered, Measures, Open, Over, Services, Unknown

LEMMA SpanStep ==
    ASSUME TypeInv, [Next]_vars, NEW q \in Ranks, SpanInv(q)
    PROVE  SpanInv(q)'
<1>0. /\ events[q] \in Seq(Spans) /\ energy[q].seq \in Nat /\ energy[q].armed \in BOOLEAN
      /\ "energy" \in Services
  BY DEF TypeInv, Services
<1>1. ASSUME energy'[q] = energy[q], events'[q] = events[q],
             role'[q]["energy"] = role[q]["energy"], Over(q)' => Over(q) \/ ~energy[q].armed
      PROVE  SpanInv(q)'
  BY <1>1 DEF SpanInv, Measures, Open
<1>2. CASE /\ UNCHANGED energyVars
           /\ \A p \in Ranks : /\ role'[p]["energy"] = role[p]["energy"]
                               /\ Over(p)' => Over(p) \/ ~energy[p].armed
  BY <1>1, <1>2 DEF energyVars
<1>3. ASSUME NEW r \in Ranks, Begins(r), ~Over(r)', \A p \in Ranks \ {r} : Over(p)' => Over(p)
      PROVE  SpanInv(q)'
  <2>1. CASE q # r
    <3>1. role'[q]["energy"] = role[q]["energy"]
      BY <1>0, <1>3, <2>1 DEF Begins, Answers, electVars
    <3> QED
      BY <1>1, <1>3, <2>1, <3>1 DEF Begins
  <2>2. CASE q = r
    <3>1. /\ ~Open(q) /\ Len(events[q]) % 2 = 0
          /\ Measures(q) => Measures(q)'
          /\ ~Measures(q) => events[q] = <<>>
      <4>1. ~energy[q].armed /\ (~Measures(q) => events[q] = <<>>)
            /\ Len(events[q]) % 2 = IF Open(q) THEN 1 ELSE 0
        BY <1>3, <2>2 DEF Begins, SpanInv
      <4>2. Measures(q) => UNCHANGED electVars
        BY <1>3, <2>2 DEF Begins, Measures, Answers, Unknown
      <4> QED
        BY <4>1, <4>2 DEF Open, Measures, electVars
    <3>2. energy'[q].latched # Unset /\ energy'[q].armed /\ energy'[q].seq = energy[q].seq
      BY <1>3, <2>2 DEF Begins
    <3>3. CASE Measures(q)'
      <4>1. events'[q] = Append(events[q], <<"enter", energy[q].seq>>)
        BY <1>3, <2>2, <3>3 DEF Begins, Measures
      <4>2. InPairs(events[q]) /\ Numbered(events[q], energy[q].seq)
        BY DEF SpanInv
      <4>3. /\ InPairs(events'[q]) /\ Numbered(events'[q], energy[q].seq)
            /\ Len(events'[q]) % 2 = 1 /\ events'[q][Len(events'[q])][2] = energy[q].seq
        <5> DEFINE new == Append(events[q], <<"enter", energy[q].seq>>)
        <5>1. /\ InPairs(new) /\ Numbered(new, energy[q].seq)
              /\ Len(new) % 2 = 1 /\ new[Len(new)][2] = energy[q].seq
          BY <1>0, <3>1, <4>2, EnterPairs
        <5>2. events'[q] = new
          BY <4>1
        <5> HIDE DEF new
        <5> QED
          BY <5>1, <5>2
      <4> QED
        BY <1>3, <2>2, <3>2, <3>3, <4>3 DEF SpanInv, Open
    <3>4. CASE ~Measures(q)'
      <4>1. events'[q] = events[q] /\ events[q] = <<>>
        BY <1>3, <2>2, <3>1, <3>4 DEF Begins, Measures
      <4> QED
        BY <1>3, <2>2, <3>1, <3>2, <3>4, <4>1 DEF SpanInv, Open
    <3> QED
      BY <3>3, <3>4
  <2> QED
    BY <2>1, <2>2
<1>4. ASSUME NEW r \in Ranks, Ends(r), \A p \in Ranks \ {r} : Over(p)' => Over(p)
      PROVE  SpanInv(q)'
  <2>1. role'[q]["energy"] = role[q]["energy"]
    BY <1>4 DEF Ends, electVars
  <2>2. CASE q # r
    BY <1>1, <1>4, <2>1, <2>2 DEF Ends
  <2>3. CASE q = r
    <3>1. /\ energy[q].armed /\ ~energy'[q].armed /\ energy'[q].seq = energy[q].seq + 1
          /\ energy'[q].latched = energy[q].latched
      BY <1>4, <2>3 DEF Ends
    <3>2. CASE Measures(q)
      <4>1. events'[q] = Append(events[q], <<"exit", energy[q].seq>>)
        BY <1>4, <2>3, <3>2 DEF Ends, Measures
      <4>2. InPairs(events[q]) /\ Numbered(events[q], energy[q].seq)
            /\ Len(events[q]) % 2 = 1 /\ events[q][Len(events[q])][2] = energy[q].seq
        BY <3>1, <3>2 DEF SpanInv, Open
      <4>3. /\ InPairs(events'[q]) /\ Numbered(events'[q], energy'[q].seq)
            /\ Len(events'[q]) % 2 = 0
        BY <1>0, <3>1, <4>1, <4>2, ExitPairs
      <4> QED
        BY <2>1, <3>1, <3>2, <4>3 DEF SpanInv, Open, Measures
    <3>3. CASE ~Measures(q)
      <4>1. events'[q] = <<>>
        BY <1>4, <2>3, <3>3 DEF Ends, Measures, SpanInv
      <4> QED
        BY <2>1, <3>1, <3>3, <4>1 DEF SpanInv, Open, Measures, InPairs, Numbered
    <3> QED
      BY <3>2, <3>3
  <2> QED
    BY <2>2, <2>3
<1> QED
  BY <1>2, <1>3, <1>4, StepSpans

LEMMA SpansKept == Spec => [](\A r \in Ranks : SpanInv(r))
<1>1. TypeInv /\ (\A r \in Ranks : SpanInv(r)) /\ [Next]_vars => (\A r \in Ranks : SpanInv(r))'
  BY SpanStep
<1> QED
  BY <1>1, SpanInit, TypesKept, PTL DEF Spec

\* The energy spans of every process pair, in order, and none stays open when
\* it ends: pinsight_energy_arm, pinsight_energy_disarm.
THEOREM SpansPairAlways == Spec => []SpansPair
<1>1. TypeInv /\ (\A r \in Ranks : SpanInv(r)) => SpansPair
  BY DEF SpansPair, SpanInv, InPairs, Open, Measures, Over
<1> QED
  BY <1>1, TypesKept, SpansKept, PTL

-----------------------------------------------------------------------------
(***************************************************************************)
(* Rotations.                                                              *)
(***************************************************************************)
\* A process that rotates and knows the node collects in its slot.
TurnInv(r) ==
    Live(r) /\ published[r] /\ pinned[r] = "rotate" /\ config[r].tracing
    /\ config[r].activity \in PerNode /\ at[r] # Unknown
    => collects[r] = (at[r] % Size = r)

LEMMA TurnInit == Init => \A r \in Ranks : TurnInv(r)
BY DEF Init, TurnInv, Live

LEMMA TurnStep ==
    ASSUME TypeInv, [Next]_vars, NEW q \in Ranks, TurnInv(q)
    PROVE  TurnInv(q)'
<1> USE DEF TurnInv, Live, gpuVars
<1>1. ASSUME NEW r \in Ranks, EnterGpu(r) \/ ApplyModes(r) \/ Wake(r) PROVE TurnInv(q)'
  <2>1. /\ Decide(r, config[r]) /\ UNCHANGED <<published, config, slot>>
        /\ \A p \in Ranks \ {r} : pc'[p] = pc[p]
    BY <1>1 DEF EnterGpu, ApplyModes, Wake, TypeInv
  <2>2. Turns(r)
    BY <2>1, DecideTurns
  <2> QED
    BY <2>1, <2>2 DEF Turns
<1>2. ASSUME NEW r \in Ranks, EnterEnergy(r) \/ Reload(r) PROVE TurnInv(q)'
  <2>1. /\ UNCHANGED <<published, gpuVars>> /\ pc'[r] # "running"
        /\ \A p \in Ranks \ {r} : pc'[p] = pc[p] /\ config'[p] = config[p]
    BY <1>2 DEF EnterEnergy, Reload, TypeInv
  <2> QED
    BY <2>1
<1>3. ASSUME NEW r \in Ranks, Publish(r) PROVE TurnInv(q)'
  BY <1>3 DEF Publish, TypeInv
<1>4. ASSUME NEW r \in Ranks, Stop(r) \/ Gone(r) PROVE TurnInv(q)'
  BY <1>4 DEF Stop, Gone, TypeInv
<1>5. CASE (\E f \in Files : Edit(f)) \/ Boundary \/ UNCHANGED vars
  BY <1>5 DEF Edit, Boundary, vars
<1> QED
  BY <1>1, <1>2, <1>3, <1>4, <1>5 DEF Next

LEMMA TurnsKept == Spec => [](\A r \in Ranks : TurnInv(r))
<1>1. TypeInv /\ (\A r \in Ranks : TurnInv(r)) /\ [Next]_vars => (\A r \in Ranks : TurnInv(r))'
  BY TurnStep
<1> QED
  BY <1>1, TurnInit, TypesKept, PTL DEF Spec

\* On a node of any size a rotation has one collector in every slot, once all
\* processes know the node and have decided in it: hip_should_collect_now.
THEOREM RotationAgreesAlways == Spec => []RotationAgrees
<1>1. TypeInv /\ (\A r \in Ranks : TurnInv(r)) => RotationAgrees
  <2> SUFFICES ASSUME TypeInv, \A r \in Ranks : TurnInv(r),
                      \A r \in Ranks : /\ Live(r) /\ published[r] /\ pinned[r] = "rotate"
                                       /\ config[r].tracing /\ config[r].activity \in PerNode
                                       /\ config[r] = file /\ at[r] = slot
               PROVE  Cardinality({r \in Ranks : collects[r]}) = 1
    BY DEF RotationAgrees
  <2>1. slot \in Nat /\ slot # Unknown
    BY DEF TypeInv, Unknown
  <2>2. \A r \in Ranks : collects[r] = (slot % Size = r)
    BY <2>1 DEF TurnInv
  <2>3. slot % Size \in Ranks
    <3>1. slot % Size \in 0 .. Size - 1
      BY <2>1, NodeAssumption
    <3> QED
      BY <3>1 DEF Ranks
  <2>4. {r \in Ranks : collects[r]} = {slot % Size}
    BY <2>2, <2>3
  <2> QED
    BY <2>4, FS_Singleton
<1> QED
  BY <1>1, TypesKept, TurnsKept, PTL
=============================================================================
