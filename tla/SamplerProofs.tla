--------------------------- MODULE SamplerProofs ---------------------------
(***************************************************************************)
(* Proofs about Sampler, for any number of probes, callers and contexts:   *)
(* no kick is lost, a thread told to stop has no probe, a tick divides by  *)
(* the interval it read; and, if every probe has one caller and the probes *)
(* that need the GIL have the one that comes from Python, a stop leaves no *)
(* call behind and does not deadlock.                                      *)
(***************************************************************************)
EXTENDS Sampler, SequenceTheorems, TLAPS

-----------------------------------------------------------------------------
(***************************************************************************)
(* The sequences of probes.                                                *)
(***************************************************************************)
LEMMA Added ==
    ASSUME NEW seq \in Seq(Probes), NEW p \in Probes
    PROVE  /\ Append(seq, p) \in Seq(Probes)
           /\ ToSet(Append(seq, p)) = ToSet(seq) \cup {p}
           /\ p \notin ToSet(seq) /\ IsInjective(seq) => IsInjective(Append(seq, p))
<1> DEFINE n == Len(seq)
           new == Append(seq, p)
<1>1. /\ n \in Nat /\ new \in Seq(Probes) /\ DOMAIN seq = 1 .. n /\ DOMAIN new = 1 .. n + 1
      /\ new[n + 1] = p /\ \A i \in 1 .. n : new[i] = seq[i]
  OBVIOUS
<1> HIDE DEF new
<1>2. ToSet(new) = ToSet(seq) \cup {p}
  BY <1>1 DEF ToSet
<1>3. p \notin ToSet(seq) /\ IsInjective(seq) => IsInjective(new)
  BY <1>1 DEF ToSet, IsInjective
<1> QED
  BY <1>1, <1>2, <1>3 DEF new

LEMMA Taken ==
    ASSUME NEW seq \in Seq(Probes), NEW p
    PROVE  /\ Removed(seq, p) \in Seq(Probes)
           /\ ToSet(Removed(seq, p)) \subseteq ToSet(seq)
           /\ IsInjective(seq) =>
                /\ IsInjective(Removed(seq, p))
                /\ ToSet(Removed(seq, p)) = ToSet(seq) \ {p}
<1>1. CASE p \notin ToSet(seq)
  BY <1>1 DEF Removed
<1>2. CASE p \in ToSet(seq)
  <2> DEFINE n == Len(seq)
             i == CHOOSE j \in DOMAIN seq : seq[j] = p
             moved == [seq EXCEPT ![i] = Last(seq)]
             new == Front(moved)
  <2>1. n \in Nat /\ DOMAIN seq = 1 .. n /\ \A j \in 1 .. n : seq[j] \in Probes
    OBVIOUS
  <2>2. i \in 1 .. n /\ seq[i] = p /\ n >= 1
    BY <1>2, <2>1 DEF ToSet
  <2>3. Removed(seq, p) = new
    BY <1>2 DEF Removed
  <2> HIDE DEF i
  <2>4. Last(seq) = seq[n] /\ seq[n] \in Probes
    BY <2>1, <2>2 DEF Last
  <2>5. /\ moved \in Seq(Probes) /\ Len(moved) = n
        /\ \A j \in 1 .. n : moved[j] = IF j = i THEN seq[n] ELSE seq[j]
    BY <2>1, <2>2, <2>4
  <2> HIDE DEF moved
  <2>6. /\ new \in Seq(Probes) /\ Len(new) = n - 1 /\ DOMAIN new = 1 .. n - 1
        /\ \A j \in 1 .. n - 1 : new[j] = moved[j]
    <3>1. new = SubSeq(moved, 1, n - 1)
      BY <2>5 DEF Front
    <3>2. /\ SubSeq(moved, 1, n - 1) \in Seq(Probes)
          /\ Len(SubSeq(moved, 1, n - 1)) = IF 1 <= n - 1 THEN n - 1 - 1 + 1 ELSE 0
          /\ \A j \in 1 .. n - 1 - 1 + 1 : SubSeq(moved, 1, n - 1)[j] = moved[1 + j - 1]
      <4>1. /\ 1 \in Int /\ n - 1 \in Int
            /\ \A j \in 1 .. n - 1 : moved[j] \in Probes
        BY <2>1, <2>4, <2>5
      <4> QED
        BY <4>1, SubSeqProperties
    <3> HIDE DEF new
    <3>3. new \in Seq(Probes) /\ Len(new) = n - 1
      BY <2>1, <2>2, <3>1, <3>2
    <3>4. \A j \in 1 .. n - 1 : new[j] = moved[j]
      BY <2>1, <3>1, <3>2
    <3> QED
      BY <3>3, <3>4
  <2> HIDE DEF new
  <2>7. \A j \in 1 .. n - 1 : new[j] = IF j = i THEN seq[n] ELSE seq[j]
    BY <2>1, <2>5, <2>6
  <2>8. ToSet(new) \subseteq ToSet(seq)
    BY <2>1, <2>2, <2>6, <2>7 DEF ToSet
  <2>9. ASSUME IsInjective(seq) PROVE IsInjective(new) /\ ToSet(new) = ToSet(seq) \ {p}
    <3>1. \A j, k \in 1 .. n : seq[j] = seq[k] => j = k
      BY <2>1, <2>9 DEF IsInjective
    <3>2. IsInjective(new)
      BY <2>1, <2>2, <2>6, <2>7, <3>1 DEF IsInjective
    <3>3. p \notin ToSet(new)
      BY <2>1, <2>2, <2>6, <2>7, <3>1 DEF ToSet
    <3>4. ASSUME NEW q \in ToSet(seq), q # p PROVE q \in ToSet(new)
      <4> HIDE DEF n
      <4>1. PICK j \in 1 .. n : seq[j] = q
        BY <2>1 DEF ToSet
      <4>2. CASE j # n
        <5>1. j \in 1 .. n - 1
          BY <2>1, <4>1, <4>2
        <5>2. new[j] = q
          BY <2>2, <2>7, <3>4, <4>1, <5>1
        <5> QED
          BY <2>6, <5>1, <5>2 DEF ToSet
      <4>3. CASE j = n
        <5>1. i # n /\ i \in 1 .. n - 1 /\ new[i] = q
          BY <2>1, <2>2, <2>7, <3>4, <4>1, <4>3
        <5> QED
          BY <2>6, <5>1 DEF ToSet
      <4> QED
        BY <4>2, <4>3
    <3> QED
      BY <2>8, <3>2, <3>3, <3>4
  <2> QED
    BY <2>3, <2>6, <2>8, <2>9
<1> QED
  BY <1>1, <1>2

-----------------------------------------------------------------------------
(***************************************************************************)
(* Types.  A thread that deals with a probe has one.                       *)
(***************************************************************************)
Steps == {"none", "lock", "parked", "timed", "round", "interval", "call", "probe",
          "relock", "exit", "exited"}
Labels == {"out", "mode", "kick", "visit", "broadcast", "register", "add", "stop",
           "unregister", "remove", "join", "leave", "return"}
InTick == {"interval", "call", "probe", "relock"}

TypeInv ==
    /\ interval \in [Probes -> {0, 1}] /\ modeUp \in [Probes -> BOOLEAN]
    /\ owed \in BOOLEAN
    /\ registry \in Kickers \cup {Nobody}
    /\ schedOf \in [Probes -> Contexts \cup {Nobody}]
    /\ armed \in [Probes -> BOOLEAN] /\ inCall \in [Probes -> BOOLEAN]
    /\ probes \in [Contexts -> Seq(Probes)]
    /\ created \in [Contexts -> BOOLEAN] /\ stop \in [Contexts -> BOOLEAN]
    /\ mutex \in [Contexts -> Contexts \cup {Nobody}]
    /\ waiting \in [Contexts -> SUBSET (Callers \cup Contexts)]
    /\ tpc \in [Contexts -> Steps]
    /\ at \in [Contexts -> Nat \ {0}]
    /\ current \in [Contexts -> Probes \cup {Nobody}]
    /\ tick \in [Contexts -> {0, 1}]
    /\ pc \in [Kickers -> Labels]
    /\ visit \in [Kickers -> Nat \ {0}]
    /\ sd \in [Callers -> Contexts \cup {Nobody}]
    /\ gil \in Pythons \cup Contexts \cup {Nobody}
    /\ running \in BOOLEAN /\ crashed \in BOOLEAN

\* A thread in a tick has its probe, and past the read an interval.
TickInv ==
    \A s \in Contexts :
        tpc[s] \in InTick =>
            /\ current[s] \in Probes
            /\ tpc[s] # "interval" => tick[s] # 0

LEMMA SchedsAreContexts ==
    /\ Scheds \in Seq(Contexts) /\ Len(Scheds) \in Nat \ {0}
    /\ DOMAIN Scheds = 1 .. Len(Scheds) /\ Shared \in Contexts
    /\ Contexts = {Scheds[i] : i \in 1 .. Len(Scheds)}
<1>1. Scheds \in Seq(Contexts) /\ Len(Scheds) \in Nat \ {0}
  BY SamplerAssumption
<1>2. DOMAIN Scheds = 1 .. Len(Scheds) /\ Scheds[1] \in Contexts
  BY <1>1
<1> QED
  BY <1>1, <1>2 DEF Shared, Contexts, ToSet

LEMMA ContextsForType ==
    ASSUME NEW own PROVE ContextsFor(own) \subseteq Contexts
BY SchedsAreContexts DEF ContextsFor, FreeContexts

LEMMA Constants ==
    /\ Control \notin Contexts /\ Nobody \notin Contexts /\ Nobody \notin Kickers
    /\ \A k \in Kickers : k \notin Contexts
    /\ \A c \in Callers : c # Control /\ c \in Kickers /\ ProbeOf[c] \in Probes
    /\ Pythons \subseteq Callers
BY SamplerAssumption DEF Kickers, Control, Nobody

-----------------------------------------------------------------------------
LEMMA TypeInit == Init => TypeInv /\ TickInv
<1> SUFFICES ASSUME Init PROVE TypeInv /\ TickInv
  OBVIOUS
<1>1. /\ interval \in [Probes -> {0, 1}] /\ modeUp \in [Probes -> BOOLEAN]
      /\ owed \in BOOLEAN /\ registry \in Kickers \cup {Nobody}
      /\ schedOf \in [Probes -> Contexts \cup {Nobody}]
      /\ armed \in [Probes -> BOOLEAN] /\ inCall \in [Probes -> BOOLEAN]
  BY DEF Init
<1>2. probes \in [Contexts -> Seq(Probes)]
  <2>1. <<>> \in Seq(Probes)
    OBVIOUS
  <2> QED
    BY <2>1 DEF Init
<1>3. /\ created \in [Contexts -> BOOLEAN] /\ stop \in [Contexts -> BOOLEAN]
      /\ mutex \in [Contexts -> Contexts \cup {Nobody}]
      /\ waiting \in [Contexts -> SUBSET (Callers \cup Contexts)]
      /\ tpc \in [Contexts -> Steps] /\ at \in [Contexts -> Nat \ {0}]
      /\ current \in [Contexts -> Probes \cup {Nobody}]
      /\ tick \in [Contexts -> {0, 1}]
  BY DEF Init, Steps
<1>4. /\ pc \in [Kickers -> Labels] /\ visit \in [Kickers -> Nat \ {0}]
      /\ sd \in [Callers -> Contexts \cup {Nobody}]
      /\ gil \in Pythons \cup Contexts \cup {Nobody}
      /\ running \in BOOLEAN /\ crashed \in BOOLEAN
  <2>1. visit \in [Kickers -> Nat \ {0}]
    BY DEF Init
  <2>2. running \in BOOLEAN /\ crashed \in BOOLEAN
    BY DEF Init
  <2> QED
    BY <2>1, <2>2 DEF Init, Labels
<1>5. TickInv
  BY DEF Init, TickInv, InTick
<1> QED
  BY <1>1, <1>2, <1>3, <1>4, <1>5 DEF TypeInv

LEMMA TypeStutter == TypeInv /\ UNCHANGED vars => TypeInv'
BY DEF TypeInv, vars, configVars, registryVars, probeVars, schedVars, threadVars, callerVars

LEMMA TypeConfig == TypeInv /\ Change => TypeInv'
<1> SUFFICES ASSUME TypeInv, Change PROVE TypeInv'
  OBVIOUS
<1>1. interval' \in [Probes -> {0, 1}]
  <2>1. \E p \in Probes : UNCHANGED interval \/ interval' = [interval EXCEPT ![p] = 1 - @]
    BY Zenon DEF Change
  <2>2. ASSUME NEW p \in Probes, interval' = [interval EXCEPT ![p] = 1 - @]
        PROVE  interval' \in [Probes -> {0, 1}]
    <3>1. interval \in [Probes -> {0, 1}] /\ 1 - interval[p] \in {0, 1}
      <4>1. interval \in [Probes -> {0, 1}] /\ interval[p] \in {0, 1}
        BY DEF TypeInv
      <4> QED
        BY <4>1
    <3> QED
      BY <2>2, <3>1
  <2> QED
    BY <2>1, <2>2 DEF TypeInv
<1>2. modeUp' \in [Probes -> BOOLEAN]
  <2>1. \E p \in Probes : UNCHANGED modeUp \/ modeUp' = [modeUp EXCEPT ![p] = ~@]
    BY Zenon DEF Change
  <2>2. ASSUME NEW p \in Probes, modeUp' = [modeUp EXCEPT ![p] = ~@]
        PROVE  modeUp' \in [Probes -> BOOLEAN]
    <3>1. modeUp \in [Probes -> BOOLEAN] /\ (~modeUp[p]) \in BOOLEAN
      BY DEF TypeInv
    <3> QED
      BY <2>2, <3>1
  <2> QED
    BY <2>1, <2>2 DEF TypeInv
<1>3. /\ owed' \in BOOLEAN
      /\ UNCHANGED <<registryVars, probeVars, schedVars, mutex, waiting, threadVars,
                     callerVars, gil>>
  BY DEF Change
<1> QED
  BY <1>1, <1>2, <1>3
     DEF TypeInv, registryVars, probeVars, schedVars, threadVars, callerVars

\* Who is asleep.
LEMMA Asleep ==
    ASSUME TypeInv, NEW s, NEW w, s \in Contexts => w \subseteq Callers \cup Contexts
    PROVE  [waiting EXCEPT ![s] = w] \in [Contexts -> SUBSET (Callers \cup Contexts)]
<1>1. CASE s \in Contexts
  <2>1. w \in SUBSET (Callers \cup Contexts)
    BY <1>1
  <2> QED
    BY <1>1, <2>1 DEF TypeInv
<1>2. CASE s \notin Contexts
  <2>1. [waiting EXCEPT ![s] = w] = waiting
    BY <1>2 DEF TypeInv
  <2> QED
    BY <2>1 DEF TypeInv
<1> QED
  BY <1>1, <1>2

LEMMA WokenType ==
    ASSUME TypeInv, NEW s, Broadcast(s)
    PROVE  waiting' \in [Contexts -> SUBSET (Callers \cup Contexts)]
BY Asleep DEF Broadcast

LEMMA TypeKicker ==
    ASSUME TypeInv, NEW k \in Kickers, KickerStep(k)
    PROVE  TypeInv'
<1>1. CASE KickLock(k)
  <2>1. /\ pc' \in [Kickers -> Labels] /\ visit' \in [Kickers -> Nat \ {0}]
        /\ registry' \in Kickers
    BY <1>1 DEF TypeInv, KickLock, Goto, Labels
  <2>2. /\ owed' \in BOOLEAN
        /\ UNCHANGED <<interval, modeUp, probeVars, schedVars, mutex, waiting, threadVars,
                       sd, running, gil>>
    BY <1>1 DEF KickLock, TypeInv
  <2> QED
    BY <2>1, <2>2 DEF TypeInv, probeVars, schedVars, threadVars
<1>2. CASE KickVisit(k)
  <2> DEFINE s == Scheds[visit[k]]
  <2>1. s \in Contexts
    BY <1>2, SchedsAreContexts DEF KickVisit, TypeInv
  <2>2. /\ created' \in [Contexts -> BOOLEAN] /\ stop' \in [Contexts -> BOOLEAN]
        /\ tpc' \in [Contexts -> Steps]
    BY <1>2, <2>1 DEF TypeInv, KickVisit, Steps
  <2>3. pc' \in [Kickers -> Labels] /\ visit' \in [Kickers -> Nat \ {0}]
    <3>1. \/ Goto(k, "broadcast") /\ UNCHANGED visit
          \/ visit' = [visit EXCEPT ![k] = @ + 1] /\ UNCHANGED pc
      BY <1>2 DEF KickVisit
    <3>2. Goto(k, "broadcast") => pc' \in [Kickers -> Labels]
      BY DEF TypeInv, Goto, Labels
    <3>3. [visit EXCEPT ![k] = @ + 1] \in [Kickers -> Nat \ {0}]
      <4>1. visit[k] + 1 \in Nat \ {0} /\ visit \in [Kickers -> Nat \ {0}]
        BY DEF TypeInv
      <4> QED
        BY <4>1
    <3> QED
      BY <3>1, <3>2, <3>3 DEF TypeInv
  <2> QED
    BY <1>2, <2>2, <2>3 DEF TypeInv, KickVisit, configVars, registryVars, probeVars
<1>3. CASE KickBroadcast(k)
  <2>1. waiting' \in [Contexts -> SUBSET (Callers \cup Contexts)]
    BY <1>3, WokenType DEF KickBroadcast, Wake
  <2> QED
    BY <1>3, <2>1 DEF TypeInv, KickBroadcast, Goto, Labels, configVars, registryVars,
                     probeVars, schedVars, threadVars
<1>4. CASE KickUnlock(k)
  BY <1>4 DEF TypeInv, KickUnlock, Goto, Labels, configVars, probeVars, schedVars,
              threadVars
<1> QED
  BY <1>1, <1>2, <1>3, <1>4 DEF KickerStep

LEMMA TypeCaller ==
    ASSUME TypeInv, NEW c \in Callers, CallerStep(c)
    PROVE  TypeInv'
<1> USE Constants
<1>1. CASE Register(c)
  BY <1>1 DEF TypeInv, Register, Goto, Labels, configVars, probeVars, schedVars, threadVars
<1>2. CASE RegisterLock(c)
  <2>1. pc' \in [Kickers -> Labels] /\ registry' \in Kickers \cup {Nobody}
    <3>1. \/ pc' = [pc EXCEPT ![c] = "out"] /\ UNCHANGED registry
          \/ pc' = [pc EXCEPT ![c] = "add"] /\ registry' = c
      BY <1>2 DEF RegisterLock, Goto
    <3> QED
      BY <3>1 DEF TypeInv, Labels
  <2>2. /\ armed' \in [Probes -> BOOLEAN] /\ inCall' \in [Probes -> BOOLEAN]
        /\ schedOf' \in [Probes -> Contexts \cup {Nobody}]
    BY <1>2 DEF TypeInv, RegisterLock, probeVars
  <2>3. UNCHANGED <<configVars, schedVars, mutex, waiting, threadVars, visit, sd, running,
                    gil>>
    BY <1>2 DEF RegisterLock
  <2> QED
    BY <2>1, <2>2, <2>3 DEF TypeInv, configVars, schedVars, threadVars
<1>3. CASE RegisterAdd(c)
  <2>1. PICK own \in BOOLEAN : \E s \in ContextsFor(own) :
          /\ probes' = [probes EXCEPT ![s] = Append(@, ProbeOf[c])]
          /\ schedOf' = [schedOf EXCEPT ![ProbeOf[c]] = s]
    BY <1>3 DEF RegisterAdd
  <2>2. PICK s \in Contexts :
          /\ probes' = [probes EXCEPT ![s] = Append(@, ProbeOf[c])]
          /\ schedOf' = [schedOf EXCEPT ![ProbeOf[c]] = s]
    BY <2>1, ContextsForType
  <2>3. probes' \in [Contexts -> Seq(Probes)]
    <3>1. Append(probes[s], ProbeOf[c]) \in Seq(Probes)
      BY Added DEF TypeInv
    <3> QED
      BY <2>2, <3>1 DEF TypeInv
  <2>4. schedOf' \in [Probes -> Contexts \cup {Nobody}]
    BY <2>2 DEF TypeInv
  <2>5. /\ registry' = Nobody /\ running' \in BOOLEAN /\ pc' \in [Kickers -> Labels]
        /\ UNCHANGED <<configVars, armed, inCall, created, stop, mutex, waiting,
                       threadVars, visit, sd, gil>>
    BY <1>3 DEF RegisterAdd, Goto, TypeInv, Labels
  <2> QED
    BY <2>3, <2>4, <2>5 DEF TypeInv, configVars, threadVars
<1>4. CASE Unregister(c)
  BY <1>4 DEF TypeInv, Unregister, AllowsThreads, Goto, Labels, configVars, registryVars,
              probeVars, schedVars, threadVars
<1>5. CASE UnregisterCheck(c)
  BY <1>5 DEF TypeInv, UnregisterCheck, Stopped, Goto, Labels, configVars, registryVars,
              probeVars, schedVars, threadVars
<1>6. CASE UnregisterLock(c)
  BY <1>6 DEF TypeInv, UnregisterLock, Goto, Labels, configVars, probeVars, schedVars,
              threadVars
<1>7. CASE UnregisterWait(c)
  <2>1. waiting' \in [Contexts -> SUBSET (Callers \cup Contexts)]
    <3> DEFINE w == waiting[sd[c]] \cup {c}
    <3>1. sd[c] \in Contexts => w \subseteq Callers \cup Contexts
      BY DEF TypeInv
    <3>2. waiting' = [waiting EXCEPT ![sd[c]] = w]
      BY <1>7 DEF UnregisterWait
    <3> HIDE DEF w
    <3> QED
      BY <3>1, <3>2, Asleep
  <2> QED
    BY <1>7, <2>1 DEF TypeInv, UnregisterWait, configVars, registryVars, probeVars,
                      schedVars, threadVars, callerVars
<1>8. CASE UnregisterRemove(c)
  <2> DEFINE s == sd[c]
  <2>1. probes' \in [Contexts -> Seq(Probes)]
    <3>1. CASE s \in Contexts
      <4>1. Removed(probes[s], ProbeOf[c]) \in Seq(Probes)
        BY <3>1, Taken DEF TypeInv
      <4> QED
        BY <1>8, <3>1, <4>1 DEF TypeInv, UnregisterRemove
    <3>2. CASE s \notin Contexts
      BY <1>8, <3>2 DEF TypeInv, UnregisterRemove
    <3> QED
      BY <3>1, <3>2
  <2>2. waiting' \in [Contexts -> SUBSET (Callers \cup Contexts)]
    BY <1>8, WokenType DEF UnregisterRemove
  <2>3. stop' \in [Contexts -> BOOLEAN]
    BY <1>8 DEF TypeInv, UnregisterRemove, Joins
  <2>4. pc' \in [Kickers -> Labels]
    BY <1>8 DEF TypeInv, UnregisterRemove, Goto, Labels
  <2> QED
    BY <1>8, <2>1, <2>2, <2>3, <2>4 DEF TypeInv, UnregisterRemove, configVars,
       registryVars, probeVars, threadVars
<1>9. CASE UnregisterJoin(c)
  BY <1>9 DEF TypeInv, UnregisterJoin, Goto, Labels, Steps, configVars, registryVars,
              probeVars
<1>10. CASE UnregisterLeave(c)
  BY <1>10 DEF TypeInv, UnregisterLeave, Stopped, Goto, Labels, configVars, schedVars,
               threadVars
<1>11. CASE TakeGil(c) \/ GiveGil(c) \/ SetTraceMode(c)
  <2>1. pc' \in [Kickers -> Labels] /\ gil' \in Pythons \cup Contexts \cup {Nobody}
    BY <1>11 DEF TypeInv, TakeGil, GiveGil, SetTraceMode, Goto, Labels, callerVars
  <2>2. UNCHANGED <<configVars, registryVars, probeVars, schedVars, mutex, waiting,
                    threadVars, visit, sd, running>>
    BY <1>11 DEF TakeGil, GiveGil, SetTraceMode, callerVars
  <2> QED
    BY <2>1, <2>2
       DEF TypeInv, configVars, registryVars, probeVars, schedVars, threadVars
<1> QED
  BY <1>1, <1>2, <1>3, <1>4, <1>5, <1>6, <1>7, <1>8, <1>9, <1>10, <1>11 DEF CallerStep

LEMMA AtProbeType ==
    ASSUME TypeInv, NEW s \in Contexts, AtProbe(s)
    PROVE  Candidate(s) \in ToSet(probes[s]) /\ Candidate(s) \in Probes
BY DEF TypeInv, AtProbe, Candidate, ToSet

\* A step of a thread keeps the types, and the probe of a tick.
LEMMA TypeThread ==
    ASSUME TypeInv, TickInv, NEW s \in Contexts, ThreadStep(s) \/ TimeOut(s)
    PROVE  TypeInv' /\ TickInv'
<1> USE Constants
<1>1. CASE Look(s)
  <2>1. armed' \in [Probes -> BOOLEAN]
    BY <1>1 DEF TypeInv, Look, Enabled
  <2>2. /\ tpc'[s] \in {"exit", "timed", "parked"}
        /\ tpc' = [tpc EXCEPT ![s] = tpc'[s]]
    BY <1>1 DEF TypeInv, Look, ToStep
  <2>3. waiting' \in [Contexts -> SUBSET (Callers \cup Contexts)]
    <3> DEFINE w == waiting[s] \ {s}
    <3>1. w \subseteq Callers \cup Contexts /\ waiting' = [waiting EXCEPT ![s] = w]
      BY <1>1 DEF TypeInv, Look
    <3> HIDE DEF w
    <3> QED
      BY <3>1, Asleep
  <2>4. tpc' \in [Contexts -> Steps]
    BY <2>2 DEF TypeInv, Steps
  <2>5. /\ mutex' \in [Contexts -> Contexts \cup {Nobody}]
        /\ at' \in [Contexts -> Nat \ {0}]
        /\ UNCHANGED <<configVars, registryVars, schedOf, inCall, schedVars, current, tick,
                       crashed, callerVars, gil>>
    BY <1>1 DEF TypeInv, Look
  <2>6. TypeInv'
    BY <2>1, <2>3, <2>4, <2>5 DEF TypeInv, configVars, registryVars, schedVars, callerVars
  <2>7. TickInv'
    BY <2>2, <2>5 DEF TypeInv, TickInv, InTick
  <2> QED
    BY <2>6, <2>7
<1>2. CASE Rest(s)
  <2>1. waiting' \in [Contexts -> SUBSET (Callers \cup Contexts)]
    <3> DEFINE w == waiting[s] \cup {s}
    <3>1. w \subseteq Callers \cup Contexts
      BY DEF TypeInv
    <3>2. UNCHANGED waiting \/ waiting' = [waiting EXCEPT ![s] = w]
      BY <1>2 DEF Rest
    <3> HIDE DEF w
    <3>3. [waiting EXCEPT ![s] = w] \in [Contexts -> SUBSET (Callers \cup Contexts)]
      BY <3>1, Asleep
    <3> QED
      BY <3>2, <3>3 DEF TypeInv
  <2>2. tpc' \in [Contexts -> Steps] /\ mutex' \in [Contexts -> Contexts \cup {Nobody}]
    BY <1>2 DEF TypeInv, Rest, Unlock, ToStep, Steps
  <2>3. UNCHANGED <<configVars, registryVars, probeVars, schedVars, at, current, tick,
                    crashed, callerVars, gil>>
    BY <1>2 DEF Rest
  <2>4. TypeInv'
    BY <2>1, <2>2, <2>3 DEF TypeInv, configVars, registryVars, probeVars, schedVars,
                            callerVars
  <2>5. TickInv'
    BY <1>2, <2>3 DEF TypeInv, TickInv, InTick, Rest, ToStep
  <2> QED
    BY <2>4, <2>5
<1>3. CASE TimeOut(s)
  <2>1. waiting' \in [Contexts -> SUBSET (Callers \cup Contexts)]
    <3> DEFINE w == waiting[s] \ {s}
    <3>1. w \subseteq Callers \cup Contexts /\ waiting' = [waiting EXCEPT ![s] = w]
      BY <1>3 DEF TypeInv, TimeOut
    <3> HIDE DEF w
    <3> QED
      BY <3>1, Asleep
  <2>2. TypeInv'
    BY <1>3, <2>1 DEF TypeInv, TimeOut, Lock, ToStep, Steps, configVars, registryVars,
                      probeVars, schedVars, callerVars
  <2>3. TickInv'
    BY <1>3 DEF TypeInv, TickInv, InTick, TimeOut, ToStep
  <2> QED
    BY <2>2, <2>3
<1>4. CASE Pass(s)
  BY <1>4 DEF TypeInv, TickInv, InTick, Pass, Proceed, configVars, registryVars,
              probeVars, schedVars, callerVars
<1>5. CASE Choose(s)
  <2>1. Candidate(s) \in Probes
    BY <1>5, AtProbeType DEF Choose
  <2>2. TypeInv'
    BY <1>5, <2>1 DEF TypeInv, Choose, ToStep, Steps, configVars, registryVars,
                      probeVars, schedVars, callerVars
  <2>3. TickInv'
    BY <1>5, <2>1 DEF TypeInv, TickInv, InTick, Choose, ToStep
  <2> QED
    BY <2>2, <2>3
<1>6. CASE ReadInterval(s)
  <2> DEFINE p == current[s]
  <2>1. tpc[s] = "interval"
    BY <1>6 DEF ReadInterval
  <2>2. p \in Probes /\ interval[p] \in {0, 1}
    BY <2>1 DEF TypeInv, TickInv, InTick
  <2>3. UNCHANGED <<configVars, registryVars, schedOf, schedVars, waiting, crashed,
                    callerVars, gil>>
    BY <1>6 DEF ReadInterval
  <2>4. CASE interval[p] = 0
    <3>1. /\ armed' = [armed EXCEPT ![p] = FALSE]
          /\ current' = [current EXCEPT ![s] = Nobody]
          /\ at' = [at EXCEPT ![s] = @ + 1] /\ tpc' = [tpc EXCEPT ![s] = "round"]
          /\ UNCHANGED <<inCall, mutex, tick>>
      BY <1>6, <2>4 DEF ReadInterval, Proceed, ToStep
    <3>2. TypeInv'
      BY <2>2, <2>3, <3>1
         DEF TypeInv, Steps, configVars, registryVars, schedVars, callerVars
    <3>3. TickInv'
      BY <3>1 DEF TypeInv, TickInv, InTick
    <3> QED
      BY <3>2, <3>3
  <2>5. CASE interval[p] # 0
    <3>1. /\ tick' = [tick EXCEPT ![s] = interval[p]]
          /\ inCall' = [inCall EXCEPT ![p] = TRUE]
          /\ mutex' = [mutex EXCEPT ![s] = Nobody] /\ tpc' = [tpc EXCEPT ![s] = "call"]
          /\ UNCHANGED <<armed, at, current>>
      BY <1>6, <2>5 DEF ReadInterval, Unlock, ToStep
    <3>2. TypeInv'
      BY <2>2, <2>3, <3>1
         DEF TypeInv, Steps, configVars, registryVars, schedVars, callerVars
    <3>3. TickInv'
      BY <2>2, <2>5, <3>1 DEF TypeInv, TickInv, InTick
    <3> QED
      BY <3>2, <3>3
  <2> QED
    BY <2>4, <2>5
<1>7. CASE Call(s)
  BY <1>7 DEF TypeInv, TickInv, InTick, Call, ToStep, Steps, configVars, registryVars,
              probeVars, schedVars, callerVars
<1>8. CASE Return(s)
  BY <1>8 DEF TypeInv, TickInv, InTick, Return, ToStep, Steps, configVars, registryVars,
              probeVars, schedVars, callerVars
<1>9. CASE Advance(s)
  <2>1. current[s] \in Probes
    <3>1. tpc[s] = "relock"
      BY <1>9 DEF Advance
    <3> QED
      BY <3>1 DEF TickInv, InTick
  <2>2. waiting' \in [Contexts -> SUBSET (Callers \cup Contexts)]
    BY <1>9, WokenType DEF Advance
  <2>3. crashed' \in BOOLEAN
    BY <1>9 DEF TypeInv, Advance
  <2>4. TypeInv'
    <3>1. /\ mutex' = [mutex EXCEPT ![s] = s]
          /\ inCall' = [inCall EXCEPT ![current[s]] = FALSE]
          /\ at' = [at EXCEPT ![s] = @ + 1] /\ tpc' = [tpc EXCEPT ![s] = "round"]
          /\ current' = [current EXCEPT ![s] = Nobody] /\ tick' = [tick EXCEPT ![s] = 0]
          /\ UNCHANGED <<configVars, registryVars, schedOf, armed, schedVars, callerVars,
                         gil>>
      BY <1>9 DEF Advance, Lock, Proceed, ToStep
    <3> QED
      BY <2>1, <2>2, <2>3, <3>1
         DEF TypeInv, Steps, configVars, registryVars, schedVars, callerVars
  <2>5. TickInv'
    BY <1>9 DEF TypeInv, TickInv, InTick, Advance, ToStep
  <2> QED
    BY <2>4, <2>5
<1> QED
  BY <1>1, <1>2, <1>3, <1>4, <1>5, <1>6, <1>7, <1>8, <1>9 DEF ThreadStep
-----------------------------------------------------------------------------
(***************************************************************************)
(* The registry has one holder, a caller that removes its probe knows the  *)
(* context, and a thread is told to stop by the holder that then joins it. *)
(***************************************************************************)
Holding == {"visit", "broadcast", "add", "remove", "join", "leave"}
HolderInv == \A k \in Kickers : pc[k] \in Holding => registry = k

Leaving == {"unregister", "remove", "join", "leave"}
PlaceInv == \A c \in Callers : pc[c] \in Leaving => sd[c] \in Contexts

StopInv ==
    \A s \in Contexts :
        created[s] /\ stop[s] =>
            /\ probes[s] = <<>>
            /\ \E c \in Callers : registry = c /\ pc[c] = "join" /\ sd[c] = s

Joint == HolderInv /\ PlaceInv /\ StopInv

LEMMA JointInit == Init => Joint
BY Constants DEF Init, Joint, HolderInv, PlaceInv, StopInv, Holding, Leaving

\* Steps that leave the registry, the contexts and the callers alone.
LEMMA JointFrame ==
    ASSUME Joint, UNCHANGED <<registry, probes, created, stop, pc, sd>>
    PROVE  Joint'
BY DEF Joint, HolderInv, PlaceInv, StopInv

\* Steps of a caller outside the registry.
LEMMA JointOutside ==
    ASSUME TypeInv, Joint, NEW k \in Kickers, NEW l, l \notin Holding, l \notin Leaving,
           pc' = [pc EXCEPT ![k] = l], pc[k] \notin Holding,
           UNCHANGED <<registry, probes, created, stop, sd>>
    PROVE  Joint'
<1>1. \A j \in Kickers : pc'[j] = IF j = k THEN l ELSE pc[j]
  BY DEF TypeInv
<1>2. HolderInv'
  BY <1>1 DEF Joint, HolderInv
<1>3. PlaceInv'
  BY <1>1, Constants DEF Joint, PlaceInv
<1>4. ASSUME NEW s \in Contexts, created[s], stop[s]
      PROVE  probes[s] = <<>> /\ \E c \in Callers : registry = c /\ pc'[c] = "join" /\ sd[c] = s
  <2>1. PICK c \in Callers : registry = c /\ pc[c] = "join" /\ sd[c] = s
    BY <1>4 DEF Joint, StopInv
  <2>2. c # k
    BY <2>1 DEF Holding
  <2> QED
    BY <1>1, <1>4, <2>1, <2>2, Constants DEF Joint, StopInv
<1> QED
  BY <1>2, <1>3, <1>4 DEF Joint, StopInv

\* Steps that take the registry: no thread is being stopped then.
LEMMA JointEnter ==
    ASSUME TypeInv, Joint, NEW k \in Kickers, registry = Nobody, registry' = k,
           NEW l, pc' = [pc EXCEPT ![k] = l],
           l \in Leaving => pc[k] \in Leaving,
           UNCHANGED <<probes, created, stop, sd>>
    PROVE  Joint'
<1>1. \A j \in Kickers : pc'[j] = IF j = k THEN l ELSE pc[j]
  BY DEF TypeInv
<1>2. HolderInv'
  BY <1>1, Constants DEF Joint, HolderInv
<1>3. PlaceInv'
  BY <1>1, Constants DEF Joint, PlaceInv
<1>4. \A s \in Contexts : ~(created[s] /\ stop[s])
  BY Constants DEF Joint, StopInv
<1> QED
  BY <1>2, <1>3, <1>4 DEF Joint, StopInv

\* The holder of the registry is not a caller that joins: nobody is.
LEMMA NoneStopping ==
    ASSUME Joint, NEW k \in Kickers, pc[k] \in Holding, pc[k] # "join"
    PROVE  \A s \in Contexts : ~(created[s] /\ stop[s])
BY Constants DEF Joint, HolderInv, StopInv

\* Steps that give the registry up.
LEMMA JointExit ==
    ASSUME TypeInv, Joint, NEW k \in Kickers, pc[k] \in Holding, pc[k] # "join",
           NEW l, l \notin Holding, l \notin Leaving, pc' = [pc EXCEPT ![k] = l],
           registry' = Nobody, UNCHANGED <<created, stop>>,
           \A c \in Callers : c # k => sd'[c] = sd[c]
    PROVE  Joint'
<1>1. \A j \in Kickers : pc'[j] = IF j = k THEN l ELSE pc[j]
  BY DEF TypeInv
<1>2. HolderInv'
  BY <1>1 DEF Joint, HolderInv
<1>3. PlaceInv'
  BY <1>1, Constants DEF Joint, PlaceInv
<1>4. \A s \in Contexts : ~(created[s] /\ stop[s])
  BY NoneStopping
<1> QED
  BY <1>2, <1>3, <1>4 DEF Joint, StopInv

LEMMA JointKicker ==
    ASSUME TypeInv, Joint, NEW k \in Kickers, KickerStep(k)
    PROVE  Joint'
<1>1. CASE KickLock(k)
  BY <1>1, JointEnter DEF KickLock, Goto, Leaving, schedVars
<1>2. CASE KickVisit(k)
  <2>1. /\ pc[k] = "visit" /\ UNCHANGED <<registry, probes, sd>>
        /\ \A j \in Kickers : pc'[j] = pc[j] \/ (j = k /\ pc'[j] = "broadcast")
    BY <1>2 DEF KickVisit, Goto, registryVars, TypeInv
  <2>2. \A s \in Contexts : ~(created[s] /\ stop[s])
    BY <2>1, NoneStopping DEF Holding
  <2>3. \A s \in Contexts : ~(created'[s] /\ stop'[s])
    BY <1>2, <2>2 DEF KickVisit, TypeInv
  <2>4. HolderInv'
    BY <2>1 DEF Joint, HolderInv, Holding
  <2>5. PlaceInv'
    BY <2>1, Constants DEF Joint, PlaceInv, Leaving
  <2> QED
    BY <2>3, <2>4, <2>5 DEF Joint, StopInv
<1>3. CASE KickBroadcast(k)
  <2>1. /\ pc[k] = "broadcast" /\ UNCHANGED <<registry, probes, created, stop, sd>>
        /\ \A j \in Kickers : pc'[j] = IF j = k THEN "visit" ELSE pc[j]
    BY <1>3 DEF KickBroadcast, Goto, registryVars, schedVars, TypeInv
  <2>2. \A s \in Contexts : ~(created[s] /\ stop[s])
    BY <2>1, NoneStopping DEF Holding
  <2>3. HolderInv'
    BY <2>1 DEF Joint, HolderInv, Holding
  <2>4. PlaceInv'
    BY <2>1, Constants DEF Joint, PlaceInv, Leaving
  <2> QED
    BY <2>1, <2>2, <2>3, <2>4 DEF Joint, StopInv
<1>4. CASE KickUnlock(k)
  BY <1>4, JointExit DEF KickUnlock, Goto, Holding, Leaving, schedVars
<1> QED
  BY <1>1, <1>2, <1>3, <1>4 DEF KickerStep

LEMMA JointCaller ==
    ASSUME TypeInv, Joint, NEW c \in Callers, CallerStep(c)
    PROVE  Joint'
<1> USE Constants
<1>1. CASE Register(c)
  <2>1. /\ pc[c] \notin Holding /\ pc' = [pc EXCEPT ![c] = "register"]
        /\ UNCHANGED <<registry, probes, created, stop, sd>>
    BY <1>1 DEF Register, MayRegister, Goto, Holding, schedVars
  <2> QED
    BY <2>1, JointOutside DEF Holding, Leaving
<1>2. CASE RegisterLock(c)
  <2>1. /\ pc[c] = "register" /\ registry = Nobody
        /\ UNCHANGED <<probes, created, stop, sd>>
        /\ \/ pc' = [pc EXCEPT ![c] = "out"] /\ UNCHANGED registry
           \/ pc' = [pc EXCEPT ![c] = "add"] /\ registry' = c
    BY <1>2 DEF RegisterLock, Goto, schedVars
  <2>2. CASE pc' = [pc EXCEPT ![c] = "out"] /\ UNCHANGED registry
    <3>1. pc[c] \notin Holding /\ "out" \notin Holding /\ "out" \notin Leaving
      BY <2>1 DEF Holding, Leaving
    <3> QED
      BY <2>1, <2>2, <3>1, JointOutside
  <2>3. CASE pc' = [pc EXCEPT ![c] = "add"] /\ registry' = c
    <3>1. "add" \notin Leaving
      BY DEF Leaving
    <3> QED
      BY <2>1, <2>3, <3>1, JointEnter
  <2> QED
    BY <2>1, <2>2, <2>3
<1>3. CASE RegisterAdd(c)
  <2>1. /\ pc[c] \in Holding /\ pc[c] # "join" /\ pc' = [pc EXCEPT ![c] = "kick"]
        /\ registry' = Nobody /\ UNCHANGED <<created, stop, sd>>
    BY <1>3 DEF RegisterAdd, Goto, Holding
  <2>2. "kick" \notin Holding /\ "kick" \notin Leaving
    BY DEF Holding, Leaving
  <2> QED
    BY <2>1, <2>2, JointExit
<1>4. CASE Unregister(c)
  <2>1. /\ pc[c] \notin Holding /\ pc' = [pc EXCEPT ![c] = "stop"]
        /\ UNCHANGED <<registry, probes, created, stop, sd>>
    BY <1>4 DEF Unregister, Goto, Holding, schedVars, registryVars
  <2> QED
    BY <2>1, JointOutside DEF Holding, Leaving
<1>5. CASE UnregisterCheck(c)
  <2>1. /\ pc[c] = "stop" /\ UNCHANGED <<registry, probes, created, stop>>
        /\ \/ /\ pc' = [pc EXCEPT ![c] = Stopped(c)] /\ UNCHANGED sd
           \/ /\ pc' = [pc EXCEPT ![c] = "unregister"]
              /\ schedOf[ProbeOf[c]] # Nobody /\ sd' = [sd EXCEPT ![c] = schedOf[ProbeOf[c]]]
    BY <1>5 DEF UnregisterCheck, Goto, schedVars, registryVars
  <2>2. CASE pc' = [pc EXCEPT ![c] = Stopped(c)] /\ UNCHANGED sd
    <3>1. pc[c] \notin Holding /\ Stopped(c) \notin Holding /\ Stopped(c) \notin Leaving
      BY <2>1 DEF Holding, Leaving, Stopped
    <3> QED
      BY <2>1, <2>2, <3>1, JointOutside
  <2>3. CASE /\ pc' = [pc EXCEPT ![c] = "unregister"]
             /\ schedOf[ProbeOf[c]] # Nobody /\ sd' = [sd EXCEPT ![c] = schedOf[ProbeOf[c]]]
    <3>1. \A j \in Kickers : pc'[j] = IF j = c THEN "unregister" ELSE pc[j]
      BY <2>3 DEF TypeInv
    <3>2. \A d \in Callers : sd'[d] = IF d = c THEN schedOf[ProbeOf[c]] ELSE sd[d]
      BY <2>3 DEF TypeInv
    <3>3. schedOf[ProbeOf[c]] \in Contexts
      BY <2>3 DEF TypeInv
    <3>4. HolderInv'
      BY <2>1, <3>1 DEF Joint, HolderInv, Holding
    <3>5. PlaceInv'
      BY <3>1, <3>2, <3>3 DEF Joint, PlaceInv
    <3>6. StopInv'
      BY <2>1, <3>1, <3>2 DEF Joint, StopInv
    <3> QED
      BY <3>4, <3>5, <3>6 DEF Joint
  <2> QED
    BY <2>1, <2>2, <2>3
<1>6. CASE UnregisterLock(c)
  BY <1>6, JointEnter DEF UnregisterLock, Goto, Leaving, schedVars
<1>7. CASE UnregisterWait(c)
  BY <1>7, JointFrame DEF UnregisterWait, registryVars, schedVars, callerVars
<1>8. CASE UnregisterRemove(c)
  <2> DEFINE s == sd[c]
  <2>1. /\ pc[c] = "remove" /\ registry' = registry /\ sd' = sd
        /\ created' = created /\ stop' = [stop EXCEPT ![s] = @ \/ Joins(s)]
        /\ pc' = [pc EXCEPT ![c] = IF Joins(s) THEN "join" ELSE "leave"]
    BY <1>8 DEF UnregisterRemove, Goto, registryVars
  <2>2. s \in Contexts /\ registry = c
    BY <2>1 DEF Joint, PlaceInv, HolderInv, Leaving, Holding
  <2>3. \A t \in Contexts : ~(created[t] /\ stop[t])
    BY <2>1, NoneStopping DEF Holding
  <2>4. \A j \in Kickers : pc'[j] = IF j = c THEN (IF Joins(s) THEN "join" ELSE "leave") ELSE pc[j]
    BY <2>1 DEF TypeInv
  <2>5. HolderInv'
    BY <2>1, <2>2, <2>4 DEF Joint, HolderInv
  <2>6. PlaceInv'
    BY <2>1, <2>2, <2>4 DEF Joint, PlaceInv
  <2>7. StopInv'
    <3> SUFFICES ASSUME NEW t \in Contexts, created'[t], stop'[t]
                 PROVE  /\ probes'[t] = <<>>
                        /\ \E d \in Callers : registry' = d /\ pc'[d] = "join" /\ sd'[d] = t
      BY DEF StopInv
    <3>1. t = s /\ Joins(s)
      BY <2>1, <2>2, <2>3 DEF TypeInv
    <3> QED
      BY <2>1, <2>2, <2>4, <3>1 DEF Joins
  <2> QED
    BY <2>5, <2>6, <2>7 DEF Joint
<1>9. CASE UnregisterJoin(c)
  <2>1. /\ pc[c] = "join" /\ UNCHANGED <<registry, probes, stop, sd>>
        /\ created' = [created EXCEPT ![sd[c]] = FALSE]
        /\ pc' = [pc EXCEPT ![c] = "leave"]
    BY <1>9 DEF UnregisterJoin, Goto, registryVars
  <2>2. sd[c] \in Contexts /\ registry = c
    BY <2>1 DEF Joint, PlaceInv, HolderInv, Leaving, Holding
  <2>3. \A j \in Kickers : pc'[j] = IF j = c THEN "leave" ELSE pc[j]
    BY <2>1 DEF TypeInv
  <2>4. HolderInv'
    BY <2>1, <2>2, <2>3 DEF Joint, HolderInv
  <2>5. PlaceInv'
    BY <2>1, <2>2, <2>3 DEF Joint, PlaceInv
  <2>6. \A t \in Contexts : created[t] /\ stop[t] => t = sd[c]
    BY <2>2 DEF Joint, StopInv
  <2>7. \A t \in Contexts : ~(created'[t] /\ stop'[t])
    BY <2>1, <2>2, <2>6 DEF TypeInv
  <2> QED
    BY <2>4, <2>5, <2>7 DEF Joint, StopInv
<1>10. CASE UnregisterLeave(c)
  <2>1. /\ pc[c] \in Holding /\ pc[c] # "join" /\ pc' = [pc EXCEPT ![c] = Stopped(c)]
        /\ registry' = Nobody /\ UNCHANGED <<created, stop>>
        /\ \A d \in Callers : d # c => sd'[d] = sd[d]
    BY <1>10 DEF UnregisterLeave, Goto, Holding, schedVars, TypeInv
  <2>2. Stopped(c) \notin Holding /\ Stopped(c) \notin Leaving
    BY DEF Holding, Leaving, Stopped
  <2> QED
    BY <2>1, <2>2, JointExit
<1>11. CASE TakeGil(c)
  <2>1. /\ pc[c] \notin Holding /\ pc' = [pc EXCEPT ![c] = "out"]
        /\ UNCHANGED <<registry, probes, created, stop, sd>>
    BY <1>11 DEF TakeGil, Goto, Holding, schedVars, registryVars
  <2> QED
    BY <2>1, JointOutside DEF Holding, Leaving
<1>12. CASE GiveGil(c)
  BY <1>12, JointFrame DEF GiveGil, registryVars, schedVars, callerVars
<1>13. CASE SetTraceMode(c)
  <2>1. /\ pc[c] \notin Holding /\ pc' = [pc EXCEPT ![c] = "mode"]
        /\ UNCHANGED <<registry, probes, created, stop, sd>>
    BY <1>13 DEF SetTraceMode, Goto, Holding, schedVars, registryVars
  <2> QED
    BY <2>1, JointOutside DEF Holding, Leaving
<1> QED
  BY <1>1, <1>2, <1>3, <1>4, <1>5, <1>6, <1>7, <1>8, <1>9, <1>10, <1>11, <1>12, <1>13
     DEF CallerStep

\* A step of a thread changes nothing of the callers, the registry and the
\* contexts' probes.
LEMMA ThreadFrame ==
    ASSUME NEW s \in Contexts, ThreadStep(s) \/ TimeOut(s)
    PROVE  UNCHANGED <<configVars, registryVars, schedOf, schedVars, callerVars>>
BY DEF ThreadStep, Look, Rest, TimeOut, Pass, Choose, ReadInterval, Call, Return, Advance,
       probeVars

LEMMA JointThread ==
    ASSUME Joint, NEW s \in Contexts, ThreadStep(s) \/ TimeOut(s)
    PROVE  Joint'
BY ThreadFrame, JointFrame DEF registryVars, schedVars, callerVars
-----------------------------------------------------------------------------
(***************************************************************************)
(* No kick is lost: a thread that parks, or is about to, has no enabled    *)
(* probe unless a kick approaches it.                                      *)
(***************************************************************************)
Sleepy(s) == tpc[s] = "parked" /\ (s \in waiting[s] \/ mutex[s] = s) /\ HasEnabled(s)
Alerted(s) == owed \/ \E k \in Kickers : Approaches(k, s)

KickInv ==
    /\ \A s \in Contexts : Sleepy(s) => Alerted(s)
    /\ \A s \in Contexts : ~created[s] => tpc[s] = "none"

LEMMA KickInit == Init => KickInv
BY DEF Init, KickInv, Sleepy

LEMMA HasEnabledKept ==
    ASSUME NEW s \in Contexts, UNCHANGED <<interval, modeUp>>,
           ToSet(probes'[s]) \subseteq ToSet(probes[s]), HasEnabled(s)'
    PROVE  HasEnabled(s)
BY DEF HasEnabled, Enabled

\* Steps of a caller that is not about to kick, and wakes threads at most.
LEMMA KickFrame ==
    ASSUME TypeInv, KickInv, NEW c \in Callers,
           UNCHANGED <<interval, modeUp, owed, created, mutex, tpc, visit>>,
           \A s \in Contexts : s \in waiting'[s] => s \in waiting[s],
           \A s \in Contexts : ToSet(probes'[s]) \subseteq ToSet(probes[s]),
           pc[c] \notin {"kick", "visit", "broadcast"},
           \A k \in Kickers : k # c => pc'[k] = pc[k]
    PROVE  KickInv'
<1>1. ASSUME NEW s \in Contexts, Sleepy(s)' PROVE Alerted(s)'
  <2>1. Sleepy(s)
    BY <1>1, HasEnabledKept DEF Sleepy
  <2>2. CASE owed
    BY <2>2 DEF Alerted
  <2>3. CASE ~owed
    <3>1. PICK k \in Kickers : Approaches(k, s)
      BY <2>1, <2>3 DEF KickInv, Alerted
    <3>2. k # c
      BY <3>1 DEF Approaches
    <3>3. Approaches(k, s)'
      BY <3>1, <3>2 DEF Approaches
    <3> QED
      BY <3>3 DEF Alerted
  <2> QED
    BY <2>2, <2>3
<1> QED
  BY <1>1 DEF KickInv

LEMMA KickCaller ==
    ASSUME TypeInv, Joint, KickInv, NEW c \in Callers, CallerStep(c)
    PROVE  KickInv'
<1> USE Constants
<1>1. CASE RegisterAdd(c)
  <2>1. pc'[c] = "kick" /\ UNCHANGED <<created, tpc>>
    BY <1>1 DEF RegisterAdd, Goto, TypeInv, threadVars
  <2>2. \A s \in Contexts : Alerted(s)'
    BY <2>1 DEF Alerted, Approaches
  <2> QED
    BY <2>1, <2>2 DEF KickInv
<1>2. CASE UnregisterJoin(c)
  <2>1. sd[c] \in Contexts
    BY <1>2 DEF UnregisterJoin, Joint, PlaceInv, Leaving
  <2>2. /\ UNCHANGED <<interval, modeUp, owed, mutex, waiting, probes, visit>>
        /\ created' = [created EXCEPT ![sd[c]] = FALSE]
        /\ tpc' = [tpc EXCEPT ![sd[c]] = "none"]
        /\ pc[c] = "join" /\ pc' = [pc EXCEPT ![c] = "leave"]
    BY <1>2 DEF UnregisterJoin, Goto, configVars
  <2>3. ASSUME NEW s \in Contexts, Sleepy(s)' PROVE Alerted(s)'
    <3>1. Sleepy(s)
      BY <2>1, <2>2, <2>3 DEF Sleepy, HasEnabled, Enabled, TypeInv
    <3>2. CASE owed
      BY <2>2, <3>2 DEF Alerted
    <3>3. CASE ~owed
      <4>1. PICK k \in Kickers : Approaches(k, s)
        BY <3>1, <3>3 DEF KickInv, Alerted
      <4>2. k # c
        BY <2>2, <4>1 DEF Approaches
      <4>3. Approaches(k, s)'
        BY <2>2, <4>1, <4>2 DEF Approaches, TypeInv
      <4> QED
        BY <4>3 DEF Alerted
    <3> QED
      BY <3>2, <3>3
  <2>4. \A s \in Contexts : ~created'[s] => tpc'[s] = "none"
    BY <2>1, <2>2 DEF KickInv, TypeInv
  <2> QED
    BY <2>3, <2>4 DEF KickInv
<1>3. CASE UnregisterRemove(c)
  <2>1. /\ UNCHANGED <<interval, modeUp, owed, created, mutex, tpc, visit>>
        /\ pc[c] \notin {"kick", "visit", "broadcast"}
        /\ \A k \in Kickers : k # c => pc'[k] = pc[k]
    BY <1>3 DEF UnregisterRemove, Goto, configVars, threadVars, TypeInv
  <2>2. \A s \in Contexts : s \in waiting'[s] => s \in waiting[s]
    BY <1>3 DEF UnregisterRemove, Broadcast, TypeInv
  <2>3. \A s \in Contexts : ToSet(probes'[s]) \subseteq ToSet(probes[s])
    <3>1. \A s \in Contexts : probes'[s] = probes[s] \/ probes'[s] = Removed(probes[s], ProbeOf[c])
      BY <1>3 DEF UnregisterRemove, TypeInv
    <3>2. \A s \in Contexts : ToSet(Removed(probes[s], ProbeOf[c])) \subseteq ToSet(probes[s])
      BY Taken DEF TypeInv
    <3> QED
      BY <3>1, <3>2
  <2> QED
    BY <2>1, <2>2, <2>3, KickFrame
<1>4. CASE UnregisterWait(c)
  <2>1. /\ UNCHANGED <<interval, modeUp, owed, created, mutex, tpc, visit, probes, pc>>
        /\ pc[c] \notin {"kick", "visit", "broadcast"}
    BY <1>4 DEF UnregisterWait, configVars, threadVars, schedVars, callerVars
  <2>2. \A s \in Contexts : s \in waiting'[s] => s \in waiting[s]
    BY <1>4 DEF UnregisterWait, TypeInv
  <2> QED
    BY <2>1, <2>2, KickFrame
<1>5. CASE \/ Register(c) \/ RegisterLock(c) \/ Unregister(c) \/ UnregisterCheck(c)
           \/ UnregisterLock(c) \/ UnregisterLeave(c) \/ TakeGil(c) \/ SetTraceMode(c)
  <2>1. UNCHANGED <<interval, modeUp, owed, created, mutex, tpc, visit, probes, waiting>>
    BY <1>5 DEF Register, RegisterLock, Unregister, UnregisterCheck, UnregisterLock,
       UnregisterLeave, TakeGil, SetTraceMode, configVars, threadVars, schedVars
  <2>2. pc[c] \notin {"kick", "visit", "broadcast"}
    BY <1>5 DEF Register, MayRegister, RegisterLock, Unregister, UnregisterCheck,
       UnregisterLock, UnregisterLeave, TakeGil, SetTraceMode
  <2>3. \A k \in Kickers : k # c => pc'[k] = pc[k]
    BY <1>5 DEF Register, RegisterLock, Unregister, UnregisterCheck, UnregisterLock,
       UnregisterLeave, TakeGil, SetTraceMode, Goto, TypeInv
  <2> QED
    BY <2>1, <2>2, <2>3, KickFrame
<1>6. CASE GiveGil(c)
  <2>1. /\ UNCHANGED <<interval, modeUp, owed, created, mutex, tpc, visit, probes, waiting, pc>>
        /\ pc[c] \notin {"kick", "visit", "broadcast"}
    BY <1>6 DEF GiveGil, configVars, threadVars, schedVars, callerVars
  <2> QED
    BY <2>1, KickFrame
<1> QED
  BY <1>1, <1>2, <1>3, <1>4, <1>5, <1>6 DEF CallerStep

LEMMA KickKicker ==
    ASSUME TypeInv, KickInv, NEW k \in Kickers, KickerStep(k)
    PROVE  KickInv'
<1>1. CASE KickLock(k)
  <2>1. pc'[k] = "visit" /\ visit'[k] = 1 /\ UNCHANGED <<created, tpc>>
    BY <1>1 DEF KickLock, Goto, TypeInv, threadVars, schedVars
  <2>2. \A s \in Contexts : Approaches(k, s)'
    BY <2>1, SchedsAreContexts DEF Approaches
  <2> QED
    BY <2>1, <2>2 DEF KickInv, Alerted
<1>2. CASE KickVisit(k)
  <2> DEFINE s == Scheds[visit[k]]
  <2>1. /\ pc[k] = "visit" /\ s \in Contexts /\ visit[k] \in 1 .. Len(Scheds)
        /\ UNCHANGED <<interval, modeUp, owed, mutex, waiting, probes>>
    BY <1>2, SchedsAreContexts DEF KickVisit, TypeInv, configVars
  <2>2. \A t \in Contexts : tpc'[t] = tpc[t] \/ (tpc'[t] = "lock" /\ created'[t])
    BY <1>2, <2>1 DEF KickVisit, TypeInv
  <2>3. \A t \in Contexts : created[t] => created'[t]
    BY <1>2, <2>1 DEF KickVisit, TypeInv
  <2>4. \/ pc' = [pc EXCEPT ![k] = "broadcast"] /\ UNCHANGED visit
        \/ /\ ~(probes[s] # <<>> /\ created'[s])
           /\ visit' = [visit EXCEPT ![k] = @ + 1] /\ UNCHANGED pc
    BY <1>2 DEF KickVisit, Goto
  <2>5. ASSUME NEW t \in Contexts, Sleepy(t)' PROVE Alerted(t)'
    <3>1. Sleepy(t)
      BY <2>1, <2>2, <2>5 DEF Sleepy, HasEnabled, Enabled
    <3>2. probes[t] # <<>> /\ created[t]
      BY <3>1 DEF Sleepy, HasEnabled, ToSet, KickInv
    <3>3. CASE owed
      BY <2>1, <3>3 DEF Alerted
    <3>4. ASSUME NEW j \in Kickers, Approaches(j, t) PROVE Approaches(j, t)'
      <4>1. CASE pc' = [pc EXCEPT ![k] = "broadcast"] /\ UNCHANGED visit
        BY <2>1, <3>4, <4>1 DEF Approaches, TypeInv
      <4>2. CASE /\ ~(probes[s] # <<>> /\ created'[s])
                 /\ visit' = [visit EXCEPT ![k] = @ + 1] /\ UNCHANGED pc
        <5>1. t # s
          BY <2>3, <3>2, <4>2
        <5>2. CASE j # k
          BY <3>4, <4>2, <5>2 DEF Approaches, TypeInv
        <5>3. CASE j = k
          <6>1. PICK i \in DOMAIN Scheds : Scheds[i] = t /\ visit[k] <= i
            BY <2>1, <3>4, <5>3 DEF Approaches
          <6>2. i \in Nat /\ visit[k] \in Nat /\ i # visit[k] /\ visit'[k] = visit[k] + 1
            BY <2>1, <4>2, <5>1, <6>1, SchedsAreContexts DEF TypeInv
          <6>3. visit'[k] <= i
            BY <6>1, <6>2
          <6> QED
            BY <2>1, <4>2, <5>3, <6>1, <6>3 DEF Approaches
        <5> QED
          BY <5>2, <5>3
      <4> QED
        BY <2>4, <4>1, <4>2
    <3> QED
      BY <3>1, <3>3, <3>4 DEF KickInv, Alerted
  <2>6. \A t \in Contexts : ~created'[t] => tpc'[t] = "none"
    BY <2>2, <2>3 DEF KickInv, TypeInv
  <2> QED
    BY <2>5, <2>6 DEF KickInv
<1>3. CASE KickBroadcast(k)
  <2> DEFINE s == Scheds[visit[k]]
  <2>1. /\ pc[k] = "broadcast" /\ pc' = [pc EXCEPT ![k] = "visit"]
        /\ visit' = [visit EXCEPT ![k] = @ + 1]
        /\ mutex[s] = Nobody /\ waiting' = [waiting EXCEPT ![s] = {}]
        /\ UNCHANGED <<interval, modeUp, owed, mutex, probes, created, tpc>>
    BY <1>3 DEF KickBroadcast, Wake, Broadcast, Goto, configVars, schedVars, threadVars
  <2>2. ASSUME NEW t \in Contexts, Sleepy(t)' PROVE Alerted(t)'
    <3>1. Sleepy(t) /\ t # s
      BY <2>1, <2>2, Constants DEF Sleepy, HasEnabled, Enabled, TypeInv
    <3>2. CASE owed
      BY <2>1, <3>2 DEF Alerted
    <3>3. ASSUME NEW j \in Kickers, Approaches(j, t) PROVE Approaches(j, t)'
      <4>1. CASE j # k
        BY <2>1, <3>3, <4>1 DEF Approaches, TypeInv
      <4>2. CASE j = k
        <5>1. PICK i \in DOMAIN Scheds : Scheds[i] = t /\ visit[k] <= i
          BY <2>1, <3>3, <4>2 DEF Approaches
        <5>2. i \in Nat /\ visit[k] \in Nat /\ i # visit[k] /\ visit'[k] = visit[k] + 1
          BY <2>1, <3>1, <5>1, SchedsAreContexts DEF TypeInv
        <5>3. visit'[k] <= i
          BY <5>1, <5>2
        <5>4. pc'[k] = "visit"
          BY <2>1 DEF TypeInv
        <5> QED
          BY <4>2, <5>1, <5>3, <5>4 DEF Approaches
      <4> QED
        BY <4>1, <4>2
    <3> QED
      BY <3>1, <3>2, <3>3 DEF KickInv, Alerted
  <2> QED
    BY <2>1, <2>2 DEF KickInv
<1>4. CASE KickUnlock(k)
  <2>1. /\ pc[k] = "visit" /\ visit[k] > Len(Scheds)
        /\ pc' = [pc EXCEPT ![k] = "out"] /\ visit' = [visit EXCEPT ![k] = 1]
        /\ UNCHANGED <<interval, modeUp, owed, mutex, waiting, probes, created, tpc>>
    BY <1>4 DEF KickUnlock, Goto, configVars, schedVars, threadVars
  <2>2. ASSUME NEW t \in Contexts, Sleepy(t)' PROVE Alerted(t)'
    <3>1. Sleepy(t)
      BY <2>1, <2>2 DEF Sleepy, HasEnabled, Enabled
    <3>2. CASE owed
      BY <2>1, <3>2 DEF Alerted
    <3>3. ~Approaches(k, t)
      <4>1. \A i \in 1 .. Len(Scheds) : ~(visit[k] <= i)
        BY <2>1, SchedsAreContexts DEF TypeInv
      <4> QED
        BY <2>1, <4>1, SchedsAreContexts DEF Approaches
    <3>4. ASSUME NEW j \in Kickers, j # k, Approaches(j, t) PROVE Approaches(j, t)'
      BY <2>1, <3>4 DEF Approaches, TypeInv
    <3> QED
      BY <3>1, <3>2, <3>3, <3>4 DEF KickInv, Alerted
  <2> QED
    BY <2>1, <2>2 DEF KickInv
<1> QED
  BY <1>1, <1>2, <1>3, <1>4 DEF KickerStep

LEMMA KickConfig ==
    ASSUME KickInv, Change
    PROVE  KickInv'
BY DEF KickInv, Change, Alerted, schedVars, threadVars

LEMMA KickThread ==
    ASSUME TypeInv, KickInv, NEW s \in Contexts, ThreadStep(s) \/ TimeOut(s)
    PROVE  KickInv'
<1>1. UNCHANGED <<interval, modeUp, owed, created, probes, pc, visit>>
  BY ThreadFrame DEF configVars, schedVars, callerVars
<1>2. \A t \in Contexts : t # s => /\ tpc'[t] = tpc[t] /\ mutex'[t] = mutex[t]
                                   /\ waiting'[t] = waiting[t]
  BY DEF ThreadStep, Look, Rest, TimeOut, Pass, Choose, ReadInterval, Call, Return, Advance,
         Lock, Unlock, Broadcast, ToStep, TypeInv
<1>3. tpc[s] # "none" /\ tpc'[s] # "none"
  BY DEF ThreadStep, Look, Rest, TimeOut, Pass, AtProbe, Choose, ReadInterval, Call, Return,
         Advance, ToStep, TypeInv
<1>4. ASSUME Sleepy(s)' PROVE Sleepy(s)
  <2>1. tpc'[s] = "parked" /\ HasEnabled(s)
    BY <1>1, <1>4 DEF Sleepy, HasEnabled, Enabled
  <2>2. CASE Look(s)
    BY <2>1, <2>2 DEF Look, ToStep, TypeInv
  <2>3. CASE Rest(s)
    BY <2>1, <2>3 DEF Sleepy, Rest, ToStep, TypeInv
  <2>4. CASE \/ TimeOut(s) \/ Pass(s) \/ Choose(s) \/ ReadInterval(s) \/ Call(s)
             \/ Return(s) \/ Advance(s)
    BY <2>1, <2>4 DEF TimeOut, Pass, AtProbe, Choose, ReadInterval, Call, Return, Advance,
       ToStep, TypeInv
  <2> QED
    BY <2>2, <2>3, <2>4 DEF ThreadStep
<1>5. ASSUME NEW t \in Contexts, Sleepy(t)' PROVE Alerted(t)'
  <2>1. Sleepy(t)
    BY <1>1, <1>2, <1>4, <1>5 DEF Sleepy, HasEnabled, Enabled
  <2> QED
    BY <1>1, <2>1 DEF KickInv, Alerted, Approaches
<1> QED
  BY <1>1, <1>2, <1>3, <1>5 DEF KickInv
-----------------------------------------------------------------------------
(***************************************************************************)
(* The probe of a caller, if no two callers share one: where it is, and    *)
(* that what is in flight is in the context it is registered with.         *)
(***************************************************************************)
OnePython == \A c, d \in Pythons : c = d
OneCaller == OnePython /\ \A c, d \in Callers : ProbeOf[c] = ProbeOf[d] => c = d

RegisteredInv ==
    /\ \A c \in Callers :
         /\ pc[c] \in {"register", "add"} => schedOf[ProbeOf[c]] = Nobody
         /\ pc[c] \in Leaving => sd[c] = schedOf[ProbeOf[c]]
         /\ pc[c] \in {"join", "leave"} =>
              \A s \in Contexts : ProbeOf[c] \notin ToSet(probes[s])
    /\ \A c \in Pythons : running <=> schedOf[ProbeOf[c]] # Nobody
    /\ \A s \in Contexts : /\ \A p \in ToSet(probes[s]) : schedOf[p] = s
                           /\ IsInjective(probes[s])

InFlight == {"call", "probe", "relock"}
FlightInv ==
    /\ \A s \in Contexts :
         /\ tpc[s] \in InTick => current[s] \in ToSet(probes[s])
         /\ tpc[s] \in InFlight => inCall[current[s]]
         /\ tpc[s] \in {"round", "interval"} => mutex[s] = s
    /\ \A p \in Probes :
         inCall[p] => \E s \in Contexts : tpc[s] \in InFlight /\ current[s] = p

LEMMA RegisteredInit == Init => RegisteredInv /\ FlightInv
<1> SUFFICES ASSUME Init PROVE RegisteredInv /\ FlightInv
  OBVIOUS
<1>1. \A s \in Contexts : ToSet(probes[s]) = {} /\ IsInjective(probes[s])
  BY DEF Init, ToSet, IsInjective
<1> QED
  BY <1>1, Constants DEF Init, RegisteredInv, FlightInv, InFlight, InTick, Leaving

LEMMA RegisteredFrame ==
    ASSUME RegisteredInv, UNCHANGED <<schedOf, probes, pc, sd, running>>
    PROVE  RegisteredInv'
BY DEF RegisteredInv

\* Steps that only move one kicker.
LEMMA RegisteredMove ==
    ASSUME TypeInv, RegisteredInv, NEW k \in Kickers, NEW l, pc' = [pc EXCEPT ![k] = l],
           UNCHANGED <<schedOf, probes, sd, running>>,
           k \in Callers /\ l \in {"register", "add"} => schedOf[ProbeOf[k]] = Nobody,
           l \in Leaving => pc[k] \in Leaving,
           l \in {"join", "leave"} => pc[k] \in {"join", "leave"}
    PROVE  RegisteredInv'
<1>1. \A j \in Kickers : pc'[j] = IF j = k THEN l ELSE pc[j]
  BY DEF TypeInv
<1>2. \A c \in Callers :
        /\ pc'[c] \in {"register", "add"} => schedOf[ProbeOf[c]] = Nobody
        /\ pc'[c] \in Leaving => sd[c] = schedOf[ProbeOf[c]]
        /\ pc'[c] \in {"join", "leave"} =>
             \A s \in Contexts : ProbeOf[c] \notin ToSet(probes[s])
  BY <1>1, Constants DEF RegisteredInv
<1> QED
  BY <1>2 DEF RegisteredInv

LEMMA RegisteredKicker ==
    ASSUME TypeInv, RegisteredInv, NEW k \in Kickers, KickerStep(k)
    PROVE  RegisteredInv'
<1>1. UNCHANGED <<schedOf, probes, sd, running>>
  BY DEF KickerStep, KickLock, KickVisit, KickBroadcast, KickUnlock, probeVars, schedVars
<1>2. CASE UNCHANGED pc
  BY <1>1, <1>2, RegisteredFrame
<1>3. CASE \E l \in {"visit", "broadcast", "out"} : pc' = [pc EXCEPT ![k] = l]
  BY <1>1, <1>3, RegisteredMove DEF Leaving
<1> QED
  BY <1>2, <1>3 DEF KickerStep, KickLock, KickVisit, KickBroadcast, KickUnlock, Goto

LEMMA RegisteredCaller ==
    ASSUME TypeInv, Joint, RegisteredInv, OneCaller, NEW c \in Callers, CallerStep(c)
    PROVE  RegisteredInv'
<1> USE Constants
<1> DEFINE p == ProbeOf[c]
<1>1. CASE Register(c)
  <2>1. /\ pc' = [pc EXCEPT ![c] = "register"]
        /\ UNCHANGED <<schedOf, probes, sd, running>>
    BY <1>1 DEF Register, Goto, probeVars, schedVars
  <2>2. schedOf[p] = Nobody
    BY <1>1 DEF Register, MayRegister, RegisteredInv
  <2> QED
    BY <2>1, <2>2, RegisteredMove DEF Leaving
<1>2. CASE RegisterLock(c)
  <2>1. schedOf[p] = Nobody
    BY <1>2 DEF RegisterLock, RegisteredInv
  <2>2. schedOf' = schedOf
    BY <1>2, <2>1 DEF RegisterLock, TypeInv, probeVars
  <2>3. /\ UNCHANGED <<probes, sd, running>>
        /\ \E l \in {"out", "add"} : pc' = [pc EXCEPT ![c] = l]
    BY <1>2 DEF RegisterLock, Goto, schedVars
  <2> QED
    BY <2>1, <2>2, <2>3, RegisteredMove DEF Leaving
<1>3. CASE RegisterAdd(c)
  <2>1. PICK own \in BOOLEAN : \E s \in ContextsFor(own) :
          /\ probes' = [probes EXCEPT ![s] = Append(@, p)]
          /\ schedOf' = [schedOf EXCEPT ![p] = s]
    BY <1>3 DEF RegisterAdd
  <2>2. PICK s \in Contexts : /\ probes' = [probes EXCEPT ![s] = Append(@, p)]
                              /\ schedOf' = [schedOf EXCEPT ![p] = s]
    BY <2>1, ContextsForType
  <2>3. /\ pc[c] = "add" /\ UNCHANGED sd /\ running' = (running \/ c \in Pythons)
        /\ \A j \in Kickers : pc'[j] = IF j = c THEN "kick" ELSE pc[j]
    BY <1>3 DEF RegisterAdd, Goto, TypeInv
  <2>4. /\ schedOf[p] = Nobody /\ \A q \in Probes : schedOf'[q] = IF q = p THEN s ELSE schedOf[q]
        /\ \A t \in Contexts : p \notin ToSet(probes[t])
    BY <2>2, <2>3 DEF RegisteredInv, TypeInv
  <2>5. \A t \in Contexts :
          /\ ToSet(probes'[t]) = IF t = s THEN ToSet(probes[t]) \cup {p} ELSE ToSet(probes[t])
          /\ IsInjective(probes'[t])
    <3>1. /\ ToSet(Append(probes[s], p)) = ToSet(probes[s]) \cup {p}
          /\ IsInjective(Append(probes[s], p))
      BY <2>4, Added DEF TypeInv, RegisteredInv
    <3> QED
      BY <2>2, <3>1 DEF TypeInv, RegisteredInv
  <2>6. \A d \in Callers : d # c => ProbeOf[d] # p
    BY DEF OneCaller
  <2>7. \A d \in Callers :
          /\ pc'[d] \in {"register", "add"} => schedOf'[ProbeOf[d]] = Nobody
          /\ pc'[d] \in Leaving => sd'[d] = schedOf'[ProbeOf[d]]
          /\ pc'[d] \in {"join", "leave"} =>
               \A t \in Contexts : ProbeOf[d] \notin ToSet(probes'[t])
    <3> SUFFICES ASSUME NEW d \in Callers, d # c
                 PROVE  /\ pc'[d] \in {"register", "add"} => schedOf'[ProbeOf[d]] = Nobody
                        /\ pc'[d] \in Leaving => sd'[d] = schedOf'[ProbeOf[d]]
                        /\ pc'[d] \in {"join", "leave"} =>
                             \A t \in Contexts : ProbeOf[d] \notin ToSet(probes'[t])
      BY <2>3 DEF Leaving
    <3>1. pc'[d] = pc[d] /\ ProbeOf[d] # p /\ schedOf'[ProbeOf[d]] = schedOf[ProbeOf[d]]
      BY <2>3, <2>4, <2>6
    <3>2. /\ pc[d] \in {"register", "add"} => schedOf[ProbeOf[d]] = Nobody
          /\ pc[d] \in Leaving => sd[d] = schedOf[ProbeOf[d]]
      BY DEF RegisteredInv
    <3>3. ASSUME pc[d] \in {"join", "leave"}, NEW t \in Contexts
          PROVE  ProbeOf[d] \notin ToSet(probes'[t])
      <4>1. ProbeOf[d] \notin ToSet(probes[t])
        BY <3>3 DEF RegisteredInv
      <4> QED
        BY <2>5, <3>1, <4>1
    <3> QED
      BY <2>3, <3>1, <3>2, <3>3
  <2>8. \A d \in Pythons : running' <=> schedOf'[ProbeOf[d]] # Nobody
    <3> SUFFICES ASSUME NEW d \in Pythons PROVE running' <=> schedOf'[ProbeOf[d]] # Nobody
      OBVIOUS
    <3>1. CASE d = c
      <4>1. running' /\ schedOf'[p] = s
        BY <2>3, <2>4, <3>1
      <4> QED
        BY <3>1, <4>1
    <3>2. CASE d # c
      <4>1. c \notin Pythons
        BY <3>2 DEF OneCaller, OnePython
      <4>2. running' = running /\ schedOf'[ProbeOf[d]] = schedOf[ProbeOf[d]]
        BY <2>3, <2>4, <2>6, <3>2, <4>1 DEF TypeInv
      <4> QED
        BY <4>2 DEF RegisteredInv
    <3> QED
      BY <3>1, <3>2
  <2>9. \A t \in Contexts : \A q \in ToSet(probes'[t]) : schedOf'[q] = t
    <3>1. \A t \in Contexts : ToSet(probes[t]) \subseteq Probes
      BY DEF TypeInv, ToSet
    <3> QED
      <4> SUFFICES ASSUME NEW t \in Contexts, NEW q \in ToSet(probes'[t])
                   PROVE  schedOf'[q] = t
        OBVIOUS
      <4>1. CASE q = p
        BY <2>4, <2>5, <4>1
      <4>2. CASE q # p
        <5>1. q \in ToSet(probes[t]) /\ q \in Probes
          BY <2>5, <3>1, <4>2
        <5>2. schedOf[q] = t
          BY <5>1 DEF RegisteredInv
        <5> QED
          BY <2>4, <4>2, <5>1, <5>2
      <4> QED
        BY <4>1, <4>2
  <2> QED
    BY <2>5, <2>7, <2>8, <2>9 DEF RegisteredInv
<1>4. CASE Unregister(c)
  <2>1. /\ pc' = [pc EXCEPT ![c] = "stop"] /\ UNCHANGED <<schedOf, probes, sd, running>>
    BY <1>4 DEF Unregister, Goto, probeVars, schedVars
  <2> QED
    BY <2>1, RegisteredMove DEF Leaving
<1>5. CASE UnregisterCheck(c)
  <2>1. /\ pc[c] = "stop" /\ UNCHANGED <<schedOf, probes, running>>
        /\ \/ pc' = [pc EXCEPT ![c] = Stopped(c)] /\ UNCHANGED sd
           \/ /\ pc' = [pc EXCEPT ![c] = "unregister"]
              /\ sd' = [sd EXCEPT ![c] = schedOf[p]]
    BY <1>5 DEF UnregisterCheck, Goto, probeVars, schedVars
  <2>2. CASE pc' = [pc EXCEPT ![c] = Stopped(c)] /\ UNCHANGED sd
    BY <2>1, <2>2, RegisteredMove DEF Leaving, Stopped
  <2>3. CASE pc' = [pc EXCEPT ![c] = "unregister"] /\ sd' = [sd EXCEPT ![c] = schedOf[p]]
    <3>1. /\ \A j \in Kickers : pc'[j] = IF j = c THEN "unregister" ELSE pc[j]
          /\ \A d \in Callers : sd'[d] = IF d = c THEN schedOf[p] ELSE sd[d]
      BY <2>3 DEF TypeInv
    <3>2. \A d \in Callers :
            /\ pc'[d] \in {"register", "add"} => schedOf[ProbeOf[d]] = Nobody
            /\ pc'[d] \in Leaving => sd'[d] = schedOf[ProbeOf[d]]
            /\ pc'[d] \in {"join", "leave"} =>
                 \A s \in Contexts : ProbeOf[d] \notin ToSet(probes[s])
      BY <3>1 DEF RegisteredInv
    <3> QED
      BY <2>1, <3>2 DEF RegisteredInv
  <2> QED
    BY <2>1, <2>2, <2>3
<1>6. CASE UnregisterLock(c)
  <2>1. /\ pc[c] = "unregister" /\ pc' = [pc EXCEPT ![c] = "remove"]
        /\ UNCHANGED <<schedOf, probes, sd, running>>
    BY <1>6 DEF UnregisterLock, Goto, probeVars, schedVars
  <2> QED
    BY <2>1, RegisteredMove DEF Leaving
<1>7. CASE UnregisterWait(c) \/ GiveGil(c)
  BY <1>7, RegisteredFrame DEF UnregisterWait, GiveGil, probeVars, schedVars, callerVars
<1>8. CASE UnregisterRemove(c)
  <2> DEFINE s == sd[c]
  <2>1. /\ pc[c] = "remove" /\ UNCHANGED <<schedOf, sd, running>>
        /\ probes' = [probes EXCEPT ![s] = Removed(@, p)]
        /\ pc' = [pc EXCEPT ![c] = IF Joins(s) THEN "join" ELSE "leave"]
    BY <1>8 DEF UnregisterRemove, Goto, probeVars
  <2>2. s \in Contexts /\ schedOf[p] = s
    BY <2>1 DEF Joint, PlaceInv, RegisteredInv, Leaving
  <2>3. \A j \in Kickers : pc'[j] = IF j = c THEN (IF Joins(s) THEN "join" ELSE "leave") ELSE pc[j]
    BY <2>1 DEF TypeInv
  <2>4. \A t \in Contexts : /\ ToSet(probes'[t]) = ToSet(probes[t]) \ {p}
                            /\ IsInjective(probes'[t])
    <3>1. /\ ToSet(Removed(probes[s], p)) = ToSet(probes[s]) \ {p}
          /\ IsInjective(Removed(probes[s], p))
      BY <2>2, Taken DEF TypeInv, RegisteredInv
    <3>2. \A t \in Contexts : t # s => p \notin ToSet(probes[t])
      BY <2>2 DEF RegisteredInv
    <3> QED
      BY <2>1, <2>2, <3>1, <3>2 DEF TypeInv, RegisteredInv
  <2>5. \A d \in Callers :
          /\ pc'[d] \in {"register", "add"} => schedOf[ProbeOf[d]] = Nobody
          /\ pc'[d] \in Leaving => sd[d] = schedOf[ProbeOf[d]]
          /\ pc'[d] \in {"join", "leave"} =>
               \A t \in Contexts : ProbeOf[d] \notin ToSet(probes'[t])
    BY <2>1, <2>2, <2>3, <2>4 DEF RegisteredInv
  <2> QED
    BY <2>1, <2>4, <2>5 DEF RegisteredInv
<1>9. CASE UnregisterJoin(c)
  <2>1. /\ pc[c] = "join" /\ pc' = [pc EXCEPT ![c] = "leave"]
        /\ UNCHANGED <<schedOf, probes, sd, running>>
    BY <1>9 DEF UnregisterJoin, Goto, probeVars
  <2> QED
    BY <2>1, RegisteredMove DEF Leaving
<1>10. CASE UnregisterLeave(c)
  <2>1. /\ pc[c] = "leave" /\ UNCHANGED probes
        /\ schedOf' = [schedOf EXCEPT ![p] = Nobody]
        /\ sd' = [sd EXCEPT ![c] = Nobody]
        /\ running' = (running /\ c \notin Pythons)
        /\ pc' = [pc EXCEPT ![c] = Stopped(c)]
    BY <1>10 DEF UnregisterLeave, Goto, schedVars
  <2>2. /\ \A j \in Kickers : pc'[j] = IF j = c THEN Stopped(c) ELSE pc[j]
        /\ \A d \in Callers : sd'[d] = IF d = c THEN Nobody ELSE sd[d]
        /\ \A q \in Probes : schedOf'[q] = IF q = p THEN Nobody ELSE schedOf[q]
    BY <2>1 DEF TypeInv
  <2>3. \A d \in Callers : d # c => ProbeOf[d] # p
    BY DEF OneCaller
  <2>4. \A s \in Contexts : p \notin ToSet(probes[s])
    BY <2>1 DEF RegisteredInv
  <2>5. Stopped(c) \notin {"register", "add"} /\ Stopped(c) \notin Leaving
        /\ Stopped(c) \notin {"join", "leave"}
    BY DEF Stopped, Leaving
  <2>6. \A d \in Callers :
          /\ pc'[d] \in {"register", "add"} => schedOf'[ProbeOf[d]] = Nobody
          /\ pc'[d] \in Leaving => sd'[d] = schedOf'[ProbeOf[d]]
          /\ pc'[d] \in {"join", "leave"} =>
               \A t \in Contexts : ProbeOf[d] \notin ToSet(probes[t])
    BY <2>2, <2>3, <2>5 DEF RegisteredInv
  <2>7. \A d \in Pythons : running' <=> schedOf'[ProbeOf[d]] # Nobody
    <3> SUFFICES ASSUME NEW d \in Pythons PROVE running' <=> schedOf'[ProbeOf[d]] # Nobody
      OBVIOUS
    <3>1. CASE d = c
      <4>1. ~running' /\ schedOf'[p] = Nobody
        BY <2>1, <2>2, <3>1
      <4> QED
        BY <3>1, <4>1
    <3>2. CASE d # c
      <4>1. c \notin Pythons
        BY <3>2 DEF OneCaller, OnePython
      <4>2. running' = running /\ schedOf'[ProbeOf[d]] = schedOf[ProbeOf[d]]
        BY <2>1, <2>2, <2>3, <3>2, <4>1 DEF TypeInv
      <4> QED
        BY <4>2 DEF RegisteredInv
    <3> QED
      BY <3>1, <3>2
  <2>8. \A t \in Contexts : \A q \in ToSet(probes[t]) : schedOf'[q] = t
    <3>1. \A t \in Contexts : ToSet(probes[t]) \subseteq Probes
      BY DEF TypeInv, ToSet
    <3> QED
      BY <2>2, <2>4, <3>1 DEF RegisteredInv
  <2> QED
    BY <2>1, <2>6, <2>7, <2>8 DEF RegisteredInv
<1>11. CASE TakeGil(c) \/ SetTraceMode(c)
  <2>1. /\ \E l \in {"out", "mode"} : pc' = [pc EXCEPT ![c] = l]
        /\ UNCHANGED <<schedOf, probes, sd, running>>
    BY <1>11 DEF TakeGil, SetTraceMode, Goto, probeVars, schedVars
  <2> QED
    BY <2>1, RegisteredMove DEF Leaving
<1> QED
  BY <1>1, <1>2, <1>3, <1>4, <1>5, <1>6, <1>7, <1>8, <1>9, <1>10, <1>11 DEF CallerStep
-----------------------------------------------------------------------------
(***************************************************************************)
(* What is in flight.                                                      *)
(***************************************************************************)
LEMMA FlightCaller ==
    ASSUME TypeInv, Joint, RegisteredInv, FlightInv, NEW c \in Callers, CallerStep(c)
    PROVE  FlightInv'
<1> USE Constants
<1> DEFINE p == ProbeOf[c]
           s == sd[c]
<1>1. CASE RegisterLock(c)
  <2>1. /\ pc[c] = "register" /\ UNCHANGED <<probes, mutex, tpc, current>>
        /\ UNCHANGED inCall \/ inCall' = [inCall EXCEPT ![p] = FALSE]
    BY <1>1 DEF RegisterLock, schedVars, threadVars, probeVars
  <2>2. \A t \in Contexts : p \notin ToSet(probes[t])
    BY <2>1 DEF RegisteredInv
  <2>3. \A q \in Probes : inCall'[q] = inCall[q] \/ (q = p /\ ~inCall'[q])
    BY <2>1 DEF TypeInv
  <2>4. \A t \in Contexts : tpc[t] \in InFlight => /\ current[t] # p
                                                   /\ current[t] \in Probes
    BY <2>2 DEF FlightInv, InFlight, InTick, TypeInv, ToSet
  <2> QED
    BY <2>1, <2>3, <2>4 DEF FlightInv
<1>2. CASE RegisterAdd(c)
  <2>1. PICK own \in BOOLEAN : \E t \in ContextsFor(own) :
          probes' = [probes EXCEPT ![t] = Append(@, p)]
    BY <1>2 DEF RegisterAdd
  <2>2. PICK r \in Contexts : probes' = [probes EXCEPT ![r] = Append(@, p)]
    BY <2>1, ContextsForType
  <2>3. \A t \in Contexts : ToSet(probes[t]) \subseteq ToSet(probes'[t])
    <3>1. ToSet(Append(probes[r], p)) = ToSet(probes[r]) \cup {p}
      BY Added DEF TypeInv
    <3> QED
      BY <2>2, <3>1 DEF TypeInv
  <2>4. UNCHANGED <<inCall, mutex, tpc, current>>
    BY <1>2 DEF RegisterAdd, threadVars
  <2> QED
    BY <2>3, <2>4 DEF FlightInv
<1>3. CASE UnregisterRemove(c)
  <2>1. /\ pc[c] = "remove" /\ mutex[s] = Nobody /\ ~inCall[p]
        /\ probes' = [probes EXCEPT ![s] = Removed(@, p)]
        /\ UNCHANGED <<inCall, mutex, tpc, current>>
    BY <1>3 DEF UnregisterRemove, MayRemove, threadVars, probeVars
  <2>2. s \in Contexts
    BY <2>1 DEF Joint, PlaceInv, Leaving
  <2>3. ToSet(Removed(probes[s], p)) = ToSet(probes[s]) \ {p}
    BY <2>2, Taken DEF TypeInv, RegisteredInv
  <2>4. \A t \in Contexts :
          ToSet(probes'[t]) = IF t = s THEN ToSet(probes[t]) \ {p} ELSE ToSet(probes[t])
    BY <2>1, <2>2, <2>3 DEF TypeInv
  <2>5. tpc[s] \in InTick => tpc[s] \in InFlight /\ current[s] # p
    <3>1. tpc[s] # "interval"
      BY <2>1, <2>2 DEF FlightInv
    <3>2. tpc[s] \in InTick => tpc[s] \in InFlight
      BY <3>1 DEF InTick, InFlight
    <3> QED
      BY <2>1, <2>2, <3>2 DEF FlightInv
  <2>6. ASSUME NEW t \in Contexts, tpc[t] \in InTick PROVE current[t] \in ToSet(probes'[t])
    <3>1. current[t] \in ToSet(probes[t])
      BY <2>6 DEF FlightInv
    <3> QED
      BY <2>4, <2>5, <2>6, <3>1
  <2> QED
    BY <2>1, <2>6 DEF FlightInv
<1>4. CASE UnregisterJoin(c)
  <2>1. /\ tpc[s] = "exited" /\ tpc' = [tpc EXCEPT ![s] = "none"]
        /\ UNCHANGED <<inCall, mutex, probes, current>>
    BY <1>4 DEF UnregisterJoin, probeVars
  <2>2. \A t \in Contexts : tpc'[t] = tpc[t] \/ (t = s /\ tpc'[t] = "none")
    BY <2>1 DEF TypeInv
  <2> QED
    BY <2>1, <2>2 DEF FlightInv, InFlight, InTick
<1>5. CASE \/ Register(c) \/ Unregister(c) \/ UnregisterCheck(c) \/ UnregisterLock(c)
           \/ UnregisterWait(c) \/ UnregisterLeave(c) \/ TakeGil(c) \/ GiveGil(c)
           \/ SetTraceMode(c)
  <2>1. UNCHANGED <<inCall, mutex, probes, tpc, current>>
    BY <1>5 DEF Register, Unregister, UnregisterCheck, UnregisterLock, UnregisterWait,
       UnregisterLeave, TakeGil, GiveGil, SetTraceMode, probeVars, schedVars, threadVars
  <2> QED
    BY <2>1 DEF FlightInv
<1> QED
  BY <1>1, <1>2, <1>3, <1>4, <1>5 DEF CallerStep

LEMMA FlightKicker ==
    ASSUME TypeInv, KickInv, FlightInv, NEW k \in Kickers, KickerStep(k)
    PROVE  FlightInv'
<1>1. UNCHANGED <<inCall, mutex, probes, current>>
  BY DEF KickerStep, KickLock, KickVisit, KickBroadcast, KickUnlock, probeVars, schedVars,
         threadVars
<1>2. \A t \in Contexts : tpc'[t] = tpc[t] \/ (tpc[t] = "none" /\ tpc'[t] = "lock")
  <2>1. CASE KickVisit(k)
    <3>1. Scheds[visit[k]] \in Contexts
      BY <2>1, SchedsAreContexts DEF KickVisit, TypeInv
    <3> QED
      BY <2>1, <3>1 DEF KickVisit, KickInv, TypeInv
  <2>2. CASE KickLock(k) \/ KickBroadcast(k) \/ KickUnlock(k)
    BY <2>2 DEF KickLock, KickBroadcast, KickUnlock, threadVars
  <2> QED
    BY <2>1, <2>2 DEF KickerStep
<1> QED
  BY <1>1, <1>2 DEF FlightInv, InFlight, InTick

\* What another thread has in flight is none of s's.
LEMMA FlightThread ==
    ASSUME TypeInv, RegisteredInv, FlightInv, NEW s \in Contexts,
           ThreadStep(s) \/ TimeOut(s)
    PROVE  FlightInv'
<1> USE Constants
<1>1. UNCHANGED probes
  BY ThreadFrame DEF schedVars
<1>2. CASE Look(s) \/ Rest(s) \/ TimeOut(s)
  <2>1. UNCHANGED <<inCall, current>>
    BY <1>2 DEF Look, Rest, TimeOut, probeVars
  <2>2. \A t \in Contexts : t # s => tpc'[t] = tpc[t] /\ mutex'[t] = mutex[t]
    BY <1>2 DEF Look, Rest, TimeOut, Lock, Unlock, ToStep, TypeInv
  <2>3. tpc[s] \notin InFlight /\ tpc'[s] \notin InTick
    <3>1. CASE Look(s)
      BY <3>1 DEF Look, ToStep, TypeInv, InFlight, InTick
    <3>2. CASE Rest(s)
      BY <3>2 DEF Rest, ToStep, TypeInv, InFlight, InTick
    <3>3. CASE TimeOut(s)
      BY <3>3 DEF TimeOut, ToStep, TypeInv, InFlight, InTick
    <3> QED
      BY <1>2, <3>1, <3>2, <3>3
  <2>4. tpc'[s] = "round" => mutex'[s] = s
    <3>1. CASE Look(s)
      BY <3>1 DEF Look, ToStep, TypeInv
    <3>2. CASE Rest(s)
      BY <3>2 DEF Rest, ToStep, TypeInv
    <3>3. CASE TimeOut(s)
      BY <3>3 DEF TimeOut, Lock, ToStep, TypeInv
    <3> QED
      BY <1>2, <3>1, <3>2, <3>3
  <2> QED
    BY <1>1, <2>1, <2>2, <2>3, <2>4 DEF FlightInv, InFlight, InTick
<1>3. CASE Pass(s)
  BY <1>1, <1>3 DEF Pass, FlightInv, probeVars
<1>4. CASE Choose(s)
  <2>1. /\ tpc[s] = "round" /\ tpc' = [tpc EXCEPT ![s] = "interval"]
        /\ current' = [current EXCEPT ![s] = Candidate(s)] /\ UNCHANGED <<inCall, mutex>>
    BY <1>4 DEF Choose, AtProbe, ToStep, probeVars
  <2>2. Candidate(s) \in ToSet(probes[s])
    BY <1>4, AtProbeType DEF Choose
  <2>3. \A t \in Contexts : /\ tpc'[t] = IF t = s THEN "interval" ELSE tpc[t]
                            /\ current'[t] = IF t = s THEN Candidate(s) ELSE current[t]
    BY <2>1 DEF TypeInv
  <2> QED
    BY <1>1, <2>1, <2>2, <2>3 DEF FlightInv, InFlight, InTick
<1>5. CASE ReadInterval(s)
  <2> DEFINE q == current[s]
  <2>1. tpc[s] = "interval" /\ q \in ToSet(probes[s]) /\ q \in Probes
    BY <1>5 DEF ReadInterval, FlightInv, InTick, TypeInv, ToSet
  <2>2. CASE interval[q] = 0
    <3>1. /\ current' = [current EXCEPT ![s] = Nobody]
          /\ tpc' = [tpc EXCEPT ![s] = "round"] /\ UNCHANGED <<inCall, mutex>>
      BY <1>5, <2>2 DEF ReadInterval, ToStep
    <3>2. \A t \in Contexts : /\ tpc'[t] = IF t = s THEN "round" ELSE tpc[t]
                              /\ current'[t] = IF t = s THEN Nobody ELSE current[t]
      BY <3>1 DEF TypeInv
    <3> QED
      BY <1>1, <2>1, <3>1, <3>2 DEF FlightInv, InFlight, InTick
  <2>3. CASE interval[q] # 0
    <3>1. /\ inCall' = [inCall EXCEPT ![q] = TRUE]
          /\ mutex' = [mutex EXCEPT ![s] = Nobody]
          /\ tpc' = [tpc EXCEPT ![s] = "call"] /\ UNCHANGED current
      BY <1>5, <2>3 DEF ReadInterval, ToStep, Unlock
    <3>2. /\ \A t \in Contexts : /\ tpc'[t] = IF t = s THEN "call" ELSE tpc[t]
                                 /\ t # s => mutex'[t] = mutex[t]
          /\ \A r \in Probes : inCall'[r] = IF r = q THEN TRUE ELSE inCall[r]
      BY <3>1 DEF TypeInv
    <3>3. \A t \in Contexts : tpc[t] \in InTick => current[t] \in Probes
      BY DEF FlightInv, TypeInv, ToSet
    <3>4. \A t \in Contexts :
            /\ tpc'[t] \in InTick => current[t] \in ToSet(probes[t])
            /\ tpc'[t] \in InFlight => inCall'[current[t]]
            /\ tpc'[t] \in {"round", "interval"} => mutex'[t] = t
      <4> SUFFICES ASSUME NEW t \in Contexts
                   PROVE  /\ tpc'[t] \in InTick => current[t] \in ToSet(probes[t])
                          /\ tpc'[t] \in InFlight => inCall'[current[t]]
                          /\ tpc'[t] \in {"round", "interval"} => mutex'[t] = t
        OBVIOUS
      <4>1. CASE t = s
        <5>1. tpc'[s] = "call" /\ inCall'[q]
          BY <2>1, <3>2
        <5> QED
          BY <2>1, <4>1, <5>1
      <4>2. CASE t # s
        <5>1. tpc'[t] = tpc[t] /\ mutex'[t] = mutex[t]
          BY <3>2, <4>2
        <5>2. tpc[t] \in InFlight => inCall'[current[t]]
          <6>1. tpc[t] \in InFlight => tpc[t] \in InTick
            BY DEF InFlight, InTick
          <6> QED
            BY <3>2, <3>3, <6>1 DEF FlightInv
        <5> QED
          BY <5>1, <5>2 DEF FlightInv
      <4> QED
        BY <4>1, <4>2
    <3>5. \A r \in Probes :
            inCall'[r] => \E t \in Contexts : tpc'[t] \in InFlight /\ current[t] = r
      BY <2>1, <3>2 DEF FlightInv, InFlight
    <3> QED
      BY <1>1, <3>1, <3>4, <3>5 DEF FlightInv
  <2> QED
    BY <2>2, <2>3
<1>6. CASE Call(s) \/ Return(s)
  <2>1. UNCHANGED <<inCall, mutex, current>>
    BY <1>6 DEF Call, Return, probeVars
  <2>2. /\ \A t \in Contexts : t # s => tpc'[t] = tpc[t]
        /\ tpc[s] \in InFlight /\ tpc'[s] \in {"probe", "relock"}
    BY <1>6 DEF Call, Return, ToStep, TypeInv, InFlight
  <2> QED
    BY <1>1, <2>1, <2>2 DEF FlightInv, InFlight, InTick
<1>7. CASE Advance(s)
  <2> DEFINE q == current[s]
  <2>1. tpc[s] = "relock" /\ q \in ToSet(probes[s]) /\ q \in Probes
    BY <1>7 DEF Advance, FlightInv, InTick, TypeInv, ToSet
  <2>2. /\ inCall' = [inCall EXCEPT ![q] = FALSE]
        /\ mutex' = [mutex EXCEPT ![s] = s] /\ tpc' = [tpc EXCEPT ![s] = "round"]
        /\ current' = [current EXCEPT ![s] = Nobody]
    BY <1>7 DEF Advance, Lock, ToStep
  <2>3. /\ \A t \in Contexts : /\ tpc'[t] = IF t = s THEN "round" ELSE tpc[t]
                               /\ mutex'[t] = IF t = s THEN s ELSE mutex[t]
                               /\ current'[t] = IF t = s THEN Nobody ELSE current[t]
        /\ \A r \in Probes : inCall'[r] = IF r = q THEN FALSE ELSE inCall[r]
    BY <2>2 DEF TypeInv
  <2>4. \A t \in Contexts :
          t # s /\ tpc[t] \in InFlight => current[t] # q /\ current[t] \in Probes
    <3> SUFFICES ASSUME NEW t \in Contexts, t # s, tpc[t] \in InFlight
                 PROVE  current[t] # q /\ current[t] \in Probes
      OBVIOUS
    <3>1. current[t] \in ToSet(probes[t])
      BY DEF FlightInv, InFlight, InTick
    <3>2. schedOf[current[t]] = t /\ schedOf[q] = s
      BY <2>1, <3>1 DEF RegisteredInv
    <3> QED
      BY <3>1, <3>2 DEF TypeInv, ToSet
  <2>5. \A t \in Contexts :
          /\ tpc'[t] \in InTick => current'[t] \in ToSet(probes[t])
          /\ tpc'[t] \in InFlight => inCall'[current'[t]]
          /\ tpc'[t] \in {"round", "interval"} => mutex'[t] = t
    <3> SUFFICES ASSUME NEW t \in Contexts
                 PROVE  /\ tpc'[t] \in InTick => current'[t] \in ToSet(probes[t])
                        /\ tpc'[t] \in InFlight => inCall'[current'[t]]
                        /\ tpc'[t] \in {"round", "interval"} => mutex'[t] = t
      OBVIOUS
    <3>1. CASE t = s
      <4>1. tpc'[s] = "round" /\ mutex'[s] = s
        BY <2>3
      <4> QED
        BY <3>1, <4>1 DEF InFlight, InTick
    <3>2. CASE t # s
      <4>1. tpc'[t] = tpc[t] /\ mutex'[t] = mutex[t] /\ current'[t] = current[t]
        BY <2>3, <3>2
      <4>2. tpc[t] \in InFlight => inCall'[current[t]]
        BY <2>3, <2>4, <3>2 DEF FlightInv
      <4> QED
        BY <4>1, <4>2 DEF FlightInv
    <3> QED
      BY <3>1, <3>2
  <2>6. \A r \in Probes :
          inCall'[r] => \E t \in Contexts : tpc'[t] \in InFlight /\ current'[t] = r
    <3> SUFFICES ASSUME NEW r \in Probes, inCall'[r]
                 PROVE  \E t \in Contexts : tpc'[t] \in InFlight /\ current'[t] = r
      OBVIOUS
    <3>1. r # q /\ inCall[r]
      BY <2>3
    <3>2. PICK t \in Contexts : tpc[t] \in InFlight /\ current[t] = r
      BY <3>1 DEF FlightInv
    <3> QED
      BY <2>3, <3>1, <3>2
  <2> QED
    BY <1>1, <2>5, <2>6 DEF FlightInv
<1> QED
  BY <1>2, <1>3, <1>4, <1>5, <1>6, <1>7 DEF ThreadStep

LEMMA FlightConfig ==
    ASSUME RegisteredInv, FlightInv, Change \/ UNCHANGED vars
    PROVE  RegisteredInv' /\ FlightInv'
BY DEF RegisteredInv, FlightInv, Change, vars, probeVars, schedVars, threadVars, callerVars

LEMMA FlightKicks ==
    ASSUME RegisteredInv, NEW s \in Contexts, ThreadStep(s) \/ TimeOut(s)
    PROVE  RegisteredInv'
BY ThreadFrame, RegisteredFrame DEF schedVars, callerVars

-----------------------------------------------------------------------------
(***************************************************************************)
(* Who stops a probe from Python is without the GIL until it returns.      *)
(***************************************************************************)
Stopping == {"stop", "return"} \cup Leaving
GilInv == \A c \in Callers : pc[c] \in Stopping => gil # c

LEMMA GilStep ==
    ASSUME TypeInv, GilInv, [Next]_vars
    PROVE  GilInv'
<1> USE Constants
<1>1. CASE UNCHANGED vars \/ Change
  BY <1>1 DEF GilInv, vars, Change, callerVars
<1>2. ASSUME NEW k \in Kickers, KickerStep(k) PROVE GilInv'
  <2>1. /\ UNCHANGED gil
        /\ \A j \in Kickers : pc'[j] = pc[j] \/ pc'[j] \in {"visit", "broadcast", "out"}
    BY <1>2 DEF KickerStep, KickLock, KickVisit, KickBroadcast, KickUnlock, Goto, TypeInv
  <2> QED
    BY <2>1 DEF GilInv, Stopping, Leaving
<1>3. ASSUME NEW s \in Contexts, ThreadStep(s) \/ TimeOut(s) PROVE GilInv'
  <2>1. gil' \in {gil, s, Nobody}
    BY <1>3 DEF ThreadStep, Look, Rest, TimeOut, Pass, Choose, ReadInterval, Call, Return,
       Advance
  <2>2. UNCHANGED pc
    BY <1>3, ThreadFrame DEF callerVars
  <2> QED
    BY <2>1, <2>2 DEF GilInv
<1>4. ASSUME NEW c \in Callers, CallerStep(c) PROVE GilInv'
  <2>1. CASE TakeGil(c)
    <3>1. gil' = c /\ \A j \in Kickers : pc'[j] = IF j = c THEN "out" ELSE pc[j]
      BY <2>1 DEF TakeGil, Goto, TypeInv
    <3> QED
      BY <3>1 DEF GilInv, Stopping, Leaving
  <2>2. CASE GiveGil(c)
    BY <2>2 DEF GiveGil, GilInv, callerVars
  <2>3. CASE Unregister(c)
    <3>1. gil' = (IF gil = c THEN Nobody ELSE gil)
      BY <2>3 DEF Unregister, AllowsThreads
    <3>2. \A j \in Kickers : j # c => pc'[j] = pc[j]
      BY <2>3 DEF Unregister, Goto, TypeInv
    <3> QED
      BY <3>1, <3>2 DEF GilInv
  <2>4. CASE Register(c) \/ RegisterLock(c) \/ RegisterAdd(c) \/ SetTraceMode(c)
    <3>1. /\ UNCHANGED gil
          /\ \E l \in {"register", "out", "add", "kick", "mode"} : pc' = [pc EXCEPT ![c] = l]
      BY <2>4 DEF Register, RegisterLock, RegisterAdd, SetTraceMode, Goto
    <3>2. \A j \in Kickers : pc'[j] = pc[j] \/ pc'[j] \in {"register", "out", "add", "kick", "mode"}
      BY <3>1 DEF TypeInv
    <3> QED
      BY <3>1, <3>2 DEF GilInv, Stopping, Leaving
  <2>5. CASE \/ UnregisterCheck(c) \/ UnregisterLock(c) \/ UnregisterWait(c)
             \/ UnregisterRemove(c) \/ UnregisterJoin(c) \/ UnregisterLeave(c)
    <3>1. /\ UNCHANGED gil /\ pc[c] \in Stopping
          /\ \A j \in Kickers : j # c => pc'[j] = pc[j]
      BY <2>5 DEF UnregisterCheck, UnregisterLock, UnregisterWait, UnregisterRemove,
         UnregisterJoin, UnregisterLeave, Goto, Stopping, Leaving, TypeInv, callerVars
    <3> QED
      BY <3>1 DEF GilInv
  <2> QED
    BY <1>4, <2>1, <2>2, <2>3, <2>4, <2>5 DEF CallerStep
<1> QED
  BY <1>1, <1>2, <1>3, <1>4 DEF Next

-----------------------------------------------------------------------------
(***************************************************************************)
(* The invariants of every run of the program.                             *)
(***************************************************************************)
IInv == TypeInv /\ TickInv /\ Joint /\ KickInv

LEMMA Inductive ==
    ASSUME IInv, [Next]_vars
    PROVE  IInv'
<1> USE DEF IInv
<1>1. CASE UNCHANGED vars
  <2>1. TypeInv'
    BY <1>1, TypeStutter
  <2>2. UNCHANGED <<interval, modeUp, owed, registry, probes, created, stop, mutex, waiting, tpc,
                    current, tick, pc, visit, sd>>
    BY <1>1 DEF vars, configVars, registryVars, schedVars, threadVars, callerVars
  <2>3. TickInv'
    BY <2>2 DEF TickInv
  <2>4. Joint'
    BY <2>2, JointFrame
  <2>5. KickInv'
    BY <2>2 DEF KickInv, Sleepy, Alerted, Approaches, HasEnabled, Enabled
  <2> QED
    BY <2>1, <2>3, <2>4, <2>5
<1>2. CASE Change
  <2>1. TypeInv' /\ KickInv'
    BY <1>2, TypeConfig, KickConfig
  <2>2. TickInv'
    BY <1>2 DEF Change, TickInv, threadVars
  <2>3. Joint'
    BY <1>2, JointFrame DEF Change, registryVars, schedVars, callerVars
  <2> QED
    BY <2>1, <2>2, <2>3
<1>3. ASSUME NEW c \in Callers, CallerStep(c) PROVE IInv'
  <2>1. TypeInv' /\ Joint' /\ KickInv'
    BY <1>3, TypeCaller, JointCaller, KickCaller
  <2>2. TickInv'
    <3>1. UNCHANGED <<current, tick>>
      BY <1>3 DEF CallerStep, Register, RegisterLock, RegisterAdd, Unregister, UnregisterCheck,
         UnregisterLock, UnregisterWait, UnregisterRemove, UnregisterJoin, UnregisterLeave,
         TakeGil, GiveGil, SetTraceMode, threadVars
    <3>2. \A s \in Contexts : tpc'[s] = tpc[s] \/ tpc'[s] = "none"
      BY <1>3 DEF CallerStep, Register, RegisterLock, RegisterAdd, Unregister, UnregisterCheck,
         UnregisterLock, UnregisterWait, UnregisterRemove, UnregisterJoin, UnregisterLeave,
         TakeGil, GiveGil, SetTraceMode, threadVars, TypeInv
    <3> QED
      BY <3>1, <3>2 DEF TickInv, InTick
  <2> QED
    BY <2>1, <2>2
<1>4. ASSUME NEW k \in Kickers, KickerStep(k) PROVE IInv'
  <2>1. TypeInv' /\ Joint' /\ KickInv'
    BY <1>4, TypeKicker, JointKicker, KickKicker
  <2>2. TickInv'
    <3>1. UNCHANGED <<current, tick>>
      BY <1>4 DEF KickerStep, KickLock, KickVisit, KickBroadcast, KickUnlock, threadVars
    <3>2. \A s \in Contexts : tpc'[s] = tpc[s] \/ tpc'[s] = "lock"
      BY <1>4 DEF KickerStep, KickLock, KickVisit, KickBroadcast, KickUnlock, threadVars, TypeInv
    <3> QED
      BY <3>1, <3>2 DEF TickInv, InTick
  <2> QED
    BY <2>1, <2>2
<1>5. ASSUME NEW s \in Contexts, ThreadStep(s) \/ TimeOut(s) PROVE IInv'
  BY <1>5, TypeThread, JointThread, KickThread
<1> QED
  BY <1>1, <1>2, <1>3, <1>4, <1>5 DEF Next

LEMMA Invariant == Spec => []IInv
<1>1. Init => IInv
  BY TypeInit, JointInit, KickInit DEF IInv
<1>2. IInv /\ [Next]_vars => IInv'
  BY Inductive
<1> QED
  BY <1>1, <1>2, PTL DEF Spec

\* A probe that is enabled does not sleep through the change that enabled it,
\* wherever the kick falls (pinsight_sampler.c:134-178, 389-404).
THEOREM NoLostKickAlways == Spec => []NoLostKick
<1>1. IInv => NoLostKick
  BY DEF IInv, KickInv, Sleepy, Alerted, NoLostKick
<1> QED
  BY <1>1, Invariant, PTL

\* A thread told to stop has nothing to sample: nothing registers with a
\* context whose thread is being joined (pinsight_sampler.c:366-377).
THEOREM StoppingHasNoProbeAlways == Spec => []StoppingHasNoProbe
<1>1. IInv => StoppingHasNoProbe
  BY DEF IInv, Joint, StopInv, StoppingHasNoProbe
<1> QED
  BY <1>1, Invariant, PTL

\* A tick divides by the interval it read, which was not zero
\* (pinsight_sampler.c:185-228).
THEOREM NoZeroDivisionAlways == Spec => []NoZeroDivision
<1>1. Init => NoZeroDivision
  BY DEF Init, NoZeroDivision
<1>2. IInv /\ NoZeroDivision /\ [Next]_vars => NoZeroDivision'
  <2> SUFFICES ASSUME IInv, NoZeroDivision, [Next]_vars PROVE ~crashed'
    BY DEF NoZeroDivision
  <2>1. CASE UNCHANGED crashed
    BY <2>1 DEF NoZeroDivision
  <2>2. ASSUME NEW s \in Contexts, Advance(s) PROVE ~crashed'
    <3>1. tick[s] # 0
      BY <2>2 DEF IInv, TickInv, InTick, Advance
    <3> QED
      BY <2>2, <3>1 DEF Advance, Divisor, NoZeroDivision
  <2> QED
    BY <2>1, <2>2 DEF Next, vars, Change, CallerStep, Register, RegisterLock, RegisterAdd,
       Unregister, UnregisterCheck, UnregisterLock, UnregisterWait, UnregisterRemove,
       UnregisterJoin, UnregisterLeave, TakeGil, GiveGil, SetTraceMode, KickerStep, KickLock,
       KickVisit, KickBroadcast, KickUnlock, ThreadStep, Look, Rest, TimeOut, Pass, Choose,
       ReadInterval, Call, Return, threadVars
<1> QED
  BY <1>1, <1>2, Invariant, PTL DEF Spec

\* If no two callers share a probe and at most one is Python's, no callback of
\* a probe runs or starts after its unregistration has returned
\* (pinsight_sampler.c:349-387).
THEOREM CallsEnd == OneCaller => (Spec => []NoCallOnceUnregistered)
<1> SUFFICES ASSUME OneCaller PROVE Spec => []NoCallOnceUnregistered
  OBVIOUS
<1>1. Init => RegisteredInv /\ FlightInv
  BY RegisteredInit
<1>2. ASSUME IInv, RegisteredInv, FlightInv, [Next]_vars PROVE RegisteredInv' /\ FlightInv'
  <2> USE <1>2 DEF IInv
  <2>1. CASE Change \/ UNCHANGED vars
    BY <2>1, FlightConfig
  <2>2. ASSUME NEW c \in Callers, CallerStep(c) PROVE RegisteredInv' /\ FlightInv'
    BY <2>2, RegisteredCaller, FlightCaller
  <2>3. ASSUME NEW k \in Kickers, KickerStep(k) PROVE RegisteredInv' /\ FlightInv'
    BY <2>3, RegisteredKicker, FlightKicker
  <2>4. ASSUME NEW s \in Contexts, ThreadStep(s) \/ TimeOut(s)
        PROVE  RegisteredInv' /\ FlightInv'
    BY <2>4, FlightKicks, FlightThread
  <2> QED
    BY <2>1, <2>2, <2>3, <2>4 DEF Next
<1>3. RegisteredInv /\ FlightInv => NoCallOnceUnregistered
  <2> SUFFICES ASSUME RegisteredInv, FlightInv, NEW p \in Probes, schedOf[p] = Nobody
               PROVE  /\ ~inCall[p]
                      /\ \A s \in Contexts :
                           /\ p \notin ToSet(probes[s])
                           /\ current[s] = p => tpc[s] \notin InTick
    BY DEF NoCallOnceUnregistered, InTick
  <2>1. \A s \in Contexts : p \notin ToSet(probes[s])
    BY Constants DEF RegisteredInv
  <2>2. \A s \in Contexts : current[s] = p => tpc[s] \notin InTick
    BY <2>1 DEF FlightInv
  <2>3. ~inCall[p]
    BY <2>2 DEF FlightInv, InFlight, InTick
  <2> QED
    BY <2>1, <2>2, <2>3
<1>4. IInv /\ RegisteredInv /\ FlightInv /\ [Next]_vars => RegisteredInv' /\ FlightInv'
  BY <1>2
<1> QED
  BY <1>1, <1>3, <1>4, Invariant, PTL DEF Spec

\* If the probes that need the GIL are stopped from one Python thread only, no
\* wait for a callback in flight is a wait for oneself
\* (pysysmon_callback.c:385-394, pinsight_sampler.c:354-358).
THEOREM NoGilDeadlockAlways ==
    ASSUME OnePython, \A c \in Callers : ProbeOf[c] \in GilProbes => c \in Pythons
    PROVE  Spec => []NoGilDeadlock
<1>1. Init => GilInv
  BY Constants DEF Init, GilInv, Stopping, Leaving
<1>2. IInv /\ GilInv /\ [Next]_vars => GilInv'
  BY GilStep DEF IInv
<1>3. IInv /\ GilInv => NoGilDeadlock
  <2> SUFFICES ASSUME TypeInv, GilInv, NEW c \in Callers, NEW k \in Kickers, pc[c] = "remove",
                      ProbeOf[c] \in GilProbes, gil = k
               PROVE  FALSE
    BY DEF IInv, NoGilDeadlock
  <2>1. c \in Pythons /\ k \in Pythons
    BY Constants DEF TypeInv
  <2>2. gil = c
    BY <2>1 DEF OnePython
  <2> QED
    BY <2>2 DEF GilInv, Stopping, Leaving
<1> QED
  BY <1>1, <1>2, <1>3, Invariant, PTL DEF Spec
=============================================================================
