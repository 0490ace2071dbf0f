-------------------------- MODULE HostCallsProofs --------------------------
(***************************************************************************)
(* Proofs about HostCalls: that the records of calls are where their ends  *)
(* look for them, that they go with their calls, and that the events of a  *)
(* call come in pairs, whatever calls are inside it and whatever becomes   *)
(* of the modes.                                                           *)
(***************************************************************************)
EXTENDS HostCalls, SequenceTheorems, FiniteSetTheorems, TLAPS

-----------------------------------------------------------------------------
(***************************************************************************)
(* What the operators of Lexgions keep of the types of the table, the      *)
(* stack and the counters, and what they do to a region's entry.           *)
(***************************************************************************)
\* Append, which the interpreter's calls and push_lexgion are.
LEMMA Pushed ==
    ASSUME NEW S, NEW s \in Seq(S), NEW e \in S
    PROVE  /\ Append(s, e) \in Seq(S)
           /\ Len(Append(s, e)) = Len(s) + 1
           /\ \A i \in 1 .. Len(s) : Append(s, e)[i] = s[i]
           /\ Append(s, e)[Len(s) + 1] = e
           /\ DOMAIN Append(s, e) = 1 .. Len(s) + 1
OBVIOUS

\* A prefix, which returns and lexgion_end_match leave.
LEMMA Popped ==
    ASSUME NEW S, NEW s \in Seq(S), NEW n \in 0 .. Len(s)
    PROVE  /\ SubSeq(s, 1, n) \in Seq(S)
           /\ Len(SubSeq(s, 1, n)) = n
           /\ DOMAIN SubSeq(s, 1, n) = 1 .. n
           /\ \A i \in 1 .. n : SubSeq(s, 1, n)[i] = s[i]
<1>1. n \in Int /\ Len(s) \in Nat /\ \A i \in 1 .. n : s[i] \in S
  OBVIOUS
<1>2. /\ SubSeq(s, 1, n) \in Seq(S)
      /\ Len(SubSeq(s, 1, n)) = IF 1 <= n THEN n - 1 + 1 ELSE 0
      /\ \A i \in 1 .. n - 1 + 1 : SubSeq(s, 1, n)[i] = s[1 + i - 1]
  BY <1>1, SubSeqProperties
<1> QED
  BY <1>1, <1>2

LEMMA LexgionsInitType == LexgionsInit => LexgionsType
<1> SUFFICES ASSUME LexgionsInit PROVE LexgionsType
  OBVIOUS
<1>1. seen = {} /\ IsFiniteSet({}) /\ Cardinality({}) = 0
  BY FS_EmptySet DEF LexgionsInit
<1>2. lexgion \in [Codes -> Lexgion]
  BY DEF LexgionsInit, Lexgion
<1>3. stack \in Seq(Record) /\ Len(stack) <= MaxDepth
  BY LexgionsAssumption DEF LexgionsInit
<1>4. fired \in [Configs -> BOOLEAN] /\ generation \in [Configs -> Nat]
  BY DEF LexgionsInit
<1> QED
  BY <1>1, <1>2, <1>3, <1>4, LexgionsAssumption DEF LexgionsType

\* The two updates of a region's entry that change two of its counters.
LEMMA CountedType ==
    ASSUME NEW c \in Codes, NEW f \in [Codes -> Lexgion]
    PROVE  /\ [f EXCEPT ![c].counter = @ + 1, ![c].since = @ + 1] \in [Codes -> Lexgion]
           /\ [f EXCEPT ![c].traces = @ + 1, ![c].since = 0] \in [Codes -> Lexgion]
<1> DEFINE g == [f EXCEPT ![c].counter = @ + 1]
           h == [f EXCEPT ![c].traces = @ + 1]
<1>1. g \in [Codes -> Lexgion] /\ h \in [Codes -> Lexgion]
  BY DEF Lexgion
<1>2. /\ [f EXCEPT ![c].counter = @ + 1, ![c].since = @ + 1]
           = [g EXCEPT ![c].since = @ + 1]
      /\ [f EXCEPT ![c].traces = @ + 1, ![c].since = 0]
           = [h EXCEPT ![c].since = 0]
  BY DEF g, h
<1> HIDE DEF g, h
<1>3. /\ [g EXCEPT ![c].since = @ + 1] \in [Codes -> Lexgion]
      /\ [h EXCEPT ![c].since = 0] \in [Codes -> Lexgion]
  BY <1>1 DEF Lexgion
<1> QED
  BY <1>2, <1>3

LEMMA BeginType ==
    ASSUME LexgionsType, NEW c \in Codes, Begin(c)
    PROVE  /\ seen' \subseteq Codes /\ IsFiniteSet(seen')
           /\ Cardinality(seen') <= MaxLexgions
           /\ lexgion' \in [Codes -> Lexgion]
           /\ stack' \in Seq(Record) /\ Len(stack') <= MaxDepth
<1>1. CASE Tracked(c)
  <2>1. seen' = seen \cup {c}
    BY <1>1 DEF Begin
  <2>2. /\ IsFiniteSet(seen \cup {c})
        /\ Cardinality(seen \cup {c}) =
             IF c \in seen THEN Cardinality(seen) ELSE Cardinality(seen) + 1
    BY FS_AddElement DEF LexgionsType
  <2>3. Cardinality(seen) \in Nat /\ Cardinality(seen) <= MaxLexgions
    BY FS_CardinalityType DEF LexgionsType
  <2>4. c \in seen \/ Cardinality(seen) < MaxLexgions
    BY <1>1 DEF Tracked
  <2>5. Cardinality(seen') <= MaxLexgions
    BY <2>1, <2>2, <2>3, <2>4, LexgionsAssumption
  <2>6. lexgion' \in [Codes -> Lexgion]
    <3>1. lexgion' = [lexgion EXCEPT ![c].counter = @ + 1, ![c].since = @ + 1]
      BY <1>1 DEF Begin
    <3>2. lexgion \in [Codes -> Lexgion]
      BY DEF LexgionsType
    <3> QED
      BY <3>1, <3>2, CountedType
  <2>7. stack' \in Seq(Record) /\ Len(stack') <= MaxDepth
    <3>1. [code |-> c, id |-> lexgion[c].counter + 1] \in Record
      BY DEF LexgionsType, Lexgion, Record
    <3>2. stack \in Seq(Record) /\ Len(stack) \in Nat /\ Len(stack) <= MaxDepth
      BY LenProperties DEF LexgionsType
    <3>3. PICK r \in Record :
            stack' = IF Len(stack) < MaxDepth THEN Append(stack, r) ELSE stack
      BY <1>1, <3>1 DEF Begin, Push
    <3>4. Append(stack, r) \in Seq(Record) /\ Len(Append(stack, r)) = Len(stack) + 1
      BY <3>2, Pushed
    <3> QED
      BY <3>2, <3>3, <3>4, LexgionsAssumption
  <2> QED
    BY <2>1, <2>2, <2>5, <2>6, <2>7 DEF LexgionsType
<1>2. CASE ~Tracked(c)
  BY <1>2 DEF Begin, LexgionsType
<1> QED
  BY <1>1, <1>2

LEMMA RenewedType ==
    ASSUME LexgionsType, NEW c \in Codes
    PROVE  Renewed(c) \in Lexgion
<1>1. lexgion \in [Codes -> Lexgion] /\ generation \in [Configs -> Nat]
  BY DEF LexgionsType
<1> QED
  BY <1>1, LexgionsAssumption DEF Renewed, Lexgion

LEMMA SetTraceBitType ==
    ASSUME LexgionsType, NEW c \in Codes, SetTraceBit(c)
    PROVE  lexgion' \in [Codes -> Lexgion]
<1> DEFINE l == IF c \in Disabled THEN lexgion[c] ELSE Renewed(c)
           b == c \notin Disabled /\ TracedByRate(c, l)
<1>1. lexgion \in [Codes -> Lexgion] /\ generation \in [Configs -> Nat]
  BY DEF LexgionsType
<1>2. l \in Lexgion
  BY <1>1, RenewedType
<1>3. b \in BOOLEAN
  BY Zenon
<1>4. lexgion' = [lexgion EXCEPT ![c] = [l EXCEPT !.resolved = TRUE, !.bit = b]]
  BY DEF SetTraceBit
<1> HIDE DEF l, b
<1>5. [l EXCEPT !.resolved = TRUE, !.bit = b] \in Lexgion
  BY <1>2, <1>3 DEF Lexgion
<1> QED
  BY <1>1, <1>4, <1>5

LEMMA PostTraceType ==
    ASSUME LexgionsType, NEW c \in Codes, PostTraceUpdate(c)
    PROVE  lexgion' \in [Codes -> Lexgion] /\ fired' \in [Configs -> BOOLEAN]
<1>1. lexgion' \in [Codes -> Lexgion]
  BY CountedType DEF PostTraceUpdate, LexgionsType
<1>2. fired' = [fired EXCEPT ![ConfigOf[c]] = TRUE] \/ fired' = fired
  BY DEF PostTraceUpdate
<1> QED
  BY <1>1, <1>2 DEF LexgionsType

\* lexgion_begin counts an execution, and leaves what was traced and the trace
\* bits alone; its record, if it returns one, is new.
LEMMA BeginEffect ==
    ASSUME LexgionsType, NEW c \in Codes, Begin(c)
    PROVE  /\ \A d \in Codes : /\ lexgion'[d].counter >= lexgion[d].counter
                              /\ lexgion'[d].traces = lexgion[d].traces
                              /\ lexgion'[d].bit = lexgion[d].bit
           /\ Recorded(c) =>
                /\ stack' = Append(stack, [code |-> c, id |-> lexgion[c].counter + 1])
                /\ lexgion'[c].counter = lexgion[c].counter + 1
           /\ ~Recorded(c) => stack' = stack
<1>1. lexgion \in [Codes -> Lexgion]
  BY DEF LexgionsType
<1>2. CASE Tracked(c)
  <2>1. lexgion' = [lexgion EXCEPT ![c].counter = @ + 1, ![c].since = @ + 1]
    BY <1>2 DEF Begin
  <2>2. \A d \in Codes : /\ lexgion'[d].counter =
                              IF d = c THEN lexgion[d].counter + 1 ELSE lexgion[d].counter
                         /\ lexgion'[d].traces = lexgion[d].traces
                         /\ lexgion'[d].bit = lexgion[d].bit
    BY <1>1, <2>1 DEF Lexgion
  <2>3. \A d \in Codes : lexgion[d].counter \in Nat
    BY <1>1 DEF Lexgion
  <2>4. Recorded(c) <=> Len(stack) < MaxDepth
    BY <1>2 DEF Recorded
  <2> QED
    BY <1>2, <2>2, <2>3, <2>4 DEF Begin, Push
<1>3. CASE ~Tracked(c)
  <2>1. \A d \in Codes : lexgion[d].counter \in Nat
    BY <1>1 DEF Lexgion
  <2> QED
    BY <1>3, <2>1 DEF Begin, Recorded
<1> QED
  BY <1>2, <1>3

\* The trace decision counts no execution, touches no other region, and
\* without a new cycle no trace counter.
LEMMA SetTraceBitEffect ==
    ASSUME LexgionsType, NEW c \in Codes, SetTraceBit(c)
    PROVE  /\ lexgion'[c].counter = lexgion[c].counter
           /\ lexgion'[c].bit \in BOOLEAN
           /\ \A d \in Codes \ {c} : lexgion'[d] = lexgion[d]
<1> DEFINE l == IF c \in Disabled THEN lexgion[c] ELSE Renewed(c)
           b == c \notin Disabled /\ TracedByRate(c, l)
<1>1. lexgion \in [Codes -> Lexgion]
  BY DEF LexgionsType
<1>2. l \in Lexgion
  BY <1>1, RenewedType
<1>3. l.counter = lexgion[c].counter
  BY <1>1 DEF Renewed, Lexgion
<1>4. b \in BOOLEAN
  BY Zenon
<1>5. lexgion' = [lexgion EXCEPT ![c] = [l EXCEPT !.resolved = TRUE, !.bit = b]]
  BY DEF SetTraceBit
<1> HIDE DEF l, b
<1>6. [l EXCEPT !.resolved = TRUE, !.bit = b].counter = l.counter
      /\ [l EXCEPT !.resolved = TRUE, !.bit = b].bit = b
  BY <1>2 DEF Lexgion
<1> QED
  BY <1>1, <1>3, <1>4, <1>5, <1>6

\* An execution that is traced is counted for its own region, once.
LEMMA PostTraceEffect ==
    ASSUME LexgionsType, NEW c \in Codes, PostTraceUpdate(c)
    PROVE  /\ lexgion'[c].traces = lexgion[c].traces + 1
           /\ lexgion'[c].counter = lexgion[c].counter
           /\ lexgion'[c].bit = lexgion[c].bit
           /\ \A d \in Codes \ {c} : lexgion'[d] = lexgion[d]
<1>1. lexgion \in [Codes -> Lexgion]
  BY DEF LexgionsType
<1>2. lexgion' = [lexgion EXCEPT ![c].traces = @ + 1, ![c].since = 0]
  BY DEF PostTraceUpdate
<1> QED
  BY <1>1, <1>2 DEF Lexgion

-----------------------------------------------------------------------------
(***************************************************************************)
(* Types.                                                                  *)
(***************************************************************************)
TypeInv ==
    /\ TypeOK /\ LexgionsType
    /\ mode \in [Domains -> Modes] /\ hostOn \in BOOLEAN /\ vendor \in Vendors
    /\ missed \in BOOLEAN
    /\ pc # "exited" => ending = NoRegion

\* The region that stands for none is none.
LEMMA RegionTypes ==
    /\ NoRegion \notin Codes
    /\ \A c \in Codes : c.api \in {"MPI", "HIP", "CUDA"}
    /\ \A v \in Vendors : v # "MPI"
<1>1. \A api, event, address : Region(api, event, address).api = api
  BY DEF Region
<1>2. /\ \A c \in HipRegions : c.api = "HIP"
      /\ \A c \in CudaRegions : c.api = "CUDA"
      /\ \A c \in MpiRegions : c.api = "MPI"
  BY <1>1 DEF HipRegions, HipLaunchKernel, HipMemcpy, HipMemcpyAsync, HipMalloc, HipFree,
     HipDeviceSynchronize, HipStreamSynchronize, CudaRegions, CudaLaunchKernel,
     CudaMemcpy, CudaMemcpyAsync, CudaMalloc, CudaFree, CudaDeviceSynchronize,
     CudaStreamSynchronize, MpiRegions, ByName
<1>3. NoRegion.api = "none"
  BY <1>1 DEF NoRegion
<1>4. \A c \in Codes : c.api \in {"MPI", "HIP", "CUDA"}
  BY <1>2, RegionsAssumption
<1> QED
  BY <1>3, <1>4, HostCallsAssumption

LEMMA InitType == Init => TypeInv
<1> SUFFICES ASSUME Init PROVE TypeInv
  OBVIOUS
<1>1. LexgionsType
  BY LexgionsInitType DEF Init
<1>2. Active("GPU") \in BOOLEAN
  BY DEF Active
<1>3. Records = {} /\ Len(stack) = 0
  BY DEF Init, LexgionsInit, Records
<1>4. frames \in Seq(Frame) /\ Len(frames) = 0
  BY DEF Init
<1>5. TypeOK
  BY <1>1, <1>3, <1>4, LexgionsAssumption, RegionTypes DEF Init, TypeOK, LexgionsType
<1>6. mode \in [Domains -> Modes] /\ hostOn \in BOOLEAN /\ vendor \in Vendors
      /\ missed \in BOOLEAN /\ ending = NoRegion
  BY <1>2 DEF Init
<1> QED
  BY <1>1, <1>5, <1>6 DEF TypeInv

\* The call in progress and its callers.
LEMMA TopFrame ==
    ASSUME TypeInv, frames # <<>>
    PROVE  /\ Len(frames) \in {1, 2}
           /\ DOMAIN frames = 1 .. Len(frames)
           /\ Len(frames) \in DOMAIN frames
           /\ Top \in Frame /\ Top.region \in Codes /\ Top.id \in Nat
           /\ Callers \in Seq(Frame)
           /\ Len(Callers) = Len(frames) - 1
           /\ DOMAIN Callers = 1 .. Len(frames) - 1
           /\ \A i \in 1 .. Len(frames) - 1 : Callers[i] = frames[i]
<1>1. frames \in Seq(Frame) /\ Len(frames) <= 2
  BY DEF TypeInv, TypeOK
<1>2. Len(frames) \in {1, 2} /\ DOMAIN frames = 1 .. Len(frames)
  <2>1. Len(frames) \in Nat /\ DOMAIN frames = 1 .. Len(frames)
    BY <1>1, LenProperties
  <2>2. Len(frames) # 0
    BY <1>1, EmptySeq
  <2> QED
    BY <1>1, <2>1, <2>2
<1>3. Top \in Frame
  BY <1>1, <1>2, ElementOfSeq DEF Top
<1>4. Len(frames) - 1 \in 0 .. Len(frames)
  BY <1>2
<1>5. /\ Callers \in Seq(Frame)
      /\ Len(Callers) = Len(frames) - 1
      /\ DOMAIN Callers = 1 .. Len(frames) - 1
      /\ \A i \in 1 .. Len(frames) - 1 : Callers[i] = frames[i]
  BY <1>1, <1>4, Popped DEF Callers
<1> QED
  BY <1>2, <1>3, <1>5 DEF Frame

\* The records, as a set.
LEMMA RecordsAre ==
    ASSUME NEW s \in Seq(Record)
    PROVE  {s[i] : i \in DOMAIN s} \subseteq Record
BY ElementOfSeq, LenProperties

\* What lexgion_end_match does to the stack.
LEMMA EndMatchAtEffect ==
    ASSUME TypeInv, NEW a, EndMatchAt(a)
    PROVE  IF AtAddress(a) = {}
           THEN stack' = stack /\ MatchAt(a) = NoRegion
           ELSE \E top \in AtAddress(a) :
                   /\ \A i \in AtAddress(a) : i <= top
                   /\ stack' = SubSeq(stack, 1, top - 1)
                   /\ MatchAt(a) = stack[top].code /\ MatchAt(a) \in Codes
                   /\ Len(stack') = top - 1
                   /\ \A i \in 1 .. top - 1 : stack'[i] = stack[i]
<1>1. stack \in Seq(Record) /\ DOMAIN stack = 1 .. Len(stack) /\ Len(stack) \in Nat
  BY LenProperties DEF TypeInv, LexgionsType
<1>2. CASE AtAddress(a) = {}
  BY <1>2 DEF EndMatchAt, MatchAt
<1>3. CASE AtAddress(a) # {}
  <2>1. PICK top \in AtAddress(a) :
          /\ \A i \in AtAddress(a) : i <= top
          /\ stack' = SubSeq(stack, 1, top - 1)
    BY <1>3 DEF EndMatchAt
  <2>2. AtAddress(a) \subseteq 1 .. Len(stack)
    BY <1>1 DEF AtAddress
  <2>3. top = CHOOSE t \in AtAddress(a) : \A i \in AtAddress(a) : i <= t
    <3>1. \A t \in AtAddress(a) : (\A i \in AtAddress(a) : i <= t) => t = top
      BY <1>1, <2>1, <2>2
    <3> QED
      BY <2>1, <3>1
  <2>4. MatchAt(a) = stack[top].code /\ stack[top] \in Record
    BY <1>1, <1>3, <2>2, <2>3, ElementOfSeq DEF MatchAt
  <2>5. top - 1 \in 0 .. Len(stack)
    BY <1>1, <2>2
  <2>6. Len(stack') = top - 1 /\ \A i \in 1 .. top - 1 : stack'[i] = stack[i]
    BY <1>1, <2>1, <2>5, Popped
  <2> QED
    BY <1>3, <2>1, <2>4, <2>6 DEF Record
<1> QED
  BY <1>2, <1>3

LEMMA EndMatchAtType ==
    ASSUME TypeInv, NEW a, EndMatchAt(a)
    PROVE  stack' \in Seq(Record) /\ Len(stack') <= MaxDepth
<1>1. /\ stack \in Seq(Record) /\ Len(stack) <= MaxDepth
      /\ DOMAIN stack = 1 .. Len(stack) /\ Len(stack) \in Nat
  BY LenProperties DEF TypeInv, LexgionsType
<1>2. CASE AtAddress(a) # {}
  <2>1. PICK top \in AtAddress(a) : stack' = SubSeq(stack, 1, top - 1)
    BY <1>2 DEF EndMatchAt
  <2>2. top - 1 \in 0 .. Len(stack) /\ top - 1 <= MaxDepth
    BY <1>1, LexgionsAssumption DEF AtAddress
  <2> QED
    BY <1>1, <2>1, <2>2, Popped
<1> QED
  BY <1>1, <1>2 DEF EndMatchAt

\* What a call's begin does: it leaves a record on the stack, or no trace.
LEMMA EntersEffect ==
    ASSUME TypeInv, NEW r \in Codes, NEW active \in BOOLEAN, Enters(r, active)
    PROVE  \E f \in Frame :
             /\ frames' = Append(frames, f)
             /\ f.region = r /\ ~f.begun /\ ~f.disturbed
             /\ IF active /\ Recorded(r)
                THEN /\ f.id = lexgion[r].counter + 1 /\ f.id > 0 /\ ~f.missed
                     /\ stack' = Append(stack, RecordOf(f))
                     /\ lexgion'[r].counter = f.id
                ELSE /\ f.id = 0 /\ stack' = stack
                     /\ f.missed = (AtAddress(r.address) # {})
             /\ missed' = (missed \/ f.missed)
             /\ \A d \in Codes : /\ lexgion'[d].counter >= lexgion[d].counter
                                 /\ lexgion'[d].traces = lexgion[d].traces
                                 /\ lexgion'[d].bit = lexgion[d].bit
<1> DEFINE recorded == active /\ Recorded(r)
           misses == ~recorded /\ AtAddress(r.address) # {}
           f == [region |-> r, begun |-> FALSE, disturbed |-> FALSE, missed |-> misses,
                 id |-> IF recorded THEN lexgion[r].counter + 1 ELSE 0]
<1>1. LexgionsType /\ \A d \in Codes : lexgion[d].counter \in Nat
  BY DEF TypeInv, LexgionsType, Lexgion
<1>2. frames' = Append(frames, f) /\ missed' = (missed \/ misses)
  BY DEF Enters
<1>3. misses \in BOOLEAN /\ recorded \in BOOLEAN
  BY Zenon
<1>4. /\ f \in Frame
      /\ f.region = r /\ ~f.begun /\ ~f.disturbed /\ f.missed = misses
      /\ f.id = IF recorded THEN lexgion[r].counter + 1 ELSE 0
  <2> HIDE DEF misses, recorded
  <2> QED
    BY <1>1, <1>3 DEF Frame
<1>5. /\ \A d \in Codes : /\ lexgion'[d].counter >= lexgion[d].counter
                          /\ lexgion'[d].traces = lexgion[d].traces
                          /\ lexgion'[d].bit = lexgion[d].bit
      /\ recorded => /\ stack' = Append(stack, [code |-> r, id |-> lexgion[r].counter + 1])
                     /\ lexgion'[r].counter = lexgion[r].counter + 1
      /\ ~recorded => stack' = stack
  <2>1. CASE active
    <3>1. Begin(r)
      BY <2>1 DEF Enters
    <3> QED
      BY <1>1, <2>1, <3>1, BeginEffect
  <2>2. CASE ~active
    <3>1. UNCHANGED <<lexgion, stack>>
      BY <2>2 DEF Enters
    <3> QED
      BY <1>1, <2>2, <3>1
  <2> QED
    BY <2>1, <2>2
<1>6. CASE recorded
  <2>1. RecordOf(f) = [code |-> r, id |-> lexgion[r].counter + 1]
    BY <1>6 DEF RecordOf
  <2>2. ~misses
    BY <1>6
  <2> HIDE DEF f, misses
  <2> QED
    BY <1>1, <1>2, <1>4, <1>5, <1>6, <2>1, <2>2
<1>7. CASE ~recorded
  <2>1. misses = (AtAddress(r.address) # {})
    BY <1>7
  <2> HIDE DEF f, misses
  <2> QED
    BY <1>1, <1>2, <1>4, <1>5, <1>7, <2>1
<1> QED
  BY <1>6, <1>7

LEMMA EntersType ==
    ASSUME TypeInv, NEW r \in Codes, NEW active \in BOOLEAN, Enters(r, active),
           pc' \in {"run", "entered"}
    PROVE  TypeInv'
<1>1. PICK f \in Frame : frames' = Append(frames, f) /\ missed' = (missed \/ f.missed)
  BY EntersEffect
<1>2. LexgionsType'
  <2>1. CASE active
    <3>1. Begin(r) /\ UNCHANGED <<fired, generation>>
      BY <2>1 DEF Enters, latchVars
    <3> QED
      BY <3>1, BeginType DEF TypeInv, LexgionsType
  <2>2. CASE ~active
    BY <2>2 DEF Enters, latchVars, TypeInv, LexgionsType
  <2> QED
    BY <2>1, <2>2
<1>3. frames' \in Seq(Frame) /\ Len(frames') = Len(frames) + 1 /\ Len(frames') <= 2
  <2>1. frames \in Seq(Frame)
    BY DEF TypeInv, TypeOK
  <2>2. frames = <<>> \/ Len(frames) = 1
    BY DEF Enters, MayCall
  <2>3. Len(frames) \in 0 .. 1
    BY <2>2
  <2> QED
    BY <1>1, <2>1, <2>3, Pushed
<1>4. frames' # <<>>
  BY <1>3, EmptySeq
<1>5. Records' \subseteq Record /\ Len(stack') <= MaxDepth
  BY <1>2, RecordsAre DEF LexgionsType, Records
<1>6. missed' \in BOOLEAN
  BY Zenon, <1>1 DEF TypeInv
<1>7. ending' = NoRegion /\ ending' \notin Codes
  BY RegionTypes DEF Enters, MayCall, TypeInv
<1>8. UNCHANGED <<mode, hostOn, vendor>>
  BY DEF Enters, modeVars
<1>9. TypeOK'
  BY <1>2, <1>3, <1>4, <1>5, <1>7 DEF TypeOK, LexgionsType
<1> QED
  BY <1>2, <1>6, <1>7, <1>8, <1>9 DEF TypeInv

\* Where a step only changes what is remembered of calls in progress.
LEMMA FramesType ==
    ASSUME TypeInv, LexgionsType', frames' \in Seq(Frame), Len(frames') = Len(frames),
           pc' \in {"run", "entered", "decided", "exited", "crashed"},
           pc' \in {"entered", "decided", "exited"} => frames # <<>>,
           pc' = "exited" <=> pc = "exited",
           ending' = ending, missed' = missed, vendor' = vendor,
           mode' \in [Domains -> Modes], hostOn' \in BOOLEAN
    PROVE  TypeInv'
<1>1. Records' \subseteq Record /\ Len(stack') <= MaxDepth
  BY RecordsAre DEF LexgionsType, Records
<1>2. frames \in Seq(Frame)
  BY DEF TypeInv, TypeOK
<1>3. frames # <<>> => frames' # <<>>
  BY <1>2, EmptySeq
<1>4. TypeOK'
  BY <1>1, <1>3 DEF TypeInv, TypeOK, LexgionsType
<1> QED
  BY <1>4 DEF TypeInv

\* Where a step ends a call, or the record of one.
LEMMA ReturnType ==
    ASSUME TypeInv, LexgionsType', frames # <<>>, frames' \in {frames, Callers},
           \/ pc' = "run" /\ ending' = NoRegion
           \/ pc' = "exited" /\ ending' \in Codes /\ frames' = frames,
           UNCHANGED <<missed, modeVars>>
    PROVE  TypeInv'
<1>1. Records' \subseteq Record /\ Len(stack') <= MaxDepth
  BY RecordsAre DEF LexgionsType, Records
<1>2. Callers \in Seq(Frame) /\ Len(Callers) <= 2
  BY TopFrame
<1>3. TypeOK'
  BY <1>1, <1>2, RegionTypes DEF TypeInv, TypeOK, LexgionsType
<1> QED
  BY <1>3 DEF TypeInv, modeVars

\* The change of the call in progress.
LEMMA TopChanged ==
    ASSUME TypeInv, frames # <<>>, NEW b \in BOOLEAN
    PROVE  LET fs == [frames EXCEPT ![Len(frames)].begun = b] IN
           /\ fs \in Seq(Frame) /\ Len(fs) = Len(frames)
           /\ \A i \in DOMAIN frames :
                /\ fs[i].region = frames[i].region /\ fs[i].id = frames[i].id
                /\ fs[i].disturbed = frames[i].disturbed
                /\ fs[i].missed = frames[i].missed
                /\ fs[i].begun = IF i = Len(frames) THEN b ELSE frames[i].begun
<1> DEFINE n == Len(frames)
           e == [frames[n] EXCEPT !.begun = b]
           fs == [frames EXCEPT ![n].begun = b]
<1>1. frames \in Seq(Frame) /\ n \in 1 .. n /\ DOMAIN frames = 1 .. n
  BY TopFrame DEF TypeInv, TypeOK
<1>2. frames[n] \in Frame
  BY TopFrame DEF Top
<1>3. e \in Frame /\ e.begun = b
      /\ e.region = frames[n].region /\ e.id = frames[n].id
      /\ e.disturbed = frames[n].disturbed /\ e.missed = frames[n].missed
  BY <1>2 DEF Frame
<1>4. fs = [frames EXCEPT ![n] = e]
  OBVIOUS
<1> HIDE DEF e, fs
<1>5. /\ fs \in Seq(Frame) /\ Len(fs) = n
      /\ \A i \in 1 .. n : fs[i] = IF i = n THEN e ELSE frames[i]
  BY <1>1, <1>3, <1>4, ExceptSeq
<1> QED
  BY <1>1, <1>3, <1>5 DEF fs

-----------------------------------------------------------------------------
(***************************************************************************)
(* The inductive invariant.                                                *)
(***************************************************************************)
Gpu(f) == f.region.api # "MPI"

\* The calls whose records have not been taken from the stack: Running, by
\* their places.
Executing == 1 .. IF pc = "exited" THEN Len(frames) - 1 ELSE Len(frames)

\* An MPI call may enclose a GPU call or an MPI call elsewhere.
Shape ==
    /\ Len(frames) = 2 => frames[1].region.api = "MPI" /\ frames[1].region # frames[2].region
    /\ frames # <<>> /\ Gpu(Top) => Top.region.api = vendor

\* A record_id is given once, and no record has one that is yet to come.
Numbered ==
    /\ \A i \in DOMAIN stack :
          stack[i].id > 0 /\ stack[i].id <= lexgion[stack[i].code].counter
    /\ \A i, j \in DOMAIN stack : stack[i] = stack[j] => i = j
    /\ \A i \in DOMAIN frames : frames[i].id <= lexgion[frames[i].region].counter

\* Above the record of a call there are, at its address, only those of calls
\* inside it; and theirs are all above it.
Placed ==
    \A i \in Executing, j \in DOMAIN stack : stack[j] = RecordOf(frames[i]) =>
        /\ \A k \in DOMAIN stack :
             k > j /\ stack[k].code.address = frames[i].region.address
             => \E m \in Executing : m > i /\ stack[k] = RecordOf(frames[m])
        /\ \A m \in Executing, k \in DOMAIN stack :
             m > i /\ stack[k] = RecordOf(frames[m]) => k > j

\* The GPU call in progress finds its own record on top, unless a change of
\* its mode keeps its callback away; a call inside another finds mpi_codeptr
\* as it left it.
TopInv ==
    frames # <<>> /\ pc # "exited" =>
        /\ Gpu(Top) /\ Top.id > 0 => stack # <<>> /\ stack[Len(stack)] = RecordOf(Top)
        /\ Gpu(Top) /\ Top.id > 0 /\ ~Top.disturbed => CalledBack
        /\ Gpu(Top) /\ Top.id = 0 /\ ~Top.missed => AtAddress(Top.region.address) = {}
        /\ ~Gpu(Top) /\ Top.id > 0 /\ Len(frames) = 2 => mpiCode = Top.region.address
        /\ pc = "decided" => Top.id > 0
        /\ pc = "entered" /\ Gpu(Top) => Top.id > 0

MissedInv ==
    /\ ~missed => \A i \in DOMAIN frames : ~frames[i].missed
    /\ \A i \in DOMAIN frames : frames[i].missed => frames[i].id = 0

\* The begin event of the call at i is decided.
Settled(i) == i < Len(frames) \/ pc \in {"run", "exited"}

\* A call's mode and trace bit still are what its begin event went by.
PairInv ==
    \A i \in DOMAIN frames :
        /\ frames[i].begun => frames[i].id > 0
        /\ ~frames[i].disturbed /\ Settled(i) /\ frames[i].id > 0
           => frames[i].begun = (Tracing(frames[i].region) /\ lexgion[frames[i].region].bit)
        /\ ~Settled(i) => ~frames[i].begun

EndingInv == pc = "exited" /\ ~Top.missed => ending = Top.region /\ Top.id > 0

Balance == Records \subseteq excused \cup {RecordOf(frames[i]) : i \in Executing}
Kept == ~missed => \A i \in Executing :
                      frames[i].id > 0 => RecordOf(frames[i]) \in Records

PlaceInv == Shape /\ Numbered /\ Placed /\ MissedInv /\ EndingInv /\ Balance /\ Kept
IInv == TypeInv /\ PlaceInv /\ TopInv /\ PairInv

LEMMA Elements ==
    ASSUME TypeInv
    PROVE  /\ frames \in Seq(Frame) /\ DOMAIN frames = 1 .. Len(frames) /\ Len(frames) \in 0 .. 2
           /\ stack \in Seq(Record) /\ DOMAIN stack = 1 .. Len(stack) /\ Len(stack) \in Nat
           /\ \A i \in DOMAIN frames :
                 /\ frames[i] \in Frame
                 /\ frames[i].region \in Codes /\ frames[i].id \in Nat
           /\ \A j \in DOMAIN stack :
                 /\ stack[j] \in Record
                 /\ stack[j].code \in Codes /\ stack[j].id \in Nat
<1>1. /\ frames \in Seq(Frame) /\ DOMAIN frames = 1 .. Len(frames) /\ Len(frames) \in 0 .. 2
      /\ stack \in Seq(Record) /\ DOMAIN stack = 1 .. Len(stack) /\ Len(stack) \in Nat
  <2>1. frames \in Seq(Frame) /\ Len(frames) <= 2 /\ stack \in Seq(Record)
    BY DEF TypeInv, TypeOK, LexgionsType
  <2>2. /\ DOMAIN frames = 1 .. Len(frames) /\ Len(frames) \in Nat
        /\ DOMAIN stack = 1 .. Len(stack) /\ Len(stack) \in Nat
    BY <2>1, LenProperties
  <2> QED
    BY <2>1, <2>2
<1>2. \A i \in DOMAIN frames : frames[i] \in Frame
  BY <1>1, ElementOfSeq
<1>3. \A j \in DOMAIN stack : stack[j] \in Record
  BY <1>1, ElementOfSeq
<1>4. \A f \in Frame : f.region \in Codes /\ f.id \in Nat
  BY DEF Frame
<1>5. \A r \in Record : r.code \in Codes /\ r.id \in Nat
  BY DEF Record
<1> QED
  BY <1>1, <1>2, <1>3, <1>4, <1>5

\* The two invariants of the runs, by the calls' places.
LEMMA RunningIs ==
    ASSUME TypeInv
    PROVE  /\ Executing \subseteq DOMAIN frames
           /\ RecordsBalance <=> Balance
           /\ EnclosingKept <=> Kept
<1>1. frames \in Seq(Frame) /\ Len(frames) \in Nat /\ DOMAIN frames = 1 .. Len(frames)
  BY LenProperties DEF TypeInv, TypeOK
<1>2. pc = "exited" => frames # <<>>
  BY DEF TypeInv, TypeOK
<1>3. Executing \subseteq DOMAIN frames
  BY <1>1 DEF Executing
<1>4. DOMAIN Running = Executing /\ \A i \in Executing : Running[i] = frames[i]
  <2>1. CASE pc = "exited"
    BY <1>2, <2>1, TopFrame DEF Running, Executing
  <2>2. CASE pc # "exited"
    BY <1>1, <2>2 DEF Running, Executing
  <2> QED
    BY <2>1, <2>2
<1>5. RecordsBalance <=> Balance
  <2>1. {RecordOf(Running[i]) : i \in DOMAIN Running} = {RecordOf(frames[i]) : i \in Executing}
    BY <1>4
  <2> QED
    BY <2>1 DEF RecordsBalance, Balance
<1>6. EnclosingKept <=> Kept
  BY <1>4 DEF EnclosingKept, Kept
<1> QED
  BY <1>3, <1>5, <1>6

LEMMA InitInv == Init => IInv
<1> SUFFICES ASSUME Init PROVE IInv
  OBVIOUS
<1>1. TypeInv
  BY InitType
<1>2. frames = <<>> /\ Len(frames) = 0 /\ DOMAIN frames = {} /\ stack = <<>>
      /\ DOMAIN stack = {} /\ pc = "run" /\ Executing = {}
  BY DEF Init, LexgionsInit, Executing
<1>3. PlaceInv /\ TopInv /\ PairInv
  BY <1>2 DEF PlaceInv, Shape, Numbered, Placed, TopInv, MissedInv, PairInv, EndingInv,
     Balance, Kept, Records
<1> QED
  BY <1>1, <1>3 DEF IInv

\* A step that neither begins nor ends a call leaves all in its place.
SameCalls ==
    /\ UNCHANGED <<stack, excused, missed, vendor, ending>>
    /\ Len(frames') = Len(frames)
    /\ \A i \in DOMAIN frames :
          /\ frames'[i].region = frames[i].region /\ frames'[i].id = frames[i].id
          /\ frames'[i].missed = frames[i].missed
    /\ pc' = "exited" <=> pc = "exited"
    /\ \A c \in Codes : lexgion'[c].counter = lexgion[c].counter

LEMMA SameCallsPlaced ==
    ASSUME TypeInv, TypeInv', PlaceInv, SameCalls
    PROVE  PlaceInv'
<1>1. /\ frames \in Seq(Frame) /\ DOMAIN frames = 1 .. Len(frames) /\ Len(frames) \in Nat
      /\ frames' \in Seq(Frame) /\ DOMAIN frames' = 1 .. Len(frames')
      /\ stack \in Seq(Record) /\ DOMAIN stack = 1 .. Len(stack)
  BY Elements, LenProperties DEF TypeInv, TypeOK
<1>2. DOMAIN frames' = DOMAIN frames /\ Executing' = Executing
      /\ Executing \subseteq DOMAIN frames /\ DOMAIN stack' = DOMAIN stack
  BY <1>1, RunningIs DEF SameCalls, Executing
<1>3. \A i \in DOMAIN frames : RecordOf(frames'[i]) = RecordOf(frames[i])
  BY DEF SameCalls, RecordOf
<1>4. \A i \in DOMAIN frames : frames[i].region \in Codes
  BY Elements
<1>5. \A i \in DOMAIN stack : stack[i].code \in Codes
  BY Elements
<1>6. frames # <<>> => /\ Len(frames) \in DOMAIN frames
                       /\ Top'.region = Top.region /\ Top'.missed = Top.missed
                       /\ Top'.id = Top.id
  BY TopFrame DEF SameCalls, Top
<1>7. frames' # <<>> => frames # <<>>
  BY <1>1, EmptySeq DEF SameCalls
<1>8. Shape'
  <2>1. Len(frames) = 2 => 1 \in DOMAIN frames /\ 2 \in DOMAIN frames
    BY <1>1
  <2> QED
    BY <1>6, <1>7, <2>1 DEF PlaceInv, Shape, SameCalls, Gpu
<1>9. Numbered'
  BY <1>2, <1>4, <1>5 DEF PlaceInv, Numbered, SameCalls
<1>10. Placed'
  BY <1>2, <1>3 DEF PlaceInv, Placed, SameCalls
<1>11. MissedInv'
  BY <1>2 DEF PlaceInv, MissedInv, SameCalls
<1>12. EndingInv'
  <2>1. pc = "exited" => frames # <<>>
    BY DEF TypeInv, TypeOK
  <2> QED
    BY <1>6, <2>1 DEF PlaceInv, EndingInv, SameCalls
<1>13. Records' = Records
  BY DEF SameCalls, Records
<1>14. Balance'
  <2>1. {RecordOf(frames[i]) : i \in Executing}' = {RecordOf(frames[i]) : i \in Executing}
    BY <1>2, <1>3
  <2> QED
    BY <1>13, <2>1 DEF PlaceInv, Balance, SameCalls
<1>15. Kept'
  BY <1>2, <1>3, <1>13 DEF PlaceInv, Kept, SameCalls
<1> QED
  BY <1>8, <1>9, <1>10, <1>11, <1>12, <1>14, <1>15 DEF PlaceInv

\* A call begins: what is on the stack, and where.
LEMMA EntersPlaced ==
    ASSUME TypeInv, TypeInv', PlaceInv, NEW r \in Codes, NEW active \in BOOLEAN,
           Enters(r, active), r.api \in {vendor, "MPI"}, pc' \in {"run", "entered"}
    PROVE  PlaceInv'
<1> DEFINE n == Len(frames)
<1>1. /\ frames \in Seq(Frame) /\ DOMAIN frames = 1 .. n /\ n \in 0 .. 2
      /\ stack \in Seq(Record) /\ DOMAIN stack = 1 .. Len(stack) /\ Len(stack) \in Nat
      /\ \A i \in DOMAIN frames : frames[i].region \in Codes /\ frames[i].id \in Nat
      /\ \A j \in DOMAIN stack : stack[j].code \in Codes /\ stack[j].id \in Nat
  BY Elements
<1>2. PICK f \in Frame :
        /\ frames' = Append(frames, f)
        /\ f.region = r /\ ~f.begun /\ ~f.disturbed
        /\ IF active /\ Recorded(r)
           THEN /\ f.id = lexgion[r].counter + 1 /\ f.id > 0 /\ ~f.missed
                /\ stack' = Append(stack, RecordOf(f))
                /\ lexgion'[r].counter = f.id
           ELSE /\ f.id = 0 /\ stack' = stack
                /\ f.missed = (AtAddress(r.address) # {})
        /\ missed' = (missed \/ f.missed)
        /\ \A d \in Codes : /\ lexgion'[d].counter >= lexgion[d].counter
                            /\ lexgion'[d].traces = lexgion[d].traces
                            /\ lexgion'[d].bit = lexgion[d].bit
  BY EntersEffect
<1>3. pc = "run" /\ n \in {0, 1} /\ vendor' = vendor /\ excused' = excused
  <2>1. frames = <<>> => n = 0
    BY <1>1, EmptySeq
  <2> QED
    BY <1>1, <2>1 DEF Enters, MayCall, modeVars
<1>4. n = 1 => frames[1].region.api = "MPI" /\ frames[1].region # r
  BY <1>1, <1>3, EmptySeq DEF Enters, MayCall, Top
<1>5. /\ Len(frames') = n + 1 /\ DOMAIN frames' = 1 .. n + 1
      /\ \A i \in 1 .. n : frames'[i] = frames[i]
      /\ frames'[n + 1] = f
  BY <1>1, <1>2, Pushed
<1>6. Executing = 1 .. n /\ Executing' = 1 .. n + 1
  BY <1>3, <1>5 DEF Executing
<1>7. f.id \in Nat /\ lexgion[r].counter \in Nat /\ \A c \in Codes : lexgion[c].counter \in Nat
      /\ lexgion'[c].counter \in Nat
  BY DEF Frame, TypeInv, LexgionsType, Lexgion
<1>8. Top' = f
  BY <1>5 DEF Top
<1>9. Shape'
  <2>1. Len(frames') = 2 => n = 1 /\ frames'[1] = frames[1] /\ frames'[2] = f
    <3>1. CASE n = 0
      BY <1>5, <3>1
    <3>2. CASE n = 1
      BY <1>5, <3>2
    <3> QED
      BY <1>3, <3>1, <3>2
  <2> QED
    BY <1>2, <1>3, <1>4, <1>8, <2>1 DEF Shape, Gpu
<1>10. MissedInv'
  <2>1. \A i \in DOMAIN frames' : i \in 1 .. n \/ i = n + 1
    BY <1>1, <1>5
  <2>2. f.missed => f.id = 0
    BY <1>2
  <2>3. /\ ~missed' => ~missed /\ ~f.missed
        /\ ~missed => \A i \in 1 .. n : ~frames[i].missed
        /\ \A i \in 1 .. n : frames[i].missed => frames[i].id = 0
    BY <1>1, <1>2 DEF PlaceInv, MissedInv
  <2> QED
    BY <1>5, <2>1, <2>2, <2>3 DEF MissedInv
<1>11. EndingInv'
  BY DEF EndingInv
<1>12. \A i \in 1 .. n : RecordOf(frames'[i]) = RecordOf(frames[i])
  BY <1>5
<1>13. \A i \in 1 .. n : frames'[i].id <= lexgion'[frames'[i].region].counter
  <2> TAKE i \in 1 .. n
  <2>1. frames[i].region \in Codes /\ frames[i].id \in Nat /\ frames'[i] = frames[i]
    BY <1>1, <1>5
  <2>2. frames[i].id <= lexgion[frames[i].region].counter
    BY <1>1 DEF PlaceInv, Numbered
  <2>3. PICK c \in Codes : c = frames[i].region
    BY <2>1
  <2>4. lexgion'[c].counter >= lexgion[c].counter
    BY <1>2
  <2>5. lexgion'[c].counter \in Nat /\ lexgion[c].counter \in Nat
    BY <1>7
  <2> QED
    BY <2>1, <2>2, <2>3, <2>4, <2>5
<1>14. \A c \in Codes, i \in Nat : RecordOf(f) = [code |-> c, id |-> i] => c = r /\ i = f.id
  BY <1>2 DEF RecordOf
<1>15. \A i \in 1 .. n : RecordOf(frames[i]) # RecordOf(f)
  <2>1. ASSUME NEW i \in 1 .. n PROVE frames[i].region # r
    <3>1. CASE n = 0
      BY <3>1
    <3>2. CASE n = 1
      BY <1>4, <3>2
    <3> QED
      BY <1>3, <3>1, <3>2
  <2>2. \A i \in 1 .. n : RecordOf(frames[i]).code = frames[i].region
    BY DEF RecordOf
  <2>3. RecordOf(f).code = r
    BY <1>2 DEF RecordOf
  <2> QED
    BY <2>1, <2>2, <2>3
<1>16. RecordOf(f).id = f.id /\ RecordOf(f).code = r
  BY <1>2 DEF RecordOf
<1>17. \A j \in DOMAIN stack :
         stack[j].id > 0 /\ stack[j].id <= lexgion'[stack[j].code].counter
  <2> TAKE j \in DOMAIN stack
  <2>1. stack[j].code \in Codes /\ stack[j].id \in Nat
    BY <1>1
  <2>2. stack[j].id > 0 /\ stack[j].id <= lexgion[stack[j].code].counter
    BY DEF PlaceInv, Numbered
  <2>3. PICK c \in Codes : c = stack[j].code
    BY <2>1
  <2>4. lexgion'[c].counter >= lexgion[c].counter
    BY <1>2
  <2>5. lexgion'[c].counter \in Nat /\ lexgion[c].counter \in Nat
    BY <1>7
  <2> QED
    BY <2>1, <2>2, <2>3, <2>4, <2>5
<1>18. CASE active /\ Recorded(r)
  <2> DEFINE l == Len(stack)
  <2>1. /\ f.id = lexgion[r].counter + 1 /\ stack' = Append(stack, RecordOf(f))
        /\ lexgion'[r].counter = f.id /\ f.id > 0
    BY <1>2, <1>18
  <2>2. RecordOf(f) \in Record
    BY <1>2, <1>7 DEF RecordOf, Record
  <2>3. /\ Len(stack') = l + 1 /\ DOMAIN stack' = 1 .. l + 1
        /\ \A j \in 1 .. l : stack'[j] = stack[j]
        /\ stack'[l + 1] = RecordOf(f)
    BY <1>1, <2>1, <2>2, Pushed
  <2>4. \A j \in 1 .. l : stack[j] # RecordOf(f)
    <3>1. \A j \in 1 .. l : stack[j].code = r => stack[j].id <= lexgion[r].counter
      BY <1>1 DEF PlaceInv, Numbered
    <3> QED
      BY <1>1, <1>7, <1>16, <2>1, <3>1
  <2>5. Numbered'
    <3>1. \A j \in DOMAIN stack' : stack'[j].id > 0 /\ stack'[j].id <= lexgion'[stack'[j].code].counter
      <4>2. \A j \in 1 .. l : stack'[j].id > 0 /\ stack'[j].id <= lexgion'[stack'[j].code].counter
        BY <1>1, <1>17, <2>3
      <4>3. stack'[l + 1].id > 0 /\ stack'[l + 1].id <= lexgion'[stack'[l + 1].code].counter
        BY <1>7, <1>16, <2>1, <2>3
      <4>4. \A j \in DOMAIN stack' : j \in 1 .. l \/ j = l + 1
        BY <1>1, <2>3
      <4> QED
        BY <4>2, <4>3, <4>4
    <3>2. \A i, j \in DOMAIN stack' : stack'[i] = stack'[j] => i = j
      <4>1. \A i, j \in 1 .. l : stack[i] = stack[j] => i = j
        BY <1>1 DEF PlaceInv, Numbered
      <4> QED
        BY <1>1, <2>3, <2>4, <4>1
    <3>3. \A i \in DOMAIN frames' : frames'[i].id <= lexgion'[frames'[i].region].counter
      <4>1. frames'[n + 1].id <= lexgion'[frames'[n + 1].region].counter
        BY <1>2, <1>5, <1>7, <2>1
      <4>2. \A i \in DOMAIN frames' : i \in 1 .. n \/ i = n + 1
        BY <1>1, <1>5
      <4> QED
        BY <1>13, <4>1, <4>2
    <3> QED
      BY <3>1, <3>2, <3>3 DEF Numbered
  <2>6. Placed'
    <3> SUFFICES ASSUME NEW i \in 1 .. n + 1, NEW j \in 1 .. l + 1,
                        stack'[j] = RecordOf(frames'[i])
                 PROVE  /\ \A k \in 1 .. l + 1 :
                             k > j /\ stack'[k].code.address = frames'[i].region.address
                             => \E m \in 1 .. n + 1 : m > i /\ stack'[k] = RecordOf(frames'[m])
                        /\ \A m \in 1 .. n + 1, k \in 1 .. l + 1 :
                             m > i /\ stack'[k] = RecordOf(frames'[m]) => k > j
      BY <1>6, <2>3 DEF Placed
    <3>1. CASE i = n + 1
      <4>1. j = l + 1
        BY <1>1, <1>5, <2>3, <2>4, <3>1
      <4> QED
        BY <1>1, <3>1, <4>1
    <3>2. CASE i # n + 1
      <4>1. i \in 1 .. n
        BY <1>1, <3>2
      <4>2. j \in 1 .. l
        BY <1>1, <1>12, <1>15, <2>3, <4>1
      <4>3. stack[j] = RecordOf(frames[i])
        BY <1>12, <2>3, <4>1, <4>2
      <4>4. /\ \A k \in 1 .. l :
                 k > j /\ stack[k].code.address = frames[i].region.address
                 => \E m \in 1 .. n : m > i /\ stack[k] = RecordOf(frames[m])
            /\ \A m \in 1 .. n, k \in 1 .. l :
                 m > i /\ stack[k] = RecordOf(frames[m]) => k > j
        <5>1. i \in Executing /\ j \in DOMAIN stack
          BY <1>1, <1>6, <4>1, <4>2
        <5>2. /\ \A k \in DOMAIN stack :
                   k > j /\ stack[k].code.address = frames[i].region.address
                   => \E m \in Executing : m > i /\ stack[k] = RecordOf(frames[m])
              /\ \A m \in Executing, k \in DOMAIN stack :
                   m > i /\ stack[k] = RecordOf(frames[m]) => k > j
          BY <4>3, <5>1 DEF PlaceInv, Placed
        <5>3. DOMAIN stack = 1 .. l /\ Executing = 1 .. n
          BY <1>1, <1>6
        <5> QED
          BY <5>2, <5>3
      <4>5. ASSUME NEW k \in 1 .. l + 1, k > j,
                   stack'[k].code.address = frames'[i].region.address
            PROVE  \E m \in 1 .. n + 1 : m > i /\ stack'[k] = RecordOf(frames'[m])
        <5>1. CASE k = l + 1
          BY <1>1, <1>5, <2>3, <4>1, <5>1
        <5>2. CASE k # l + 1
          <6>1. k \in 1 .. l
            BY <1>1, <5>2
          <6>2. PICK m \in 1 .. n : m > i /\ stack[k] = RecordOf(frames[m])
            BY <1>5, <2>3, <4>1, <4>4, <4>5, <6>1
          <6> QED
            BY <1>1, <1>12, <2>3, <6>1, <6>2
        <5> QED
          BY <5>1, <5>2
      <4>6. ASSUME NEW m \in 1 .. n + 1, NEW k \in 1 .. l + 1, m > i,
                   stack'[k] = RecordOf(frames'[m])
            PROVE  k > j
        <5>1. CASE k = l + 1
          BY <1>1, <4>2, <5>1
        <5>2. CASE k # l + 1
          <6>1. k \in 1 .. l
            BY <1>1, <5>2
          <6>2. m \in 1 .. n
            <7>1. m # n + 1
              BY <1>5, <2>3, <2>4, <4>6, <6>1
            <7> QED
              BY <1>1, <7>1
          <6> QED
            BY <1>12, <2>3, <4>4, <4>6, <6>1, <6>2
        <5> QED
          BY <5>1, <5>2
      <4> QED
        BY <4>5, <4>6
    <3> QED
      BY <3>1, <3>2
  <2>7. Records' = Records \cup {RecordOf(f)}
    BY <1>1, <2>3 DEF Records
  <2>8. {RecordOf(frames[i]) : i \in Executing}' =
          {RecordOf(frames[i]) : i \in Executing} \cup {RecordOf(f)}
    BY <1>1, <1>5, <1>6
  <2>9. Balance'
    BY <1>3, <2>7, <2>8 DEF PlaceInv, Balance
  <2>10. Kept'
    <3>1. ~missed' => ~missed
      BY <1>2
    <3>2. ~missed => \A i \in 1 .. n : frames[i].id > 0 => RecordOf(frames[i]) \in Records
      BY <1>6 DEF PlaceInv, Kept
    <3>3. \A i \in Executing' : i \in 1 .. n \/ i = n + 1
      BY <1>1, <1>6
    <3> QED
      BY <1>5, <1>12, <2>7, <3>1, <3>2, <3>3 DEF Kept
  <2> QED
    BY <1>9, <1>10, <1>11, <2>5, <2>6, <2>9, <2>10 DEF PlaceInv
<1>19. CASE ~(active /\ Recorded(r))
  <2>1. f.id = 0 /\ stack' = stack /\ DOMAIN stack' = DOMAIN stack
    BY <1>2, <1>19
  <2>2. \A j \in DOMAIN stack : stack[j] # RecordOf(f)
    BY <1>16, <2>1 DEF PlaceInv, Numbered
  <2>3. Numbered'
    <3>2. \A i, j \in DOMAIN stack : stack[i] = stack[j] => i = j
      BY DEF PlaceInv, Numbered
    <3>3. \A i \in DOMAIN frames' : frames'[i].id <= lexgion'[frames'[i].region].counter
      <4>1. frames'[n + 1].id <= lexgion'[frames'[n + 1].region].counter
        BY <1>2, <1>5, <1>7, <2>1
      <4>2. \A i \in DOMAIN frames' : i \in 1 .. n \/ i = n + 1
        BY <1>1, <1>5
      <4> QED
        BY <1>13, <4>1, <4>2
    <3> QED
      BY <1>17, <2>1, <3>2, <3>3 DEF Numbered
  <2>4. Placed'
    <3>1. \A i \in 1 .. n + 1, j \in DOMAIN stack :
            stack[j] = RecordOf(frames'[i]) => i \in 1 .. n /\ stack[j] = RecordOf(frames[i])
      BY <1>1, <1>5, <1>12, <2>2
    <3>2. \A i \in 1 .. n, j \in DOMAIN stack : stack[j] = RecordOf(frames[i]) =>
            /\ \A k \in DOMAIN stack :
                 k > j /\ stack[k].code.address = frames[i].region.address
                 => \E m \in 1 .. n : m > i /\ stack[k] = RecordOf(frames[m])
            /\ \A m \in 1 .. n, k \in DOMAIN stack :
                 m > i /\ stack[k] = RecordOf(frames[m]) => k > j
      BY <1>6 DEF PlaceInv, Placed
    <3>3. 1 .. n \subseteq 1 .. n + 1
      BY <1>1
    <3>4. ASSUME NEW i \in 1 .. n + 1, NEW j \in DOMAIN stack, stack[j] = RecordOf(frames'[i]),
                 NEW k \in DOMAIN stack, k > j,
                 stack[k].code.address = frames'[i].region.address
          PROVE  \E m \in 1 .. n + 1 : m > i /\ stack[k] = RecordOf(frames'[m])
      <4>1. i \in 1 .. n /\ stack[j] = RecordOf(frames[i])
        BY <3>1, <3>4
      <4>2. PICK m \in 1 .. n : m > i /\ stack[k] = RecordOf(frames[m])
        BY <1>5, <3>2, <3>4, <4>1
      <4> QED
        BY <1>12, <3>3, <4>2
    <3>5. ASSUME NEW i \in 1 .. n + 1, NEW j \in DOMAIN stack, stack[j] = RecordOf(frames'[i]),
                 NEW m \in 1 .. n + 1, NEW k \in DOMAIN stack, m > i,
                 stack[k] = RecordOf(frames'[m])
          PROVE  k > j
      BY <3>1, <3>2, <3>5
    <3> QED
      BY <1>6, <2>1, <3>4, <3>5 DEF Placed
  <2>5. Records' = Records
    BY <2>1 DEF Records
  <2>6. Balance'
    <3>1. {RecordOf(frames[i]) : i \in Executing} \subseteq {RecordOf(frames[i]) : i \in Executing}'
      BY <1>1, <1>5, <1>6
    <3> QED
      BY <1>3, <2>5, <3>1 DEF PlaceInv, Balance
  <2>7. Kept'
    <3>1. ~missed' => ~missed
      BY <1>2
    <3>2. ~missed => \A i \in 1 .. n : frames[i].id > 0 => RecordOf(frames[i]) \in Records
      BY <1>6 DEF PlaceInv, Kept
    <3>3. \A i \in Executing' : i \in 1 .. n \/ frames'[i].id = 0
      BY <1>1, <1>5, <1>6, <2>1
    <3> QED
      BY <1>5, <1>12, <2>5, <3>1, <3>2, <3>3 DEF Kept
  <2> QED
    BY <1>9, <1>10, <1>11, <2>3, <2>4, <2>6, <2>7 DEF PlaceInv
<1> QED
  BY <1>18, <1>19

\* The record of a call is not under another of its address that is not of a
\* call inside it, so that what EndMatchAt ends at is at or under it.
LEMMA TopmostAtAddress ==
    ASSUME TypeInv, PlaceInv, frames # <<>>, pc # "exited",
           NEW j \in DOMAIN stack, stack[j] = RecordOf(Top),
           NEW k \in AtAddress(Top.region.address)
    PROVE  k <= j
<1>1. Executing = 1 .. Len(frames) /\ Len(frames) \in Executing /\ Top = frames[Len(frames)]
  BY TopFrame DEF Executing, Top
<1>2. k \in DOMAIN stack /\ stack[k].code.address = Top.region.address
  BY DEF AtAddress
<1>3. ~(k > j)
  BY <1>1, <1>2 DEF PlaceInv, Placed
<1>4. j \in Nat /\ k \in Nat
  BY <1>2, Elements
<1> QED
  BY <1>3, <1>4

\* A call is over, and its record is taken from the stack, if it is there, or
\* excused.
LEMMA OverPlaced ==
    ASSUME TypeInv, TypeInv', PlaceInv, frames # <<>>, pc # "exited",
           \/ frames' = Callers /\ pc' = "run"
           \/ frames' = frames /\ pc' = "exited",
           UNCHANGED <<lexgion, vendor, missed>>,
           NEW t \in 0 .. Len(stack), stack' = SubSeq(stack, 1, t),
           excused \subseteq excused',
           \A j \in 1 .. t : stack[j] = RecordOf(Top) =>
               /\ RecordOf(Top) \in excused'
               /\ Len(frames) = 2 => Top.region.address # frames[1].region.address,
           ~missed /\ Len(frames) = 2 =>
               \A j \in DOMAIN stack : stack[j] = RecordOf(frames[1]) => j <= t,
           EndingInv'
    PROVE  PlaceInv'
<1> DEFINE n == Len(frames)
<1>1. /\ n \in {1, 2} /\ DOMAIN frames = 1 .. n /\ frames[n] = Top
      /\ Callers \in Seq(Frame) /\ Len(Callers) = n - 1 /\ DOMAIN Callers = 1 .. n - 1
      /\ \A i \in 1 .. n - 1 : Callers[i] = frames[i]
  BY TopFrame DEF Top
<1>2. /\ DOMAIN stack = 1 .. Len(stack) /\ Len(stack) \in Nat
      /\ DOMAIN stack' = 1 .. t /\ \A j \in 1 .. t : stack'[j] = stack[j]
      /\ 1 .. t \subseteq DOMAIN stack
  BY Elements, Popped
<1>3. Executing = 1 .. n /\ Executing' = 1 .. n - 1
  BY <1>1 DEF Executing
<1>4. /\ DOMAIN frames' \subseteq 1 .. n /\ 1 .. n - 1 \subseteq DOMAIN frames'
      /\ \A i \in DOMAIN frames' : frames'[i] = frames[i]
  BY <1>1
<1>5. Shape'
  <2>1. CASE frames' = frames
    BY <2>1 DEF PlaceInv, Shape, Gpu, Top
  <2>2. CASE frames' = Callers
    <3>1. frames' # <<>> => n = 2 /\ Top' = frames[1]
      <4>1. n = 1 => frames' = <<>>
        BY <1>1, <2>2, EmptySeq
      <4>2. n = 2 => Callers[Len(Callers)] = frames[1]
        BY <1>1
      <4> QED
        BY <1>1, <2>2, <4>1, <4>2 DEF Top
    <3>2. Len(frames') # 2
      BY <1>1, <2>2
    <3> QED
      BY <3>1, <3>2 DEF PlaceInv, Shape, Gpu
  <2> QED
    BY <2>1, <2>2
<1>6. Numbered'
  <2>1. \A j \in 1 .. t : stack[j].id > 0 /\ stack[j].id <= lexgion[stack[j].code].counter
    BY <1>2 DEF PlaceInv, Numbered
  <2>2. \A i, j \in 1 .. t : stack[i] = stack[j] => i = j
    BY <1>2 DEF PlaceInv, Numbered
  <2>3. \A i \in DOMAIN frames' : frames[i].id <= lexgion[frames[i].region].counter
    BY <1>1, <1>4 DEF PlaceInv, Numbered
  <2> QED
    BY <1>2, <1>4, <2>1, <2>2, <2>3 DEF Numbered
<1>7. MissedInv'
  BY <1>1, <1>4 DEF PlaceInv, MissedInv
<1>8. \A i \in 1 .. n - 1 : frames'[i] = frames[i] /\ RecordOf(frames'[i]) = RecordOf(frames[i])
  BY <1>4
<1>9. Placed'
  <2> SUFFICES ASSUME NEW i \in 1 .. n - 1, NEW j \in 1 .. t,
                      stack'[j] = RecordOf(frames'[i])
               PROVE  /\ \A k \in 1 .. t :
                           k > j /\ stack'[k].code.address = frames'[i].region.address
                           => \E m \in 1 .. n - 1 : m > i /\ stack'[k] = RecordOf(frames'[m])
                      /\ \A m \in 1 .. n - 1, k \in 1 .. t :
                           m > i /\ stack'[k] = RecordOf(frames'[m]) => k > j
    BY <1>2, <1>3 DEF Placed
  <2>1. stack[j] = RecordOf(frames[i])
    BY <1>2, <1>8
  <2>2. n = 2 /\ i = 1
    <3>1. n \in {1, 2}
      BY <1>1
    <3> HIDE DEF n
    <3> QED
      BY <3>1
  <2>3. ASSUME NEW k \in 1 .. t, k > j, stack'[k].code.address = frames'[i].region.address
        PROVE  FALSE
    <3>1. i \in Executing /\ j \in DOMAIN stack /\ k \in DOMAIN stack
      BY <1>2, <1>3, <2>2
    <3>2. stack[k].code.address = frames[i].region.address
      BY <1>2, <1>8, <2>3
    <3>3. PICK m \in Executing : m > i /\ stack[k] = RecordOf(frames[m])
      BY <2>3, <2>1, <3>1, <3>2 DEF PlaceInv, Placed
    <3>4. m = 2 /\ frames[m] = Top
      BY <1>1, <1>3, <2>2, <3>3
    <3>5. stack[k].code.address = Top.region.address
      BY <3>3, <3>4 DEF RecordOf
    <3>6. Top.region.address # frames[1].region.address
      BY <2>2, <3>3, <3>4
    <3> QED
      BY <2>2, <3>5, <3>6, <3>2
  <2>4. ~ \E m \in 1 .. n - 1 : m > i
    BY <2>2
  <2> QED
    BY <2>3, <2>4
<1>10. Records' = {stack[j] : j \in 1 .. t} /\ Records' \subseteq Records
  BY <1>2 DEF Records
<1>11. Balance'
  <2>1. ASSUME NEW r \in Records'
        PROVE  r \in excused' \cup {RecordOf(frames[i]) : i \in 1 .. n - 1}
    <3>1. r \in excused \cup {RecordOf(frames[i]) : i \in 1 .. n}
      BY <1>3, <1>10 DEF PlaceInv, Balance
    <3>2. r = RecordOf(Top) => r \in excused'
      BY <1>10
    <3>3. \A i \in 1 .. n : i \in 1 .. n - 1 \/ frames[i] = Top
      BY <1>1
    <3> QED
      BY <3>1, <3>2, <3>3
  <2>2. {RecordOf(frames[i]) : i \in Executing}' = {RecordOf(frames[i]) : i \in 1 .. n - 1}
    BY <1>3, <1>8
  <2> QED
    BY <2>1, <2>2 DEF Balance
<1>12. Kept'
  <2> SUFFICES ASSUME ~missed, NEW i \in 1 .. n - 1, frames[i].id > 0
               PROVE  RecordOf(frames[i]) \in Records'
    BY <1>3, <1>8 DEF Kept
  <2>1. n = 2 /\ i = 1 /\ i \in Executing
    BY <1>1, <1>3
  <2>2. PICK j \in DOMAIN stack : stack[j] = RecordOf(frames[i])
    BY <2>1 DEF PlaceInv, Kept, Records
  <2>3. j \in 1 .. t
    BY <1>2, <2>1, <2>2
  <2> QED
    BY <1>10, <2>2, <2>3
<1> QED
  BY <1>5, <1>6, <1>7, <1>9, <1>11, <1>12 DEF PlaceInv

\* The stack unchanged is a prefix of itself.
LEMMA AllKept ==
    ASSUME TypeInv, stack' = stack
    PROVE  Len(stack) \in 0 .. Len(stack) /\ stack' = SubSeq(stack, 1, Len(stack))
<1>1. stack \in Seq(Record) /\ Len(stack) \in Nat
  BY Elements
<1> QED
  BY <1>1, SubSeqFull

LEMMA HostExitType ==
    ASSUME TypeInv, HostExit
    PROVE  TypeInv'
<1>1. frames # <<>> /\ pc = "run" /\ UNCHANGED <<missed, modeVars>>
  BY DEF HostExit
<1>2. stack' \in Seq(Record) /\ Len(stack') <= MaxDepth
  <2>1. EndMatchAt(Top.region.address) \/ stack' = stack
    BY DEF HostExit
  <2> QED
    BY <2>1, EndMatchAtType DEF TypeInv, LexgionsType
<1>3. LexgionsType'
  BY <1>2 DEF HostExit, TypeInv, LexgionsType, latchVars
<1>4. MatchAt(Top.region.address) = NoRegion \/ ~CalledBack
      \/ MatchAt(Top.region.address) \in Codes
  BY EndMatchAtEffect DEF HostExit
<1>5. /\ frames' \in {frames, Callers}
      /\ \/ pc' = "run" /\ ending' = NoRegion
         \/ pc' = "exited" /\ ending' \in Codes /\ frames' = frames
  BY <1>1, <1>4 DEF HostExit, TypeInv
<1> QED
  BY <1>1, <1>3, <1>5, ReturnType

LEMMA MpiExitType ==
    ASSUME TypeInv, MpiExit
    PROVE  TypeInv'
<1>1. frames # <<>> /\ pc = "run" /\ UNCHANGED <<missed, modeVars>>
  BY DEF MpiExit, ghostVars
<1>2. stack' \in Seq(Record) /\ Len(stack') <= MaxDepth
  <2>1. EndMatchAt(mpiCode) \/ stack' = stack
    BY DEF MpiExit
  <2> QED
    BY <2>1, EndMatchAtType DEF TypeInv, LexgionsType
<1>3. LexgionsType'
  BY <1>2 DEF MpiExit, TypeInv, LexgionsType, latchVars
<1>4. /\ frames' \in {frames, Callers}
      /\ \/ pc' = "run" /\ ending' = NoRegion
         \/ pc' = "exited" /\ ending' \in Codes /\ frames' = frames
  BY <1>1, TopFrame DEF MpiExit, TypeInv
<1> QED
  BY <1>1, <1>3, <1>4, ReturnType

LEMMA EndEventType ==
    ASSUME TypeInv, EndEvent
    PROVE  TypeInv'
<1>1. frames # <<>> /\ pc = "exited" /\ ending \in Codes
  BY DEF EndEvent, TypeInv, TypeOK
<1>2. frames' = Callers /\ pc' = "run" /\ ending' = NoRegion
      /\ UNCHANGED <<missed, modeVars, seen, stack, generation>>
  BY DEF EndEvent, ghostVars
<1>3. lexgion' \in [Codes -> Lexgion] /\ fired' \in [Configs -> BOOLEAN]
  <2>1. PostTraceUpdate(ending) \/ UNCHANGED <<lexgion, fired>>
    BY DEF EndEvent
  <2> QED
    BY <1>1, <2>1, PostTraceType DEF TypeInv, LexgionsType
<1>4. LexgionsType'
  BY <1>2, <1>3 DEF TypeInv, LexgionsType
<1> QED
  BY <1>1, <1>2, <1>4, ReturnType

\* A GPU call that did not miss ends at its own record.
LEMMA OwnRecord ==
    ASSUME TypeInv, PlaceInv, TopInv, frames # <<>>, pc # "exited", Gpu(Top), ~Top.missed,
           EndMatchAt(Top.region.address), AtAddress(Top.region.address) # {}
    PROVE  /\ Top.id > 0
           /\ MatchAt(Top.region.address) = Top.region
           /\ Len(stack) > 0 /\ stack' = SubSeq(stack, 1, Len(stack) - 1)
           /\ stack[Len(stack)] = RecordOf(Top)
<1>1. Top.id > 0
  BY TopFrame DEF TopInv
<1>2. stack # <<>> /\ stack[Len(stack)] = RecordOf(Top)
  BY <1>1 DEF TopInv
<1>3. DOMAIN stack = 1 .. Len(stack) /\ Len(stack) \in Nat \ {0}
  BY <1>2, Elements, EmptySeq
<1>4. RecordOf(Top).code = Top.region
  BY DEF RecordOf
<1>5. Len(stack) \in AtAddress(Top.region.address)
  BY <1>2, <1>3, <1>4 DEF AtAddress
<1>6. PICK top \in AtAddress(Top.region.address) :
        /\ \A i \in AtAddress(Top.region.address) : i <= top
        /\ stack' = SubSeq(stack, 1, top - 1)
        /\ MatchAt(Top.region.address) = stack[top].code
  BY EndMatchAtEffect
<1>7. top = Len(stack)
  <2>1. top \in 1 .. Len(stack) /\ Len(stack) <= top
    BY <1>3, <1>5, <1>6 DEF AtAddress
  <2>2. top \in Nat /\ Len(stack) \in Nat /\ top <= Len(stack)
    BY <1>3, <2>1
  <2> QED
    BY <2>1, <2>2
<1> QED
  BY <1>1, <1>2, <1>3, <1>4, <1>6, <1>7

LEMMA HostExitPlaced ==
    ASSUME TypeInv, TypeInv', PlaceInv, TopInv, HostExit
    PROVE  PlaceInv'
<1> DEFINE a == Top.region.address
           n == Len(frames)
<1>1. /\ pc = "run" /\ frames # <<>> /\ Gpu(Top)
      /\ UNCHANGED <<lexgion, vendor, missed>>
      /\ excused' = IF ~CalledBack /\ Top.id > 0 THEN excused \cup {RecordOf(Top)} ELSE excused
  BY DEF HostExit, Gpu, modeVars, Excuses, RecordOf
<1>2. /\ \/ frames' = Callers /\ pc' = "run"
         \/ frames' = frames /\ pc' = "exited"
      /\ excused \subseteq excused'
  <2>1. \/ frames' = Callers /\ pc' = "run"
        \/ frames' = frames /\ pc' = "exited"
    BY <1>1 DEF HostExit
  <2>2. excused \subseteq excused'
    BY <1>1
  <2> QED
    BY <2>1, <2>2
<1>3. /\ n \in {1, 2} /\ frames[n] = Top /\ Top.region \in Codes /\ Top.id \in Nat
      /\ DOMAIN stack = 1 .. Len(stack) /\ Len(stack) \in Nat
      /\ n = 2 => frames[1].region \in Codes
  <2>1. n \in {1, 2} /\ frames[n] = Top /\ Top.region \in Codes /\ Top.id \in Nat
    BY <1>1, TopFrame DEF Top
  <2>2. n = 2 => 1 \in DOMAIN frames
    BY <1>1, TopFrame
  <2> QED
    BY <2>1, <2>2, Elements
<1>4. n = 2 => /\ Top.region.address # frames[1].region.address
               /\ Top.region # frames[1].region
  BY <1>1, <1>3, RegionsAssumption DEF PlaceInv, Shape, Gpu
<1>5. RecordOf(Top).code = Top.region /\ RecordOf(Top).id = Top.id
      /\ RecordOf(frames[1]).code = frames[1].region
  BY DEF RecordOf
<1>6. CASE ~CalledBack
  <2>1. stack' = stack /\ pc' = "run"
    BY <1>1, <1>6 DEF HostExit
  <2>2. Len(stack) \in 0 .. Len(stack) /\ stack' = SubSeq(stack, 1, Len(stack))
    BY <2>1, AllKept
  <2>3. \A j \in 1 .. Len(stack) : stack[j] = RecordOf(Top) => RecordOf(Top) \in excused'
    BY <1>1, <1>3, <1>5, <1>6 DEF PlaceInv, Numbered
  <2>4. EndingInv'
    BY <2>1 DEF EndingInv
  <2>5. \A j \in DOMAIN stack : j <= Len(stack)
    BY <1>3
  <2> QED
    BY <1>1, <1>2, <1>4, <2>2, <2>3, <2>4, <2>5, OverPlaced
<1>7. CASE CalledBack /\ AtAddress(a) = {}
  <2>1. EndMatchAt(a)
    BY <1>7 DEF HostExit
  <2>2. stack' = stack /\ MatchAt(a) = NoRegion
    BY <1>7, <2>1, EndMatchAtEffect
  <2>3. pc' = "run"
    BY <1>1, <1>7, <2>2 DEF HostExit
  <2>4. Len(stack) \in 0 .. Len(stack) /\ stack' = SubSeq(stack, 1, Len(stack))
    BY <2>2, AllKept
  <2>5. \A j \in 1 .. Len(stack) : stack[j] # RecordOf(Top)
    BY <1>3, <1>5, <1>7 DEF AtAddress
  <2>6. EndingInv'
    BY <2>3 DEF EndingInv
  <2>7. \A j \in DOMAIN stack : j <= Len(stack)
    BY <1>3
  <2> QED
    BY <1>1, <1>2, <2>4, <2>5, <2>6, <2>7, OverPlaced
<1>8. CASE CalledBack /\ AtAddress(a) # {}
  <2>1. EndMatchAt(a) /\ ending' = MatchAt(a)
    BY <1>8 DEF HostExit
  <2>2. PICK top \in AtAddress(a) :
          /\ \A i \in AtAddress(a) : i <= top
          /\ stack' = SubSeq(stack, 1, top - 1)
          /\ MatchAt(a) \in Codes
    BY <1>8, <2>1, EndMatchAtEffect
  <2>3. pc' = "exited" /\ frames' = frames
    BY <1>8, <2>2, RegionTypes DEF HostExit
  <2>4. top \in 1 .. Len(stack) /\ top - 1 \in 0 .. Len(stack)
    BY <1>3 DEF AtAddress
  <2>5. \A j \in 1 .. top - 1 : stack[j] # RecordOf(Top)
    <3> SUFFICES ASSUME NEW j \in 1 .. top - 1, stack[j] = RecordOf(Top) PROVE FALSE
      OBVIOUS
    <3>1. j \in DOMAIN stack
      BY <1>3, <2>4
    <3>2. top <= j
      BY <1>1, <3>1, TopmostAtAddress
    <3> QED
      BY <2>4, <3>2
  <2>6. ~Top.missed => Len(stack) = top
    <3>1. ASSUME ~Top.missed PROVE Len(stack) \in AtAddress(a)
      <4>1. Len(stack) > 0 /\ stack[Len(stack)] = RecordOf(Top)
        BY <1>1, <1>8, <2>1, <3>1, OwnRecord
      <4> QED
        BY <1>3, <1>5, <4>1 DEF AtAddress
    <3>2. ~Top.missed => Len(stack) <= top
      BY <2>2, <3>1
    <3>3. top \in Nat /\ Len(stack) \in Nat /\ top <= Len(stack)
      BY <1>3, <2>4
    <3> QED
      BY <3>2, <3>3
  <2>7. ~missed => ~Top.missed
    BY <1>1, <1>3, TopFrame DEF PlaceInv, MissedInv
  <2>8. ASSUME ~missed, n = 2, NEW j \in DOMAIN stack, stack[j] = RecordOf(frames[1])
        PROVE  j <= top - 1
    <3>1. stack[Len(stack)] = RecordOf(Top)
      BY <1>1, <1>8, <2>1, <2>7, <2>8, OwnRecord
    <3>2. j # Len(stack)
      BY <1>4, <1>5, <2>8, <3>1
    <3> QED
      BY <1>3, <2>6, <2>7, <2>8, <3>2
  <2>9. EndingInv'
    <3>1. Top' = Top
      BY <2>3 DEF Top
    <3> QED
      BY <1>1, <1>8, <2>1, <3>1, OwnRecord DEF EndingInv
  <2> QED
    BY <1>1, <1>2, <2>2, <2>4, <2>5, <2>8, <2>9, OverPlaced
<1> QED
  BY <1>6, <1>7, <1>8

LEMMA MpiExitPlaced ==
    ASSUME TypeInv, TypeInv', PlaceInv, TopInv, MpiExit
    PROVE  PlaceInv'
<1> DEFINE n == Len(frames)
<1>1. /\ pc = "run" /\ frames # <<>> /\ ~Gpu(Top)
      /\ UNCHANGED <<lexgion, vendor, missed>>
      /\ excused' = IF Top.id > 0 /\ mpiCode # Top.region.address
                    THEN excused \cup {RecordOf(Top)} ELSE excused
  BY DEF MpiExit, Gpu, modeVars, Excuses, RecordOf
<1>2. /\ \/ frames' = Callers /\ pc' = "run"
         \/ frames' = frames /\ pc' = "exited"
      /\ excused \subseteq excused'
  <2>1. \/ frames' = Callers /\ pc' = "run"
        \/ frames' = frames /\ pc' = "exited"
    BY <1>1 DEF MpiExit
  <2>2. excused \subseteq excused'
    BY <1>1
  <2> QED
    BY <2>1, <2>2
<1>3. /\ n \in {1, 2} /\ frames[n] = Top /\ Top.id \in Nat
      /\ DOMAIN stack = 1 .. Len(stack) /\ Len(stack) \in Nat
      /\ Executing = 1 .. n
  BY <1>1, TopFrame, Elements DEF Top, Executing
<1>4. RecordOf(Top).code = Top.region /\ RecordOf(Top).id = Top.id
  BY DEF RecordOf
<1>5. CASE Top.id > 0
  <2>1. EndMatchAt(mpiCode) /\ ending' = Top.region /\ pc' = "exited" /\ frames' = frames
    BY <1>5 DEF MpiExit, EpilogueRuns
  <2>2. EndingInv'
    <3>1. Top' = Top
      BY <2>1 DEF Top
    <3> QED
      BY <1>5, <2>1, <3>1 DEF EndingInv
  <2>3. n = 2 => mpiCode = Top.region.address
    BY <1>1, <1>5 DEF TopInv
  <2>4. CASE AtAddress(mpiCode) = {}
    <3>1. stack' = stack
      BY <2>1, <2>4, EndMatchAtEffect
    <3>2. Len(stack) \in 0 .. Len(stack) /\ stack' = SubSeq(stack, 1, Len(stack))
      BY <3>1, AllKept
    <3>3. \A j \in 1 .. Len(stack) : stack[j] = RecordOf(Top) => mpiCode # Top.region.address
      BY <1>3, <1>4, <2>4 DEF AtAddress
    <3>4. \A j \in 1 .. Len(stack) : stack[j] = RecordOf(Top) => RecordOf(Top) \in excused' /\ n # 2
      BY <1>1, <1>5, <2>3, <3>3
    <3>5. \A j \in DOMAIN stack : j <= Len(stack)
      BY <1>3
    <3> QED
      BY <1>1, <1>2, <2>2, <3>2, <3>4, <3>5, OverPlaced
  <2>5. CASE AtAddress(mpiCode) # {}
    <3>1. PICK top \in AtAddress(mpiCode) :
            /\ \A i \in AtAddress(mpiCode) : i <= top
            /\ stack' = SubSeq(stack, 1, top - 1)
      BY <2>1, <2>5, EndMatchAtEffect
    <3>2. top \in 1 .. Len(stack) /\ top - 1 \in 0 .. Len(stack)
      BY <1>3 DEF AtAddress
    <3>3. ASSUME NEW j \in 1 .. top - 1, stack[j] = RecordOf(Top)
          PROVE  mpiCode # Top.region.address
      <4> SUFFICES ASSUME mpiCode = Top.region.address PROVE FALSE
        OBVIOUS
      <4>1. j \in DOMAIN stack
        BY <1>3, <3>2
      <4>2. top <= j
        BY <1>1, <3>3, <4>1, TopmostAtAddress
      <4> QED
        BY <3>2, <4>2
    <3>4. \A j \in 1 .. top - 1 : stack[j] = RecordOf(Top) => RecordOf(Top) \in excused' /\ n # 2
      BY <1>1, <1>5, <2>3, <3>3
    <3>5. ASSUME ~missed, n = 2, NEW j \in DOMAIN stack, stack[j] = RecordOf(frames[1])
          PROVE  j <= top - 1
      <4>1. PICK k \in DOMAIN stack : stack[k] = RecordOf(Top)
        BY <1>3, <1>5, <3>5 DEF PlaceInv, Kept, Records
      <4>2. k \in AtAddress(mpiCode)
        BY <1>4, <2>3, <3>5, <4>1 DEF AtAddress
      <4>3. k <= top
        BY <3>1, <4>2
      <4>4. k > j
        <5>1. 1 \in Executing /\ 2 \in Executing /\ frames[2] = Top
          BY <1>3, <3>5
        <5> QED
          BY <3>5, <4>1, <5>1 DEF PlaceInv, Placed
      <4> QED
        BY <1>3, <3>2, <4>3, <4>4
    <3> QED
      BY <1>1, <1>2, <2>2, <3>1, <3>2, <3>4, <3>5, OverPlaced
  <2> QED
    BY <2>4, <2>5
<1>6. CASE ~(Top.id > 0)
  <2>1. stack' = stack /\ pc' = "run"
    BY <1>1, <1>6 DEF MpiExit, EpilogueRuns
  <2>2. Len(stack) \in 0 .. Len(stack) /\ stack' = SubSeq(stack, 1, Len(stack))
    BY <2>1, AllKept
  <2>3. \A j \in 1 .. Len(stack) : stack[j] # RecordOf(Top)
    BY <1>3, <1>4, <1>6 DEF PlaceInv, Numbered
  <2>4. EndingInv'
    BY <2>1 DEF EndingInv
  <2>5. \A j \in DOMAIN stack : j <= Len(stack)
    BY <1>3
  <2> QED
    BY <1>1, <1>2, <2>2, <2>3, <2>4, <2>5, OverPlaced
<1> QED
  BY <1>5, <1>6

\* The end event moves no record.
LEMMA EndEventPlaced ==
    ASSUME TypeInv, TypeInv', PlaceInv, EndEvent
    PROVE  PlaceInv'
<1> DEFINE n == Len(frames)
<1>1. /\ pc = "exited" /\ pc' = "run" /\ frames' = Callers /\ frames # <<>> /\ ending \in Codes
      /\ UNCHANGED <<stack, vendor, missed, excused>>
  BY DEF EndEvent, TypeInv, TypeOK, modeVars, ghostVars
<1>2. /\ n \in {1, 2} /\ DOMAIN frames = 1 .. n
      /\ Callers \in Seq(Frame) /\ Len(Callers) = n - 1 /\ DOMAIN Callers = 1 .. n - 1
      /\ \A i \in 1 .. n - 1 : Callers[i] = frames[i]
      /\ \A i \in DOMAIN frames : frames[i].region \in Codes
      /\ \A j \in DOMAIN stack : stack[j].code \in Codes
  BY <1>1, TopFrame, Elements
<1>3. \A c \in Codes : lexgion'[c].counter = lexgion[c].counter
  <2>1. PostTraceUpdate(ending) \/ lexgion' = lexgion
    BY DEF EndEvent
  <2>2. LexgionsType
    BY DEF TypeInv
  <2>3. CASE lexgion' = lexgion
    BY <2>3
  <2>4. CASE PostTraceUpdate(ending)
    BY <1>1, <2>2, <2>4, PostTraceEffect
  <2> QED
    BY <2>1, <2>3, <2>4
<1>4. Executing = 1 .. n - 1 /\ Executing' = 1 .. n - 1
  BY <1>1, <1>2 DEF Executing
<1>5. \A i \in 1 .. n - 1 : /\ i \in DOMAIN frames
                            /\ frames'[i] = frames[i]
                            /\ RecordOf(frames'[i]) = RecordOf(frames[i])
  BY <1>1, <1>2
<1>6. Shape'
  <2>1. frames' # <<>> => n = 2 /\ Top' = frames[1]
    <3>1. n = 1 => frames' = <<>>
      BY <1>1, <1>2, EmptySeq
    <3>2. n = 2 => Callers[Len(Callers)] = frames[1]
      BY <1>2
    <3> QED
      BY <1>1, <1>2, <3>1, <3>2 DEF Top
  <2>2. Len(frames') # 2
    BY <1>1, <1>2
  <2> QED
    BY <2>1, <2>2 DEF PlaceInv, Shape, Gpu
<1>7. Numbered'
  <2>1. \A j \in DOMAIN stack :
          stack[j].id > 0 /\ stack[j].id <= lexgion'[stack[j].code].counter
    BY <1>2, <1>3 DEF PlaceInv, Numbered
  <2>2. \A i \in 1 .. n - 1 : frames'[i].id <= lexgion'[frames'[i].region].counter
    BY <1>2, <1>3, <1>5 DEF PlaceInv, Numbered
  <2> QED
    BY <1>1, <1>2, <2>1, <2>2 DEF PlaceInv, Numbered
<1>8. Placed'
  BY <1>1, <1>4, <1>5 DEF PlaceInv, Placed
<1>9. MissedInv'
  BY <1>1, <1>2, <1>5 DEF PlaceInv, MissedInv
<1>10. EndingInv'
  BY <1>1 DEF EndingInv
<1>11. Records' = Records
  BY <1>1 DEF Records
<1>12. Balance'
  <2>1. {RecordOf(frames[i]) : i \in Executing}' = {RecordOf(frames[i]) : i \in Executing}
    BY <1>4, <1>5
  <2> QED
    BY <1>1, <1>11, <2>1 DEF PlaceInv, Balance
<1>13. Kept'
  BY <1>1, <1>4, <1>5, <1>11 DEF PlaceInv, Kept
<1> QED
  BY <1>6, <1>7, <1>8, <1>9, <1>10, <1>12, <1>13 DEF PlaceInv

\* A change of mode marks the calls in progress of its domain.
LEMMA DisturbEffect ==
    ASSUME TypeInv, NEW d, Disturb(d)
    PROVE  /\ frames' \in Seq(Frame) /\ Len(frames') = Len(frames)
           /\ \A i \in DOMAIN frames :
                /\ frames'[i].region = frames[i].region /\ frames'[i].id = frames[i].id
                /\ frames'[i].missed = frames[i].missed /\ frames'[i].begun = frames[i].begun
                /\ frames'[i].disturbed =
                     (frames[i].disturbed \/ DomainOf(frames[i].region) = d)
<1> DEFINE n == Len(frames)
           e(i) == [frames[i] EXCEPT !.disturbed = @ \/ DomainOf(frames[i].region) = d]
<1>1. DOMAIN frames = 1 .. n /\ n \in Nat /\ \A i \in 1 .. n : frames[i] \in Frame
  BY Elements
<1>2. \A i \in 1 .. n :
        (frames[i].disturbed \/ DomainOf(frames[i].region) = d) \in BOOLEAN
  BY Zenon
<1>3. ASSUME NEW i \in 1 .. n, NEW b \in BOOLEAN, NEW f \in Frame
      PROVE  /\ [f EXCEPT !.disturbed = b] \in Frame
             /\ [f EXCEPT !.disturbed = b].region = f.region
             /\ [f EXCEPT !.disturbed = b].id = f.id
             /\ [f EXCEPT !.disturbed = b].missed = f.missed
             /\ [f EXCEPT !.disturbed = b].begun = f.begun
             /\ [f EXCEPT !.disturbed = b].disturbed = b
  BY DEF Frame
<1>4. \A i \in 1 .. n :
        /\ e(i) \in Frame
        /\ e(i).region = frames[i].region /\ e(i).id = frames[i].id
        /\ e(i).missed = frames[i].missed /\ e(i).begun = frames[i].begun
        /\ e(i).disturbed = (frames[i].disturbed \/ DomainOf(frames[i].region) = d)
  <2> TAKE i \in 1 .. n
  <2>1. PICK b \in BOOLEAN : b = (frames[i].disturbed \/ DomainOf(frames[i].region) = d)
    BY <1>2
  <2>2. PICK f \in Frame : f = frames[i]
    BY <1>1
  <2>3. e(i) = [f EXCEPT !.disturbed = b]
    BY <2>1, <2>2
  <2> HIDE DEF e
  <2>4. /\ e(i) \in Frame
        /\ e(i).region = f.region /\ e(i).id = f.id /\ e(i).missed = f.missed
        /\ e(i).begun = f.begun /\ e(i).disturbed = b
    BY <1>3, <2>3
  <2> QED
    BY <2>1, <2>2, <2>4, Zenon
<1>5. frames' = [i \in 1 .. n |-> e(i)]
  BY <1>1 DEF Disturb
<1> HIDE DEF e
<1>6. frames' \in [1 .. n -> Frame]
  BY <1>4, <1>5
<1>7. frames' \in Seq(Frame)
  BY <1>1, <1>6, SeqDef
<1>8. Len(frames') = n
  <2>1. DOMAIN frames' = 1 .. Len(frames') /\ Len(frames') \in Nat
    BY <1>7, LenProperties
  <2>2. 1 .. Len(frames') = 1 .. n
    BY <1>6, <2>1
  <2>3. ASSUME Len(frames') > n PROVE FALSE
    <3>1. Len(frames') \in 1 .. Len(frames')
      BY <1>1, <2>1, <2>3
    <3>2. Len(frames') \in 1 .. n
      BY <2>2, <3>1
    <3> QED
      BY <1>1, <2>1, <2>3, <3>2
  <2>4. ASSUME n > Len(frames') PROVE FALSE
    <3>1. n \in 1 .. n
      BY <1>1, <2>1, <2>4
    <3>2. n \in 1 .. Len(frames')
      BY <2>2, <3>1
    <3> QED
      BY <1>1, <2>1, <2>4, <3>2
  <2>5. n \in Nat /\ Len(frames') \in Nat
    BY <1>1, <2>1
  <2> QED
    BY <2>3, <2>4, <2>5
<1> QED
  BY <1>1, <1>4, <1>5, <1>7, <1>8

\* The decision, of a call that has a record.
Decides == Tracing(Top.region) /\ Top.id # 0

LEMMA DecideEffect ==
    ASSUME TypeInv, Decide
    PROVE  /\ frames # <<>> /\ pc = "entered"
           /\ IF Decides
              THEN /\ SetTraceBit(Top.region)
                   /\ \E b \in BOOLEAN :
                        /\ b = (Top.region.api = "MPI" /\ lexgion'[Top.region].bit)
                        /\ frames' = [frames EXCEPT ![Len(frames)].begun = b]
              ELSE lexgion' = lexgion /\ frames' = frames
           /\ pc' = IF Gpu(Top) THEN "decided"
                    ELSE IF Tracing(Top.region) /\ Top.id = 0 THEN "crashed" ELSE "run"
           /\ UNCHANGED <<seen, stack, latchVars, modeVars, ending, mpiCode, calls,
                          deviceVars, ghostVars>>
<1>1. frames # <<>> /\ pc = "entered"
  BY DEF Decide, TypeInv, TypeOK
<1>2. (Top.region.api = "MPI" /\ lexgion'[Top.region].bit) \in BOOLEAN
  BY Zenon
<1>3. IF Decides
      THEN /\ SetTraceBit(Top.region)
           /\ frames' = [frames EXCEPT ![Len(frames)].begun =
                           Top.region.api = "MPI" /\ lexgion'[Top.region].bit]
      ELSE lexgion' = lexgion /\ frames' = frames
  BY DEF Decide, Decides
<1>4. Decides =>
        \E b \in BOOLEAN :
           /\ b = (Top.region.api = "MPI" /\ lexgion'[Top.region].bit)
           /\ frames' = [frames EXCEPT ![Len(frames)].begun = b]
  BY <1>2, <1>3
<1>5. pc' = IF Gpu(Top) THEN "decided"
            ELSE IF Tracing(Top.region) /\ Top.id = 0 THEN "crashed" ELSE "run"
  BY DEF Decide, Gpu
<1> QED
  BY <1>1, <1>3, <1>4, <1>5 DEF Decide

LEMMA DecideType ==
    ASSUME TypeInv, PlaceInv, Decide
    PROVE  TypeInv' /\ SameCalls
<1>1. /\ frames # <<>> /\ pc = "entered" /\ frames \in Seq(Frame)
      /\ Top.region \in Codes /\ LexgionsType
  BY DecideEffect, TopFrame DEF TypeInv, TypeOK
<1>2. /\ frames' \in Seq(Frame) /\ Len(frames') = Len(frames)
      /\ \A i \in DOMAIN frames :
           /\ frames'[i].region = frames[i].region /\ frames'[i].id = frames[i].id
           /\ frames'[i].missed = frames[i].missed
  <2>1. CASE Decides
    <3>1. PICK b \in BOOLEAN : frames' = [frames EXCEPT ![Len(frames)].begun = b]
      BY <2>1, DecideEffect
    <3> QED
      BY <1>1, <3>1, TopChanged
  <2>2. CASE ~Decides
    BY <1>1, <2>2, DecideEffect
  <2> QED
    BY <2>1, <2>2
<1>3. /\ lexgion' \in [Codes -> Lexgion]
      /\ \A c \in Codes : lexgion'[c].counter = lexgion[c].counter
  <2>1. CASE Decides
    <3>1. SetTraceBit(Top.region)
      BY <2>1, DecideEffect
    <3>2. PICK c \in Codes : c = Top.region
      BY <1>1
    <3>3. SetTraceBit(c)
      BY <3>1, <3>2
    <3>4. lexgion' \in [Codes -> Lexgion]
      BY <1>1, <3>3, SetTraceBitType
    <3>5. lexgion'[c].counter = lexgion[c].counter
          /\ \A d \in Codes \ {c} : lexgion'[d] = lexgion[d]
      BY <1>1, <3>3, SetTraceBitEffect
    <3> QED
      BY <3>4, <3>5
  <2>2. CASE ~Decides
    BY <1>1, <2>2, DecideEffect DEF LexgionsType
  <2> QED
    BY <2>1, <2>2
<1>4. UNCHANGED <<seen, stack, latchVars, modeVars, ending, ghostVars>>
  BY DecideEffect
<1>5. LexgionsType'
  BY <1>1, <1>3, <1>4 DEF LexgionsType, latchVars
<1>6. pc' \in {"run", "decided", "crashed"}
  BY DecideEffect
<1>7. TypeInv'
  <2>1. UNCHANGED <<ending, missed, vendor, mode, hostOn>>
    BY <1>4 DEF modeVars, ghostVars
  <2>2. mode' \in [Domains -> Modes] /\ hostOn' \in BOOLEAN
    BY <2>1 DEF TypeInv
  <2> QED
    BY <1>1, <1>2, <1>5, <1>6, <2>1, <2>2, FramesType
<1>8. SameCalls
  BY <1>1, <1>2, <1>3, <1>4, <1>6 DEF SameCalls, modeVars, ghostVars
<1> QED
  BY <1>7, <1>8

LEMMA BeginEventEffect ==
    ASSUME TypeInv, BeginEvent
    PROVE  /\ frames # <<>> /\ pc = "decided" /\ pc' = "run"
           /\ \E b \in BOOLEAN :
                /\ b = (Tracing(Top.region) /\ lexgion[Top.region].bit)
                /\ frames' = [frames EXCEPT ![Len(frames)].begun = b]
           /\ UNCHANGED <<lexgionVars, modeVars, ending, mpiCode, calls, deviceVars,
                          ghostVars>>
<1>1. (Tracing(Top.region) /\ lexgion[Top.region].bit) \in BOOLEAN
  BY Zenon
<1>2. frames' = [frames EXCEPT ![Len(frames)].begun =
                   Tracing(Top.region) /\ lexgion[Top.region].bit]
  BY DEF BeginEvent
<1>3. \E b \in BOOLEAN :
         /\ b = (Tracing(Top.region) /\ lexgion[Top.region].bit)
         /\ frames' = [frames EXCEPT ![Len(frames)].begun = b]
  BY <1>1, <1>2
<1> QED
  BY <1>3 DEF BeginEvent, TypeInv, TypeOK

LEMMA BeginEventType ==
    ASSUME TypeInv, BeginEvent
    PROVE  TypeInv' /\ SameCalls
<1>1. /\ frames # <<>> /\ pc = "decided" /\ pc' = "run"
      /\ UNCHANGED <<lexgionVars, modeVars, ending, mpiCode, ghostVars>>
  BY BeginEventEffect
<1>2. /\ frames' \in Seq(Frame) /\ Len(frames') = Len(frames)
      /\ \A i \in DOMAIN frames :
           /\ frames'[i].region = frames[i].region /\ frames'[i].id = frames[i].id
           /\ frames'[i].missed = frames[i].missed
  <2>1. PICK b \in BOOLEAN : frames' = [frames EXCEPT ![Len(frames)].begun = b]
    BY BeginEventEffect
  <2> QED
    BY <1>1, <2>1, TopChanged
<1>3. LexgionsType'
  BY <1>1 DEF TypeInv, LexgionsType, lexgionVars
<1>4. UNCHANGED <<ending, missed, vendor, mode, hostOn, lexgion, stack, excused>>
  BY <1>1 DEF modeVars, ghostVars, lexgionVars
<1>5. mode' \in [Domains -> Modes] /\ hostOn' \in BOOLEAN
  BY <1>4 DEF TypeInv
<1> QED
  BY <1>1, <1>2, <1>3, <1>4, <1>5, FramesType DEF SameCalls

LEMMA HipSetDeviceType ==
    ASSUME TypeInv, NEW d \in Devices, HipSetDevice(d)
    PROVE  TypeInv' /\ SameCalls
<1>1. UNCHANGED <<lexgionVars, modeVars, frames, pc, ending, mpiCode, ghostVars>>
  BY DEF HipSetDevice
<1> QED
  BY <1>1 DEF TypeInv, TypeOK, LexgionsType, SameCalls, Records, lexgionVars, modeVars,
     ghostVars

LEMMA SwitchModeType ==
    ASSUME TypeInv, NEW d \in Domains, NEW m \in Modes, SwitchMode(d, m)
    PROVE  TypeInv' /\ SameCalls
<1>1. /\ UNCHANGED <<lexgionVars, vendor, hostOn, pc, ending, mpiCode, ghostVars>>
      /\ mode' = [mode EXCEPT ![d] = m] /\ Disturb(d)
  BY DEF SwitchMode
<1>2. LexgionsType'
  BY <1>1 DEF TypeInv, LexgionsType, lexgionVars
<1>3. UNCHANGED <<lexgion, stack, excused, missed, vendor, hostOn, pc, ending>>
  BY <1>1 DEF lexgionVars, ghostVars
<1>4. mode' \in [Domains -> Modes] /\ hostOn' \in BOOLEAN
  BY <1>1, <1>3 DEF TypeInv
<1>5. pc \in {"run", "entered", "decided", "exited", "crashed"}
      /\ (pc \in {"entered", "decided", "exited"} => frames # <<>>)
  BY DEF TypeInv, TypeOK
<1> QED
  BY <1>1, <1>2, <1>3, <1>4, <1>5, DisturbEffect, FramesType DEF SameCalls

LEMMA ApplyModeType ==
    ASSUME TypeInv, ApplyMode
    PROVE  TypeInv' /\ SameCalls
<1>1. /\ UNCHANGED <<lexgionVars, vendor, mode, pc, ending, mpiCode, ghostVars>>
      /\ hostOn' = Active("GPU") /\ Disturb("GPU")
  BY DEF ApplyMode
<1>2. LexgionsType'
  BY <1>1 DEF TypeInv, LexgionsType, lexgionVars
<1>3. UNCHANGED <<lexgion, stack, excused, missed, vendor, mode, pc, ending>>
  BY <1>1 DEF lexgionVars, ghostVars
<1>4. mode' \in [Domains -> Modes] /\ hostOn' \in BOOLEAN
  BY <1>1, <1>3 DEF TypeInv, Active
<1>5. pc \in {"run", "entered", "decided", "exited", "crashed"}
      /\ (pc \in {"entered", "decided", "exited"} => frames # <<>>)
  BY DEF TypeInv, TypeOK
<1> QED
  BY <1>1, <1>2, <1>3, <1>4, <1>5, DisturbEffect, FramesType DEF SameCalls

LEMMA StutterType ==
    ASSUME TypeInv, UNCHANGED vars
    PROVE  TypeInv' /\ SameCalls
<1>1. /\ UNCHANGED <<seen, lexgion, stack, fired, generation, vendor, mode, hostOn,
                     frames, pc, ending, mpiCode, excused, missed>>
  BY DEF vars, lexgionVars, modeVars, callVars, ghostVars
<1> QED
  BY <1>1 DEF TypeInv, TypeOK, LexgionsType, SameCalls, Records

\* A call begins: its handler finds its record, and nothing is decided yet.
LEMMA EntersTop ==
    ASSUME TypeInv, TypeInv', PairInv, NEW r \in Codes, HostEnter(r) \/ MpiEnter(r)
    PROVE  TopInv' /\ PairInv'
<1> DEFINE n == Len(frames)
           active == IF r.api = "MPI" THEN Active("MPI") ELSE CalledBack
<1>1. /\ Enters(r, active) /\ active \in BOOLEAN
      /\ r.api # "MPI" => /\ CalledBack = active
                          /\ pc' = IF active /\ Recorded(r) THEN "entered" ELSE "run"
      /\ r.api = "MPI" => IF active THEN mpiCode' = r.address /\ pc' = "entered"
                          ELSE UNCHANGED pc
  <2>1. CASE HostEnter(r)
    <3>1. r.api # "MPI"
      BY <2>1, RegionTypes DEF HostEnter, TypeInv
    <3>2. CalledBack \in BOOLEAN
      BY DEF CalledBack, TypeInv, Active
    <3> QED
      BY <2>1, <3>1, <3>2 DEF HostEnter
  <2>2. CASE MpiEnter(r)
    BY <2>2 DEF MpiEnter, Active
  <2> QED
    BY <2>1, <2>2
<1> HIDE DEF active
<1>2. /\ frames \in Seq(Frame) /\ DOMAIN frames = 1 .. n /\ n \in 0 .. 2
      /\ stack \in Seq(Record) /\ DOMAIN stack = 1 .. Len(stack) /\ Len(stack) \in Nat
      /\ \A i \in DOMAIN frames : frames[i].region \in Codes
  BY Elements
<1>3. PICK f \in Frame :
        /\ frames' = Append(frames, f)
        /\ f.region = r /\ ~f.begun /\ ~f.disturbed
        /\ IF active /\ Recorded(r)
           THEN /\ f.id = lexgion[r].counter + 1 /\ f.id > 0 /\ ~f.missed
                /\ stack' = Append(stack, RecordOf(f))
                /\ lexgion'[r].counter = f.id
           ELSE /\ f.id = 0 /\ stack' = stack
                /\ f.missed = (AtAddress(r.address) # {})
        /\ missed' = (missed \/ f.missed)
        /\ \A d \in Codes : /\ lexgion'[d].counter >= lexgion[d].counter
                            /\ lexgion'[d].traces = lexgion[d].traces
                            /\ lexgion'[d].bit = lexgion[d].bit
  BY <1>1, EntersEffect
<1>4. /\ Len(frames') = n + 1 /\ DOMAIN frames' = 1 .. n + 1
      /\ \A i \in 1 .. n : frames'[i] = frames[i]
      /\ frames'[n + 1] = f
  BY <1>2, <1>3, Pushed
<1>5. Top' = f
  BY <1>4 DEF Top
<1>6. pc = "run" /\ UNCHANGED <<mode, hostOn>>
  BY <1>1 DEF Enters, MayCall, modeVars
<1>7. CalledBack' = CalledBack /\ \A c \in Codes : Tracing(c)' = Tracing(c)
  BY <1>6 DEF CalledBack, Active, Tracing
<1>8. f.id > 0 <=> active /\ Recorded(r)
  BY <1>3
<1>9. f.id > 0 => stack' # <<>> /\ stack'[Len(stack')] = RecordOf(f)
  <2>1. RecordOf(f) \in Record
    BY DEF RecordOf, Record, Frame
  <2>2. /\ Append(stack, RecordOf(f)) \in Seq(Record)
        /\ Len(Append(stack, RecordOf(f))) = Len(stack) + 1
        /\ Append(stack, RecordOf(f))[Len(stack) + 1] = RecordOf(f)
    BY <1>2, <2>1, Pushed
  <2>3. Append(stack, RecordOf(f)) # <<>>
    BY <1>2, <2>2, EmptySeq
  <2> QED
    BY <1>3, <1>8, <2>2, <2>3
<1>10. TopInv'
  <2>1. Gpu(f) <=> r.api # "MPI"
    BY <1>3 DEF Gpu
  <2>2. Gpu(f) /\ f.id > 0 => CalledBack'
    BY <1>1, <1>7, <1>8, <2>1
  <2>3. ASSUME Gpu(f), f.id = 0, ~f.missed PROVE AtAddress(f.region.address)' = {}
    <3>1. ~(active /\ Recorded(r)) /\ f.region = r
      BY <1>3, <1>8, <2>3
    <3>2. stack' = stack /\ AtAddress(r.address) = {}
      BY <1>3, <2>3, <3>1
    <3> QED
      BY <3>1, <3>2 DEF AtAddress
  <2>4. ~Gpu(f) /\ f.id > 0 => mpiCode' = f.region.address
    BY <1>1, <1>3, <1>8, <2>1
  <2>5. pc' # "decided" /\ (pc' = "entered" /\ Gpu(f) => f.id > 0)
    BY <1>1, <1>6, <1>8, <2>1
  <2> QED
    BY <1>5, <1>9, <2>2, <2>3, <2>4, <2>5 DEF TopInv, Gpu
<1>11. PairInv'
  <2>1. ASSUME NEW i \in 1 .. n
        PROVE  /\ frames'[i].begun => frames'[i].id > 0
               /\ ~frames'[i].disturbed /\ frames'[i].id > 0
                  => frames'[i].begun =
                       (Tracing(frames[i].region)' /\ lexgion'[frames'[i].region].bit)
               /\ Settled(i)'
    <3>1. Settled(i) /\ Settled(i)'
      BY <1>2, <1>4, <1>6 DEF Settled
    <3>2. frames'[i] = frames[i]
      BY <1>4
    <3>3. PICK c \in Codes : c = frames[i].region
      BY <1>2
    <3>4. Tracing(c)' = Tracing(c) /\ lexgion'[c].bit = lexgion[c].bit
      BY <1>3, <1>7
    <3>5. Tracing(frames[i].region)' = Tracing(frames[i].region)
      BY <1>6, <3>2 DEF Tracing
    <3>6. /\ frames[i].begun => frames[i].id > 0
          /\ ~frames[i].disturbed /\ frames[i].id > 0
             => frames[i].begun = (Tracing(frames[i].region) /\ lexgion[frames[i].region].bit)
      BY <1>2, <3>1 DEF PairInv
    <3> QED
      BY <3>1, <3>2, <3>3, <3>4, <3>5, <3>6
  <2>2. ASSUME NEW i \in DOMAIN frames', i = n + 1
        PROVE  ~frames'[i].begun /\ (Settled(i)' => frames'[i].id = 0)
    <3>1. Settled(i)' => pc' = "run"
      <4>1. ~(i < Len(frames'))
        BY <1>2, <1>4, <2>2
      <4>2. pc' # "exited"
        BY <1>1, <1>6
      <4> QED
        BY <4>1, <4>2 DEF Settled
    <3>2. pc' = "run" => ~(active /\ Recorded(r))
      BY <1>1
    <3> QED
      BY <1>3, <1>4, <2>2, <3>1, <3>2
  <2>3. \A i \in DOMAIN frames' : i \in 1 .. n \/ i = n + 1
    BY <1>2, <1>4
  <2> SUFFICES ASSUME NEW i \in DOMAIN frames'
               PROVE  /\ frames'[i].begun => frames'[i].id > 0
                      /\ ~frames'[i].disturbed /\ Settled(i)' /\ frames'[i].id > 0
                         => frames'[i].begun =
                              (Tracing(frames[i].region)' /\ lexgion'[frames'[i].region].bit)
                      /\ ~Settled(i)' => ~frames'[i].begun
    BY DEF PairInv
  <2>4. CASE i \in 1 .. n
    BY <2>1, <2>4
  <2>5. CASE i = n + 1
    <3>1. ~frames'[i].begun
      BY <2>2, <2>5
    <3>2. ~(Settled(i)' /\ frames'[i].id > 0)
      BY <2>2, <2>5
    <3>3. frames'[i].id \in Nat
      BY <1>3, <1>4, <2>5 DEF Frame
    <3> QED
      BY <3>1, <3>2, <3>3
  <2> QED
    BY <2>3, <2>4, <2>5
<1> QED
  BY <1>10, <1>11

\* A call is over, or its record is: its caller is an MPI call, whose begin
\* event was decided before.
LEMMA OverPaired ==
    ASSUME TypeInv, TypeInv', PlaceInv, PairInv, frames # <<>>,
           \/ frames' = Callers /\ pc' = "run"
           \/ frames' = frames /\ pc = "run" /\ pc' = "exited",
           mode' = mode, \A c \in Codes : lexgion'[c].bit = lexgion[c].bit
    PROVE  TopInv' /\ PairInv'
<1> DEFINE n == Len(frames)
<1>1. /\ n \in {1, 2} /\ DOMAIN frames = 1 .. n /\ frames[n] = Top
      /\ Callers \in Seq(Frame) /\ Len(Callers) = n - 1 /\ DOMAIN Callers = 1 .. n - 1
      /\ \A i \in 1 .. n - 1 : Callers[i] = frames[i]
      /\ \A i \in DOMAIN frames : frames[i].region \in Codes
  BY TopFrame, Elements DEF Top
<1>2. \A i \in DOMAIN frames' : /\ i \in DOMAIN frames /\ frames'[i] = frames[i]
                                /\ Settled(i) /\ Settled(i)'
  <2>1. CASE frames' = Callers /\ pc' = "run"
    BY <1>1, <2>1 DEF Settled
  <2>2. CASE frames' = frames /\ pc = "run" /\ pc' = "exited"
    BY <2>2 DEF Settled
  <2> QED
    BY <2>1, <2>2
<1>3. PairInv'
  <2> SUFFICES ASSUME NEW i \in DOMAIN frames'
               PROVE  /\ frames'[i].begun => frames'[i].id > 0
                      /\ ~frames'[i].disturbed /\ frames'[i].id > 0
                         => frames'[i].begun =
                              (Tracing(frames[i].region)' /\ lexgion'[frames'[i].region].bit)
    BY <1>2 DEF PairInv
  <2>1. PICK c \in Codes : c = frames[i].region
    BY <1>1, <1>2
  <2>2. lexgion'[c].bit = lexgion[c].bit
    OBVIOUS
  <2>3. Tracing(frames[i].region)' = Tracing(frames[i].region)
    BY <1>2 DEF Tracing
  <2>4. /\ frames[i].begun => frames[i].id > 0
        /\ ~frames[i].disturbed /\ frames[i].id > 0
           => frames[i].begun = (Tracing(frames[i].region) /\ lexgion[frames[i].region].bit)
    BY <1>2 DEF PairInv
  <2> QED
    BY <1>2, <2>1, <2>2, <2>3, <2>4
<1>4. TopInv'
  <2>1. CASE frames' = Callers /\ pc' = "run"
    <3>1. frames' # <<>> => n = 2 /\ Top' = frames[1]
      <4>1. n = 1 => frames' = <<>>
        BY <1>1, <2>1, EmptySeq
      <4>2. n = 2 => Callers[Len(Callers)] = frames[1]
        BY <1>1
      <4> QED
        BY <1>1, <2>1, <4>1, <4>2 DEF Top
    <3>2. Len(frames') # 2
      BY <1>1, <2>1
    <3>3. frames' # <<>> => ~Gpu(Top')
      BY <3>1 DEF PlaceInv, Shape, Gpu
    <3> QED
      BY <2>1, <3>2, <3>3 DEF TopInv, Gpu
  <2>2. CASE pc' = "exited"
    BY <2>2 DEF TopInv
  <2> QED
    BY <2>1, <2>2
<1> QED
  BY <1>3, <1>4

\* A change of mode: the calls whose decision it may undo are marked.
LEMMA DisturbPaired ==
    ASSUME TypeInv, TypeInv', TopInv, PairInv, NEW d \in Domains, Disturb(d),
           \A e \in Domains \ {d} : mode'[e] = mode[e],
           d # "GPU" => hostOn' = hostOn,
           UNCHANGED <<lexgion, stack, pc, mpiCode>>
    PROVE  TopInv' /\ PairInv'
<1> DEFINE n == Len(frames)
<1>1. /\ Len(frames') = n /\ DOMAIN frames = 1 .. n /\ DOMAIN frames' = 1 .. n
      /\ frames \in Seq(Frame) /\ frames' \in Seq(Frame)
      /\ \A i \in DOMAIN frames :
           /\ frames'[i].region = frames[i].region /\ frames'[i].id = frames[i].id
           /\ frames'[i].missed = frames[i].missed /\ frames'[i].begun = frames[i].begun
           /\ frames'[i].disturbed = (frames[i].disturbed \/ DomainOf(frames[i].region) = d)
  BY DisturbEffect, Elements, LenProperties
<1>2. \A c : DomainOf(c) \in Domains
  BY DEF DomainOf, Domains
<1>3. \A c : DomainOf(c) # d => Tracing(c)' = Tracing(c)
  BY <1>2 DEF Tracing
<1>4. d # "GPU" => CalledBack' = CalledBack
  BY DEF CalledBack, Active, Domains
<1>5. frames' # <<>> => frames # <<>>
  BY <1>1, EmptySeq
<1>6. ASSUME frames # <<>>
      PROVE  /\ Top'.region = Top.region /\ Top'.id = Top.id /\ Top'.missed = Top.missed
             /\ Top'.disturbed = (Top.disturbed \/ DomainOf(Top.region) = d)
  <2>1. n \in DOMAIN frames /\ frames[n] = Top /\ frames'[n] = Top'
    BY <1>1, <1>6, TopFrame DEF Top
  <2> QED
    BY <1>1, <2>1
<1>7. TopInv'
  <2> SUFFICES ASSUME frames' # <<>>, pc' # "exited"
               PROVE  /\ Gpu(Top') /\ Top'.id > 0 => stack # <<>> /\ stack[Len(stack)] = RecordOf(Top')
                      /\ Gpu(Top') /\ Top'.id > 0 /\ ~Top'.disturbed => CalledBack'
                      /\ Gpu(Top') /\ Top'.id = 0 /\ ~Top'.missed
                         => AtAddress(Top'.region.address) = {}
                      /\ ~Gpu(Top') /\ Top'.id > 0 /\ n = 2 => mpiCode = Top'.region.address
                      /\ pc = "decided" => Top'.id > 0
                      /\ pc = "entered" /\ Gpu(Top') => Top'.id > 0
    BY <1>1 DEF TopInv, Gpu, RecordOf, AtAddress
  <2>1. RecordOf(Top') = RecordOf(Top) /\ (Gpu(Top') <=> Gpu(Top))
    BY <1>5, <1>6 DEF RecordOf, Gpu
  <2>2. Gpu(Top) => DomainOf(Top.region) = "GPU"
    BY DEF Gpu, DomainOf
  <2> QED
    BY <1>4, <1>5, <1>6, <2>1, <2>2 DEF TopInv
<1>8. PairInv'
  <2> SUFFICES ASSUME NEW i \in DOMAIN frames
               PROVE  /\ frames'[i].begun => frames'[i].id > 0
                      /\ ~frames'[i].disturbed /\ Settled(i)' /\ frames'[i].id > 0
                         => frames'[i].begun =
                              (Tracing(frames[i].region)' /\ lexgion'[frames'[i].region].bit)
                      /\ ~Settled(i)' => ~frames'[i].begun
    BY <1>1 DEF PairInv
  <2>1. Settled(i)' = Settled(i)
    BY <1>1 DEF Settled
  <2>2. Tracing(frames[i].region)' = (mode'[DomainOf(frames[i].region)] = "TRACING")
    BY <1>1 DEF Tracing
  <2>3. ~frames'[i].disturbed => /\ Tracing(frames[i].region)' = Tracing(frames[i].region)
                                 /\ ~frames[i].disturbed
    BY <1>1, <1>2, <2>2 DEF Tracing
  <2> QED
    BY <1>1, <2>1, <2>2, <2>3 DEF PairInv
<1> QED
  BY <1>7, <1>8

LEMMA DecidePaired ==
    ASSUME TypeInv, TypeInv', PlaceInv, TopInv, PairInv, Decide
    PROVE  TopInv' /\ PairInv'
<1> DEFINE n == Len(frames)
<1>1. /\ frames # <<>> /\ pc = "entered" /\ SameCalls
      /\ UNCHANGED <<stack, mode, hostOn, mpiCode>>
      /\ pc' = IF Gpu(Top) THEN "decided"
               ELSE IF Tracing(Top.region) /\ Top.id = 0 THEN "crashed" ELSE "run"
  BY DecideEffect, DecideType DEF modeVars
<1>2. /\ n \in {1, 2} /\ DOMAIN frames = 1 .. n /\ n \in DOMAIN frames /\ frames[n] = Top
      /\ Top \in Frame /\ Top.id \in Nat /\ Top.region \in Codes /\ LexgionsType
      /\ \A i \in DOMAIN frames : frames[i].region \in Codes
  BY <1>1, TopFrame, Elements DEF Top, TypeInv
<1>3. Len(frames') = n /\ DOMAIN frames' = 1 .. n
  <2>1. frames' \in Seq(Frame) /\ Len(frames') = n
    BY <1>1 DEF TypeInv, TypeOK, SameCalls
  <2> QED
    BY <2>1, LenProperties
<1>4. PICK b \in BOOLEAN :
        /\ Decides => b = (~Gpu(Top) /\ lexgion'[Top.region].bit)
        /\ ~Decides => b = Top.begun
        /\ frames' = [frames EXCEPT ![n].begun = b]
  <2>1. CASE Decides
    BY <2>1, DecideEffect DEF Gpu
  <2>2. CASE ~Decides
    <3>1. frames' = frames
      BY <2>2, DecideEffect
    <3>2. Top.begun \in BOOLEAN
      BY <1>2 DEF Frame
    <3>3. [frames[n] EXCEPT !.begun = Top.begun] = frames[n]
      BY <1>2 DEF Frame
    <3>4. frames = [frames EXCEPT ![n].begun = Top.begun]
      <4>1. frames \in Seq(Frame) /\ frames \in [1 .. n -> Frame]
        <5>1. frames \in Seq(Frame)
          BY DEF TypeInv, TypeOK
        <5> QED
          BY <1>2, <5>1, LenProperties
      <4> QED
        BY <1>2, <3>3, <4>1
    <3> QED
      BY <2>2, <3>1, <3>2, <3>4
  <2> QED
    BY <2>1, <2>2
<1>5. \A i \in DOMAIN frames :
        /\ frames'[i].region = frames[i].region /\ frames'[i].id = frames[i].id
        /\ frames'[i].disturbed = frames[i].disturbed
        /\ frames'[i].missed = frames[i].missed
        /\ frames'[i].begun = IF i = n THEN b ELSE frames[i].begun
  BY <1>1, <1>4, TopChanged
<1>6. \A i \in DOMAIN frames : i < n => lexgion'[frames[i].region].bit = lexgion[frames[i].region].bit
  <2> SUFFICES ASSUME NEW i \in DOMAIN frames, i < n
               PROVE  lexgion'[frames[i].region] = lexgion[frames[i].region]
    OBVIOUS
  <2>1. i = 1 /\ n = 2
    BY <1>2
  <2>2. frames[i].region # Top.region
    BY <1>2, <2>1 DEF PlaceInv, Shape
  <2>3. CASE Decides
    <3>1. SetTraceBit(Top.region)
      BY <2>3, DecideEffect
    <3>2. PICK c \in Codes : c = Top.region
      BY <1>2
    <3>3. \A d \in Codes \ {c} : lexgion'[d] = lexgion[d]
      BY <1>2, <3>1, <3>2, SetTraceBitEffect
    <3> QED
      BY <1>2, <2>2, <3>2, <3>3
  <2>4. CASE ~Decides
    BY <2>4, DecideEffect
  <2> QED
    BY <2>3, <2>4
<1>7. \A c : Tracing(c)' = Tracing(c)
  BY <1>1 DEF Tracing
<1>8. CalledBack' = CalledBack
  BY <1>1 DEF CalledBack, Active
<1>9. lexgion'[Top.region].bit \in BOOLEAN
  BY <1>2 DEF TypeInv, LexgionsType, Lexgion
<1>10. ~Settled(n) /\ ~Top.begun
  <2>1. ~Settled(n)
    BY <1>1, <1>2 DEF Settled
  <2> QED
    BY <1>2, <2>1 DEF PairInv
<1>11. PairInv'
  <2> SUFFICES ASSUME NEW i \in DOMAIN frames
               PROVE  /\ frames'[i].begun => frames'[i].id > 0
                      /\ ~frames'[i].disturbed /\ Settled(i)' /\ frames'[i].id > 0
                         => frames'[i].begun =
                              (Tracing(frames[i].region)' /\ lexgion'[frames'[i].region].bit)
                      /\ ~Settled(i)' => ~frames'[i].begun
    BY <1>2, <1>3 DEF PairInv
  <2>1. Tracing(frames[i].region)' = Tracing(frames[i].region)
    BY <1>1, <1>5 DEF Tracing
  <2>2. CASE i < n
    <3>1. Settled(i) /\ Settled(i)'
      BY <1>3, <2>2 DEF Settled
    <3>2. /\ frames[i].begun => frames[i].id > 0
          /\ ~frames[i].disturbed /\ frames[i].id > 0
             => frames[i].begun = (Tracing(frames[i].region) /\ lexgion[frames[i].region].bit)
      BY <3>1 DEF PairInv
    <3>3. i # n
      BY <1>2, <2>2
    <3> QED
      BY <1>5, <1>6, <2>1, <2>2, <3>1, <3>2, <3>3
  <2>3. CASE i = n
    <3>1. /\ frames[i] = Top /\ frames'[i].begun = b /\ frames'[i].id = Top.id
          /\ frames'[i].region = Top.region
      BY <1>2, <1>5, <2>3
    <3>2. Settled(i)' <=> pc' = "run"
      BY <1>1, <1>2, <1>3, <2>3 DEF Settled
    <3>3. Tracing(Top.region) /\ Top.id # 0 => b = (~Gpu(Top) /\ lexgion'[Top.region].bit)
      BY <1>4 DEF Decides
    <3>4. ~(Tracing(Top.region) /\ Top.id # 0) => ~b
      BY <1>4, <1>10 DEF Decides
    <3>5. Top.id # 0 => Top.id > 0
      BY <1>2
    <3>6. b => Top.id > 0
      BY <3>4, <3>5
    <3>7. pc' = "run" /\ Top.id > 0 => b = (Tracing(Top.region) /\ lexgion'[Top.region].bit)
      BY <1>1, <1>2, <1>9, <3>3, <3>4
    <3>8. pc' # "run" => ~b
      BY <1>1, <3>3, <3>4
    <3> QED
      BY <2>1, <3>1, <3>2, <3>6, <3>7, <3>8
  <2> QED
    BY <1>2, <2>2, <2>3
<1>12. TopInv'
  <2>1. /\ Top'.region = Top.region /\ Top'.id = Top.id /\ Top'.missed = Top.missed
        /\ Top'.disturbed = Top.disturbed
    BY <1>2, <1>3, <1>5 DEF Top
  <2>2. pc' # "entered" /\ (pc' = "decided" => Gpu(Top))
    BY <1>1
  <2>3. RecordOf(Top') = RecordOf(Top) /\ (Gpu(Top') <=> Gpu(Top))
    BY <2>1 DEF RecordOf, Gpu
  <2> SUFFICES ASSUME frames' # <<>>, pc' # "exited"
               PROVE  /\ Gpu(Top') /\ Top'.id > 0 => stack # <<>> /\ stack[Len(stack)] = RecordOf(Top')
                      /\ Gpu(Top') /\ Top'.id > 0 /\ ~Top'.disturbed => CalledBack'
                      /\ Gpu(Top') /\ Top'.id = 0 /\ ~Top'.missed
                         => AtAddress(Top'.region.address) = {}
                      /\ ~Gpu(Top') /\ Top'.id > 0 /\ n = 2 => mpiCode = Top'.region.address
                      /\ pc' = "decided" => Top'.id > 0
    BY <1>1, <1>3, <2>2 DEF TopInv, Gpu, RecordOf, AtAddress
  <2> QED
    BY <1>1, <1>8, <2>1, <2>2, <2>3 DEF TopInv
<1> QED
  BY <1>11, <1>12

LEMMA BeginEventPaired ==
    ASSUME TypeInv, TypeInv', PlaceInv, TopInv, PairInv, BeginEvent
    PROVE  TopInv' /\ PairInv'
<1> DEFINE n == Len(frames)
<1>1. /\ frames # <<>> /\ pc = "decided" /\ pc' = "run" /\ SameCalls
      /\ UNCHANGED <<stack, mode, hostOn, mpiCode, lexgion>>
  BY BeginEventEffect, BeginEventType DEF modeVars, lexgionVars
<1>2. /\ n \in {1, 2} /\ DOMAIN frames = 1 .. n /\ n \in DOMAIN frames /\ frames[n] = Top
  BY <1>1, TopFrame DEF Top
<1>3. Len(frames') = n /\ DOMAIN frames' = 1 .. n
  <2>1. frames' \in Seq(Frame) /\ Len(frames') = n
    BY <1>1 DEF TypeInv, TypeOK, SameCalls
  <2> QED
    BY <2>1, LenProperties
<1>4. PICK b \in BOOLEAN :
        /\ b = (Tracing(Top.region) /\ lexgion[Top.region].bit)
        /\ frames' = [frames EXCEPT ![n].begun = b]
  BY BeginEventEffect
<1>5. \A i \in DOMAIN frames :
        /\ frames'[i].region = frames[i].region /\ frames'[i].id = frames[i].id
        /\ frames'[i].disturbed = frames[i].disturbed
        /\ frames'[i].missed = frames[i].missed
        /\ frames'[i].begun = IF i = n THEN b ELSE frames[i].begun
  BY <1>1, <1>4, TopChanged
<1>6. CalledBack' = CalledBack /\ Top.id > 0
  BY <1>1 DEF CalledBack, Active, TopInv
<1>7. PairInv'
  <2> SUFFICES ASSUME NEW i \in DOMAIN frames
               PROVE  /\ frames'[i].begun => frames'[i].id > 0
                      /\ ~frames'[i].disturbed /\ frames'[i].id > 0
                         => frames'[i].begun =
                              (Tracing(frames[i].region)' /\ lexgion'[frames'[i].region].bit)
                      /\ Settled(i)'
    BY <1>2, <1>3 DEF PairInv
  <2>1. Tracing(frames[i].region)' = Tracing(frames[i].region)
    BY <1>1, <1>5 DEF Tracing
  <2>2. Settled(i)'
    BY <1>1 DEF Settled
  <2>3. CASE i < n
    <3>1. Settled(i) /\ i # n
      BY <1>2, <2>3 DEF Settled
    <3>2. /\ frames[i].begun => frames[i].id > 0
          /\ ~frames[i].disturbed /\ frames[i].id > 0
             => frames[i].begun = (Tracing(frames[i].region) /\ lexgion[frames[i].region].bit)
      BY <3>1 DEF PairInv
    <3> QED
      BY <1>1, <1>5, <2>1, <2>2, <3>1, <3>2
  <2>4. CASE i = n
    <3>1. frames'[i].begun = b /\ frames'[i].id = Top.id /\ frames'[i].region = Top.region
          /\ frames[i].region = Top.region
      BY <1>2, <1>5, <2>4
    <3> QED
      BY <1>1, <1>4, <1>6, <2>1, <2>2, <3>1
  <2> QED
    BY <1>2, <2>3, <2>4
<1>8. TopInv'
  <2>1. /\ Top'.region = Top.region /\ Top'.id = Top.id /\ Top'.missed = Top.missed
        /\ Top'.disturbed = Top.disturbed
    BY <1>2, <1>3, <1>5 DEF Top
  <2>2. RecordOf(Top') = RecordOf(Top) /\ (Gpu(Top') <=> Gpu(Top))
    BY <2>1 DEF RecordOf, Gpu
  <2> SUFFICES ASSUME frames' # <<>>
               PROVE  /\ Gpu(Top') /\ Top'.id > 0 => stack # <<>> /\ stack[Len(stack)] = RecordOf(Top')
                      /\ Gpu(Top') /\ Top'.id > 0 /\ ~Top'.disturbed => CalledBack'
                      /\ Gpu(Top') /\ Top'.id = 0 /\ ~Top'.missed
                         => AtAddress(Top'.region.address) = {}
                      /\ ~Gpu(Top') /\ Top'.id > 0 /\ n = 2 => mpiCode = Top'.region.address
    BY <1>1, <1>3 DEF TopInv, Gpu, RecordOf, AtAddress
  <2> QED
    BY <1>1, <1>6, <2>1, <2>2 DEF TopInv
<1> QED
  BY <1>7, <1>8

LEMMA UntouchedPaired ==
    ASSUME TopInv, PairInv,
           UNCHANGED <<lexgion, stack, mode, hostOn, frames, pc, mpiCode>>
    PROVE  TopInv' /\ PairInv'
BY DEF TopInv, PairInv, Settled, Tracing, CalledBack, Active, AtAddress, Top

\* Every step keeps the invariant.
LEMMA NextInv == IInv /\ [Next]_vars => IInv'
<1> SUFFICES ASSUME IInv, [Next]_vars PROVE IInv'
  OBVIOUS
<1>1. TypeInv /\ PlaceInv /\ TopInv /\ PairInv
  BY DEF IInv
<1>2. ASSUME NEW r \in Codes, HostEnter(r) PROVE IInv'
  <2>1. /\ CalledBack \in BOOLEAN /\ Enters(r, CalledBack) /\ r.api = vendor
        /\ pc' \in {"run", "entered"}
    BY <1>1, <1>2 DEF HostEnter, CalledBack, TypeInv, Active
  <2>2. TypeInv'
    BY <1>1, <2>1, EntersType
  <2>3. PlaceInv'
    BY <1>1, <2>1, <2>2, EntersPlaced
  <2> QED
    BY <1>1, <1>2, <2>2, <2>3, EntersTop DEF IInv
<1>3. ASSUME NEW r \in Codes, MpiEnter(r) PROVE IInv'
  <2>1. /\ Active("MPI") \in BOOLEAN /\ Enters(r, Active("MPI")) /\ r.api = "MPI"
        /\ pc' \in {"run", "entered"}
    BY <1>3 DEF MpiEnter, Active, Enters, MayCall
  <2>2. TypeInv'
    BY <1>1, <2>1, EntersType
  <2>3. PlaceInv'
    BY <1>1, <2>1, <2>2, EntersPlaced
  <2> QED
    BY <1>1, <1>3, <2>2, <2>3, EntersTop DEF IInv
<1>4. CASE Decide
  BY <1>1, <1>4, DecideType, SameCallsPlaced, DecidePaired DEF IInv
<1>5. CASE BeginEvent
  BY <1>1, <1>5, BeginEventType, SameCallsPlaced, BeginEventPaired DEF IInv
<1>6. CASE HostExit
  <2>1. TypeInv' /\ PlaceInv'
    BY <1>1, <1>6, HostExitType, HostExitPlaced
  <2>2. frames # <<>> /\ pc = "run" /\ UNCHANGED <<mode, lexgion>>
    BY <1>6 DEF HostExit, modeVars
  <2>3. \/ frames' = Callers /\ pc' = "run"
        \/ frames' = frames /\ pc = "run" /\ pc' = "exited"
    BY <1>6, <2>2 DEF HostExit
  <2> QED
    BY <1>1, <2>1, <2>2, <2>3, OverPaired DEF IInv
<1>7. CASE MpiExit
  <2>1. TypeInv' /\ PlaceInv'
    BY <1>1, <1>7, MpiExitType, MpiExitPlaced
  <2>2. frames # <<>> /\ pc = "run" /\ UNCHANGED <<mode, lexgion>>
    BY <1>7 DEF MpiExit, modeVars
  <2>3. \/ frames' = Callers /\ pc' = "run"
        \/ frames' = frames /\ pc = "run" /\ pc' = "exited"
    BY <1>7, <2>2 DEF MpiExit
  <2> QED
    BY <1>1, <2>1, <2>2, <2>3, OverPaired DEF IInv
<1>8. CASE EndEvent
  <2>1. TypeInv' /\ PlaceInv'
    BY <1>1, <1>8, EndEventType, EndEventPlaced
  <2>2. /\ frames # <<>> /\ frames' = Callers /\ pc' = "run" /\ mode' = mode
        /\ ending \in Codes /\ LexgionsType
        /\ PostTraceUpdate(ending) \/ lexgion' = lexgion
    BY <1>1, <1>8 DEF EndEvent, modeVars, TypeInv, TypeOK
  <2>3. \A c \in Codes : lexgion'[c].bit = lexgion[c].bit
    <3>1. CASE lexgion' = lexgion
      BY <3>1
    <3>2. CASE PostTraceUpdate(ending)
      BY <2>2, <3>2, PostTraceEffect
    <3> QED
      BY <2>2, <3>1, <3>2
  <2> QED
    BY <1>1, <2>1, <2>2, <2>3, OverPaired DEF IInv
<1>9. ASSUME NEW d \in Devices, HipSetDevice(d) PROVE IInv'
  <2>1. UNCHANGED <<lexgion, stack, mode, hostOn, frames, pc, mpiCode>>
    BY <1>9 DEF HipSetDevice, lexgionVars, modeVars
  <2> QED
    BY <1>1, <1>9, <2>1, HipSetDeviceType, SameCallsPlaced, UntouchedPaired DEF IInv
<1>10. ASSUME NEW d \in Domains, NEW m \in Modes, SwitchMode(d, m) PROVE IInv'
  <2>1. TypeInv' /\ PlaceInv'
    BY <1>1, <1>10, SwitchModeType, SameCallsPlaced
  <2>2. /\ Disturb(d) /\ mode' = [mode EXCEPT ![d] = m] /\ hostOn' = hostOn
        /\ UNCHANGED <<lexgion, stack, pc, mpiCode>>
    BY <1>10 DEF SwitchMode, lexgionVars
  <2>3. \A e \in Domains \ {d} : mode'[e] = mode[e]
    BY <1>1, <2>2 DEF TypeInv
  <2> QED
    BY <1>1, <2>1, <2>2, <2>3, DisturbPaired DEF IInv
<1>11. CASE ApplyMode
  <2>1. TypeInv' /\ PlaceInv'
    BY <1>1, <1>11, ApplyModeType, SameCallsPlaced
  <2>2. /\ Disturb("GPU") /\ mode' = mode /\ "GPU" \in Domains
        /\ UNCHANGED <<lexgion, stack, pc, mpiCode>>
    BY <1>11 DEF ApplyMode, lexgionVars, Domains
  <2> QED
    BY <1>1, <2>1, <2>2, DisturbPaired DEF IInv
<1>12. CASE UNCHANGED vars
  <2>1. UNCHANGED <<lexgion, stack, mode, hostOn, frames, pc, mpiCode>>
    BY <1>12 DEF vars, lexgionVars, modeVars, callVars
  <2> QED
    BY <1>1, <1>12, <2>1, StutterType, SameCallsPlaced, UntouchedPaired DEF IInv
<1> QED
  BY <1>2, <1>3, <1>4, <1>5, <1>6, <1>7, <1>8, <1>9, <1>10, <1>11, <1>12 DEF Next, Done

LEMMA Invariant == Spec => []IInv
<1> QED
  BY InitInv, NextInv, PTL DEF Spec

-----------------------------------------------------------------------------
(***************************************************************************)
(* The theorems.                                                           *)
(***************************************************************************)
\* The thread's table, its stack and the calls in progress stay within their
\* types and bounds.
THEOREM HostTypeCorrect == Spec => []TypeOK
<1>1. IInv => TypeOK
  BY DEF IInv, TypeInv
<1> QED
  BY <1>1, Invariant, PTL

\* No record outlives its call, but for those of calls whose EXIT callback did
\* not come or whose mpi_codeptr was overwritten.
THEOREM RecordsBalanceAlways == Spec => []RecordsBalance
<1>1. IInv => RecordsBalance
  BY RunningIs DEF IInv, PlaceInv
<1> QED
  BY <1>1, Invariant, PTL

\* A call in progress keeps its record, unless a call inside one missed.
THEOREM EnclosingKeptAlways == Spec => []EnclosingKept
<1>1. IInv => EnclosingKept
  BY RunningIs DEF IInv, PlaceInv
<1> QED
  BY <1>1, Invariant, PTL

\* What a call that is over has recorded, step by step.
EndPairs ==
    Len(frames') < Len(frames) /\ ~Top.disturbed /\ ~Top.missed
    => /\ lexgion'[Top.region].traces =
             lexgion[Top.region].traces + (IF Top.begun THEN 1 ELSE 0)
       /\ \A c \in Codes \ {Top.region} : lexgion'[c].traces = lexgion[c].traces

\* A call that begun nothing and counts nothing.
LEMMA NothingCounted ==
    ASSUME TypeInv, frames # <<>>, ~Top.begun, lexgion' = lexgion
    PROVE  EndPairs
<1>1. Top.region \in Codes
  BY TopFrame
<1>2. lexgion[Top.region].traces \in Nat
  BY <1>1 DEF TypeInv, LexgionsType, Lexgion
<1>3. lexgion[Top.region].traces + 0 = lexgion[Top.region].traces
  BY <1>2
<1> QED
  BY <1>3 DEF EndPairs

LEMMA EndsPair == IInv /\ [Next]_vars => EndPairs
<1> SUFFICES ASSUME IInv, [Next]_vars, Len(frames') < Len(frames), ~Top.disturbed, ~Top.missed
             PROVE  EndPairs
  BY DEF EndPairs
<1>1. /\ TypeInv /\ PlaceInv /\ TopInv /\ PairInv
      /\ frames \in Seq(Frame) /\ Len(frames) \in 0 .. 2
  BY Elements DEF IInv
<1>2. ASSUME NEW r \in Codes, NEW active \in BOOLEAN, Enters(r, active) PROVE FALSE
  <2>1. PICK f \in Frame : frames' = Append(frames, f)
    BY <1>1, <1>2, EntersEffect
  <2>2. Len(frames') = Len(frames) + 1
    BY <1>1, <2>1, Pushed
  <2> QED
    BY <1>1, <2>2
<1>3. ASSUME NEW r \in Codes, HostEnter(r) \/ MpiEnter(r) PROVE FALSE
  <2>1. CalledBack \in BOOLEAN /\ Active("MPI") \in BOOLEAN
    BY <1>1 DEF CalledBack, TypeInv, Active
  <2> QED
    BY <1>2, <1>3, <2>1 DEF HostEnter, MpiEnter
<1>4. ASSUME SameCalls PROVE FALSE
  BY <1>1, <1>4 DEF SameCalls
<1>5. frames # <<>> => /\ Len(frames) \in DOMAIN frames /\ frames[Len(frames)] = Top
                       /\ Top.region \in Codes /\ Top.id \in Nat
  BY <1>1, TopFrame DEF Top
<1>6. ASSUME frames # <<>>, pc \in {"run", "exited"}
      PROVE  /\ Top.id = 0 => ~Top.begun
             /\ Top.id > 0 => Top.begun = (Tracing(Top.region) /\ lexgion[Top.region].bit)
  BY <1>1, <1>5, <1>6 DEF PairInv, Settled
<1>7. CASE HostExit
  <2>1. frames # <<>> /\ pc = "run" /\ Gpu(Top) /\ lexgion' = lexgion
    BY <1>7 DEF HostExit, Gpu
  <2>2. frames' # frames
    BY <1>1
  <2>3. ~(CalledBack /\ MatchAt(Top.region.address) # NoRegion)
    BY <1>7, <2>2 DEF HostExit
  <2>4. Top.id = 0
    <3> SUFFICES ASSUME Top.id > 0 PROVE FALSE
      BY <1>5, <2>1
    <3>1. CalledBack /\ stack # <<>> /\ stack[Len(stack)] = RecordOf(Top)
      BY <1>1, <2>1 DEF TopInv
    <3>2. RecordOf(Top).code = Top.region
      BY DEF RecordOf
    <3>3. Len(stack) \in DOMAIN stack
      BY <1>1, <3>1, Elements, EmptySeq
    <3>4. AtAddress(Top.region.address) # {}
      BY <3>1, <3>2, <3>3 DEF AtAddress
    <3>5. EndMatchAt(Top.region.address)
      BY <1>7, <3>1 DEF HostExit
    <3>6. MatchAt(Top.region.address) \in Codes
      BY <1>1, <3>4, <3>5, EndMatchAtEffect
    <3> QED
      BY <2>3, <3>1, <3>6, RegionTypes
  <2> QED
    BY <1>1, <1>6, <2>1, <2>4, NothingCounted
<1>8. CASE MpiExit
  <2>1. frames # <<>> /\ pc = "run" /\ lexgion' = lexgion
    BY <1>8 DEF MpiExit
  <2>2. frames' # frames
    BY <1>1
  <2>3. Top.id = 0
    BY <1>5, <1>8, <2>1, <2>2 DEF MpiExit, EpilogueRuns
  <2> QED
    BY <1>1, <1>6, <2>1, <2>3, NothingCounted
<1>9. CASE EndEvent
  <2>1. /\ frames # <<>> /\ pc = "exited"
        /\ IF Tracing(Top.region) /\ lexgion[ending].bit THEN PostTraceUpdate(ending)
           ELSE lexgion' = lexgion
    BY <1>1, <1>9 DEF EndEvent, TypeInv, TypeOK
  <2>2. ending = Top.region /\ Top.id > 0
    BY <1>1, <2>1 DEF PlaceInv, EndingInv
  <2>3. Top.begun = (Tracing(Top.region) /\ lexgion[Top.region].bit)
    BY <1>6, <2>1, <2>2
  <2>4. CASE Tracing(Top.region) /\ lexgion[Top.region].bit
    <3>1. PostTraceUpdate(Top.region) /\ Top.begun
      BY <2>1, <2>2, <2>3, <2>4
    <3>2. PICK c \in Codes : c = Top.region
      BY <1>5, <2>1
    <3>3. LexgionsType
      BY <1>1 DEF TypeInv
    <3>4. /\ lexgion'[c].traces = lexgion[c].traces + 1
          /\ \A d \in Codes \ {c} : lexgion'[d] = lexgion[d]
      BY <3>1, <3>2, <3>3, PostTraceEffect
    <3> QED
      BY <3>1, <3>2, <3>4 DEF EndPairs
  <2>5. CASE ~(Tracing(Top.region) /\ lexgion[Top.region].bit)
    BY <1>1, <2>1, <2>2, <2>3, <2>5, NothingCounted
  <2> QED
    BY <2>4, <2>5
<1>10. ASSUME NEW d \in Devices, HipSetDevice(d) PROVE FALSE
  BY <1>1, <1>4, <1>10, HipSetDeviceType
<1>11. ASSUME NEW d \in Domains, NEW m \in Modes, SwitchMode(d, m) PROVE FALSE
  BY <1>1, <1>4, <1>11, SwitchModeType
<1>12. ~(Decide \/ BeginEvent \/ ApplyMode \/ UNCHANGED vars)
  BY <1>1, <1>4, DecideType, BeginEventType, ApplyModeType, StutterType
<1> QED
  BY <1>3, <1>7, <1>8, <1>9, <1>10, <1>11, <1>12 DEF Next, Done

\* A call whose mode stood still has both its events or neither, and counts
\* one trace for its own region if it has them, none for another.
THEOREM EventsPairAlways == Spec => EventsPair
<1>1. IInv /\ [Next]_vars => [EndPairs]_vars
  BY EndsPair
<1> QED
  BY <1>1, Invariant, PTL DEF Spec, EventsPair, EndPairs
=============================================================================
