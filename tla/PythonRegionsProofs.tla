------------------------ MODULE PythonRegionsProofs ------------------------
(***************************************************************************)
(* Proofs about PythonRegions: types, that the records of running frames   *)
(* stay on the stack, and what one cycle traces of a region.               *)
(***************************************************************************)
EXTENDS PythonRegions, SequenceTheorems, FiniteSetTheorems, TLAPS

-----------------------------------------------------------------------------
(***************************************************************************)
(* What the operators of Lexgions keep of the types of the table, the      *)
(* stack and the counters, and what they do to a region's entry.           *)
(***************************************************************************)
\* Append, which the interpreter's calls and push_lexgion are.
LEMMA Pushed ==
    ASSUME NEW S, NEW s \in Seq(S), NEW e \in S
    PROVE  /\ Append(s, e) \in Seq(S)
           /\ Len(Append(s, e)) = Len(s) + 1
           /\ \A i \in 1 .. Len(s) : Append(s, e)[i] = s[i]
           /\ Append(s, e)[Len(s) + 1] = e
           /\ DOMAIN Append(s, e) = 1 .. Len(s) + 1
OBVIOUS

\* A prefix, which returns and lexgion_end_match leave.
LEMMA Popped ==
    ASSUME NEW S, NEW s \in Seq(S), NEW n \in 0 .. Len(s)
    PROVE  /\ SubSeq(s, 1, n) \in Seq(S)
           /\ Len(SubSeq(s, 1, n)) = n
           /\ DOMAIN SubSeq(s, 1, n) = 1 .. n
           /\ \A i \in 1 .. n : SubSeq(s, 1, n)[i] = s[i]
<1>1. n \in Int /\ Len(s) \in Nat /\ \A i \in 1 .. n : s[i] \in S
  OBVIOUS
<1>2. /\ SubSeq(s, 1, n) \in Seq(S)
      /\ Len(SubSeq(s, 1, n)) = IF 1 <= n THEN n - 1 + 1 ELSE 0
      /\ \A i \in 1 .. n - 1 + 1 : SubSeq(s, 1, n)[i] = s[1 + i - 1]
  BY <1>1, SubSeqProperties
<1> QED
  BY <1>1, <1>2

LEMMA LexgionsInitType == LexgionsInit => LexgionsType
<1> SUFFICES ASSUME LexgionsInit PROVE LexgionsType
  OBVIOUS
<1>1. seen = {} /\ IsFiniteSet({}) /\ Cardinality({}) = 0
  BY FS_EmptySet DEF LexgionsInit
<1>2. lexgion \in [Codes -> Lexgion]
  BY DEF LexgionsInit, Lexgion
<1>3. stack \in Seq(Record) /\ Len(stack) <= MaxDepth
  BY LexgionsAssumption DEF LexgionsInit
<1>4. fired \in [Configs -> BOOLEAN] /\ generation \in [Configs -> Nat]
  BY DEF LexgionsInit
<1> QED
  BY <1>1, <1>2, <1>3, <1>4, LexgionsAssumption DEF LexgionsType

\* The two updates of a region's entry that change two of its counters.
LEMMA CountedType ==
    ASSUME NEW c \in Codes, NEW f \in [Codes -> Lexgion]
    PROVE  /\ [f EXCEPT ![c].counter = @ + 1, ![c].since = @ + 1] \in [Codes -> Lexgion]
           /\ [f EXCEPT ![c].traces = @ + 1, ![c].since = 0] \in [Codes -> Lexgion]
<1> DEFINE g == [f EXCEPT ![c].counter = @ + 1]
           h == [f EXCEPT ![c].traces = @ + 1]
<1>1. g \in [Codes -> Lexgion] /\ h \in [Codes -> Lexgion]
  BY DEF Lexgion
<1>2. /\ [f EXCEPT ![c].counter = @ + 1, ![c].since = @ + 1]
           = [g EXCEPT ![c].since = @ + 1]
      /\ [f EXCEPT ![c].traces = @ + 1, ![c].since = 0]
           = [h EXCEPT ![c].since = 0]
  BY DEF g, h
<1> HIDE DEF g, h
<1>3. /\ [g EXCEPT ![c].since = @ + 1] \in [Codes -> Lexgion]
      /\ [h EXCEPT ![c].since = 0] \in [Codes -> Lexgion]
  BY <1>1 DEF Lexgion
<1> QED
  BY <1>2, <1>3

LEMMA BeginType ==
    ASSUME LexgionsType, NEW c \in Codes, Begin(c)
    PROVE  /\ seen' \subseteq Codes /\ IsFiniteSet(seen')
           /\ Cardinality(seen') <= MaxLexgions
           /\ lexgion' \in [Codes -> Lexgion]
           /\ stack' \in Seq(Record) /\ Len(stack') <= MaxDepth
<1>1. CASE Tracked(c)
  <2>1. seen' = seen \cup {c}
    BY <1>1 DEF Begin
  <2>2. /\ IsFiniteSet(seen \cup {c})
        /\ Cardinality(seen \cup {c}) =
             IF c \in seen THEN Cardinality(seen) ELSE Cardinality(seen) + 1
    BY FS_AddElement DEF LexgionsType
  <2>3. Cardinality(seen) \in Nat /\ Cardinality(seen) <= MaxLexgions
    BY FS_CardinalityType DEF LexgionsType
  <2>4. c \in seen \/ Cardinality(seen) < MaxLexgions
    BY <1>1 DEF Tracked
  <2>5. Cardinality(seen') <= MaxLexgions
    BY <2>1, <2>2, <2>3, <2>4, LexgionsAssumption
  <2>6. lexgion' \in [Codes -> Lexgion]
    <3>1. lexgion' = [lexgion EXCEPT ![c].counter = @ + 1, ![c].since = @ + 1]
      BY <1>1 DEF Begin
    <3>2. lexgion \in [Codes -> Lexgion]
      BY DEF LexgionsType
    <3> QED
      BY <3>1, <3>2, CountedType
  <2>7. stack' \in Seq(Record) /\ Len(stack') <= MaxDepth
    <3>1. [code |-> c, id |-> lexgion[c].counter + 1] \in Record
      BY DEF LexgionsType, Lexgion, Record
    <3>2. stack \in Seq(Record) /\ Len(stack) \in Nat /\ Len(stack) <= MaxDepth
      BY LenProperties DEF LexgionsType
    <3>3. PICK r \in Record :
            stack' = IF Len(stack) < MaxDepth THEN Append(stack, r) ELSE stack
      BY <1>1, <3>1 DEF Begin, Push
    <3>4. Append(stack, r) \in Seq(Record) /\ Len(Append(stack, r)) = Len(stack) + 1
      BY <3>2, Pushed
    <3> QED
      BY <3>2, <3>3, <3>4, LexgionsAssumption
  <2> QED
    BY <2>1, <2>2, <2>5, <2>6, <2>7 DEF LexgionsType
<1>2. CASE ~Tracked(c)
  BY <1>2 DEF Begin, LexgionsType
<1> QED
  BY <1>1, <1>2

LEMMA RenewedType ==
    ASSUME LexgionsType, NEW c \in Codes
    PROVE  Renewed(c) \in Lexgion
<1>1. lexgion \in [Codes -> Lexgion] /\ generation \in [Configs -> Nat]
  BY DEF LexgionsType
<1> QED
  BY <1>1, LexgionsAssumption DEF Renewed, Lexgion

LEMMA SetTraceBitType ==
    ASSUME LexgionsType, NEW c \in Codes, SetTraceBit(c)
    PROVE  lexgion' \in [Codes -> Lexgion]
<1> DEFINE l == IF c \in Disabled THEN lexgion[c] ELSE Renewed(c)
           b == c \notin Disabled /\ TracedByRate(c, l)
<1>1. lexgion \in [Codes -> Lexgion] /\ generation \in [Configs -> Nat]
  BY DEF LexgionsType
<1>2. l \in Lexgion
  BY <1>1, RenewedType
<1>3. b \in BOOLEAN
  BY Zenon
<1>4. lexgion' = [lexgion EXCEPT ![c] = [l EXCEPT !.resolved = TRUE, !.bit = b]]
  BY DEF SetTraceBit
<1> HIDE DEF l, b
<1>5. [l EXCEPT !.resolved = TRUE, !.bit = b] \in Lexgion
  BY <1>2, <1>3 DEF Lexgion
<1> QED
  BY <1>1, <1>4, <1>5

LEMMA PostTraceType ==
    ASSUME LexgionsType, NEW c \in Codes, PostTraceUpdate(c)
    PROVE  lexgion' \in [Codes -> Lexgion] /\ fired' \in [Configs -> BOOLEAN]
<1>1. lexgion' \in [Codes -> Lexgion]
  BY CountedType DEF PostTraceUpdate, LexgionsType
<1>2. fired' = [fired EXCEPT ![ConfigOf[c]] = TRUE] \/ fired' = fired
  BY DEF PostTraceUpdate
<1> QED
  BY <1>1, <1>2 DEF LexgionsType

LEMMA EndMatchType ==
    ASSUME LexgionsType, NEW c \in Codes, EndMatch(c)
    PROVE  stack' \in Seq(Record) /\ Len(stack') <= MaxDepth
<1>1. stack \in Seq(Record) /\ Len(stack) \in Nat /\ Len(stack) <= MaxDepth
      /\ DOMAIN stack = 1 .. Len(stack)
  BY LenProperties DEF LexgionsType
<1>2. CASE HoldsRecord(c)
  <2>1. PICK top \in DOMAIN stack : stack' = SubSeq(stack, 1, top - 1)
    BY <1>2 DEF EndMatch
  <2>2. top - 1 \in 0 .. Len(stack) /\ top - 1 <= MaxDepth
    BY <1>1, LexgionsAssumption
  <2> QED
    BY <1>1, <2>1, <2>2, Popped
<1>3. CASE ~HoldsRecord(c)
  BY <1>1, <1>3 DEF EndMatch
<1> QED
  BY <1>2, <1>3

-----------------------------------------------------------------------------
(***************************************************************************)
(* What the sequence operations of the model do.                           *)
(***************************************************************************)
\* The removal of one element, which a generator's resumption is.
LEMMA Removed ==
    ASSUME NEW S, NEW s \in Seq(S), NEW k \in 1 .. Len(s)
    PROVE  LET t == SubSeq(s, 1, k - 1) \o SubSeq(s, k + 1, Len(s)) IN
           /\ t \in Seq(S)
           /\ Len(t) = Len(s) - 1
           /\ DOMAIN t = 1 .. Len(s) - 1
           /\ \A i \in 1 .. Len(s) - 1 : t[i] = IF i < k THEN s[i] ELSE s[i + 1]
<1> DEFINE a == SubSeq(s, 1, k - 1)
           b == SubSeq(s, k + 1, Len(s))
           t == a \o b
<1>1. Len(s) \in Nat /\ k - 1 \in 0 .. Len(s) /\ \A i \in 1 .. Len(s) : s[i] \in S
  OBVIOUS
<1>2. a \in Seq(S) /\ Len(a) = k - 1 /\ \A i \in 1 .. k - 1 : a[i] = s[i]
  BY <1>1, Popped
<1>3. /\ b \in Seq(S)
      /\ Len(b) = IF k + 1 <= Len(s) THEN Len(s) - (k + 1) + 1 ELSE 0
      /\ \A i \in 1 .. Len(s) - (k + 1) + 1 : b[i] = s[k + 1 + i - 1]
  <2>1. k + 1 \in Int /\ Len(s) \in Int /\ \A i \in k + 1 .. Len(s) : s[i] \in S
    BY <1>1
  <2> QED
    BY <2>1, SubSeqProperties
<1>4. Len(b) = Len(s) - k
  BY <1>1, <1>3
<1>5. /\ t \in Seq(S)
      /\ Len(t) = Len(s) - 1
      /\ \A i \in 1 .. Len(s) - 1 : t[i] = IF i <= k - 1 THEN a[i] ELSE b[i - (k - 1)]
  <2> HIDE DEF a, b
  <2>1. /\ a \o b \in Seq(S)
        /\ Len(a \o b) = Len(a) + Len(b)
        /\ \A i \in 1 .. Len(a) + Len(b) :
             (a \o b)[i] = IF i <= Len(a) THEN a[i] ELSE b[i - Len(a)]
    BY <1>2, <1>3, ConcatProperties
  <2>2. Len(a) + Len(b) = Len(s) - 1
    BY <1>1, <1>2, <1>4
  <2> QED
    BY <1>2, <2>1, <2>2
<1>6. ASSUME NEW i \in 1 .. Len(s) - 1
      PROVE  t[i] = IF i < k THEN s[i] ELSE s[i + 1]
  <2> HIDE DEF a, b, t
  <2>1. t[i] = IF i <= k - 1 THEN a[i] ELSE b[i - (k - 1)]
    BY <1>5
  <2>2. CASE i < k
    <3>1. i <= k - 1 /\ i \in 1 .. k - 1
      BY <1>1, <2>2
    <3>2. t[i] = a[i]
      BY <2>1, <3>1
    <3> QED
      BY <1>2, <2>2, <3>1, <3>2
  <2>3. CASE ~(i < k)
    <3>1. ~(i <= k - 1) /\ i - (k - 1) \in 1 .. Len(s) - (k + 1) + 1
      BY <1>1, <2>3
    <3>2. t[i] = b[i - (k - 1)]
      BY <2>1, <3>1
    <3>3. b[i - (k - 1)] = s[k + 1 + (i - (k - 1)) - 1]
      BY <1>3, <3>1
    <3>4. k + 1 + (i - (k - 1)) - 1 = i + 1
      BY <1>1
    <3> QED
      BY <2>3, <3>2, <3>3, <3>4
  <2> QED
    BY <2>2, <2>3
<1>7. DOMAIN t = 1 .. Len(s) - 1
  <2> HIDE DEF t
  <2> QED
    BY <1>5, LenProperties
<1> QED
  BY <1>5, <1>6, <1>7

-----------------------------------------------------------------------------
(***************************************************************************)
(* Types.                                                                  *)
(***************************************************************************)
\* The table is finite, so that its size can be counted.
TypeInv == TypeOK /\ IsFiniteSet(seen)

LEMMA InitType == Init => TypeInv
<1> SUFFICES ASSUME Init PROVE TypeInv
  OBVIOUS
<1>1. LexgionsType
  BY LexgionsInitType DEF Init
<1>2. missed \in BOOLEAN /\ displaced \in BOOLEAN
  BY Zenon DEF Init
<1> QED
  BY <1>1, <1>2 DEF Init, TypeInv, TypeOK, LexgionsType

LEMMA TableType == TypeInv => LexgionsType
BY DEF TypeInv, TypeOK, LexgionsType

\* The running frame and its callers.
LEMMA TopFrame ==
    ASSUME TypeOK, frames # <<>>
    PROVE  /\ Len(frames) \in Nat \ {0}
           /\ DOMAIN frames = 1 .. Len(frames)
           /\ Top \in Frame /\ Top.code \in Codes /\ Top.id \in Nat
           /\ Callers \in Seq(Frame)
           /\ Len(Callers) = Len(frames) - 1
           /\ DOMAIN Callers = 1 .. Len(frames) - 1
           /\ \A i \in 1 .. Len(frames) - 1 : Callers[i] = frames[i]
<1>1. frames \in Seq(Frame)
  BY DEF TypeOK
<1>2. Len(frames) \in Nat \ {0} /\ DOMAIN frames = 1 .. Len(frames)
  BY <1>1, EmptySeq, LenProperties
<1>3. Top \in Frame
  BY <1>1, <1>2, ElementOfSeq DEF Top
<1>4. Len(frames) - 1 \in 0 .. Len(frames)
  BY <1>2
<1>5. /\ Callers \in Seq(Frame)
      /\ Len(Callers) = Len(frames) - 1
      /\ DOMAIN Callers = 1 .. Len(frames) - 1
      /\ \A i \in 1 .. Len(frames) - 1 : Callers[i] = frames[i]
  BY <1>1, <1>4, Popped DEF Callers
<1> QED
  BY <1>2, <1>3, <1>5 DEF Frame

LEMMA StartType ==
    ASSUME TypeInv, NEW c \in Codes, Start(c)
    PROVE  TypeInv'
<1>1. /\ seen' \subseteq Codes /\ IsFiniteSet(seen')
      /\ Cardinality(seen') <= MaxLexgions
      /\ lexgion' \in [Codes -> Lexgion]
      /\ stack' \in Seq(Record) /\ Len(stack') <= MaxDepth
  <2>1. CASE Active
    BY <2>1, TableType, BeginType DEF Start
  <2>2. CASE ~Active
    BY <2>2 DEF Start, TypeInv, TypeOK
  <2> QED
    BY <2>1, <2>2
<1>2. /\ frames' \in Seq(Frame) /\ frames' # <<>>
      /\ pc' \in {"run", "started", "ended"}
  <2>1. PICK f \in Frame : frames' = Append(frames, f)
    <3>1. /\ [code |-> c, cycle |-> -1, id |-> lexgion[c].counter + 1] \in Frame
          /\ [code |-> c, cycle |-> -1, id |-> 0] \in Frame
      <4>1. lexgion[c].counter + 1 \in Nat
        BY DEF TypeInv, TypeOK, Lexgion
      <4> QED
        BY <4>1 DEF Frame
    <3> QED
      BY <3>1 DEF Start
  <2>2. frames \in Seq(Frame)
    BY DEF TypeInv, TypeOK
  <2>3. frames' \in Seq(Frame) /\ Len(frames') = Len(frames) + 1 /\ Len(frames) \in Nat
    BY <2>1, <2>2, Pushed, LenProperties
  <2>4. frames' # <<>>
    BY <2>3, EmptySeq
  <2>5. pc' \in {"run", "started", "ended"}
    BY DEF Start, TypeInv, TypeOK
  <2> QED
    BY <2>3, <2>4, <2>5
<1>3. missed' \in BOOLEAN /\ displaced' \in BOOLEAN /\ overlapped' \subseteq Codes
  <2>1. missed' \in BOOLEAN
    BY Zenon DEF Start, TypeInv, TypeOK
  <2>2. displaced' \in BOOLEAN /\ overlapped' \subseteq Codes
    BY DEF Start, TypeInv, TypeOK
  <2> QED
    BY <2>1, <2>2
<1>4. /\ calls' = calls + 1
      /\ UNCHANGED <<fired, generation, mode, reopening, suspended, switches,
                     begunTraces, cycleTraces>>
  BY DEF Start
<1> QED
  BY <1>1, <1>2, <1>3, <1>4 DEF TypeInv, TypeOK

LEMMA StartTraceType ==
    ASSUME TypeInv, StartTrace
    PROVE  TypeInv'
<1>1. frames # <<>> /\ frames \in Seq(Frame)
  BY DEF StartTrace, TypeInv, TypeOK
<1>2. /\ Top \in Frame /\ Top.code \in Codes
      /\ Len(frames) \in DOMAIN frames
  BY <1>1, TopFrame DEF TypeInv
<1>3. CASE mode = "TRACING"
  <2>1. lexgion' \in [Codes -> Lexgion]
    BY <1>2, <1>3, TableType, SetTraceBitType DEF StartTrace
  <2>2. PICK g \in Nat \cup {-1} :
           frames' = [frames EXCEPT ![Len(frames)] = [@ EXCEPT !.cycle = g]]
    <3>1. /\ generation[ConfigOf[Top.code]] \in Nat \cup {-1}
          /\ -1 \in Nat \cup {-1}
      BY <1>2, LexgionsAssumption DEF TypeInv, TypeOK
    <3>2. \/ frames' = [frames EXCEPT ![Len(frames)].cycle =
                                      generation[ConfigOf[Top.code]]]
          \/ frames' = [frames EXCEPT ![Len(frames)].cycle = -1]
      BY <1>3 DEF StartTrace
    <3> QED
      BY <3>1, <3>2
  <2>3. frames' \in Seq(Frame) /\ Len(frames') = Len(frames)
    <3>1. [Top EXCEPT !.cycle = g] \in Frame
      BY <1>2 DEF Frame
    <3>2. frames' = [frames EXCEPT ![Len(frames)] = [Top EXCEPT !.cycle = g]]
      BY <2>2 DEF Top
    <3> QED
      BY <1>1, <1>2, <3>1, <3>2, ExceptSeq
  <2>4. frames' # <<>>
    BY <1>1, <2>3, EmptySeq
  <2> QED
    BY <2>1, <2>3, <2>4 DEF StartTrace, environmentVars, boundVars, ghostVars,
                            TypeInv, TypeOK
<1>4. CASE mode # "TRACING"
  BY <1>4 DEF StartTrace, environmentVars, boundVars, ghostVars, TypeInv, TypeOK
<1> QED
  BY <1>3, <1>4

LEMMA EndType ==
    ASSUME TypeInv, End
    PROVE  TypeInv'
<1>1. frames # <<>>
  BY DEF End
<1>2. Top.code \in Codes /\ Callers \in Seq(Frame)
  BY <1>1, TopFrame DEF TypeInv
<1>3. stack' \in Seq(Record) /\ Len(stack') <= MaxDepth
  <2>1. CASE Active
    BY <1>2, <2>1, TableType, EndMatchType DEF End
  <2>2. CASE ~Active
    BY <2>2 DEF End, TypeInv, TypeOK
  <2> QED
    BY <2>1, <2>2
<1>4. /\ frames' \in Seq(Frame)
      /\ pc' \in {"run", "started", "ended"}
      /\ pc' # "run" => frames' # <<>>
  BY <1>1, <1>2 DEF End, TypeInv, TypeOK
<1>5. UNCHANGED <<tableVars, fired, generation, environmentVars, suspended,
                  ghostVars>>
  BY DEF End
<1> QED
  BY <1>3, <1>4, <1>5 DEF tableVars, environmentVars, boundVars, ghostVars,
                          TypeInv, TypeOK

LEMMA EndTraceType ==
    ASSUME TypeInv, EndTrace
    PROVE  TypeInv'
<1>1. frames # <<>>
  BY DEF EndTrace, TypeInv, TypeOK
<1>2. Top.code \in Codes /\ Callers \in Seq(Frame)
  BY <1>1, TopFrame DEF TypeInv
<1>3. /\ lexgion' \in [Codes -> Lexgion] /\ fired' \in [Configs -> BOOLEAN]
      /\ begunTraces' \in [Codes -> Nat] /\ cycleTraces' \in [Codes -> Nat]
  <2>1. CASE mode = "TRACING" /\ lexgion[Top.code].bit
    <3>1. PostTraceUpdate(Top.code)
      BY <2>1 DEF EndTrace
    <3>2. lexgion' \in [Codes -> Lexgion] /\ fired' \in [Configs -> BOOLEAN]
      BY <1>2, <3>1, TableType, PostTraceType
    <3>3. /\ \/ begunTraces' = [begunTraces EXCEPT ![Top.code] = @ + 1]
             \/ begunTraces' = begunTraces
          /\ cycleTraces' = [cycleTraces EXCEPT ![Top.code] = @ + 1]
      BY <2>1 DEF EndTrace
    <3>4. begunTraces \in [Codes -> Nat] /\ cycleTraces \in [Codes -> Nat]
      BY DEF TypeInv, TypeOK
    <3>5. /\ [begunTraces EXCEPT ![Top.code] = @ + 1] \in [Codes -> Nat]
          /\ [cycleTraces EXCEPT ![Top.code] = @ + 1] \in [Codes -> Nat]
      BY <1>2, <3>4
    <3>6. begunTraces' \in [Codes -> Nat] /\ cycleTraces' \in [Codes -> Nat]
      BY <3>3, <3>4, <3>5, Zenon
    <3> QED
      BY <3>2, <3>6
  <2>2. CASE ~(mode = "TRACING" /\ lexgion[Top.code].bit)
    BY <2>2 DEF EndTrace, TypeInv, TypeOK
  <2> QED
    BY <2>1, <2>2
<1>4. /\ pc' = "run" /\ frames' = Callers
      /\ UNCHANGED <<seen, stack, generation, environmentVars, suspended,
                     missed, displaced, overlapped>>
  BY DEF EndTrace
<1> QED
  BY <1>2, <1>3, <1>4 DEF environmentVars, boundVars, TypeInv, TypeOK

LEMMA ResumeType ==
    ASSUME TypeInv, NEW i \in DOMAIN suspended, Resume(i)
    PROVE  TypeInv'
<1>1. /\ frames \in Seq(Frame) /\ suspended \in Seq(Frame)
      /\ i \in 1 .. Len(suspended) /\ suspended[i] \in Frame
  BY LenProperties, ElementOfSeq DEF TypeInv, TypeOK
<1>2. frames' \in Seq(Frame) /\ frames' # <<>>
  <2>1. /\ frames' = Append(frames, suspended[i])
        /\ frames' \in Seq(Frame) /\ Len(frames') = Len(frames) + 1
        /\ Len(frames) \in Nat
    BY <1>1, Pushed, LenProperties DEF Resume
  <2> QED
    BY <2>1, EmptySeq
<1>3. suspended' \in Seq(Frame)
  <2>1. suspended' = SubSeq(suspended, 1, i - 1)
                        \o SubSeq(suspended, i + 1, Len(suspended))
    BY DEF Resume
  <2> QED
    BY <1>1, <2>1, Removed
<1>4. displaced' \in BOOLEAN
  BY Zenon DEF Resume, TypeInv, TypeOK
<1>5. /\ pc = "run"
      /\ UNCHANGED <<lexgionVars, environmentVars, pc, missed, overlapped,
                     begunTraces, cycleTraces>>
  BY DEF Resume
<1> QED
  BY <1>2, <1>3, <1>4, <1>5 DEF lexgionVars, environmentVars, boundVars,
                                TypeInv, TypeOK

LEMMA NextType == TypeInv /\ [Next]_vars => TypeInv'
<1> SUFFICES ASSUME TypeInv, [Next]_vars PROVE TypeInv'
  OBVIOUS
<1>1. CASE \E c \in Codes : Start(c)
  BY <1>1, StartType
<1>2. CASE StartTrace
  BY <1>2, StartTraceType
<1>3. CASE End
  BY <1>3, EndType
<1>4. CASE EndTrace
  BY <1>4, EndTraceType
<1>5. CASE Raise
  <2>1. Callers \in Seq(Frame)
    BY <1>5, TopFrame DEF Raise, TypeInv
  <2> QED
    BY <1>5, <2>1 DEF Raise, lexgionVars, environmentVars, boundVars, ghostVars,
                      TypeInv, TypeOK
<1>6. CASE Suspend
  <2>1. Callers \in Seq(Frame) /\ Top \in Frame
    BY <1>6, TopFrame DEF Suspend, TypeInv
  <2>2. suspended' \in Seq(Frame)
    BY <1>6, <2>1, Pushed DEF Suspend, TypeInv, TypeOK
  <2> QED
    BY <1>6, <2>1, <2>2 DEF Suspend, lexgionVars, environmentVars, boundVars,
                            ghostVars, TypeInv, TypeOK
<1>7. CASE \E i \in DOMAIN suspended : Resume(i)
  BY <1>7, ResumeType
<1>8. CASE \E m \in Modes : SwitchMode(m)
  BY <1>8 DEF SwitchMode, lexgionVars, frameVars, ghostVars, TypeInv, TypeOK
<1>9. CASE \E k \in Configs : Unlatch(k)
  BY <1>9 DEF Unlatch, tableVars, boundVars, frameVars, ghostVars, TypeInv, TypeOK
<1>10. CASE \E k \in Configs : StepGeneration(k)
  <2>1. PICK k \in Configs : StepGeneration(k)
    BY <1>10
  <2>2. /\ generation' \in [Configs -> Nat]
        /\ begunTraces' \in [Codes -> Nat] /\ cycleTraces' \in [Codes -> Nat]
    BY <2>1 DEF StepGeneration, TypeInv, TypeOK
  <2>3. /\ reopening' = {}
        /\ UNCHANGED <<tableVars, stack, fired, mode, boundVars, frameVars, pc,
                       missed, displaced, overlapped>>
    BY <2>1 DEF StepGeneration
  <2> QED
    BY <2>2, <2>3 DEF tableVars, boundVars, frameVars, TypeInv, TypeOK
<1>11. CASE UNCHANGED vars
  BY <1>11 DEF vars, lexgionVars, pythonVars, environmentVars, frameVars,
               boundVars, ghostVars, TypeInv, TypeOK
<1> QED
  BY <1>1, <1>2, <1>3, <1>4, <1>5, <1>6, <1>7, <1>8, <1>9, <1>10, <1>11
     DEF Next, Done

\* The table never outgrows MAX_NUM_LEXGIONS nor the stack
\* MAX_LEXGION_STACK_DEPTH, and every field stays in its range.
THEOREM PythonTypeCorrect == Spec => []TypeOK
<1>1. TypeInv => TypeOK
  BY DEF TypeInv
<1> QED
  BY InitType, NextType, <1>1, PTL DEF Spec

-----------------------------------------------------------------------------
(***************************************************************************)
(* The records of running frames.                                          *)
(***************************************************************************)
RecordOf(f) == [code |-> f.code, id |-> f.id]

\* No record or frame is newer than its region's counter ...
Numbered ==
    /\ \A p \in DOMAIN stack : stack[p].id <= lexgion[stack[p].code].counter
    /\ \A i \in DOMAIN frames : frames[i].id <= lexgion[frames[i].code].counter
    /\ \A i \in DOMAIN suspended :
         suspended[i].id <= lexgion[suspended[i].code].counter

\* ... so that an execution has one record and one frame.
Distinct ==
    /\ \A p, q \in DOMAIN stack : stack[p] = stack[q] => p = q
    /\ \A i, j \in DOMAIN frames :
         frames[i].id > 0 /\ RecordOf(frames[i]) = RecordOf(frames[j]) => i = j
    /\ \A i, j \in DOMAIN suspended :
         suspended[i].id > 0 /\ RecordOf(suspended[i]) = RecordOf(suspended[j])
         => i = j
    /\ \A i \in DOMAIN frames, j \in DOMAIN suspended :
         frames[i].id > 0 => RecordOf(frames[i]) # RecordOf(suspended[j])

\* The frames fs have their records in the stack rs.
Grounded(fs, rs) ==
    \A i \in DOMAIN fs :
        fs[i].id > 0 => \E p \in DOMAIN rs : rs[p] = RecordOf(fs[i])

\* The end of f may take r: r is its record or, if it has none, a record of its
\* region.
Takes(f, r) == IF f.id > 0 THEN r = RecordOf(f) ELSE r.code = f.code

\* Whatever the end of a frame takes lies above the records of its callers.
Ordered(fs, rs) ==
    \A i, j \in DOMAIN fs : \A p, q \in DOMAIN rs :
        /\ i < j
        /\ fs[i].id > 0 /\ rs[p] = RecordOf(fs[i])
        /\ Takes(fs[j], rs[q])
        => p < q

RecordsInv ==
    /\ TypeInv
    /\ Numbered
    /\ Distinct
    /\ ~missed /\ ~displaced => Grounded(Live, stack) /\ Ordered(Live, stack)

LEMMA InitRecords == Init => RecordsInv
<1> SUFFICES ASSUME Init PROVE RecordsInv
  OBVIOUS
<1>1. TypeInv
  BY InitType
<1>2. stack = <<>> /\ frames = <<>> /\ suspended = <<>> /\ Live = <<>>
  BY DEF Init, LexgionsInit, Live
<1>3. DOMAIN <<>> = {}
  OBVIOUS
<1> QED
  BY <1>1, <1>2, <1>3 DEF RecordsInv, Numbered, Distinct, Grounded, Ordered

\* What the types say of each element.
LEMMA Elements ==
    ASSUME TypeInv
    PROVE  /\ Len(stack) \in Nat /\ DOMAIN stack = 1 .. Len(stack)
           /\ Len(frames) \in Nat /\ DOMAIN frames = 1 .. Len(frames)
           /\ Len(suspended) \in Nat /\ DOMAIN suspended = 1 .. Len(suspended)
           /\ \A p \in DOMAIN stack :
                stack[p] \in Record /\ stack[p].code \in Codes /\ stack[p].id \in Nat
           /\ \A i \in DOMAIN frames :
                frames[i].code \in Codes /\ frames[i].id \in Nat
           /\ \A i \in DOMAIN suspended :
                suspended[i].code \in Codes /\ suspended[i].id \in Nat
           /\ \A c \in Codes : lexgion[c].counter \in Nat
<1>1. /\ stack \in Seq(Record) /\ frames \in Seq(Frame) /\ suspended \in Seq(Frame)
      /\ lexgion \in [Codes -> Lexgion]
  BY DEF TypeInv, TypeOK
<1>2. /\ Len(stack) \in Nat /\ DOMAIN stack = 1 .. Len(stack)
      /\ Len(frames) \in Nat /\ DOMAIN frames = 1 .. Len(frames)
      /\ Len(suspended) \in Nat /\ DOMAIN suspended = 1 .. Len(suspended)
  BY <1>1, LenProperties
<1>3. /\ \A p \in DOMAIN stack : stack[p] \in Record
      /\ \A i \in DOMAIN frames : frames[i] \in Frame
      /\ \A i \in DOMAIN suspended : suspended[i] \in Frame
  BY <1>1, <1>2, ElementOfSeq
<1>4. \A c \in Codes : lexgion[c].counter \in Nat
  BY <1>1 DEF Lexgion
<1> QED
  BY <1>2, <1>3, <1>4 DEF Record, Frame

\* The live frames are running frames.
LEMMA LiveFrames ==
    ASSUME TypeInv
    PROVE  /\ DOMAIN Live \subseteq DOMAIN frames
           /\ \A i \in DOMAIN Live : Live[i] = frames[i]
           /\ pc # "ended" => Live = frames
           /\ pc = "ended" => Live = Callers
<1>1. CASE pc = "ended"
  <2>1. frames # <<>>
    BY <1>1 DEF TypeInv, TypeOK
  <2>2. /\ DOMAIN frames = 1 .. Len(frames) /\ Len(frames) \in Nat
        /\ DOMAIN Callers = 1 .. Len(frames) - 1
        /\ \A i \in 1 .. Len(frames) - 1 : Callers[i] = frames[i]
    BY <2>1, TopFrame DEF TypeInv
  <2> QED
    BY <1>1, <2>2 DEF Live
<1>2. CASE pc # "ended"
  BY <1>2 DEF Live
<1> QED
  BY <1>1, <1>2

\* Fewer frames, whatever their cycles: what held of all of them still does.
LEMMA FewerFrames ==
    ASSUME NEW fs, NEW gs, NEW rs, Grounded(fs, rs), Ordered(fs, rs),
           DOMAIN gs \subseteq DOMAIN fs,
           \A i \in DOMAIN gs : gs[i].code = fs[i].code /\ gs[i].id = fs[i].id
    PROVE  Grounded(gs, rs) /\ Ordered(gs, rs)
BY DEF Grounded, Ordered, Takes, RecordOf

\* Steps that touch neither records nor frames.
LEMMA Untouched ==
    ASSUME RecordsInv, TypeInv',
           UNCHANGED <<lexgion, stack, frames, suspended, pc, missed, displaced>>
    PROVE  RecordsInv'
<1>1. Numbered' /\ Distinct'
  BY DEF RecordsInv, Numbered, Distinct, RecordOf
<1>2. Live' = Live
  BY DEF Live, Callers
<1> QED
  BY <1>1, <1>2 DEF RecordsInv, Grounded, Ordered

\* Steps that only drop frames or records from the tops, or change the cycles
\* of frames.
LEMMA Dropped ==
    ASSUME TypeInv, Numbered, Distinct,
           \A c \in Codes : lexgion'[c].counter = lexgion[c].counter,
           DOMAIN stack' \subseteq DOMAIN stack,
           \A p \in DOMAIN stack' : stack'[p] = stack[p],
           DOMAIN frames' \subseteq DOMAIN frames,
           \A i \in DOMAIN frames' :
              frames'[i].code = frames[i].code /\ frames'[i].id = frames[i].id,
           suspended' = suspended
    PROVE  Numbered' /\ Distinct'
<1>1. Numbered'
  BY Elements DEF Numbered
<1>2. Distinct'
  BY DEF Distinct, RecordOf
<1> QED
  BY <1>1, <1>2

\* A record of no frame goes on top of the stack.
LEMMA PushedRecord ==
    ASSUME NEW fs, NEW rs \in Seq(Record), NEW r \in Record,
           Grounded(fs, rs), Ordered(fs, rs),
           \A i \in DOMAIN fs : RecordOf(fs[i]) # r
    PROVE  Grounded(fs, Append(rs, r)) /\ Ordered(fs, Append(rs, r))
<1> DEFINE qs == Append(rs, r)
<1>1. /\ DOMAIN rs = 1 .. Len(rs) /\ Len(rs) \in Nat
      /\ DOMAIN qs = 1 .. Len(rs) + 1
      /\ \A p \in 1 .. Len(rs) : qs[p] = rs[p]
      /\ qs[Len(rs) + 1] = r
  BY Pushed, LenProperties
<1> HIDE DEF qs
<1>2. Grounded(fs, qs)
  BY <1>1 DEF Grounded
<1>3. Ordered(fs, qs)
  <2> SUFFICES ASSUME NEW i \in DOMAIN fs, NEW j \in DOMAIN fs,
                      NEW p \in DOMAIN qs, NEW q \in DOMAIN qs,
                      i < j, fs[i].id > 0, qs[p] = RecordOf(fs[i]),
                      Takes(fs[j], qs[q])
               PROVE  p < q
    BY DEF Ordered
  <2>1. p \in DOMAIN rs /\ rs[p] = RecordOf(fs[i]) /\ p <= Len(rs)
    BY <1>1
  <2>2. CASE q = Len(rs) + 1
    BY <1>1, <2>1, <2>2
  <2>3. CASE q # Len(rs) + 1
    <3>1. q \in DOMAIN rs /\ qs[q] = rs[q]
      BY <1>1, <2>3
    <3> QED
      BY <2>1, <3>1 DEF Ordered
  <2> QED
    BY <2>2, <2>3
<1> QED
  BY <1>2, <1>3 DEF qs

\* A frame whose end takes nothing below its callers' records begins.
LEMMA AddedFrame ==
    ASSUME NEW fs \in Seq(Frame), NEW rs, NEW e \in Frame,
           Grounded(fs, rs), Ordered(fs, rs),
           e.id > 0 => \E p \in DOMAIN rs : rs[p] = RecordOf(e),
           \A i \in DOMAIN fs : \A p, q \in DOMAIN rs :
              fs[i].id > 0 /\ rs[p] = RecordOf(fs[i]) /\ Takes(e, rs[q]) => p < q
    PROVE  Grounded(Append(fs, e), rs) /\ Ordered(Append(fs, e), rs)
<1> DEFINE gs == Append(fs, e)
<1>1. /\ DOMAIN fs = 1 .. Len(fs) /\ Len(fs) \in Nat
      /\ DOMAIN gs = 1 .. Len(fs) + 1
      /\ \A i \in 1 .. Len(fs) : gs[i] = fs[i]
      /\ gs[Len(fs) + 1] = e
  BY Pushed, LenProperties
<1> HIDE DEF gs
<1>2. Grounded(gs, rs)
  BY <1>1 DEF Grounded
<1>3. Ordered(gs, rs)
  <2> SUFFICES ASSUME NEW i \in DOMAIN gs, NEW j \in DOMAIN gs,
                      NEW p \in DOMAIN rs, NEW q \in DOMAIN rs,
                      i < j, gs[i].id > 0, rs[p] = RecordOf(gs[i]),
                      Takes(gs[j], rs[q])
               PROVE  p < q
    BY DEF Ordered
  <2>1. i \in DOMAIN fs /\ gs[i] = fs[i]
    BY <1>1
  <2>2. CASE j = Len(fs) + 1
    BY <1>1, <2>1, <2>2
  <2>3. CASE j # Len(fs) + 1
    <3>1. j \in DOMAIN fs /\ gs[j] = fs[j]
      BY <1>1, <2>3
    <3> QED
      BY <2>1, <3>1 DEF Ordered
  <2> QED
    BY <2>2, <2>3
<1> QED
  BY <1>2, <1>3 DEF gs

LEMMA StartRecords ==
    ASSUME RecordsInv, TypeInv', NEW c \in Codes, Start(c)
    PROVE  RecordsInv'
<1> DEFINE n == lexgion[c].counter + 1
<1>1. TypeInv /\ Numbered /\ Distinct
  BY DEF RecordsInv
<1>2. n \in Nat \ {0} /\ lexgion[c].counter = n - 1
  BY <1>1, Elements
<1>3. /\ frames \in Seq(Frame) /\ stack \in Seq(Record)
      /\ lexgion \in [Codes -> Lexgion]
  BY <1>1 DEF TypeInv, TypeOK
<1>4. pc = "run" /\ Live = frames
  BY <1>1, LiveFrames DEF Start
<1>5. UNCHANGED <<suspended, displaced>>
  BY DEF Start
<1>6. CASE Active /\ Recorded(c)
  <2> DEFINE r == [code |-> c, id |-> n]
             e == [code |-> c, cycle |-> -1, id |-> n]
  <2>1. /\ stack' = Append(stack, r)
        /\ lexgion' = [lexgion EXCEPT ![c].counter = @ + 1, ![c].since = @ + 1]
    BY <1>6 DEF Start, Begin, Push, Recorded
  <2>2. /\ frames' = Append(frames, e)
        /\ pc' = "started" /\ missed' = missed
    BY <1>6 DEF Start
  <2>3. lexgion'[c].counter = n
        /\ \A d \in Codes \ {c} : lexgion'[d].counter = lexgion[d].counter
    BY <1>3, <2>1 DEF Lexgion
  <2>4. r \in Record /\ e \in Frame /\ RecordOf(e) = r /\ e.id = n /\ e.code = c
        /\ r.id = n /\ r.code = c
    BY <1>2 DEF Record, Frame, RecordOf
  <2> HIDE DEF n, r, e
  <2>5. /\ DOMAIN stack' = 1 .. Len(stack) + 1
        /\ \A p \in 1 .. Len(stack) : stack'[p] = stack[p]
        /\ stack'[Len(stack) + 1] = r
        /\ DOMAIN frames' = 1 .. Len(frames) + 1
        /\ \A i \in 1 .. Len(frames) : frames'[i] = frames[i]
        /\ frames'[Len(frames) + 1] = e
    BY <1>3, <2>1, <2>2, <2>4, Pushed
  <2>6. /\ \A p \in DOMAIN stack : stack[p] # r
        /\ \A i \in DOMAIN frames : RecordOf(frames[i]) # r
        /\ \A i \in DOMAIN suspended : RecordOf(suspended[i]) # r
    BY <1>1, <1>2, <2>4, Elements DEF Numbered, RecordOf
  <2>7. Numbered'
    <3>1. ASSUME NEW p \in DOMAIN stack'
          PROVE  stack'[p].id <= lexgion'[stack'[p].code].counter
      <4>1. CASE p = Len(stack) + 1
        BY <1>2, <2>3, <2>4, <2>5, <4>1
      <4>2. CASE p # Len(stack) + 1
        <5>1. p \in DOMAIN stack /\ stack'[p] = stack[p]
          BY <1>1, <2>5, <4>2, Elements
        <5> QED
          BY <1>1, <1>2, <2>3, <5>1, Elements DEF Numbered
      <4> QED
        BY <4>1, <4>2
    <3>2. ASSUME NEW i \in DOMAIN frames'
          PROVE  frames'[i].id <= lexgion'[frames'[i].code].counter
      <4>1. CASE i = Len(frames) + 1
        BY <1>2, <2>3, <2>4, <2>5, <4>1
      <4>2. CASE i # Len(frames) + 1
        <5>1. i \in DOMAIN frames /\ frames'[i] = frames[i]
          BY <1>1, <2>5, <4>2, Elements
        <5> QED
          BY <1>1, <1>2, <2>3, <5>1, Elements DEF Numbered
      <4> QED
        BY <4>1, <4>2
    <3>3. \A i \in DOMAIN suspended :
             suspended[i].id <= lexgion'[suspended[i].code].counter
      BY <1>1, <1>2, <2>3, Elements DEF Numbered
    <3> QED
      BY <1>5, <3>1, <3>2, <3>3 DEF Numbered
  <2>8. Distinct'
    <3>1. \A p, q \in DOMAIN stack' : stack'[p] = stack'[q] => p = q
      BY <1>1, <2>5, <2>6, Elements DEF Distinct
    <3>2. \A i, j \in DOMAIN frames' :
            frames'[i].id > 0 /\ RecordOf(frames'[i]) = RecordOf(frames'[j]) => i = j
      BY <1>1, <2>4, <2>5, <2>6, Elements DEF Distinct
    <3>3. \A i \in DOMAIN frames', j \in DOMAIN suspended :
            frames'[i].id > 0 => RecordOf(frames'[i]) # RecordOf(suspended[j])
      BY <1>1, <2>4, <2>5, <2>6, Elements DEF Distinct
    <3> QED
      BY <1>1, <1>5, <3>1, <3>2, <3>3 DEF Distinct, RecordOf
  <2>9. ASSUME ~missed', ~displaced'
        PROVE  Grounded(Live, stack)' /\ Ordered(Live, stack)'
    <3>1. Grounded(frames, stack) /\ Ordered(frames, stack)
      BY <1>4, <1>5, <2>2, <2>9 DEF RecordsInv
    <3>2. Grounded(frames, stack') /\ Ordered(frames, stack')
      BY <1>3, <2>1, <2>4, <2>6, <3>1, PushedRecord
    <3>3. \A i \in DOMAIN frames : \A p, q \in DOMAIN stack' :
             frames[i].id > 0 /\ stack'[p] = RecordOf(frames[i])
             /\ Takes(e, stack'[q]) => p < q
      BY <1>1, <1>2, <2>4, <2>5, <2>6, Elements DEF Takes
    <3>4. \E p \in DOMAIN stack' : stack'[p] = RecordOf(e)
      BY <1>1, <2>4, <2>5, Elements
    <3>5. Grounded(frames', stack') /\ Ordered(frames', stack')
      BY <1>3, <2>2, <2>4, <3>2, <3>3, <3>4, AddedFrame
    <3>6. Live' = frames'
      BY <2>2 DEF Live
    <3> QED
      BY <3>5, <3>6 DEF Grounded, Ordered
  <2> QED
    BY <2>7, <2>8, <2>9 DEF RecordsInv
<1>7. CASE ~(Active /\ Recorded(c))
  <2> DEFINE e == [code |-> c, cycle |-> -1, id |-> 0]
  <2>1. /\ stack' = stack
        /\ \/ lexgion' = lexgion
           \/ lexgion' = [lexgion EXCEPT ![c].counter = @ + 1, ![c].since = @ + 1]
    BY <1>7 DEF Start, Begin, Push, Recorded
  <2>2. /\ frames' = Append(frames, e)
        /\ pc' = pc
        /\ ~missed' => ~missed /\ ~HoldsRecord(c)
    BY <1>7 DEF Start
  <2>3. \A d \in Codes : lexgion'[d].counter >= lexgion[d].counter
    BY <1>1, <1>3, <2>1, Elements DEF Lexgion
  <2>4. e \in Frame /\ e.id = 0 /\ e.code = c
    BY DEF Frame
  <2> HIDE DEF e
  <2>5. /\ DOMAIN frames' = 1 .. Len(frames) + 1
        /\ \A i \in 1 .. Len(frames) : frames'[i] = frames[i]
        /\ frames'[Len(frames) + 1] = e
    BY <1>3, <2>2, <2>4, Pushed
  <2>6. \A d \in Codes : lexgion'[d].counter \in Nat /\ lexgion[d].counter \in Nat
    <3>1. lexgion' \in [Codes -> Lexgion]
      BY DEF TypeInv, TypeOK
    <3> QED
      BY <1>3, <3>1 DEF Lexgion
  <2>7. Numbered'
    <3>1. \A p \in DOMAIN stack :
             stack[p].id <= lexgion'[stack[p].code].counter
      BY <1>1, <2>3, <2>6, Elements DEF Numbered
    <3>2. \A i \in DOMAIN frames' :
             frames'[i].id <= lexgion'[frames'[i].code].counter
      BY <1>1, <2>3, <2>4, <2>5, <2>6, Elements DEF Numbered
    <3>3. \A i \in DOMAIN suspended :
             suspended[i].id <= lexgion'[suspended[i].code].counter
      BY <1>1, <2>3, <2>6, Elements DEF Numbered
    <3> QED
      BY <1>5, <2>1, <3>1, <3>2, <3>3 DEF Numbered
  <2>8. Distinct'
    <3>1. \A i \in DOMAIN frames' : frames'[i].id > 0 =>
             i \in DOMAIN frames /\ frames'[i] = frames[i]
      BY <1>1, <2>4, <2>5, Elements
    <3>2. \A i \in DOMAIN frames', j \in DOMAIN frames' :
             frames'[i].id > 0 /\ RecordOf(frames'[i]) = RecordOf(frames'[j])
             => frames'[j].id > 0
      BY DEF RecordOf
    <3>3. /\ \A i, j \in DOMAIN frames' :
               frames'[i].id > 0 /\ RecordOf(frames'[i]) = RecordOf(frames'[j])
               => i = j
          /\ \A i \in DOMAIN frames', j \in DOMAIN suspended :
               frames'[i].id > 0 => RecordOf(frames'[i]) # RecordOf(suspended[j])
      BY <1>1, <3>1, <3>2 DEF Distinct
    <3> QED
      BY <1>1, <1>5, <2>1, <3>3 DEF Distinct, RecordOf
  <2>9. ASSUME ~missed', ~displaced'
        PROVE  Grounded(Live, stack)' /\ Ordered(Live, stack)'
    <3>1. Grounded(frames, stack) /\ Ordered(frames, stack)
      BY <1>4, <1>5, <2>2, <2>9 DEF RecordsInv
    <3>2. \A q \in DOMAIN stack : ~Takes(e, stack[q])
      BY <2>2, <2>4, <2>9 DEF HoldsRecord, Takes
    <3>3. Grounded(frames', stack) /\ Ordered(frames', stack)
      BY <1>3, <2>2, <2>4, <3>1, <3>2, AddedFrame
    <3>4. Live' = frames'
      BY <1>4, <2>2 DEF Live
    <3> QED
      BY <2>1, <3>3, <3>4 DEF Grounded, Ordered
  <2> QED
    BY <2>7, <2>8, <2>9 DEF RecordsInv
<1> QED
  BY <1>6, <1>7

\* Changing the trace bit or the traces of a region leaves its counter alone.
LEMMA CounterKept ==
    ASSUME TypeInv, NEW c \in Codes, SetTraceBit(c) \/ PostTraceUpdate(c)
    PROVE  \A d \in Codes : lexgion'[d].counter = lexgion[d].counter
<1> DEFINE l == IF c \in Disabled THEN lexgion[c] ELSE Renewed(c)
           b == c \notin Disabled /\ TracedByRate(c, l)
<1>1. lexgion \in [Codes -> Lexgion] /\ generation \in [Configs -> Nat]
  BY DEF TypeInv, TypeOK
<1>2. CASE SetTraceBit(c)
  <2>1. l \in Lexgion /\ l.counter = lexgion[c].counter
    BY <1>1, LexgionsAssumption DEF Renewed, Lexgion
  <2>2. lexgion' = [lexgion EXCEPT ![c] = [l EXCEPT !.resolved = TRUE, !.bit = b]]
    BY <1>2 DEF SetTraceBit
  <2> HIDE DEF l, b
  <2>3. [l EXCEPT !.resolved = TRUE, !.bit = b].counter = l.counter
    BY <2>1 DEF Lexgion
  <2> QED
    BY <1>1, <2>1, <2>2, <2>3
<1>3. CASE PostTraceUpdate(c)
  <2>1. lexgion' = [lexgion EXCEPT ![c].traces = @ + 1, ![c].since = 0]
    BY <1>3 DEF PostTraceUpdate
  <2> QED
    BY <1>1, <2>1 DEF Lexgion
<1> QED
  BY <1>2, <1>3

LEMMA StartTraceRecords ==
    ASSUME RecordsInv, TypeInv', StartTrace
    PROVE  RecordsInv'
<1>1. TypeInv /\ Numbered /\ Distinct
  BY DEF RecordsInv
<1>2. /\ frames # <<>> /\ frames \in Seq(Frame)
      /\ Top.code \in Codes /\ Len(frames) \in DOMAIN frames
  BY <1>1, TopFrame DEF StartTrace, TypeInv, TypeOK
<1>3. \A c \in Codes : lexgion'[c].counter = lexgion[c].counter
  BY <1>1, <1>2, CounterKept DEF StartTrace
<1>4. /\ DOMAIN frames' = DOMAIN frames
      /\ \A i \in DOMAIN frames :
           frames'[i].code = frames[i].code /\ frames'[i].id = frames[i].id
  <2>1. \A i \in DOMAIN frames : frames[i] \in Frame
    BY <1>2, LenProperties, ElementOfSeq
  <2>2. \/ frames' = frames
        \/ frames' = [frames EXCEPT ![Len(frames)].cycle =
                                    generation[ConfigOf[Top.code]]]
        \/ frames' = [frames EXCEPT ![Len(frames)].cycle = -1]
    BY DEF StartTrace
  <2> QED
    BY <2>1, <2>2 DEF Frame
<1>5. /\ pc = "started" /\ pc' = "run"
      /\ UNCHANGED <<stack, suspended, missed, displaced>>
  BY DEF StartTrace, ghostVars
<1>6. Numbered' /\ Distinct'
  BY <1>1, <1>3, <1>4, <1>5, Dropped
<1>7. ASSUME ~missed', ~displaced'
      PROVE  Grounded(Live, stack)' /\ Ordered(Live, stack)'
  <2>1. Live = frames /\ Live' = frames'
    BY <1>1, <1>5, LiveFrames DEF Live
  <2>2. Grounded(frames, stack) /\ Ordered(frames, stack)
    BY <1>5, <1>7, <2>1 DEF RecordsInv
  <2>3. Grounded(frames', stack) /\ Ordered(frames', stack)
    BY <1>4, <2>2, FewerFrames
  <2> QED
    BY <1>5, <2>1, <2>3 DEF Grounded, Ordered
<1> QED
  BY <1>6, <1>7 DEF RecordsInv

\* What on_py_return pops down to lies above the records of all callers.
LEMMA EndRecords ==
    ASSUME RecordsInv, TypeInv', End
    PROVE  RecordsInv'
<1> DEFINE n == Len(frames)
<1>1. TypeInv /\ Numbered /\ Distinct
  BY DEF RecordsInv
<1>2. /\ frames # <<>> /\ pc = "run" /\ Live = frames
      /\ UNCHANGED <<lexgion, suspended, missed, displaced>>
  BY <1>1, LiveFrames DEF End, tableVars, ghostVars
<1>3. /\ n \in Nat \ {0} /\ DOMAIN frames = 1 .. n
      /\ Top = frames[n]
      /\ Top.code \in Codes /\ Top.id \in Nat
      /\ DOMAIN Callers = 1 .. n - 1
      /\ \A i \in 1 .. n - 1 : Callers[i] = frames[i]
  BY <1>1, <1>2, TopFrame DEF TypeInv, Top
<1>4. DOMAIN stack = 1 .. Len(stack) /\ Len(stack) \in Nat /\ stack \in Seq(Record)
  BY <1>1, Elements DEF TypeInv, TypeOK
<1>5. frames' = frames \/ frames' = Callers
  BY DEF End
<1>6. Live' = Callers
  BY <1>2 DEF End, Live, Callers
<1> HIDE DEF n
<1>7. CASE stack' = stack
  <2>1. Numbered' /\ Distinct'
    BY <1>1, <1>2, <1>3, <1>5, <1>7, Dropped
  <2>2. ASSUME ~missed', ~displaced'
        PROVE  Grounded(Live, stack)' /\ Ordered(Live, stack)'
    <3>1. Grounded(frames, stack) /\ Ordered(frames, stack)
      BY <1>2, <2>2 DEF RecordsInv
    <3>2. Grounded(Callers, stack) /\ Ordered(Callers, stack)
      BY <1>3, <3>1, FewerFrames
    <3> QED
      BY <1>6, <1>7, <3>2 DEF Grounded, Ordered
  <2> QED
    BY <2>1, <2>2 DEF RecordsInv
<1>8. CASE Active /\ HoldsRecord(Top.code)
  <2>1. PICK top \in DOMAIN stack :
           /\ stack[top].code = Top.code
           /\ \A i \in DOMAIN stack : stack[i].code = Top.code => i <= top
           /\ stack' = SubSeq(stack, 1, top - 1)
    BY <1>8 DEF End, EndMatch
  <2>2. /\ DOMAIN stack' = 1 .. top - 1
        /\ \A p \in 1 .. top - 1 : stack'[p] = stack[p]
    <3>1. top - 1 \in 0 .. Len(stack)
      BY <1>4
    <3> QED
      BY <1>4, <2>1, <3>1, Popped
  <2>3. Numbered' /\ Distinct'
    <3>1. DOMAIN stack' \subseteq DOMAIN stack
      BY <1>4, <2>2
    <3> QED
      BY <1>1, <1>2, <1>3, <1>5, <2>2, <3>1, Dropped
  <2>4. ASSUME ~missed', ~displaced'
        PROVE  Grounded(Live, stack)' /\ Ordered(Live, stack)'
    <3>1. Grounded(frames, stack) /\ Ordered(frames, stack)
      BY <1>2, <2>4 DEF RecordsInv
    <3>2. PICK t \in DOMAIN stack : Takes(Top, stack[t]) /\ t <= top
      <4>1. CASE Top.id > 0
        <5>1. PICK t \in DOMAIN stack : stack[t] = RecordOf(Top)
          BY <1>3, <3>1, <4>1 DEF Grounded
        <5> QED
          BY <2>1, <4>1, <5>1 DEF Takes, RecordOf
      <4>2. CASE ~(Top.id > 0)
        BY <1>4, <2>1, <4>2 DEF Takes
      <4> QED
        BY <4>1, <4>2
    <3>3. ASSUME NEW i \in 1 .. n - 1, NEW p \in DOMAIN stack,
                 frames[i].id > 0, stack[p] = RecordOf(frames[i])
          PROVE  p \in DOMAIN stack' /\ stack'[p] = stack[p]
      <4>1. i \in DOMAIN frames /\ n \in DOMAIN frames /\ i < n
        BY <1>3
      <4>2. p < t
        BY <1>3, <3>1, <3>2, <3>3, <4>1 DEF Ordered
      <4> QED
        BY <1>4, <2>2, <3>2, <4>2
    <3>4. Grounded(Callers, stack')
      BY <1>3, <3>1, <3>3 DEF Grounded
    <3>5. Ordered(Callers, stack')
      <4>1. DOMAIN stack' \subseteq DOMAIN stack
            /\ \A p \in DOMAIN stack' : stack'[p] = stack[p]
        BY <1>4, <2>2
      <4>2. DOMAIN Callers \subseteq DOMAIN frames
            /\ \A i \in DOMAIN Callers : Callers[i] = frames[i]
        BY <1>3
      <4> QED
        BY <3>1, <4>1, <4>2 DEF Ordered
    <3> QED
      BY <1>6, <3>4, <3>5 DEF Grounded, Ordered
  <2> QED
    BY <2>3, <2>4 DEF RecordsInv
<1>9. stack' = stack \/ (Active /\ HoldsRecord(Top.code))
  BY DEF End, EndMatch
<1> QED
  BY <1>7, <1>8, <1>9

\* Steps that pop the running frame and leave the records alone.
LEMMA PoppedFrame ==
    ASSUME RecordsInv, frames # <<>>, frames' = Callers, pc' = "run",
           stack' = stack, missed' = missed, displaced' = displaced
    PROVE  ~missed' /\ ~displaced'
           => Grounded(Live, stack)' /\ Ordered(Live, stack)'
<1> SUFFICES ASSUME ~missed', ~displaced'
             PROVE  Grounded(Live, stack)' /\ Ordered(Live, stack)'
  OBVIOUS
<1>1. Grounded(Live, stack) /\ Ordered(Live, stack)
  BY DEF RecordsInv
<1>2. /\ DOMAIN Callers \subseteq DOMAIN Live
      /\ \A i \in DOMAIN Callers : Callers[i] = Live[i]
  <2>1. /\ Len(frames) \in Nat
        /\ DOMAIN frames = 1 .. Len(frames)
        /\ DOMAIN Callers = 1 .. Len(frames) - 1
        /\ \A i \in 1 .. Len(frames) - 1 : Callers[i] = frames[i]
    BY TopFrame DEF RecordsInv, TypeInv
  <2>2. Live = frames \/ Live = Callers
    BY DEF Live
  <2> QED
    BY <2>1, <2>2
<1>3. Grounded(Callers, stack) /\ Ordered(Callers, stack)
  BY <1>1, <1>2, FewerFrames
<1>4. Live' = Callers
  BY DEF Live
<1> QED
  BY <1>3, <1>4 DEF Grounded, Ordered

LEMMA EndTraceRecords ==
    ASSUME RecordsInv, TypeInv', EndTrace
    PROVE  RecordsInv'
<1>1. TypeInv /\ Numbered /\ Distinct /\ frames # <<>>
  BY DEF RecordsInv, EndTrace, TypeInv, TypeOK
<1>2. \A c \in Codes : lexgion'[c].counter = lexgion[c].counter
  <2>1. PostTraceUpdate(Top.code) \/ lexgion' = lexgion
    BY DEF EndTrace
  <2>2. Top.code \in Codes
    BY <1>1, TopFrame DEF TypeInv
  <2> QED
    BY <1>1, <2>1, <2>2, CounterKept
<1>3. /\ frames' = Callers /\ pc' = "run"
      /\ UNCHANGED <<stack, suspended, missed, displaced>>
  BY DEF EndTrace
<1>4. /\ DOMAIN Callers \subseteq DOMAIN frames
      /\ \A i \in DOMAIN Callers : Callers[i] = frames[i]
  BY <1>1, TopFrame DEF TypeInv
<1>5. Numbered' /\ Distinct'
  BY <1>1, <1>2, <1>3, <1>4, Dropped
<1> QED
  BY <1>1, <1>3, <1>5, PoppedFrame DEF RecordsInv

LEMMA RaiseRecords ==
    ASSUME RecordsInv, TypeInv', Raise
    PROVE  RecordsInv'
<1>1. TypeInv /\ Numbered /\ Distinct /\ frames # <<>>
  BY DEF RecordsInv, Raise
<1>2. /\ frames' = Callers /\ pc' = "run"
      /\ UNCHANGED <<lexgion, stack, suspended, missed, displaced>>
  BY DEF Raise, lexgionVars, ghostVars
<1>3. /\ DOMAIN Callers \subseteq DOMAIN frames
      /\ \A i \in DOMAIN Callers : Callers[i] = frames[i]
  BY <1>1, TopFrame DEF TypeInv
<1>4. Numbered' /\ Distinct'
  BY <1>1, <1>2, <1>3, Dropped
<1> QED
  BY <1>1, <1>2, <1>4, PoppedFrame DEF RecordsInv

LEMMA SuspendRecords ==
    ASSUME RecordsInv, TypeInv', Suspend
    PROVE  RecordsInv'
<1>1. TypeInv /\ Numbered /\ Distinct /\ frames # <<>>
  BY DEF RecordsInv, Suspend
<1>2. /\ frames' = Callers /\ pc' = "run"
      /\ suspended' = Append(suspended, Top)
      /\ UNCHANGED <<lexgion, stack, missed, displaced>>
  BY DEF Suspend, lexgionVars, ghostVars
<1>3. /\ Len(frames) \in Nat \ {0} /\ DOMAIN frames = 1 .. Len(frames)
      /\ DOMAIN Callers = 1 .. Len(frames) - 1
      /\ \A i \in 1 .. Len(frames) - 1 : Callers[i] = frames[i]
      /\ Top = frames[Len(frames)] /\ Top \in Frame
  BY <1>1, TopFrame DEF TypeInv, Top
<1>4. /\ DOMAIN suspended = 1 .. Len(suspended) /\ Len(suspended) \in Nat
      /\ DOMAIN suspended' = 1 .. Len(suspended) + 1
      /\ \A i \in 1 .. Len(suspended) : suspended'[i] = suspended[i]
      /\ suspended'[Len(suspended) + 1] = Top
  BY <1>1, <1>2, <1>3, Pushed, LenProperties DEF TypeInv, TypeOK
<1>5. Numbered'
  BY <1>1, <1>2, <1>3, <1>4 DEF Numbered
<1>6. Distinct'
  <2>1. \A i, j \in DOMAIN Callers :
          Callers[i].id > 0 /\ RecordOf(Callers[i]) = RecordOf(Callers[j]) => i = j
    BY <1>1, <1>3 DEF Distinct
  <2>2. \A i, j \in DOMAIN suspended' :
          suspended'[i].id > 0 /\ RecordOf(suspended'[i]) = RecordOf(suspended'[j])
          => i = j
    <3>1. \A i \in DOMAIN suspended :
            /\ suspended[i].id > 0 => RecordOf(suspended[i]) # RecordOf(Top)
            /\ Top.id > 0 => RecordOf(suspended[i]) # RecordOf(Top)
      BY <1>1, <1>3 DEF Distinct, RecordOf
    <3> QED
      BY <1>1, <1>4, <3>1 DEF Distinct
  <2>3. \A i \in DOMAIN Callers, j \in DOMAIN suspended' :
          Callers[i].id > 0 => RecordOf(Callers[i]) # RecordOf(suspended'[j])
    BY <1>1, <1>3, <1>4 DEF Distinct
  <2> QED
    BY <1>1, <1>2, <2>1, <2>2, <2>3 DEF Distinct, RecordOf
<1> QED
  BY <1>1, <1>2, <1>5, <1>6, PoppedFrame DEF RecordsInv

\* Where the generators that stay suspended were.
LEMMA ResumedFrom ==
    ASSUME TypeInv, NEW k \in DOMAIN suspended, Resume(k)
    PROVE  \A i \in DOMAIN suspended' : \E j \in DOMAIN suspended :
              /\ suspended'[i] = suspended[j] /\ j # k
              /\ j = IF i < k THEN i ELSE i + 1
<1>1. suspended' = SubSeq(suspended, 1, k - 1)
                      \o SubSeq(suspended, k + 1, Len(suspended))
  BY DEF Resume
<1>2. PICK t : t = suspended'
  OBVIOUS
<1>3. t = SubSeq(suspended, 1, k - 1) \o SubSeq(suspended, k + 1, Len(suspended))
  BY <1>1, <1>2
<1>4. /\ DOMAIN suspended = 1 .. Len(suspended) /\ Len(suspended) \in Nat
      /\ suspended \in Seq(Frame) /\ k \in 1 .. Len(suspended)
  BY Elements DEF TypeInv, TypeOK
<1>5. /\ DOMAIN t = 1 .. Len(suspended) - 1
      /\ \A i \in 1 .. Len(suspended) - 1 :
           t[i] = IF i < k THEN suspended[i] ELSE suspended[i + 1]
  BY <1>3, <1>4, Removed
<1>6. ASSUME NEW i \in DOMAIN t
      PROVE  \E j \in DOMAIN suspended :
                t[i] = suspended[j] /\ j # k /\ j = IF i < k THEN i ELSE i + 1
  <2> DEFINE j == IF i < k THEN i ELSE i + 1
  <2>1. j \in DOMAIN suspended /\ j # k /\ t[i] = suspended[j]
    BY <1>4, <1>5
  <2> QED
    BY <2>1
<1> QED
  BY <1>2, <1>6

\* A generator goes on where its record is.
LEMMA ResumeRecords ==
    ASSUME RecordsInv, TypeInv', NEW k \in DOMAIN suspended, Resume(k)
    PROVE  RecordsInv'
<1> DEFINE e == suspended[k]
<1>1. TypeInv /\ Numbered /\ Distinct
  BY DEF RecordsInv
<1>2. /\ pc = "run" /\ Live = frames
      /\ frames' = Append(frames, e) /\ Live' = frames'
      /\ UNCHANGED <<lexgion, stack, missed>>
      /\ ~displaced' => ~displaced /\ InPlace(e)
  BY <1>1, LiveFrames DEF Resume, Live, lexgionVars
<1>3. /\ frames \in Seq(Frame) /\ suspended \in Seq(Frame)
      /\ k \in 1 .. Len(suspended) /\ e \in Frame /\ e.code \in Codes /\ e.id \in Nat
  <2>1. /\ frames \in Seq(Frame) /\ suspended \in Seq(Frame)
        /\ k \in 1 .. Len(suspended) /\ suspended[k] \in Frame
    BY <1>1, LenProperties, ElementOfSeq DEF TypeInv, TypeOK
  <2> QED
    BY <2>1 DEF Frame
<1>4. \A i \in DOMAIN suspended' : \E j \in DOMAIN suspended :
        /\ suspended'[i] = suspended[j] /\ j # k
        /\ j = IF i < k THEN i ELSE i + 1
  BY <1>1, ResumedFrom
<1> HIDE DEF e
<1>5. /\ DOMAIN frames = 1 .. Len(frames) /\ Len(frames) \in Nat
      /\ DOMAIN frames' = 1 .. Len(frames) + 1
      /\ \A i \in 1 .. Len(frames) : frames'[i] = frames[i]
      /\ frames'[Len(frames) + 1] = e
  BY <1>2, <1>3, Pushed, LenProperties
<1>6. /\ \A i \in DOMAIN frames : frames[i].id > 0 => RecordOf(frames[i]) # RecordOf(e)
      /\ \A i \in DOMAIN frames : e.id > 0 => RecordOf(frames[i]) # RecordOf(e)
      /\ \A j \in DOMAIN suspended \ {k} :
           e.id > 0 => RecordOf(suspended[j]) # RecordOf(e)
  BY <1>1 DEF Distinct, RecordOf, e
<1>7. Numbered'
  <2>1. \A i \in DOMAIN frames' : frames'[i].id <= lexgion[frames'[i].code].counter
    BY <1>1, <1>5 DEF Numbered, e
  <2>2. \A i \in DOMAIN suspended' :
           suspended'[i].id <= lexgion[suspended'[i].code].counter
    BY <1>1, <1>4 DEF Numbered
  <2> QED
    BY <1>1, <1>2, <2>1, <2>2 DEF Numbered
<1>8. Distinct'
  <2>1. \A i, j \in DOMAIN frames' :
          frames'[i].id > 0 /\ RecordOf(frames'[i]) = RecordOf(frames'[j]) => i = j
    BY <1>1, <1>5, <1>6 DEF Distinct
  <2>2. ASSUME NEW i \in DOMAIN suspended', NEW j \in DOMAIN suspended',
               suspended'[i].id > 0,
               RecordOf(suspended'[i]) = RecordOf(suspended'[j])
        PROVE  i = j
    <3>1. PICK a \in DOMAIN suspended :
             suspended'[i] = suspended[a] /\ a = IF i < k THEN i ELSE i + 1
      BY <1>4
    <3>2. PICK b \in DOMAIN suspended :
             suspended'[j] = suspended[b] /\ b = IF j < k THEN j ELSE j + 1
      BY <1>4
    <3>3. a = b
      BY <1>1, <2>2, <3>1, <3>2 DEF Distinct
    <3>4. i \in Int /\ j \in Int /\ k \in Int
      <4>1. suspended' \in Seq(Frame)
        BY DEF TypeInv, TypeOK
      <4> QED
        BY <1>3, <4>1, LenProperties
    <3> QED
      BY <3>1, <3>2, <3>3, <3>4
  <2>3. \A i \in DOMAIN frames', j \in DOMAIN suspended' :
          frames'[i].id > 0 => RecordOf(frames'[i]) # RecordOf(suspended'[j])
    <3>1. \A j \in DOMAIN suspended' : \E b \in DOMAIN suspended \ {k} :
             suspended'[j] = suspended[b]
      BY <1>4
    <3> QED
      BY <1>1, <1>5, <1>6, <3>1 DEF Distinct
  <2> QED
    BY <1>1, <1>2, <2>1, <2>2, <2>3 DEF Distinct
<1>9. ASSUME ~missed', ~displaced'
      PROVE  Grounded(Live, stack)' /\ Ordered(Live, stack)'
  <2>1. Grounded(frames, stack) /\ Ordered(frames, stack)
    BY <1>2, <1>9 DEF RecordsInv
  <2>2. InPlace(e)
    BY <1>2, <1>9
  <2>3. DOMAIN stack = 1 .. Len(stack) /\ Len(stack) \in Nat
    BY <1>1, Elements
  <2>4. /\ e.id > 0 => \E p \in DOMAIN stack : stack[p] = RecordOf(e)
        /\ \A i \in DOMAIN frames : \A p, q \in DOMAIN stack :
             frames[i].id > 0 /\ stack[p] = RecordOf(frames[i]) /\ Takes(e, stack[q])
             => p < q
    <3>1. CASE e.id > 0
      <4>1. Len(stack) \in DOMAIN stack /\ stack[Len(stack)] = RecordOf(e)
        <5>1. stack # <<>> /\ stack[Len(stack)] = RecordOf(e)
          BY <2>2, <3>1 DEF InPlace, RecordOf
        <5>2. Len(stack) # 0
          BY <1>1, <5>1, EmptySeq DEF TypeInv, TypeOK
        <5> QED
          BY <2>3, <5>1, <5>2
      <4>2. \A q \in DOMAIN stack : Takes(e, stack[q]) => q = Len(stack)
        BY <1>1, <3>1, <4>1 DEF Takes, Distinct
      <4>3. \A i \in DOMAIN frames, p \in DOMAIN stack :
               frames[i].id > 0 /\ stack[p] = RecordOf(frames[i]) => p < Len(stack)
        BY <1>6, <2>3, <4>1
      <4> QED
        BY <4>1, <4>2, <4>3
    <3>2. CASE ~(e.id > 0)
      BY <2>2, <3>2 DEF InPlace, HoldsRecord, Takes
    <3> QED
      BY <3>1, <3>2
  <2>5. Grounded(frames', stack) /\ Ordered(frames', stack)
    BY <1>2, <1>3, <2>1, <2>4, AddedFrame
  <2> QED
    BY <1>2, <2>5 DEF Grounded, Ordered
<1> QED
  BY <1>7, <1>8, <1>9 DEF RecordsInv

LEMMA NextRecords == RecordsInv /\ [Next]_vars => RecordsInv'
<1> SUFFICES ASSUME RecordsInv, [Next]_vars PROVE RecordsInv'
  OBVIOUS
<1>0. TypeInv'
  BY NextType DEF RecordsInv
<1>1. CASE \E c \in Codes : Start(c)
  BY <1>0, <1>1, StartRecords
<1>2. CASE StartTrace
  BY <1>0, <1>2, StartTraceRecords
<1>3. CASE End
  BY <1>0, <1>3, EndRecords
<1>4. CASE EndTrace
  BY <1>0, <1>4, EndTraceRecords
<1>5. CASE Raise
  BY <1>0, <1>5, RaiseRecords
<1>6. CASE Suspend
  BY <1>0, <1>6, SuspendRecords
<1>7. CASE \E i \in DOMAIN suspended : Resume(i)
  BY <1>0, <1>7, ResumeRecords
<1>8. CASE \E m \in Modes : SwitchMode(m)
  BY <1>0, <1>8, Untouched DEF SwitchMode, lexgionVars, frameVars, ghostVars
<1>9. CASE \E k \in Configs : Unlatch(k) \/ StepGeneration(k)
  BY <1>0, <1>9, Untouched DEF Unlatch, StepGeneration, tableVars, frameVars, ghostVars
<1>10. CASE UNCHANGED vars
  BY <1>0, <1>10, Untouched DEF vars, lexgionVars, pythonVars, frameVars, ghostVars
<1> QED
  BY <1>1, <1>2, <1>3, <1>4, <1>5, <1>6, <1>7, <1>8, <1>9, <1>10 DEF Next, Done

\* The frames of a Python thread keep the records their starts pushed: an
\* unmatched end pops no record of an enclosing frame, whatever exceptions,
\* full tables and stacks and mode changes came before (lexgion_end_match).
THEOREM PythonRecordsKept == Spec => []LiveRecordsKept
<1>1. RecordsInv => LiveRecordsKept
  BY DEF RecordsInv, LiveRecordsKept, RecordsKept, HasRecord, Grounded, RecordOf
<1> QED
  BY InitRecords, NextRecords, <1>1, PTL DEF Spec

-----------------------------------------------------------------------------
(***************************************************************************)
(* What one cycle traces of a region: its count covers the executions the  *)
(* cycle has traced, unless executions of the region have overlapped.      *)
(***************************************************************************)
\* The executions in progress.
Executions == {frames[i] : i \in DOMAIN frames}
                 \cup {suspended[i] : i \in DOMAIN suspended}

Capped(c) == Cap[ConfigOf[c]] # Unlimited
CycleOf(c) == generation[ConfigOf[c]]
Current(c) == lexgion[c].gen = CycleOf(c)

\* No count and no execution is of a cycle to come.
NoLaterCycle ==
    /\ \A c \in Codes : lexgion[c].gen <= CycleOf(c)
    /\ \A x \in Executions : x.cycle <= CycleOf(x.code)

\* A region whose executions never overlapped has at most one in progress.
Alone ==
    /\ \A i, j \in DOMAIN frames :
         frames[i].code = frames[j].code => i = j \/ frames[i].code \in overlapped
    /\ \A i, j \in DOMAIN suspended :
         suspended[i].code = suspended[j].code
         => i = j \/ suspended[i].code \in overlapped
    /\ \A i \in DOMAIN frames, j \in DOMAIN suspended :
         frames[i].code = suspended[j].code => frames[i].code \in overlapped

\* Its count is at least what the cycle traced of it, ...
Counted ==
    \A c \in Codes \ overlapped : Capped(c) =>
        IF Current(c) THEN begunTraces[c] <= lexgion[c].traces
                      ELSE begunTraces[c] = 0

\* ... and an execution that may still be counted has its place under the cap.
RoomLeft ==
    \A x \in Executions :
        x.code \notin overlapped /\ Capped(x.code) /\ x.cycle = CycleOf(x.code)
        => Current(x.code) /\ begunTraces[x.code] < Cap[ConfigOf[x.code]]

CyclesInv ==
    /\ TypeInv
    /\ NoLaterCycle
    /\ Alone
    /\ Counted
    /\ RoomLeft
    /\ CycleCap
    /\ FreshCount

\* What the types say of the counts.
LEMMA CountTypes ==
    ASSUME TypeInv, NEW c \in Codes
    PROVE  /\ lexgion[c].gen \in Nat /\ lexgion[c].traces \in Nat
           /\ begunTraces[c] \in Nat /\ cycleTraces[c] \in Nat
           /\ ConfigOf[c] \in Configs /\ CycleOf(c) \in Nat
           /\ Cap[ConfigOf[c]] \in Nat \cup {Unlimited}
<1>1. /\ lexgion \in [Codes -> Lexgion] /\ generation \in [Configs -> Nat]
      /\ begunTraces \in [Codes -> Nat] /\ cycleTraces \in [Codes -> Nat]
  BY DEF TypeInv, TypeOK
<1>2. ConfigOf[c] \in Configs /\ Cap[ConfigOf[c]] \in Nat \cup {Unlimited}
  BY LexgionsAssumption
<1>3. lexgion[c].gen \in Nat /\ lexgion[c].traces \in Nat
  BY <1>1 DEF Lexgion
<1> QED
  BY <1>1, <1>2, <1>3 DEF CycleOf

LEMMA ExecutionTypes ==
    ASSUME TypeInv
    PROVE  \A x \in Executions : x.code \in Codes /\ x.cycle \in Nat \cup {-1}
<1>1. /\ \A i \in DOMAIN frames : frames[i] \in Frame
      /\ \A i \in DOMAIN suspended : suspended[i] \in Frame
  BY LenProperties, ElementOfSeq DEF TypeInv, TypeOK
<1> QED
  BY <1>1 DEF Executions, Frame

LEMMA InitCycles == Init => CyclesInv
<1> SUFFICES ASSUME Init PROVE CyclesInv
  OBVIOUS
<1>1. TypeInv
  BY InitType
<1>2. DOMAIN frames = {} /\ DOMAIN suspended = {} /\ Executions = {}
  BY DEF Init, Executions
<1>3. \A c \in Codes :
        /\ begunTraces[c] = 0 /\ cycleTraces[c] = 0
        /\ lexgion[c].gen = 0 /\ lexgion[c].traces = 0
        /\ ConfigOf[c] \in Configs /\ Cap[ConfigOf[c]] \in Nat \cup {Unlimited}
        /\ CycleOf(c) = 0
  BY LexgionsAssumption DEF Init, LexgionsInit, CycleOf
<1>4. NoLaterCycle /\ Alone /\ Counted /\ RoomLeft
  BY <1>2, <1>3 DEF NoLaterCycle, Alone, Counted, RoomLeft
<1>5. CycleCap /\ FreshCount
  BY <1>3 DEF CycleCap, FreshCount, Unlimited
<1> QED
  BY <1>1, <1>4, <1>5 DEF CyclesInv

\* Steps that count nothing and open no cycle.
LEMMA NothingCounted ==
    ASSUME CyclesInv, TypeInv', Alone',
           \A c \in Codes : /\ lexgion'[c].gen = lexgion[c].gen
                            /\ lexgion'[c].traces = lexgion[c].traces,
           UNCHANGED <<generation, begunTraces, cycleTraces>>,
           overlapped \subseteq overlapped',
           \A x \in Executions' : x \in Executions \/ x.cycle = -1
    PROVE  CyclesInv'
<1>1. TypeInv /\ NoLaterCycle /\ Counted /\ RoomLeft /\ CycleCap /\ FreshCount
  BY DEF CyclesInv
<1>2. \A c \in Codes : CycleOf(c)' = CycleOf(c) /\ CycleOf(c) \in Nat
                       /\ (Current(c)' <=> Current(c))
  BY <1>1, CountTypes DEF CycleOf, Current
<1>3. \A x \in Executions' : x.code \in Codes
  <2> USE DEF Executions
  <2>1. \A i \in DOMAIN frames' : frames'[i] \in Frame
    BY LenProperties, ElementOfSeq DEF TypeInv, TypeOK
  <2>2. \A i \in DOMAIN suspended' : suspended'[i] \in Frame
    BY LenProperties, ElementOfSeq DEF TypeInv, TypeOK
  <2> QED
    BY <2>1, <2>2 DEF Frame
<1>4. NoLaterCycle'
  BY <1>1, <1>2, <1>3 DEF NoLaterCycle
<1>5. Counted'
  BY <1>1, <1>2 DEF Counted
<1>6. RoomLeft'
  BY <1>1, <1>2, <1>3 DEF RoomLeft
<1>7. CycleCap' /\ FreshCount'
  BY <1>1, <1>2 DEF CycleCap, FreshCount
<1> QED
  BY <1>4, <1>5, <1>6, <1>7 DEF CyclesInv

\* Running frames end or change their cycles, and no frame begins.
LEMMA StillAlone ==
    ASSUME Alone, suspended' = suspended, overlapped' = overlapped,
           DOMAIN frames' \subseteq DOMAIN frames,
           \A i \in DOMAIN frames' : frames'[i].code = frames[i].code
    PROVE  Alone'
BY DEF Alone

LEMMA StartCycles ==
    ASSUME CyclesInv, TypeInv', NEW c \in Codes, Start(c)
    PROVE  CyclesInv'
<1>1. TypeInv /\ Alone
  BY DEF CyclesInv
<1>2. PICK e \in Frame : e.code = c /\ e.cycle = -1 /\ frames' = Append(frames, e)
  <2>1. lexgion[c].counter + 1 \in Nat
    <3>1. lexgion[c] \in Lexgion
      BY <1>1 DEF TypeInv, TypeOK
    <3> QED
      BY <3>1 DEF Lexgion
  <2>2. /\ [code |-> c, cycle |-> -1, id |-> lexgion[c].counter + 1] \in Frame
        /\ [code |-> c, cycle |-> -1, id |-> 0] \in Frame
    BY <2>1 DEF Frame
  <2> QED
    BY <2>2 DEF Start
<1>3. /\ overlapped' = IF InProgress(c) THEN overlapped \cup {c} ELSE overlapped
      /\ UNCHANGED <<generation, begunTraces, cycleTraces, suspended>>
  BY DEF Start
<1>4. /\ DOMAIN frames = 1 .. Len(frames) /\ Len(frames) \in Nat
      /\ DOMAIN frames' = 1 .. Len(frames) + 1
      /\ \A i \in 1 .. Len(frames) : frames'[i] = frames[i]
      /\ frames'[Len(frames) + 1] = e
  BY <1>1, <1>2, Pushed, LenProperties DEF TypeInv, TypeOK
<1>5. \A d \in Codes : /\ lexgion'[d].gen = lexgion[d].gen
                       /\ lexgion'[d].traces = lexgion[d].traces
  <2>1. lexgion \in [Codes -> Lexgion]
    BY <1>1 DEF TypeInv, TypeOK
  <2>2. \/ lexgion' = lexgion
        \/ lexgion' = [lexgion EXCEPT ![c].counter = @ + 1, ![c].since = @ + 1]
    BY DEF Start, Begin
  <2> QED
    BY <2>1, <2>2 DEF Lexgion
<1>6. Alone'
  <2>1. c \notin overlapped' =>
          /\ \A i \in DOMAIN frames : frames[i].code # c
          /\ \A i \in DOMAIN suspended : suspended[i].code # c
    BY <1>3 DEF InProgress
  <2>2. overlapped \subseteq overlapped'
    BY <1>3
  <2>3. \A i, j \in DOMAIN frames' : frames'[i].code = frames'[j].code
          => i = j \/ frames'[i].code \in overlapped'
    BY <1>1, <1>2, <1>4, <2>1, <2>2 DEF Alone
  <2>4. \A i \in DOMAIN frames', j \in DOMAIN suspended :
          frames'[i].code = suspended[j].code => frames'[i].code \in overlapped'
    BY <1>1, <1>2, <1>4, <2>1, <2>2 DEF Alone
  <2> QED
    BY <1>1, <1>3, <2>2, <2>3, <2>4 DEF Alone
<1>7. \A x \in Executions' : x \in Executions \/ x.cycle = -1
  BY <1>2, <1>3, <1>4 DEF Executions
<1>8. overlapped \subseteq overlapped'
  BY <1>3
<1> QED
  BY <1>3, <1>5, <1>6, <1>7, <1>8, NothingCounted

\* Steps that drop the running frame or keep it, and count nothing.
LEMMA DroppedCycles ==
    ASSUME CyclesInv, TypeInv', frames # <<>>,
           frames' = frames \/ frames' = Callers,
           UNCHANGED <<suspended, lexgion, generation, overlapped, begunTraces,
                       cycleTraces>>
    PROVE  CyclesInv'
<1>1. TypeInv /\ Alone
  BY DEF CyclesInv
<1>2. /\ DOMAIN frames' \subseteq DOMAIN frames
      /\ \A i \in DOMAIN frames' : frames'[i] = frames[i]
  BY <1>1, TopFrame DEF TypeInv
<1>3. Alone'
  BY <1>1, <1>2, StillAlone
<1>4. \A x \in Executions' : x \in Executions
  BY <1>2 DEF Executions
<1> QED
  BY <1>3, <1>4, NothingCounted

\* The trace decision renews the count of a capped region, so that a traced
\* execution finds room in the current cycle.
LEMMA StartTraceCycles ==
    ASSUME CyclesInv, TypeInv', StartTrace
    PROVE  CyclesInv'
<1> DEFINE n == Len(frames)
<1> PICK c : c = Top.code
  OBVIOUS
<1>1. /\ TypeInv /\ NoLaterCycle /\ Alone /\ Counted /\ RoomLeft
      /\ CycleCap /\ FreshCount
  BY DEF CyclesInv
<1>2. /\ frames # <<>> /\ frames \in Seq(Frame) /\ c \in Codes
      /\ n \in Nat \ {0} /\ DOMAIN frames = 1 .. n /\ Top = frames[n] /\ Top \in Frame
  BY <1>1, TopFrame DEF StartTrace, TypeInv, TypeOK, Top
<1>3. UNCHANGED <<generation, begunTraces, cycleTraces, suspended, overlapped>>
  BY DEF StartTrace, ghostVars
<1>4. CASE mode # "TRACING"
  BY <1>2, <1>3, <1>4, DroppedCycles DEF StartTrace
<1>5. CASE mode = "TRACING"
  <2> DEFINE l == IF c \in Disabled THEN lexgion[c] ELSE Renewed(c)
             b == c \notin Disabled /\ TracedByRate(c, l)
             g == IF lexgion'[c].bit THEN CycleOf(c) ELSE -1
  <2>1. /\ lexgion' = [lexgion EXCEPT ![c] = [l EXCEPT !.resolved = TRUE, !.bit = b]]
        /\ frames' = [frames EXCEPT ![n] = [Top EXCEPT !.cycle = g]]
    BY <1>5 DEF StartTrace, SetTraceBit, CycleOf, Top
  <2>2. lexgion \in [Codes -> Lexgion] /\ generation \in [Configs -> Nat]
    BY <1>1 DEF TypeInv, TypeOK
  <2>3. l \in Lexgion
    BY <1>1, <1>2, <2>2, TableType, RenewedType
  <2>4. /\ c \in Disabled \/ ~Capped(c) => l.gen = lexgion[c].gen /\ l.traces = lexgion[c].traces
        /\ c \notin Disabled /\ Capped(c) =>
             /\ l.gen = CycleOf(c)
             /\ l.traces = IF Current(c) THEN lexgion[c].traces ELSE 0
    <3>1. CASE c \notin Disabled /\ Capped(c) /\ ~Current(c)
      <4>1. l = [lexgion[c] EXCEPT !.traces = 0, !.gen = CycleOf(c)]
        BY <3>1 DEF Renewed, Capped, CycleOf, Current
      <4>2. lexgion[c] \in Lexgion
        BY <1>2, <2>2
      <4> HIDE DEF l
      <4>3. l.gen = CycleOf(c) /\ l.traces = 0
        BY <4>1, <4>2 DEF Lexgion
      <4> QED
        BY <3>1, <4>3
    <3>2. CASE ~(c \notin Disabled /\ Capped(c) /\ ~Current(c))
      <4>1. l = lexgion[c]
        BY <3>2 DEF Renewed, Capped, CycleOf, Current
      <4> HIDE DEF l
      <4> QED
        BY <3>2, <4>1 DEF Current
    <3> QED
      BY <3>1, <3>2
  <2>5. b => c \notin Disabled /\ (Capped(c) => l.traces < Cap[ConfigOf[c]])
    BY DEF TracedByRate, Capped
  <2> HIDE DEF l, b
  <2>6. /\ lexgion'[c].gen = l.gen /\ lexgion'[c].traces = l.traces
        /\ lexgion'[c].bit = b
        /\ \A d \in Codes \ {c} : lexgion'[d] = lexgion[d]
    BY <1>2, <2>1, <2>2, <2>3 DEF Lexgion
  <2>7. \A d \in Codes : CycleOf(d)' = CycleOf(d) /\ CycleOf(d) \in Nat
    BY <1>1, <1>3, CountTypes DEF CycleOf
  <2>8. g \in {-1, CycleOf(c)} /\ (g # -1 => b)
    BY <2>6
  <2> HIDE DEF g
  <2>9. /\ DOMAIN frames' = DOMAIN frames
        /\ frames'[n].code = c /\ frames'[n].cycle = g
        /\ \A i \in DOMAIN frames : /\ frames'[i].code = frames[i].code
                                    /\ i # n => frames'[i] = frames[i]
    BY <1>2, <2>1 DEF Frame
  <2>10. \A x \in Executions' : x \in Executions \/ (x.code = c /\ x.cycle = g)
    BY <1>2, <1>3, <2>9 DEF Executions
  <2>11. Alone'
    BY <1>1, <1>3, <2>9, StillAlone
  <2> HIDE DEF n
  <2>12. /\ \A x \in Executions : x.code \in Codes /\ x.cycle \in Nat \cup {-1}
         /\ \A d \in Codes : lexgion[d].gen \in Nat /\ lexgion[d].traces \in Nat
                /\ begunTraces[d] \in Nat /\ cycleTraces[d] \in Nat
                /\ Cap[ConfigOf[d]] \in Nat \cup {Unlimited}
    BY <1>1, CountTypes, ExecutionTypes
  <2>13. NoLaterCycle'
    <3>1. \A d \in Codes : lexgion'[d].gen <= CycleOf(d)
      BY <1>1, <2>4, <2>6, <2>7, <2>12 DEF NoLaterCycle
    <3>2. \A x \in Executions' : x.cycle <= CycleOf(x.code)
      BY <1>1, <1>2, <2>7, <2>8, <2>10, <2>12 DEF NoLaterCycle
    <3>3. \A x \in Executions' : x.code \in Codes
      BY <1>2, <2>10, <2>12
    <3> QED
      BY <2>7, <3>1, <3>2, <3>3 DEF NoLaterCycle
  <2>14. ASSUME NEW d \in Codes \ overlapped, Capped(d)
         PROVE  /\ IF Current(d)' THEN begunTraces[d] <= lexgion'[d].traces
                                 ELSE begunTraces[d] = 0
                /\ Current(d) => Current(d)'
    <3>1. /\ Current(d)' <=> lexgion'[d].gen = CycleOf(d)
          /\ Current(d) <=> lexgion[d].gen = CycleOf(d)
      BY <2>7 DEF Current
    <3>2. IF Current(d) THEN begunTraces[d] <= lexgion[d].traces
                        ELSE begunTraces[d] = 0
      BY <1>1, <2>14 DEF Counted
    <3>3. CASE d # c
      BY <2>6, <3>1, <3>2, <3>3
    <3>4. CASE d = c /\ c \in Disabled
      BY <2>4, <2>6, <3>1, <3>2, <3>4
    <3>5. CASE d = c /\ c \notin Disabled
      BY <2>4, <2>6, <2>12, <2>14, <3>1, <3>2, <3>5
    <3> QED
      BY <3>3, <3>4, <3>5
  <2>15. Counted'
    BY <1>3, <2>14 DEF Counted, Capped
  <2>16. RoomLeft'
    <3> SUFFICES ASSUME NEW x \in Executions', x.code \notin overlapped,
                        Capped(x.code), x.cycle = CycleOf(x.code)', x.code \in Codes
                 PROVE  /\ Current(x.code)'
                        /\ begunTraces[x.code] < Cap[ConfigOf[x.code]]
      BY <1>2, <1>3, <2>10, <2>12 DEF RoomLeft, Capped
    <3>1. x.cycle = CycleOf(x.code)
      BY <2>7
    <3>2. CASE x \in Executions
      <4>1. Current(x.code) /\ begunTraces[x.code] < Cap[ConfigOf[x.code]]
        BY <1>1, <3>1, <3>2 DEF RoomLeft
      <4> QED
        BY <2>14, <4>1
    <3>3. CASE x.code = c /\ x.cycle = g
      <4>1. b /\ Capped(c)
        BY <2>7, <2>8, <3>1, <3>3
      <4>2. /\ lexgion'[c].gen = CycleOf(c)
            /\ lexgion'[c].traces < Cap[ConfigOf[c]]
        BY <2>4, <2>5, <2>6, <4>1
      <4>3. Current(c)'
        BY <1>2, <2>7, <4>2 DEF Current
      <4>4. begunTraces[c] <= lexgion'[c].traces
        BY <2>14, <3>3, <4>1, <4>3
      <4>5. lexgion'[c].traces \in Nat
        BY <2>3, <2>6 DEF Lexgion
      <4> QED
        BY <1>2, <2>12, <3>3, <4>2, <4>3, <4>4, <4>5 DEF Unlimited
    <3> QED
      BY <2>10, <3>2, <3>3
  <2>17. CycleCap'
    BY <1>1, <1>3 DEF CycleCap
  <2>18. FreshCount'
    <3> SUFFICES ASSUME NEW d \in Codes, Capped(d), Current(d)'
                 PROVE  lexgion'[d].traces <= cycleTraces[d]
      BY <1>3 DEF FreshCount, Capped, Current, CycleOf
    <3>1. lexgion'[d].gen = CycleOf(d)
      BY <2>7 DEF Current
    <3>2. Current(d) => lexgion[d].traces <= cycleTraces[d]
      BY <1>1 DEF FreshCount, Capped, Current, CycleOf
    <3>3. (lexgion'[d].traces = lexgion[d].traces /\ Current(d)) \/ lexgion'[d].traces = 0
      BY <2>4, <2>6, <3>1 DEF Current
    <3> QED
      BY <2>12, <3>2, <3>3
  <2> QED
    BY <2>11, <2>13, <2>15, <2>16, <2>17, <2>18 DEF CyclesInv
<1> QED
  BY <1>4, <1>5

\* An execution that began and ends in the current cycle takes up its place.
LEMMA EndTraceCycles ==
    ASSUME CyclesInv, TypeInv', EndTrace
    PROVE  CyclesInv'
<1> DEFINE n == Len(frames)
<1> PICK c, this : /\ c = Top.code
                   /\ this = (Top.cycle = CycleOf(c))
  OBVIOUS
<1>1. /\ TypeInv /\ NoLaterCycle /\ Alone /\ Counted /\ RoomLeft
      /\ CycleCap /\ FreshCount
  BY DEF CyclesInv
<1>2. /\ frames # <<>> /\ c \in Codes
      /\ n \in Nat \ {0} /\ DOMAIN frames = 1 .. n /\ Top = frames[n]
      /\ DOMAIN Callers = 1 .. n - 1
      /\ \A i \in 1 .. n - 1 : Callers[i] = frames[i]
  BY <1>1, TopFrame DEF EndTrace, TypeInv, TypeOK, Top
<1>3. /\ frames' = Callers
      /\ UNCHANGED <<generation, suspended, overlapped>>
  BY DEF EndTrace
<1> HIDE DEF n
<1>4. CASE ~(mode = "TRACING" /\ lexgion[c].bit)
  BY <1>2, <1>3, <1>4, DroppedCycles DEF EndTrace
<1>5. CASE mode = "TRACING" /\ lexgion[c].bit
  <2>1. /\ lexgion' = [lexgion EXCEPT ![c].traces = @ + 1, ![c].since = 0]
        /\ begunTraces' = IF this THEN [begunTraces EXCEPT ![c] = @ + 1]
                                  ELSE begunTraces
        /\ cycleTraces' = [cycleTraces EXCEPT ![c] = @ + 1]
    BY <1>5 DEF EndTrace, PostTraceUpdate, CycleOf
  <2>2. /\ lexgion \in [Codes -> Lexgion] /\ begunTraces \in [Codes -> Nat]
        /\ cycleTraces \in [Codes -> Nat]
    BY <1>1 DEF TypeInv, TypeOK
  <2>3. /\ lexgion'[c].gen = lexgion[c].gen
        /\ lexgion'[c].traces = lexgion[c].traces + 1
        /\ \A d \in Codes \ {c} : lexgion'[d] = lexgion[d]
    <3> DEFINE h == [lexgion EXCEPT ![c].traces = @ + 1]
    <3>1. /\ h \in [Codes -> Lexgion]
          /\ h[c].gen = lexgion[c].gen /\ h[c].traces = lexgion[c].traces + 1
          /\ \A d \in Codes \ {c} : h[d] = lexgion[d]
      <4>1. c \in Codes /\ lexgion[c] \in Lexgion
        BY <1>2, <2>2
      <4>2. h \in [Codes -> Lexgion]
        BY <2>2, <4>1 DEF Lexgion
      <4>3. /\ h[c] = [lexgion[c] EXCEPT !.traces = @ + 1]
            /\ \A d \in Codes \ {c} : h[d] = lexgion[d]
        BY <2>2, <4>1
      <4> HIDE DEF h
      <4>4. h[c].gen = lexgion[c].gen /\ h[c].traces = lexgion[c].traces + 1
        BY <4>1, <4>3 DEF Lexgion
      <4> QED
        BY <4>2, <4>3, <4>4
    <3>2. lexgion' = [h EXCEPT ![c].since = 0]
      BY <2>1
    <3> HIDE DEF h
    <3>3. /\ lexgion'[c].gen = h[c].gen /\ lexgion'[c].traces = h[c].traces
          /\ \A d \in Codes \ {c} : lexgion'[d] = h[d]
      BY <1>2, <3>1, <3>2 DEF Lexgion
    <3> QED
      BY <3>1, <3>3
  <2>4. /\ begunTraces'[c] = IF this THEN begunTraces[c] + 1 ELSE begunTraces[c]
        /\ cycleTraces'[c] = cycleTraces[c] + 1
        /\ \A d \in Codes \ {c} : /\ begunTraces'[d] = begunTraces[d]
                                 /\ cycleTraces'[d] = cycleTraces[d]
    BY <1>2, <2>1, <2>2
  <2>5. /\ \A x \in Executions : x.code \in Codes /\ x.cycle \in Nat \cup {-1}
        /\ \A d \in Codes : lexgion[d].gen \in Nat /\ lexgion[d].traces \in Nat
               /\ begunTraces[d] \in Nat /\ cycleTraces[d] \in Nat
               /\ Cap[ConfigOf[d]] \in Nat \cup {Unlimited}
    BY <1>1, CountTypes, ExecutionTypes
  <2>6. \A d \in Codes : CycleOf(d)' = CycleOf(d) /\ (Current(d)' <=> Current(d))
    BY <1>3, <2>3 DEF CycleOf, Current
  <2>7. /\ \A x \in Executions' : x \in Executions
        /\ c \notin overlapped => \A x \in Executions' : x.code # c
    BY <1>1, <1>2, <1>3 DEF Executions, Alone
  <2>8. Alone'
    BY <1>1, <1>2, <1>3, StillAlone
  <2>9. NoLaterCycle'
    BY <1>1, <2>3, <2>5, <2>6, <2>7 DEF NoLaterCycle
  <2>10. c \notin overlapped /\ Capped(c) /\ this
         => Current(c) /\ begunTraces[c] < Cap[ConfigOf[c]]
    <3>1. Top \in Executions
      BY <1>2 DEF Executions
    <3> QED
      BY <1>1, <3>1 DEF RoomLeft
  <2>11. Counted'
    <3> SUFFICES ASSUME NEW d \in Codes \ overlapped, Capped(d)
                 PROVE  IF Current(d) THEN begunTraces'[d] <= lexgion'[d].traces
                                      ELSE begunTraces'[d] = 0
      BY <1>3, <2>6 DEF Counted, Capped
    <3>1. IF Current(d) THEN begunTraces[d] <= lexgion[d].traces
                        ELSE begunTraces[d] = 0
      BY <1>1 DEF Counted
    <3>2. CASE d # c
      BY <2>3, <2>4, <3>1, <3>2
    <3>3. CASE d = c
      BY <2>3, <2>4, <2>5, <2>10, <3>1, <3>3
    <3> QED
      BY <3>2, <3>3
  <2>12. RoomLeft'
    <3> SUFFICES ASSUME NEW x \in Executions', x.code \notin overlapped,
                        Capped(x.code), x.cycle = CycleOf(x.code), x.code \in Codes
                 PROVE  /\ Current(x.code)
                        /\ begunTraces'[x.code] < Cap[ConfigOf[x.code]]
      BY <1>3, <2>5, <2>6, <2>7 DEF RoomLeft, Capped
    <3>1. Current(x.code) /\ begunTraces[x.code] < Cap[ConfigOf[x.code]]
      BY <1>1, <2>7 DEF RoomLeft
    <3>2. x.code # c
      BY <2>7
    <3> QED
      BY <2>4, <3>1, <3>2
  <2>13. CycleCap'
    <3> SUFFICES ASSUME NEW d \in Codes \ overlapped, Capped(d)
                 PROVE  begunTraces'[d] <= Cap[ConfigOf[d]]
      BY <1>3 DEF CycleCap, Capped
    <3>1. begunTraces[d] <= Cap[ConfigOf[d]]
      BY <1>1 DEF CycleCap, Capped
    <3>2. CASE d = c /\ this
      <4>1. begunTraces[c] < Cap[ConfigOf[c]] /\ begunTraces'[c] = begunTraces[c] + 1
        BY <2>4, <2>10, <3>2
      <4> QED
        BY <1>2, <2>5, <3>2, <4>1 DEF Unlimited
    <3>3. CASE ~(d = c /\ this)
      BY <2>4, <3>1, <3>3
    <3> QED
      BY <3>2, <3>3
  <2>14. FreshCount'
    <3> SUFFICES ASSUME NEW d \in Codes, Capped(d), Current(d)
                 PROVE  lexgion'[d].traces <= cycleTraces'[d]
      BY <2>6 DEF FreshCount, Capped, Current, CycleOf
    <3>1. lexgion[d].traces <= cycleTraces[d]
      BY <1>1 DEF FreshCount, Capped, Current, CycleOf
    <3> QED
      BY <2>3, <2>4, <2>5, <3>1
  <2> QED
    BY <2>8, <2>9, <2>11, <2>12, <2>13, <2>14 DEF CyclesInv
<1> QED
  BY <1>4, <1>5

LEMMA SuspendCycles ==
    ASSUME CyclesInv, TypeInv', Suspend
    PROVE  CyclesInv'
<1>1. TypeInv /\ Alone /\ frames # <<>>
  BY DEF CyclesInv, Suspend
<1>2. /\ frames' = Callers
      /\ suspended' = Append(suspended, Top)
      /\ UNCHANGED <<lexgion, generation, overlapped, begunTraces, cycleTraces>>
  BY DEF Suspend, lexgionVars, ghostVars
<1>3. /\ Len(frames) \in Nat \ {0} /\ DOMAIN frames = 1 .. Len(frames)
      /\ DOMAIN Callers = 1 .. Len(frames) - 1
      /\ \A i \in 1 .. Len(frames) - 1 : Callers[i] = frames[i]
      /\ Top = frames[Len(frames)] /\ Top \in Frame
  BY <1>1, TopFrame DEF TypeInv, Top
<1>4. /\ DOMAIN suspended = 1 .. Len(suspended) /\ Len(suspended) \in Nat
      /\ DOMAIN suspended' = 1 .. Len(suspended) + 1
      /\ \A i \in 1 .. Len(suspended) : suspended'[i] = suspended[i]
      /\ suspended'[Len(suspended) + 1] = Top
  BY <1>1, <1>2, <1>3, Pushed, LenProperties DEF TypeInv, TypeOK
<1>5. Alone'
  <2>1. \A i, j \in DOMAIN Callers :
          Callers[i].code = Callers[j].code => i = j \/ Callers[i].code \in overlapped
    BY <1>1, <1>3 DEF Alone
  <2>2. \A i, j \in DOMAIN suspended' : suspended'[i].code = suspended'[j].code
          => i = j \/ suspended'[i].code \in overlapped
    BY <1>1, <1>3, <1>4 DEF Alone
  <2>3. \A i \in DOMAIN Callers, j \in DOMAIN suspended' :
          Callers[i].code = suspended'[j].code => Callers[i].code \in overlapped
    BY <1>1, <1>3, <1>4 DEF Alone
  <2> QED
    BY <1>2, <2>1, <2>2, <2>3 DEF Alone
<1>6. \A x \in Executions' : x \in Executions
  BY <1>2, <1>3, <1>4 DEF Executions
<1> QED
  BY <1>2, <1>5, <1>6, NothingCounted

LEMMA ResumeCycles ==
    ASSUME CyclesInv, TypeInv', NEW k \in DOMAIN suspended, Resume(k)
    PROVE  CyclesInv'
<1>1. TypeInv /\ Alone
  BY DEF CyclesInv
<1>2. /\ frames' = Append(frames, suspended[k])
      /\ UNCHANGED <<lexgion, generation, overlapped, begunTraces, cycleTraces>>
  BY DEF Resume, lexgionVars
<1>3. /\ frames \in Seq(Frame) /\ suspended[k] \in Frame
  BY <1>1, LenProperties, ElementOfSeq DEF TypeInv, TypeOK
<1>4. \A i \in DOMAIN suspended' : \E j \in DOMAIN suspended :
        /\ suspended'[i] = suspended[j] /\ j # k
        /\ j = IF i < k THEN i ELSE i + 1
  BY <1>1, ResumedFrom
<1>5. /\ DOMAIN frames = 1 .. Len(frames) /\ Len(frames) \in Nat
      /\ DOMAIN frames' = 1 .. Len(frames) + 1
      /\ \A i \in 1 .. Len(frames) : frames'[i] = frames[i]
      /\ frames'[Len(frames) + 1] = suspended[k]
  BY <1>2, <1>3, Pushed, LenProperties
<1>6. Alone'
  <2>1. \A i, j \in DOMAIN frames' : frames'[i].code = frames'[j].code
          => i = j \/ frames'[i].code \in overlapped
    BY <1>1, <1>5 DEF Alone
  <2>2. ASSUME NEW i \in DOMAIN suspended', NEW j \in DOMAIN suspended',
               suspended'[i].code = suspended'[j].code
        PROVE  i = j \/ suspended'[i].code \in overlapped
    <3>1. PICK a \in DOMAIN suspended :
             suspended'[i] = suspended[a] /\ a = IF i < k THEN i ELSE i + 1
      BY <1>4
    <3>2. PICK b \in DOMAIN suspended :
             suspended'[j] = suspended[b] /\ b = IF j < k THEN j ELSE j + 1
      BY <1>4
    <3>3. a = b \/ suspended'[i].code \in overlapped
      BY <1>1, <2>2, <3>1, <3>2 DEF Alone
    <3>4. i \in Int /\ j \in Int /\ k \in Int
      <4>1. suspended \in Seq(Frame) /\ suspended' \in Seq(Frame)
        BY <1>1 DEF TypeInv, TypeOK
      <4>2. /\ DOMAIN suspended = 1 .. Len(suspended)
            /\ Len(suspended) \in Nat
        BY <4>1, LenProperties
      <4>3. /\ DOMAIN (suspended') = 1 .. Len(suspended')
            /\ Len(suspended') \in Nat
        BY <4>1, LenProperties
      <4> QED
        BY <4>2, <4>3
    <3> QED
      BY <3>1, <3>2, <3>3, <3>4
  <2>3. \A i \in DOMAIN frames', j \in DOMAIN suspended' :
          frames'[i].code = suspended'[j].code => frames'[i].code \in overlapped
    <3>1. \A j \in DOMAIN suspended' : \E b \in DOMAIN suspended \ {k} :
             suspended'[j] = suspended[b]
      BY <1>4
    <3> QED
      BY <1>1, <1>5, <3>1 DEF Alone
  <2> QED
    BY <1>2, <2>1, <2>2, <2>3 DEF Alone
<1>7. \A x \in Executions' : x \in Executions
  BY <1>4, <1>5 DEF Executions
<1> QED
  BY <1>2, <1>6, <1>7, NothingCounted

\* No count and no execution is of the cycle that opens.
LEMMA StepGenerationCycles ==
    ASSUME CyclesInv, TypeInv', NEW k \in Configs, StepGeneration(k)
    PROVE  CyclesInv'
<1>1. /\ TypeInv /\ NoLaterCycle /\ Alone /\ Counted /\ RoomLeft
      /\ CycleCap /\ FreshCount
  BY DEF CyclesInv
<1>2. /\ generation' = [generation EXCEPT ![k] = @ + 1]
      /\ begunTraces' = [c \in Codes |-> IF ConfigOf[c] = k THEN 0 ELSE begunTraces[c]]
      /\ cycleTraces' = [c \in Codes |-> IF ConfigOf[c] = k THEN 0 ELSE cycleTraces[c]]
      /\ UNCHANGED <<lexgion, frames, suspended, overlapped>>
  BY DEF StepGeneration, tableVars, frameVars
<1>3. /\ \A x \in Executions : x.code \in Codes /\ x.cycle \in Nat \cup {-1}
      /\ \A d \in Codes :
           /\ lexgion[d].gen \in Nat /\ CycleOf(d) \in Nat
           /\ begunTraces[d] \in Nat
           /\ Cap[ConfigOf[d]] \in Nat \cup {Unlimited}
  BY <1>1, CountTypes, ExecutionTypes
<1>4. \A d \in Codes :
        /\ CycleOf(d)' = IF ConfigOf[d] = k THEN CycleOf(d) + 1 ELSE CycleOf(d)
        /\ begunTraces'[d] = IF ConfigOf[d] = k THEN 0 ELSE begunTraces[d]
        /\ cycleTraces'[d] = IF ConfigOf[d] = k THEN 0 ELSE cycleTraces[d]
  <2>1. generation \in [Configs -> Nat] /\ ConfigOf \in [Codes -> Configs]
    BY <1>1, LexgionsAssumption DEF TypeInv, TypeOK
  <2> QED
    BY <1>2, <2>1 DEF CycleOf
<1>5. Executions' = Executions /\ Alone'
  BY <1>1, <1>2 DEF Executions, Alone
<1>6. NoLaterCycle'
  BY <1>1, <1>2, <1>3, <1>4, <1>5 DEF NoLaterCycle
<1>7. \A d \in Codes : Current(d)' <=> ConfigOf[d] # k /\ Current(d)
  BY <1>1, <1>2, <1>3, <1>4 DEF Current, NoLaterCycle
<1>8. Counted'
  BY <1>1, <1>2, <1>4, <1>7 DEF Counted, Capped
<1>9. RoomLeft'
  <2> SUFFICES ASSUME NEW x \in Executions, x.code \notin overlapped, Capped(x.code),
                      x.cycle = CycleOf(x.code)', x.code \in Codes
               PROVE  /\ Current(x.code)'
                      /\ begunTraces'[x.code] < Cap[ConfigOf[x.code]]
    BY <1>2, <1>3, <1>5 DEF RoomLeft, Capped
  <2>1. ConfigOf[x.code] # k
    BY <1>1, <1>3, <1>4 DEF NoLaterCycle
  <2>2. Current(x.code) /\ begunTraces[x.code] < Cap[ConfigOf[x.code]]
    BY <1>1, <1>4, <2>1 DEF RoomLeft
  <2> QED
    BY <1>4, <1>7, <2>1, <2>2
<1>10. CycleCap'
  BY <1>1, <1>2, <1>3, <1>4 DEF CycleCap, Unlimited
<1>11. FreshCount'
  <2> SUFFICES ASSUME NEW d \in Codes, Capped(d), Current(d)'
               PROVE  lexgion[d].traces <= cycleTraces'[d]
    BY <1>2 DEF FreshCount, Capped, Current, CycleOf
  <2>1. ConfigOf[d] # k /\ lexgion[d].traces <= cycleTraces[d]
    BY <1>1, <1>7 DEF FreshCount, Capped, Current, CycleOf
  <2> QED
    BY <1>4, <2>1
<1> QED
  BY <1>5, <1>6, <1>8, <1>9, <1>10, <1>11 DEF CyclesInv

\* Steps of the environment.
LEMMA UntouchedCycles ==
    ASSUME CyclesInv, TypeInv',
           UNCHANGED <<lexgion, generation, frames, suspended, overlapped,
                       begunTraces, cycleTraces>>
    PROVE  CyclesInv'
<1>1. Executions' = Executions /\ Alone'
  BY DEF CyclesInv, Executions, Alone
<1> QED
  BY <1>1, NothingCounted

LEMMA NextCycles == CyclesInv /\ [Next]_vars => CyclesInv'
<1> SUFFICES ASSUME CyclesInv, [Next]_vars PROVE CyclesInv'
  OBVIOUS
<1>1. TypeInv'
  BY NextType DEF CyclesInv
<1>2. CASE \E c \in Codes : Start(c)
  BY <1>1, <1>2, StartCycles
<1>3. CASE StartTrace
  BY <1>1, <1>3, StartTraceCycles
<1>4. CASE End
  <2>1. /\ frames # <<>> /\ (frames' = frames \/ frames' = Callers)
        /\ UNCHANGED <<suspended, lexgion, generation, overlapped, begunTraces,
                       cycleTraces>>
    BY <1>4 DEF End, tableVars, ghostVars
  <2> QED
    BY <1>1, <2>1, DroppedCycles
<1>5. CASE EndTrace
  BY <1>1, <1>5, EndTraceCycles
<1>6. CASE Raise
  BY <1>1, <1>6, DroppedCycles DEF Raise, lexgionVars, ghostVars
<1>7. CASE Suspend
  BY <1>1, <1>7, SuspendCycles
<1>8. CASE \E i \in DOMAIN suspended : Resume(i)
  BY <1>1, <1>8, ResumeCycles
<1>9. CASE \E m \in Modes : SwitchMode(m)
  BY <1>1, <1>9, UntouchedCycles DEF SwitchMode, lexgionVars, frameVars, ghostVars
<1>10. CASE \E k \in Configs : Unlatch(k)
  BY <1>1, <1>10, UntouchedCycles DEF Unlatch, tableVars, frameVars, ghostVars
<1>11. CASE \E k \in Configs : StepGeneration(k)
  BY <1>1, <1>11, StepGenerationCycles
<1>12. CASE UNCHANGED vars
  BY <1>1, <1>12, UntouchedCycles DEF vars, lexgionVars, pythonVars, frameVars, ghostVars
<1> QED
  BY <1>2, <1>3, <1>4, <1>5, <1>6, <1>7, <1>8, <1>9, <1>10, <1>11, <1>12
     DEF Next, Done

\* What a cycle traces of a region whose executions do not overlap stays within
\* max_num_traces, whenever the mode changes and the control thread opens the
\* cycle (lexgion_set_top_trace_bit_domain_event, lexgion_post_trace_update).
THEOREM PythonCycleCap == Spec => []CycleCap
<1>1. CyclesInv => CycleCap
  BY DEF CyclesInv
<1> QED
  BY InitCycles, NextCycles, <1>1, PTL DEF Spec

\* A region's count of the current generation holds nothing of an earlier cycle.
THEOREM PythonFreshCount == Spec => []FreshCount
<1>1. CyclesInv => FreshCount
  BY DEF CyclesInv
<1> QED
  BY InitCycles, NextCycles, <1>1, PTL DEF Spec
=============================================================================
