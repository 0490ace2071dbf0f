------------------------- MODULE OmptRegionsProofs -------------------------
(***************************************************************************)
(* Proofs about OmptRegions.                                               *)
(*                                                                         *)
(* The invariant CoreInv is about the program as much as about the         *)
(* callbacks: how the constructs of a thread nest (NestInv), where the     *)
(* team's threads stand while its region is open (TeamInv), and, on it,    *)
(* that the records on a stack are those of the open constructs (StackInv) *)
(* with the initial region's at the bottom (CodeInv).  Three more build on *)
(* it: ContextInv, what the thread-local pointers are wherever a nested    *)
(* region has been; TracedInv and CrashInv, that a program which traces    *)
(* all through has every record a callback follows; and EventInv, that     *)
(* the begin of each open construct of the master was recorded just if its *)
(* end would be now.                                                       *)
(*                                                                         *)
(* Each action is first described once by what it changes (its "Begun" or  *)
(* "Ended" form); the proofs that it preserves an invariant rest on that.  *)
(***************************************************************************)
EXTENDS OmptRegions, SequenceTheorems, FiniteSetTheorems, WellFoundedInduction,
        TLAPS

-----------------------------------------------------------------------------
(***************************************************************************)
(* Types.                                                                  *)
(***************************************************************************)
AllCallbacks == {"parallel_begin", "parallel_end", "implicit_task",
                 "sync_region_wait", "work", "masked", "sync_region"}
Teams == [open : BOOLEAN, pdata : Pointers,
          entered : SUBSET Threads, arrived : SUBSET Threads]

TypeInv ==
    /\ mode \in Modes
    /\ slots \in [Threads -> [1 .. MaxDepth -> Record]]
    /\ top \in [Threads -> 0 .. MaxDepth]
    /\ traced \subseteq Lexgions
    /\ context \in [Threads -> Context]
    /\ DOMAIN nest = Threads /\ \A t \in Threads : nest[t] \in Seq(Construct)
    /\ team \in Teams
    /\ restoring \subseteq Threads /\ disturbed \subseteq Threads
    /\ ended \in BOOLEAN /\ crashed \in BOOLEAN
    /\ unpaired \subseteq Threads \X Kinds \X BOOLEAN
    /\ miscounted \subseteq Threads
    /\ constructs \in 0 .. MaxConstructs /\ switches \in 0 .. MaxSwitches

RegisteredInv ==
    registered \in {{}, {"parallel_begin", "parallel_end"}, AllCallbacks}

LEMMA CallbacksAre == ToSet(Callbacks) = AllCallbacks
<1>1. DOMAIN Callbacks = {1, 2, 3, 4, 5, 6, 7}
  BY DEF Callbacks
<1>2. ToSet(Callbacks) = {Callbacks[i] : i \in {1, 2, 3, 4, 5, 6, 7}}
  BY <1>1 DEF ToSet
<1>3. /\ Callbacks[1] = "parallel_begin" /\ Callbacks[2] = "parallel_end"
      /\ Callbacks[3] = "implicit_task" /\ Callbacks[4] = "sync_region_wait"
      /\ Callbacks[5] = "work" /\ Callbacks[6] = "masked" /\ Callbacks[7] = "sync_region"
  BY DEF Callbacks
<1> QED
  BY <1>2, <1>3 DEF AllCallbacks

LEMMA CodesAre ==
    /\ Initial \in Codes /\ MpiCode \in Codes /\ UserCodes \subseteq Codes
    /\ Initial \notin UserCodes /\ MpiCode # Initial
    /\ ParallelCodes \subseteq UserCodes /\ WorkCodes \subseteq UserCodes
    /\ MaskedCodes \subseteq UserCodes
    /\ Master \in Threads /\ Workers = Threads \ {Master}
    /\ MaxDepth \in Nat /\ MaxDepth > 1 /\ MaxConstructs \in Nat /\ MaxSwitches \in Nat
BY OmptAssumption DEF Codes, UserCodes, Initial, MpiCode, Threads

\* A pointer is the null pointer or names a slot.
LEMMA PointersAre ==
    /\ NULL \in Pointers
    /\ \A t, n : <<t, n>> # NULL /\ <<t, n>>[1] = t /\ <<t, n>>[2] = n
    /\ \A t \in Threads, n \in 1 .. MaxDepth : <<t, n>> \in Pointers
    /\ \A p \in Pointers : p # NULL => /\ p[1] \in Threads /\ p[2] \in 1 .. MaxDepth
                                       /\ p = <<p[1], p[2]>>
BY DEF Pointers, NULL

\* What a construct in progress is.
LEMMA Innermost ==
    ASSUME TypeInv, NEW t \in Threads
    PROVE  /\ nest[t] \in Seq(Construct) /\ Len(nest[t]) \in Nat
           /\ DOMAIN nest[t] = 1 .. Len(nest[t])
           /\ \A i \in DOMAIN nest[t] : nest[t][i] \in Construct
           /\ nest[t] # <<>> <=> Len(nest[t]) > 0
           /\ nest[t] # <<>> => Inner(t) = nest[t][Len(nest[t])] /\ Inner(t) \in Construct
<1>1. nest[t] \in Seq(Construct)
  BY DEF TypeInv
<1>2. Len(nest[t]) \in Nat /\ DOMAIN nest[t] = 1 .. Len(nest[t])
  BY <1>1, LenProperties
<1>3. nest[t] # <<>> <=> Len(nest[t]) > 0
  BY <1>1, <1>2, EmptySeq
<1>4. \A i \in DOMAIN nest[t] : nest[t][i] \in Construct
  BY <1>1, <1>2, ElementOfSeq
<1> QED
  BY <1>1, <1>2, <1>3, <1>4 DEF Inner, Last

\* The fields of a construct.
LEMMA Fields ==
    ASSUME NEW c \in Construct
    PROVE  /\ c.kind \in Kinds /\ c.code \in Codes /\ c.pdata \in Pointers
           /\ c.tdata \in Pointers /\ c.own \in Pointers
           /\ c.shown \in BOOLEAN /\ c.joined \in BOOLEAN
BY DEF Construct

\* A construct begins, or one ends and may leave others joined.
Opens(t, c) ==
    /\ DOMAIN nest' = Threads /\ nest'[t] \in Seq(Construct)
    /\ \A u \in Threads \ {t} : nest'[u] = nest[u]
    /\ Len(nest'[t]) = Len(nest[t]) + 1
    /\ \A i \in 1 .. Len(nest[t]) : nest'[t][i] = nest[t][i]
    /\ nest'[t][Len(nest[t]) + 1] = c
    /\ DOMAIN (nest'[t]) = 1 .. Len(nest[t]) + 1
    /\ disturbed' = disturbed

Alike(c, d) ==
    /\ c.kind = d.kind /\ c.code = d.code /\ c.pdata = d.pdata /\ c.tdata = d.tdata
    /\ c.own = d.own /\ c.shown = d.shown

Closes(t) ==
    /\ nest[t] # <<>> /\ DOMAIN nest' = Threads /\ nest'[t] \in Seq(Construct)
    /\ \A u \in Threads \ {t} : nest'[u] = nest[u]
    /\ Len(nest'[t]) = Len(nest[t]) - 1
    /\ \A i \in 1 .. Len(nest[t]) - 1 : Alike(nest'[t][i], nest[t][i])
    /\ DOMAIN (nest'[t]) = 1 .. Len(nest[t]) - 1
    /\ disturbed' = disturbed

LEMMA EnterOpens ==
    ASSUME TypeInv, NEW t \in Threads, NEW c \in Construct, Enter(t, c)
    PROVE  Opens(t, c)
<1>1. nest'[t] = Append(nest[t], c) /\ DOMAIN nest' = Threads /\ disturbed' = disturbed
      /\ \A u \in Threads \ {t} : nest'[u] = nest[u]
  BY DEF Enter, TypeInv
<1>2. nest[t] \in Seq(Construct) /\ Len(nest[t]) \in Nat
  BY Innermost
<1>3. /\ nest'[t] \in Seq(Construct) /\ Len(nest'[t]) = Len(nest[t]) + 1
      /\ \A i \in 1 .. Len(nest[t]) : nest'[t][i] = nest[t][i]
      /\ nest'[t][Len(nest[t]) + 1] = c
  BY <1>1, <1>2, AppendProperties
<1> QED
  BY <1>1, <1>3, LenProperties DEF Opens

LEMMA FrontIs ==
    ASSUME TypeInv, NEW t \in Threads, nest[t] # <<>>
    PROVE  /\ Front(nest[t]) \in Seq(Construct)
           /\ Len(Front(nest[t])) = Len(nest[t]) - 1
           /\ \A i \in 1 .. Len(nest[t]) - 1 : Front(nest[t])[i] = nest[t][i]
<1>1. /\ Len(nest[t]) \in Nat /\ Len(nest[t]) > 0
      /\ \A i \in 1 .. Len(nest[t]) : nest[t][i] \in Construct
  BY Innermost
<1>2. \A i \in 1 .. Len(nest[t]) - 1 : nest[t][i] \in Construct
  BY <1>1
<1> QED
  BY <1>1, <1>2, SubSeqProperties DEF Front

LEMMA LeaveCloses ==
    ASSUME TypeInv, NEW t \in Threads, nest[t] # <<>>, NEW s, Leave(t, s)
    PROVE  Closes(t) /\ \A i \in 1 .. Len(nest[t]) - 1 : nest'[t][i] = nest[t][i]
<1>1. nest'[t] = Front(nest[t]) /\ DOMAIN nest' = Threads /\ disturbed' = disturbed
      /\ \A u \in Threads \ {t} : nest'[u] = nest[u]
  BY DEF Leave, LeaveTo, TypeInv
<1>2. /\ nest'[t] \in Seq(Construct) /\ Len(nest'[t]) = Len(nest[t]) - 1
      /\ \A i \in 1 .. Len(nest[t]) - 1 : nest'[t][i] = nest[t][i]
  BY <1>1, FrontIs
<1> QED
  BY <1>1, <1>2, LenProperties DEF Closes, Alike

\* The end of a barrier marks the region and the task that joined.
Rejoined(t, join) ==
    LET depth == Len(nest[t]) - 1 IN
    [i \in 1 .. depth |-> IF join /\ i >= depth - 1
                          THEN [nest[t][i] EXCEPT !.joined = TRUE] ELSE nest[t][i]]

LEMMA RejoinedCloses ==
    ASSUME TypeInv, NEW t \in Threads, nest[t] # <<>>, NEW s, NEW join \in BOOLEAN,
           LeaveTo(t, Rejoined(t, join), s)
    PROVE  /\ Closes(t)
           /\ \A i \in 1 .. Len(nest[t]) - 1 :
                 nest'[t][i].joined = (nest[t][i].joined \/ (join /\ i >= Len(nest[t]) - 2))
<1> DEFINE depth == Len(nest[t]) - 1
           rest == Rejoined(t, join)
<1>1. nest'[t] = rest /\ DOMAIN nest' = Threads /\ disturbed' = disturbed
      /\ \A u \in Threads \ {t} : nest'[u] = nest[u]
  BY DEF LeaveTo, TypeInv
<1>2. depth \in Nat /\ \A i \in 1 .. depth : nest[t][i] \in Construct
  BY Innermost
<1>3. \A i \in 1 .. depth : rest[i] = IF join /\ i >= depth - 1
                          THEN [nest[t][i] EXCEPT !.joined = TRUE] ELSE nest[t][i]
  BY DEF Rejoined
<1>4. \A i \in 1 .. depth : [nest[t][i] EXCEPT !.joined = TRUE] \in Construct
                            /\ Alike([nest[t][i] EXCEPT !.joined = TRUE], nest[t][i])
                            /\ [nest[t][i] EXCEPT !.joined = TRUE].joined
  BY <1>2 DEF Construct, Alike
<1>5. \A i \in 1 .. depth : rest[i] \in Construct
  BY <1>2, <1>3, <1>4
<1>6. rest \in Seq(Construct) /\ Len(rest) = depth
  <2>1. DOMAIN rest = 1 .. depth /\ rest = [i \in 1 .. depth |-> rest[i]]
    BY DEF Rejoined
  <2>2. rest \in [1 .. depth -> Construct]
    BY <1>5, <2>1
  <2>3. rest \in Seq(Construct)
    BY <1>2, <2>2, SeqDef
  <2> QED
    BY <1>2, <2>1, <2>3, LenProperties
<1>7. \A i \in 1 .. depth : Alike(rest[i], nest[t][i])
  BY <1>3, <1>4 DEF Alike
<1>8. \A i \in 1 .. depth : rest[i].joined = (nest[t][i].joined \/ (join /\ i >= depth - 1))
  <2> TAKE i \in 1 .. depth
  <2>1. nest[t][i].joined \in BOOLEAN /\ (i >= depth - 1) \in BOOLEAN
    BY <1>2 DEF Construct
  <2> QED
    BY <1>3, <1>4, <2>1
<1>9. Closes(t)
  BY <1>1, <1>6, <1>7, LenProperties DEF Closes
<1>10. depth - 1 = Len(nest[t]) - 2
  BY Innermost
<1> QED
  BY <1>1, <1>8, <1>9, <1>10

\* The types, in groups.
NestTypes == DOMAIN nest = Threads /\ \A t \in Threads : nest[t] \in Seq(Construct)
StackTypes ==
    /\ slots \in [Threads -> [1 .. MaxDepth -> Record]]
    /\ top \in [Threads -> 0 .. MaxDepth]
OtherTypes ==
    /\ mode \in Modes /\ restoring \subseteq Threads /\ disturbed \subseteq Threads
    /\ ended \in BOOLEAN /\ crashed \in BOOLEAN
    /\ unpaired \subseteq Threads \X Kinds \X BOOLEAN
    /\ miscounted \subseteq Threads
    /\ constructs \in 0 .. MaxConstructs /\ switches \in 0 .. MaxSwitches

LEMMA TypeParts ==
    TypeInv <=> /\ NestTypes /\ StackTypes /\ OtherTypes /\ team \in Teams
                /\ traced \subseteq Lexgions /\ context \in [Threads -> Context]
BY DEF TypeInv, NestTypes, StackTypes, OtherTypes

LEMMA TypePartsNext ==
    ASSUME NestTypes', StackTypes', OtherTypes', team' \in Teams,
           traced' \subseteq Lexgions, context' \in [Threads -> Context]
    PROVE  TypeInv'
BY DEF TypeInv, NestTypes, StackTypes, OtherTypes

LEMMA NestChanged ==
    ASSUME TypeInv, NEW t \in Threads, Closes(t) \/ \E c : Opens(t, c)
    PROVE  NestTypes'
BY DEF TypeInv, NestTypes, Closes, Opens

\* What pushes and pops do.
StackSame == slots' = slots /\ top' = top

LEMMA PushEffect ==
    ASSUME TypeInv, NEW t \in Threads, NEW k \in Kinds, NEW c \in Codes, ~Full(t),
           Push(t, k, c)
    PROVE  /\ StackTypes'
           /\ top[t] + 1 \in 1 .. MaxDepth /\ Pushed(t) = <<t, top[t] + 1>>
           /\ Pushed(t) \in Pointers /\ Pushed(t) # NULL
           /\ top'[t] = top[t] + 1
           /\ slots'[t][top[t] + 1] = [kind |-> k, code |-> c]
           /\ \A n \in 1 .. MaxDepth : n # top[t] + 1 => slots'[t][n] = slots[t][n]
           /\ \A u \in Threads \ {t} : slots'[u] = slots[u] /\ top'[u] = top[u]
<1>1. /\ top[t] \in 0 .. MaxDepth /\ top[t] # MaxDepth /\ MaxDepth \in Nat
      /\ slots[t] \in [1 .. MaxDepth -> Record] /\ [kind |-> k, code |-> c] \in Record
  BY CodesAre DEF TypeInv, Full, Record
<1>2. top[t] + 1 \in 1 .. MaxDepth
  BY <1>1
<1>3. /\ slots'[t] = [slots[t] EXCEPT ![top[t] + 1] = [kind |-> k, code |-> c]]
      /\ \A u \in Threads \ {t} : slots'[u] = slots[u] /\ top'[u] = top[u]
      /\ top'[t] = top[t] + 1 /\ DOMAIN slots' = Threads /\ DOMAIN top' = Threads
      /\ slots' = [slots EXCEPT ![t] = [slots[t] EXCEPT ![top[t] + 1] =
                                           [kind |-> k, code |-> c]]]
      /\ top' = [top EXCEPT ![t] = top[t] + 1]
  BY DEF TypeInv, Push
<1>4. slots'[t] \in [1 .. MaxDepth -> Record]
  BY <1>1, <1>2, <1>3
<1>5. StackTypes'
  BY <1>1, <1>2, <1>3, <1>4 DEF TypeInv, StackTypes
<1>6. Pushed(t) = <<t, top[t] + 1>> /\ Pushed(t) \in Pointers /\ Pushed(t) # NULL
  BY <1>2, PointersAre DEF Pushed
<1> QED
  BY <1>1, <1>2, <1>3, <1>5, <1>6

LEMMA PopEffect ==
    ASSUME TypeInv, NEW t \in Threads, top[t] # 0, Pop(t)
    PROVE  /\ StackTypes' /\ slots' = slots
           /\ top'[t] = top[t] - 1 /\ top[t] \in 1 .. MaxDepth
           /\ \A u \in Threads \ {t} : top'[u] = top[u]
<1>1. top[t] \in 0 .. MaxDepth /\ MaxDepth \in Nat
  BY CodesAre DEF TypeInv
<1>2. top[t] - 1 \in 0 .. MaxDepth /\ top[t] \in 1 .. MaxDepth
  BY <1>1
<1> QED
  BY <1>2 DEF TypeInv, Pop, StackTypes

\* A set of numbers that is not empty has a least one.
LEMMA Least ==
    ASSUME NEW S \in SUBSET Nat, S # {}
    PROVE  \E i \in S : \A j \in S : i <= j
<1> DEFINE R == OpToRel(<, Nat)
<1>1. IsWellFoundedOn(R, Nat)
  BY NatLessThanWellFounded
<1>2. \A x, y \in Nat : x < y => <<x, y>> \in R
  BY DEF OpToRel
<1> HIDE DEF R
<1>3. PICK i \in S : \A y \in S : <<y, i>> \notin R
  BY <1>1, WFMin
<1>4. \A j \in S : j \in Nat /\ i \in Nat /\ ~(j < i)
  BY <1>2, <1>3
<1> QED
  BY <1>4

\* A set of slots that is not empty has a topmost one.
LEMMA Topmost ==
    ASSUME NEW n \in Nat, NEW held \in SUBSET (1 .. n), held # {}
    PROVE  LET i == CHOOSE i \in held : \A j \in held : j <= i IN
           i \in held /\ \A j \in held : j <= i
<1> DEFINE S == {n - j : j \in held}
<1>1. \A j \in held : j \in Nat /\ n - j \in Nat
  OBVIOUS
<1>2. PICK j \in held : TRUE
  OBVIOUS
<1>3. S \in SUBSET Nat /\ n - j \in S
  BY <1>1
<1>4. PICK i \in S : \A m \in S : i <= m
  BY <1>3, Least
<1>5. PICK k \in held : i = n - k
  BY <1>4
<1>6. \A m \in held : n - k <= n - m
  BY <1>4, <1>5
<1>7. \A m \in held : m <= k
  BY <1>1, <1>6
<1> QED
  BY <1>7

-----------------------------------------------------------------------------
(***************************************************************************)
(* What the begins change.                                                 *)
(***************************************************************************)
\* A construct d begins on t: it pushes a record of the code, or none.
Begins(t, d, code) ==
    /\ ~crashed /\ t \notin restoring /\ d \in Construct /\ Opens(t, d)
    /\ \/ d.own = NULL /\ StackSame
       \/ /\ d.own = Pushed(t) /\ d.own # NULL /\ ~Full(t) /\ code \in Codes
          /\ Push(t, d.kind, code) /\ (d.kind # "task" => code = d.code)
    /\ UNCHANGED <<mode, registered, switches, restoring, ended, unpaired, miscounted>>

LEMMA BeginsTypes ==
    ASSUME TypeInv, NEW t \in Threads, NEW d, NEW code, Begins(t, d, code),
           constructs' \in 0 .. MaxConstructs, crashed' \in BOOLEAN
    PROVE  NestTypes' /\ StackTypes' /\ OtherTypes'
<1>1. NestTypes'
  BY NestChanged DEF Begins
<1>2. StackTypes'
  <2>1. CASE StackSame
    BY <2>1 DEF TypeInv, StackTypes, StackSame
  <2>2. CASE /\ ~Full(t) /\ code \in Codes /\ Push(t, d.kind, code)
    <3>1. d.kind \in Kinds
      BY Fields DEF Begins
    <3> QED
      BY <2>2, <3>1, PushEffect
  <2> QED
    BY <2>1, <2>2 DEF Begins
<1>3. OtherTypes'
  BY DEF TypeInv, OtherTypes, Begins, Opens
<1> QED
  BY <1>1, <1>2, <1>3

LEMMA PushedIs ==
    ASSUME TypeInv, NEW t \in Threads, ~Full(t)
    PROVE  Pushed(t) \in Pointers /\ Pushed(t) # NULL
<1>1. top[t] \in 0 .. MaxDepth /\ top[t] # MaxDepth /\ MaxDepth \in Nat
  BY CodesAre DEF TypeInv, Full
<1>2. top[t] + 1 \in 1 .. MaxDepth
  BY <1>1
<1> QED
  BY <1>2, PointersAre DEF Pushed

LEMMA DerefIs ==
    ASSUME TypeInv, NEW p \in Pointers, p # NULL
    PROVE  Deref(p).code \in Codes /\ Deref(p).kind \in Kinds
BY PointersAre DEF TypeInv, Deref, Record

LEMMA DecideTypes ==
    ASSUME TypeInv, NEW t \in Threads, NEW k \in Kinds, NEW c \in Codes, Decide(t, k, c)
    PROVE  traced' \subseteq Lexgions
BY DEF TypeInv, Decide, Lexgions

LEMMA CountedTypes ==
    ASSUME TypeInv, WithinBounds, Counted
    PROVE  constructs' \in 0 .. MaxConstructs
BY CodesAre DEF TypeInv, WithinBounds, Counted

-----------------------------------------------------------------------------
ContextSet(t, v) == v \in Context /\ context' = [context EXCEPT ![t] = v]

LEMMA ContextIs ==
    ASSUME TypeInv, NEW t \in Threads, NEW v, ContextSet(t, v)
    PROVE  /\ context' \in [Threads -> Context] /\ context'[t] = v
           /\ \A u \in Threads \ {t} : context'[u] = context[u]
BY DEF ContextSet, TypeInv

ParallelBegun(t, c, d) ==
    /\ Begins(t, d, c)
    /\ (AtInitialTask(t) /\ ~team.open) \/ (InBody(t) /\ t \in NestedBy)
    /\ \A i \in DOMAIN nest[t] : nest[t][i].code # c
    /\ d.kind = "parallel" /\ d.code = c /\ d.pdata = d.own /\ ~d.joined
    /\ d.tdata = NULL
    /\ d.own # NULL <=> Delivered("parallel_begin")
    /\ d.shown = (d.own # NULL /\ Tracing /\ <<t, "parallel", c>> \in traced')
    /\ IF d.own # NULL
       THEN /\ ContextSet(t, [context[t] EXCEPT !.par = d.own, !.parcode = c])
            /\ Decide(t, "parallel", c)
       ELSE context' = context /\ traced' = traced
    /\ team' = IF AtInitialTask(t)
               THEN [open |-> TRUE, pdata |-> d.own, entered |-> {}, arrived |-> {}]
               ELSE team
    /\ crashed' = crashed

LEMMA ParallelBeginEffect ==
    ASSUME TypeInv, NEW t \in Threads, NEW c \in ParallelCodes, ParallelBegin(t, c)
    PROVE  Crash \/ (TypeInv' /\ \E d : ParallelBegun(t, c, d))
<1> SUFFICES ASSUME ~Crash PROVE TypeInv' /\ \E d : ParallelBegun(t, c, d)
  OBVIOUS
<1> DEFINE pushes == Delivered("parallel_begin")
           record == IF pushes THEN Pushed(t) ELSE NULL
           shown == pushes /\ Tracing /\ <<t, "parallel", c>> \in traced'
           v == [context[t] EXCEPT !.par = record, !.parcode = c]
<1>0. /\ MayBegin(t) /\ ~(pushes /\ Full(t))
      /\ (AtInitialTask(t) /\ ~team.open) \/ (InBody(t) /\ t \in NestedBy)
      /\ \A i \in DOMAIN nest[t] : nest[t][i].code # c
  BY DEF ParallelBegin
<1>1. /\ IF pushes
         THEN /\ Push(t, "parallel", c)
              /\ context' = [context EXCEPT ![t].par = record, ![t].parcode = c]
              /\ Decide(t, "parallel", c)
         ELSE UNCHANGED <<stackVars, context, traced>>
      /\ Enter(t, Opened("parallel", c, record, NULL, record, shown))
      /\ team' = IF AtInitialTask(t)
                 THEN [open |-> TRUE, pdata |-> record, entered |-> {}, arrived |-> {}]
                 ELSE team
      /\ Counted
      /\ UNCHANGED <<controlVars, ghostVars, restoring, ended, crashed>>
  BY <1>0, Zenon DEF ParallelBegin
<1>2. PICK d : d = Opened("parallel", c, record, NULL, record, shown)
  OBVIOUS
<1>3. /\ d.kind = "parallel" /\ d.code = c /\ d.pdata = record /\ d.own = record
      /\ ~d.joined /\ d.shown = shown /\ d.tdata = NULL
  BY <1>2 DEF Opened
<1>4. record \in Pointers /\ (record # NULL <=> pushes) /\ c \in Codes
  BY <1>0, PushedIs, CodesAre, PointersAre
<1>5. d \in Construct
  BY <1>2, <1>4, PointersAre DEF Opened, Construct, Kinds
<1>6. Opens(t, d)
  BY <1>1, <1>2, <1>5, EnterOpens
<1>7. Begins(t, d, c)
  BY <1>0, <1>1, <1>3, <1>4, <1>5, <1>6 DEF Begins, MayBegin, Executes, StackSame, stackVars,
     controlVars, ghostVars
<1>8. NestTypes' /\ StackTypes' /\ OtherTypes'
  <2>1. constructs' \in 0 .. MaxConstructs /\ crashed' \in BOOLEAN
    BY <1>0, <1>1, CountedTypes DEF MayBegin, TypeInv
  <2> QED
    BY <1>7, <2>1, BeginsTypes
<1>9. team' \in Teams
  BY <1>1, <1>4 DEF TypeInv, Teams
<1>10. traced' \subseteq Lexgions
  <2>1. CASE pushes
    BY <1>1, <1>4, <2>1, DecideTypes DEF Kinds
  <2>2. CASE ~pushes
    BY <1>1, <2>2 DEF TypeInv
  <2> QED
    BY <2>1, <2>2
<1>11. ASSUME pushes PROVE ContextSet(t, v)
  <2>1. v \in Context
    BY <1>4 DEF TypeInv, Context
  <2>2. context' = [context EXCEPT ![t] = v]
    BY <1>1, <1>11 DEF TypeInv
  <2> QED
    BY <2>1, <2>2 DEF ContextSet, TypeInv
<1>12. context' \in [Threads -> Context]
  <2>1. CASE pushes
    BY <1>11, <2>1, ContextIs
  <2>2. CASE ~pushes
    BY <1>1, <2>2 DEF TypeInv
  <2> QED
    BY <2>1, <2>2
<1>13. TypeInv'
  BY <1>8, <1>9, <1>10, <1>12, TypePartsNext
<1>14. ParallelBegun(t, c, d)
  BY <1>0, <1>1, <1>3, <1>4, <1>7, <1>11 DEF ParallelBegun
<1> QED
  BY <1>13, <1>14

RegionFor(t) == IF Idle(t) THEN team.pdata ELSE Inner(t).pdata

TaskBegun(t, d) ==
    /\ Begins(t, d, Deref(d.pdata).code)
    /\ IF Idle(t) THEN team.open /\ t \notin team.entered
       ELSE Inner(t).kind = "parallel" /\ ~Inner(t).joined
    /\ d.kind = "task" /\ d.pdata = RegionFor(t) /\ d.tdata = d.own /\ ~d.joined
    /\ d.code = IF Idle(t) THEN Initial ELSE Inner(t).code
    /\ d.own # NULL <=> Delivered("implicit_task") /\ d.pdata # NULL
    /\ d.shown = (d.own # NULL /\ Shows("task", LexgionOf(d.pdata)))
    /\ IF d.own # NULL
       THEN ContextSet(t, [par |-> d.pdata, task |-> d.own,
                           parcode |-> Deref(d.pdata).code,
                           taskcode |-> Deref(d.pdata).code, work |-> context[t].work])
       ELSE IF Delivered("implicit_task")
       THEN ContextSet(t, [context[t] EXCEPT !.par = NULL])
       ELSE context' = context
    /\ team' = IF Idle(t) \/ (t = Master /\ Len(nest[t]) = 2)
               THEN [team EXCEPT !.entered = @ \cup {t}] ELSE team
    /\ traced' = traced /\ crashed' = crashed

LEMMA ImplicitTaskBeginEffect ==
    ASSUME TypeInv, NEW t \in Threads, ImplicitTaskBegin(t)
    PROVE  Crash \/ (TypeInv' /\ \E d : TaskBegun(t, d))
<1> SUFFICES ASSUME ~Crash PROVE TypeInv' /\ \E d : TaskBegun(t, d)
  OBVIOUS
<1> DEFINE pdata == RegionFor(t)
           c == Deref(pdata).code
           code == IF Idle(t) THEN Initial ELSE Inner(t).code
           pushes == Delivered("implicit_task") /\ pdata # NULL
           task == IF pushes THEN Pushed(t) ELSE NULL
           shown == pushes /\ Shows("task", LexgionOf(pdata))
           outer == Idle(t) \/ (t = Master /\ Len(nest[t]) = 2)
           v == [par |-> pdata, task |-> task, parcode |-> c, taskcode |-> c,
                 work |-> context[t].work]
           w == [context[t] EXCEPT !.par = NULL]
<1>0. /\ Executes(t) /\ ~(pushes /\ Full(t))
      /\ IF Idle(t) THEN team.open /\ t \notin team.entered
         ELSE In(t, {"parallel"}) /\ ~Inner(t).joined
  BY DEF ImplicitTaskBegin, RegionFor
<1>1. /\ IF pushes
         THEN /\ Push(t, "task", c)
              /\ context' = [context EXCEPT ![t] =
                   [par |-> pdata, task |-> task, parcode |-> c, taskcode |-> c,
                    work |-> @.work]]
         ELSE /\ context' = IF Delivered("implicit_task")
                            THEN [context EXCEPT ![t].par = NULL]
                            ELSE context
              /\ UNCHANGED stackVars
      /\ Enter(t, Opened("task", code, pdata, task, task, shown))
      /\ team' = IF outer THEN [team EXCEPT !.entered = @ \cup {t}] ELSE team
      /\ UNCHANGED <<controlVars, traced, ghostVars, restoring, ended, crashed,
                     constructs>>
  BY <1>0, Zenon DEF ImplicitTaskBegin, RegionFor
<1>2. PICK d : d = Opened("task", code, pdata, task, task, shown)
  OBVIOUS
<1>3. /\ d.kind = "task" /\ d.code = code /\ d.pdata = pdata /\ d.own = task
      /\ ~d.joined /\ d.shown = shown /\ d.tdata = task
  BY <1>2 DEF Opened
<1>4. pdata \in Pointers /\ code \in Codes
  BY <1>0, Innermost, Fields, CodesAre DEF RegionFor, TypeInv, Teams, Idle
<1>5. task \in Pointers /\ (task # NULL <=> pushes)
  BY <1>0, PushedIs, PointersAre
<1>6. pushes => c \in Codes
  BY <1>4, DerefIs
<1>7. d \in Construct
  BY <1>2, <1>4, <1>5, PointersAre DEF Opened, Construct, Kinds, Shows
<1>8. Opens(t, d)
  BY <1>1, <1>2, <1>7, EnterOpens
<1>9. Begins(t, d, Deref(d.pdata).code)
  BY <1>0, <1>1, <1>3, <1>5, <1>6, <1>7, <1>8 DEF Begins, Executes, StackSame, stackVars,
     controlVars, ghostVars
<1>10. NestTypes' /\ StackTypes' /\ OtherTypes'
  <2>1. constructs' \in 0 .. MaxConstructs /\ crashed' \in BOOLEAN
    BY <1>1 DEF TypeInv
  <2> QED
    BY <1>9, <2>1, BeginsTypes
<1>11. team' \in Teams
  BY <1>1, <1>4 DEF TypeInv, Teams
<1>12. traced' \subseteq Lexgions
  BY <1>1 DEF TypeInv
<1>13. ASSUME pushes PROVE ContextSet(t, v)
  BY <1>1, <1>4, <1>5, <1>6, <1>13 DEF ContextSet, TypeInv, Context
<1>14. ASSUME ~pushes, Delivered("implicit_task") PROVE ContextSet(t, w)
  <2>1. w \in Context
    <3>1. context[t] \in Context /\ NULL \in Pointers
      BY PointersAre DEF TypeInv
    <3> QED
      BY <3>1 DEF Context
  <2>2. context' = [context EXCEPT ![t] = w]
    BY <1>1, <1>14 DEF TypeInv
  <2> QED
    BY <2>1, <2>2 DEF ContextSet
<1>15. context' \in [Threads -> Context]
  <2>1. CASE pushes
    BY <1>13, <2>1, ContextIs
  <2>2. CASE ~pushes /\ Delivered("implicit_task")
    BY <1>14, <2>2, ContextIs
  <2>3. CASE ~pushes /\ ~Delivered("implicit_task")
    BY <1>1, <2>3 DEF TypeInv
  <2> QED
    BY <2>1, <2>2, <2>3
<1>16. TypeInv'
  BY <1>10, <1>11, <1>12, <1>15, TypePartsNext
<1>17. TaskBegun(t, d)
  BY <1>0, <1>1, <1>3, <1>5, <1>9, <1>13, <1>14 DEF TaskBegun, In
<1> QED
  BY <1>16, <1>17

-----------------------------------------------------------------------------
WorkBegun(t, k, c, d) ==
    /\ Begins(t, d, c)
    /\ InBody(t) /\ (k = "masked" => t = Master \/ Len(nest[t]) > 1)
    /\ d.kind = k /\ d.code = c /\ d.pdata = Inner(t).pdata /\ d.tdata = Inner(t).tdata
    /\ ~d.joined
    /\ d.own # NULL <=> Delivered(k) /\ HasOwnLexgion(t, k, c)
    /\ Delivered(k) /\ d.own = NULL /\ k # "work" => Inner(t).pdata # NULL
    /\ d.shown = (/\ Delivered(k) /\ Tracing /\ k \in EnabledEvents
                  /\ IF d.own # NULL THEN <<t, k, c>> \in traced'
                     ELSE LexgionOf(IF k = "work" THEN context[t].par ELSE Inner(t).pdata)
                             \in traced)
    /\ IF d.own # NULL THEN Decide(t, k, c) ELSE traced' = traced
    /\ IF Delivered(k) /\ k = "work"
       THEN ContextSet(t, [context[t] EXCEPT !.work =
                              IF d.own # NULL THEN <<t, k, c>> ELSE NULL])
       ELSE context' = context
    /\ team' = team /\ crashed' = crashed

LEMMA WorkBeginEffect ==
    ASSUME TypeInv, NEW t \in Threads, NEW k \in {"work", "masked"},
           NEW c \in WorkCodes \cup MaskedCodes, WorkBegin(t, k, c)
    PROVE  Crash \/ (TypeInv' /\ \E d : WorkBegun(t, k, c, d))
<1> SUFFICES ASSUME ~Crash PROVE TypeInv' /\ \E d : WorkBegun(t, k, c, d)
  OBVIOUS
<1> DEFINE owns == Delivered(k) /\ HasOwnLexgion(t, k, c)
           region == IF k = "work" THEN context[t].par ELSE Inner(t).pdata
           record == IF owns THEN Pushed(t) ELSE NULL
           lexgion == IF owns THEN <<t, k, c>> ELSE NULL
           shown == /\ Delivered(k) /\ Tracing /\ k \in EnabledEvents
                    /\ IF owns THEN <<t, k, c>> \in traced' ELSE LexgionOf(region) \in traced
           v == [context[t] EXCEPT !.work = lexgion]
<1>0. /\ MayBegin(t) /\ InBody(t) /\ (k = "masked" => t = Master \/ Len(nest[t]) > 1)
      /\ ~(Delivered(k) /\ (IF owns THEN Full(t) ELSE region = NULL))
  BY DEF WorkBegin
<1>1. /\ IF owns THEN Push(t, k, c) /\ Decide(t, k, c)
         ELSE UNCHANGED <<stackVars, traced>>
      /\ context' = IF Delivered(k) /\ k = "work"
                    THEN [context EXCEPT ![t].work = lexgion]
                    ELSE context
      /\ Enter(t, Opened(k, c, Inner(t).pdata, Inner(t).tdata, record, shown))
      /\ Counted
      /\ UNCHANGED <<controlVars, team, restoring, ended, crashed, ghostVars>>
  BY <1>0, Zenon DEF WorkBegin
<1>2. PICK d : d = Opened(k, c, Inner(t).pdata, Inner(t).tdata, record, shown)
  OBVIOUS
<1>3. /\ d.kind = k /\ d.code = c /\ d.pdata = Inner(t).pdata /\ d.own = record
      /\ ~d.joined /\ d.shown = shown /\ d.tdata = Inner(t).tdata
  BY <1>2 DEF Opened
<1>4. Inner(t).pdata \in Pointers /\ Inner(t).tdata \in Pointers
  BY <1>0, Innermost, Fields DEF InBody, In, Idle
<1>5. record \in Pointers /\ (record # NULL <=> owns) /\ c \in Codes /\ k \in Kinds
  BY <1>0, PushedIs, PointersAre, CodesAre DEF Kinds
<1>6. d \in Construct
  BY <1>2, <1>4, <1>5 DEF Opened, Construct
<1>7. Opens(t, d)
  BY <1>1, <1>2, <1>6, EnterOpens
<1>8. Begins(t, d, c)
  BY <1>0, <1>1, <1>3, <1>5, <1>6, <1>7 DEF Begins, MayBegin, Executes, StackSame,
     stackVars, controlVars, ghostVars
<1>9. NestTypes' /\ StackTypes' /\ OtherTypes'
  <2>1. constructs' \in 0 .. MaxConstructs /\ crashed' \in BOOLEAN
    BY <1>0, <1>1, CountedTypes DEF MayBegin, TypeInv
  <2> QED
    BY <1>8, <2>1, BeginsTypes
<1>10. team' \in Teams
  BY <1>1 DEF TypeInv
<1>11. traced' \subseteq Lexgions
  <2>1. CASE owns
    BY <1>1, <1>5, <2>1, DecideTypes
  <2>2. CASE ~owns
    BY <1>1, <2>2 DEF TypeInv
  <2> QED
    BY <2>1, <2>2
<1>12. ASSUME Delivered(k), k = "work" PROVE ContextSet(t, v)
  <2>1. v \in Context
    <3>1. context[t] \in Context /\ lexgion \in Lexgions \cup {NULL}
      BY <1>5 DEF TypeInv, Lexgions
    <3> QED
      BY <3>1 DEF Context
  <2>2. context' = [context EXCEPT ![t] = v]
    BY <1>1, <1>12 DEF TypeInv
  <2> QED
    BY <2>1, <2>2 DEF ContextSet
<1>13. context' \in [Threads -> Context]
  <2>1. CASE Delivered(k) /\ k = "work"
    BY <1>12, <2>1, ContextIs
  <2>2. CASE ~(Delivered(k) /\ k = "work")
    BY <1>1, <2>2 DEF TypeInv
  <2> QED
    BY <2>1, <2>2
<1>14. TypeInv'
  BY <1>9, <1>10, <1>11, <1>13, TypePartsNext
<1>15. WorkBegun(t, k, c, d)
  <2>1. IF d.own # NULL THEN Decide(t, k, c) ELSE traced' = traced
    BY <1>1, <1>3, <1>5
  <2>2. Delivered(k) /\ d.own = NULL /\ k # "work" => Inner(t).pdata # NULL
    BY <1>0, <1>3, <1>5
  <2>3. d.own # NULL <=> owns
    BY <1>3, <1>5
  <2> QED
    BY <1>0, <1>1, <1>3, <1>8, <1>12, <2>1, <2>2, <2>3 DEF WorkBegun
<1> QED
  BY <1>14, <1>15

-----------------------------------------------------------------------------
MpiBegun(t, d) ==
    /\ Begins(t, d, MpiCode)
    /\ t = Master /\ In(t, {"task"}) /\ ~Inner(t).joined
    /\ d.kind = "mpi" /\ d.code = MpiCode /\ ~d.joined /\ ~d.shown
    /\ d.pdata = Inner(t).pdata /\ d.tdata = Inner(t).tdata
    /\ UNCHANGED <<traced, context, team, crashed>>

LEMMA MpiBeginEffect ==
    ASSUME TypeInv, NEW t \in Threads, MpiBegin(t)
    PROVE  Crash \/ (TypeInv' /\ \E d : MpiBegun(t, d))
<1> SUFFICES ASSUME ~Crash PROVE TypeInv' /\ \E d : MpiBegun(t, d)
  OBVIOUS
<1> DEFINE begins == Active(MpiMode) /\ ~Full(t)
           record == IF begins THEN Pushed(t) ELSE NULL
<1>0. MayBegin(t) /\ t = Master /\ In(t, {"task"}) /\ ~Inner(t).joined
  BY DEF MpiBegin
<1>1. /\ IF begins THEN Push(t, "mpi", MpiCode) ELSE UNCHANGED stackVars
      /\ Enter(t, Opened("mpi", MpiCode, Inner(t).pdata, Inner(t).tdata, record, FALSE))
      /\ Counted
      /\ UNCHANGED <<controlVars, traced, context, team, restoring, ended, crashed,
                     ghostVars>>
  BY Zenon DEF MpiBegin
<1>2. PICK d : d = Opened("mpi", MpiCode, Inner(t).pdata, Inner(t).tdata, record, FALSE)
  OBVIOUS
<1>3. /\ d.kind = "mpi" /\ d.code = MpiCode /\ d.pdata = Inner(t).pdata /\ d.own = record
      /\ ~d.joined /\ ~d.shown /\ d.tdata = Inner(t).tdata
  BY <1>2 DEF Opened
<1>4. Inner(t).pdata \in Pointers /\ Inner(t).tdata \in Pointers
  BY <1>0, Innermost, Fields DEF In, Idle
<1>5. record \in Pointers /\ (record # NULL <=> begins)
  BY PushedIs, PointersAre
<1>6. d \in Construct
  BY <1>2, <1>4, <1>5, CodesAre DEF Opened, Construct, Kinds
<1>7. Opens(t, d)
  BY <1>1, <1>2, <1>6, EnterOpens
<1>8. Begins(t, d, MpiCode)
  BY <1>0, <1>1, <1>3, <1>5, <1>6, <1>7, CodesAre DEF Begins, MayBegin, Executes,
     StackSame, stackVars, controlVars, ghostVars
<1>9. NestTypes' /\ StackTypes' /\ OtherTypes'
  <2>1. constructs' \in 0 .. MaxConstructs /\ crashed' \in BOOLEAN
    BY <1>0, <1>1, CountedTypes DEF MayBegin, TypeInv
  <2> QED
    BY <1>8, <2>1, BeginsTypes
<1>10. TypeInv'
  BY <1>1, <1>9, TypePartsNext DEF TypeInv
<1>11. MpiBegun(t, d)
  BY <1>0, <1>1, <1>3, <1>8 DEF MpiBegun
<1> QED
  BY <1>10, <1>11

-----------------------------------------------------------------------------
\* Whether the begin of a barrier is recorded.
BarrierShown(t, join, d) ==
    LET isJoin == join /\ ((t # Master /\ InTeam(t)) \/ context[t].parcode = Inner(t).code)
        byWork == ~isJoin /\ context[t].work # NULL
        by == IF byWork THEN context[t].work ELSE LexgionOf(Inner(t).pdata) IN
    d.shown <=> /\ Synchronizes(t, "sync_region") /\ by \in traced
                /\ isJoin \/ "barrier" \in EnabledEvents

BarrierBegun(t, join, d) ==
    /\ Begins(t, d, NoCode)
    /\ InBody(t)
    /\ d.kind = "barrier" /\ d.code = Inner(t).code /\ d.own = NULL /\ d.joined = join
    /\ d.pdata = Inner(t).pdata /\ d.tdata = Inner(t).tdata
    /\ team' = IF join /\ InTeam(t) THEN [team EXCEPT !.arrived = @ \cup {t}] ELSE team
    /\ UNCHANGED <<traced, context>>
    /\ ~crashed' => BarrierShown(t, join, d)

LEMMA BarrierBeginEffect ==
    ASSUME TypeInv, NEW t \in Threads, NEW join \in BOOLEAN, BarrierBegin(t, join)
    PROVE  TypeInv' /\ \E d : BarrierBegun(t, join, d)
<1> DEFINE sync == Synchronizes(t, "sync_region")
           isJoin == join /\ ((t # Master /\ InTeam(t)) \/ context[t].parcode = Inner(t).code)
           byWork == ~isJoin /\ context[t].work # NULL
           crashes == (sync /\ ~byWork /\ Inner(t).pdata = NULL)
                      \/ CrashesInWait(t, isJoin, byWork)
           by == IF byWork THEN context[t].work ELSE LexgionOf(Inner(t).pdata)
           shown == /\ sync /\ ~crashes /\ by \in traced
                    /\ (isJoin \/ "barrier" \in EnabledEvents)
           e == Opened("barrier", Inner(t).code, Inner(t).pdata, Inner(t).tdata, NULL, shown)
<1>0. /\ Executes(t) /\ InBody(t) /\ (~join => WithinBounds)
      /\ constructs' = IF join THEN constructs ELSE constructs + 1
  BY DEF BarrierBegin
<1>1. /\ crashed' = crashes
      /\ Enter(t, [e EXCEPT !.joined = join])
      /\ team' = IF join /\ InTeam(t) THEN [team EXCEPT !.arrived = @ \cup {t}] ELSE team
      /\ UNCHANGED <<controlVars, stackVars, traced, context, restoring, ended, ghostVars>>
  BY Zenon DEF BarrierBegin
<1>2. PICK d : d = [e EXCEPT !.joined = join]
  OBVIOUS
<1>3. /\ d.kind = "barrier" /\ d.code = Inner(t).code /\ d.pdata = Inner(t).pdata
      /\ d.own = NULL /\ d.joined = join /\ d.shown = shown /\ d.tdata = Inner(t).tdata
  BY <1>2 DEF Opened
<1>4. Inner(t).pdata \in Pointers /\ Inner(t).tdata \in Pointers /\ Inner(t).code \in Codes
  BY <1>0, Innermost, Fields DEF InBody, In, Idle
<1>5. d \in Construct
  BY <1>2, <1>4, PointersAre DEF Opened, Construct, Kinds, Synchronizes
<1>6. Opens(t, d)
  BY <1>1, <1>2, <1>5, EnterOpens
<1>7. Begins(t, d, NoCode)
  BY <1>0, <1>1, <1>3, <1>5, <1>6 DEF Begins, Executes, StackSame, stackVars, controlVars,
     ghostVars
<1>8. NestTypes' /\ StackTypes' /\ OtherTypes'
  <2>1. constructs' \in 0 .. MaxConstructs
    BY <1>0, CodesAre DEF WithinBounds, TypeInv
  <2>2. crashed' \in BOOLEAN
    BY <1>1 DEF Synchronizes, CrashesInWait
  <2> QED
    BY <1>7, <2>1, <2>2, BeginsTypes
<1>9. team' \in Teams
  BY <1>1 DEF TypeInv, Teams
<1>10. TypeInv'
  BY <1>1, <1>8, <1>9, TypePartsNext DEF TypeInv
<1>11. ~crashed' => BarrierShown(t, join, d)
  BY <1>1, <1>3 DEF BarrierShown
<1>12. BarrierBegun(t, join, d)
  BY <1>0, <1>1, <1>3, <1>7, <1>11 DEF BarrierBegun
<1> QED
  BY <1>10, <1>12

-----------------------------------------------------------------------------
(***************************************************************************)
(* What the ends change.                                                   *)
(***************************************************************************)
Pops(t) == top[t] # 0 /\ Pop(t)

\* The innermost construct of t ends, and pops or does not.
Ends(t) ==
    /\ ~crashed /\ t \notin restoring /\ nest[t] # <<>> /\ Closes(t)
    /\ \/ StackSame
       \/ Pops(t)
       \/ PopMatch(t, MpiCode)
    /\ UNCHANGED <<mode, registered, switches, ended, constructs, traced, crashed>>

Prefix(t) == \A i \in 1 .. Len(nest[t]) - 1 : nest'[t][i] = nest[t][i]

Unpairs(t, s) ==
    unpaired' = IF t \notin disturbed /\ Inner(t).shown # s
                THEN unpaired \cup {<<t, Inner(t).kind, Inner(t).own # NULL>>}
                ELSE unpaired

LEMMA PopMatchEffect ==
    ASSUME TypeInv, NEW t \in Threads, NEW c, PopMatch(t, c)
    PROVE  /\ StackTypes' /\ slots' = slots
           /\ \A u \in Threads \ {t} : top'[u] = top[u]
           /\ top'[t] <= top[t] /\ top'[t] \in Nat
           /\ top[t] # 0 /\ slots[t][top[t]].code = c => top'[t] = top[t] - 1
<1> DEFINE held == {i \in 1 .. top[t] : slots[t][i].code = c}
           h == CHOOSE i \in held : \A j \in held : j <= i
<1>1. top[t] \in 0 .. MaxDepth /\ MaxDepth \in Nat
  BY CodesAre DEF TypeInv
<1>2. held \in SUBSET (1 .. top[t]) /\ top[t] \in Nat
  BY <1>1
<1>3. top' = [top EXCEPT ![t] = IF held = {} THEN @ ELSE h - 1] /\ slots' = slots
  BY DEF PopMatch
<1>4. held # {} => h \in held /\ \A j \in held : j <= h
  BY <1>2, Topmost
<1>5. top[t] # 0 /\ slots[t][top[t]].code = c => top[t] \in held
  BY <1>1
<1> HIDE DEF held
<1>6. held # {} => h - 1 \in 0 .. MaxDepth /\ h - 1 <= top[t] /\ h \in 1 .. top[t]
  <2>1. held # {} => h \in 1 .. top[t]
    BY <1>2, <1>4
  <2> QED
    BY <1>1, <2>1
<1>7. top[t] \in held => h = top[t]
  BY <1>1, <1>4, <1>6
<1> HIDE DEF h
<1>8. top'[t] = (IF held = {} THEN top[t] ELSE h - 1)
      /\ \A u \in Threads \ {t} : top'[u] = top[u]
  BY <1>3 DEF TypeInv
<1>9. top' \in [Threads -> 0 .. MaxDepth]
  BY <1>1, <1>3, <1>6 DEF TypeInv
<1> QED
  BY <1>1, <1>3, <1>5, <1>6, <1>7, <1>8, <1>9 DEF StackTypes, TypeInv

LEMMA EndsTypes ==
    ASSUME TypeInv, NEW t \in Threads, Ends(t), NEW s \in BOOLEAN, Unpairs(t, s),
           miscounted' \subseteq Threads, restoring' \subseteq Threads,
           context' \in [Threads -> Context], team' \in Teams
    PROVE  TypeInv'
<1>1. NestTypes'
  BY NestChanged DEF Ends
<1>2. StackTypes'
  <2>1. CASE StackSame
    BY <2>1 DEF TypeInv, StackTypes, StackSame
  <2>2. CASE Pops(t)
    BY <2>2, PopEffect DEF Pops
  <2>3. CASE PopMatch(t, MpiCode)
    BY <2>3, PopMatchEffect
  <2> QED
    BY <2>1, <2>2, <2>3 DEF Ends
<1>3. unpaired' \subseteq Threads \X Kinds \X BOOLEAN
  <2>1. Inner(t).kind \in Kinds /\ (Inner(t).own # NULL) \in BOOLEAN
    BY Innermost, Fields DEF Ends
  <2>2. <<t, Inner(t).kind, Inner(t).own # NULL>> \in Threads \X Kinds \X BOOLEAN
    BY <2>1
  <2> QED
    BY <2>2 DEF Unpairs, TypeInv
<1>4. OtherTypes'
  BY <1>3 DEF TypeInv, OtherTypes, Ends, Closes
<1>5. traced' \subseteq Lexgions
  BY DEF TypeInv, Ends
<1> QED
  BY <1>1, <1>2, <1>4, <1>5, TypePartsNext

\* What the step that ends a construct leaves of the program.
LEMMA LeaveEffect ==
    ASSUME TypeInv, NEW t \in Threads, nest[t] # <<>>, NEW s \in BOOLEAN, Leave(t, s)
    PROVE  Closes(t) /\ Prefix(t) /\ Unpairs(t, s)
BY LeaveCloses DEF Prefix, Unpairs, Leave, LeaveTo

LEMMA ImplicitTaskEndEffect ==
    ASSUME TypeInv, NEW t \in Threads, ImplicitTaskEnd(t)
    PROVE  LET pops == Delivered("implicit_task") /\ Inner(t).tdata # NULL
               par == context[t].par
           IN Crash \/ (/\ TypeInv' /\ Ends(t) /\ Prefix(t)
                        /\ In(t, {"task"})
                        /\ IF AtInitialTask(t) THEN ~team.open ELSE Inner(t).joined
                        /\ IF pops THEN Pops(t) ELSE StackSame
                        /\ Unpairs(t, pops /\ par # NULL /\ Shows("task", LexgionOf(par)))
                        /\ UNCHANGED <<context, team, miscounted, restoring>>)
<1> DEFINE pops == Delivered("implicit_task") /\ Inner(t).tdata # NULL
           s == pops /\ context[t].par # NULL /\ Shows("task", LexgionOf(context[t].par))
<1> SUFFICES ASSUME ~Crash
             PROVE  /\ TypeInv' /\ Ends(t) /\ Prefix(t)
                    /\ In(t, {"task"})
                    /\ IF AtInitialTask(t) THEN ~team.open ELSE Inner(t).joined
                    /\ IF pops THEN Pops(t) ELSE StackSame
                    /\ Unpairs(t, s)
                    /\ UNCHANGED <<context, team, miscounted, restoring>>
  OBVIOUS
<1>1. /\ Executes(t) /\ In(t, {"task"})
      /\ IF AtInitialTask(t) THEN ~team.open ELSE Inner(t).joined
      /\ ~(pops /\ top[t] = 0)
      /\ IF pops THEN Pop(t) ELSE UNCHANGED stackVars
      /\ Leave(t, s)
      /\ UNCHANGED <<controlVars, traced, context, team, miscounted, restoring, ended,
                     crashed, constructs>>
  BY Zenon DEF ImplicitTaskEnd
<1>2. nest[t] # <<>> /\ s \in BOOLEAN
  BY <1>1 DEF In, Idle, Shows
<1>3. Closes(t) /\ Prefix(t) /\ Unpairs(t, s)
  BY <1>1, <1>2, LeaveEffect
<1>4. IF pops THEN Pops(t) ELSE StackSame
  BY <1>1 DEF Pops, StackSame, stackVars
<1>5. Ends(t)
  BY <1>1, <1>2, <1>3, <1>4 DEF Ends, Executes, controlVars
<1>6. TypeInv'
  BY <1>1, <1>2, <1>3, <1>5, EndsTypes DEF TypeInv
<1> QED
  BY <1>1, <1>3, <1>4, <1>5, <1>6

ParallelEnded(t) ==
    LET shows == /\ Delivered("parallel_end") /\ Tracing
                 /\ LexgionOf(TopOf(t)) \in traced
        outermost == t = Master /\ Len(nest[t]) = 2
        counts == shows /\ (Deref(TopOf(t)).code \in Addressed \/ IsTopmost(top[t], t))
    IN
    /\ Ends(t) /\ Prefix(t)
    /\ In(t, {"parallel"}) /\ Inner(t).joined
    /\ IF Delivered("parallel_end")
       THEN Pops(t) /\ restoring' = restoring \cup {t} /\ Inner(t).pdata = context[t].par
       ELSE StackSame /\ restoring' = restoring
    /\ Unpairs(t, shows)
    /\ miscounted' = IF /\ t \notin disturbed /\ shows
                        /\ counts # (outermost \/ Inner(t).code \in Addressed)
                     THEN miscounted \cup {t} ELSE miscounted
    /\ team' = IF outermost THEN [team EXCEPT !.open = FALSE] ELSE team
    /\ context' = context

LEMMA ParallelEndEffect ==
    ASSUME TypeInv, NEW t \in Threads, ParallelEnd(t)
    PROVE  Crash \/ (TypeInv' /\ ParallelEnded(t))
<1> SUFFICES ASSUME ~Crash PROVE TypeInv' /\ ParallelEnded(t)
  OBVIOUS
<1> DEFINE record == TopOf(t)
           outermost == t = Master /\ Len(nest[t]) = 2
           shows == /\ Delivered("parallel_end") /\ Tracing
                    /\ LexgionOf(record) \in traced
           counts == /\ shows
                     /\ \/ Deref(record).code \in Addressed
                        \/ IsTopmost(top[t], t)
<1>1. /\ Executes(t) /\ In(t, {"parallel"}) /\ Inner(t).joined
      /\ ~(Delivered("parallel_end") /\ (record = NULL \/ Inner(t).pdata # context[t].par))
      /\ IF Delivered("parallel_end")
         THEN Pop(t) /\ restoring' = restoring \cup {t}
         ELSE UNCHANGED <<stackVars, restoring>>
      /\ Leave(t, shows)
      /\ miscounted' = IF /\ t \notin disturbed /\ shows
                          /\ counts # (outermost \/ Inner(t).code \in Addressed)
                       THEN miscounted \cup {t} ELSE miscounted
      /\ team' = IF outermost THEN [team EXCEPT !.open = FALSE] ELSE team
      /\ UNCHANGED <<controlVars, traced, context, ended, crashed, constructs>>
  BY Zenon DEF ParallelEnd
<1>2. nest[t] # <<>> /\ shows \in BOOLEAN
  BY <1>1 DEF In, Idle, Tracing
<1>3. Closes(t) /\ Prefix(t) /\ Unpairs(t, shows)
  BY <1>1, <1>2, LeaveEffect
<1>4. Delivered("parallel_end") => top[t] # 0 /\ Inner(t).pdata = context[t].par
  BY <1>1 DEF TopOf
<1>5. IF Delivered("parallel_end")
      THEN Pops(t) /\ restoring' = restoring \cup {t} /\ Inner(t).pdata = context[t].par
      ELSE StackSame /\ restoring' = restoring
  BY <1>1, <1>4 DEF Pops, StackSame, stackVars
<1>6. Ends(t)
  BY <1>1, <1>2, <1>3, <1>5 DEF Ends, Executes, controlVars
<1>7. /\ miscounted' \subseteq Threads /\ restoring' \subseteq Threads
      /\ context' \in [Threads -> Context] /\ team' \in Teams
  BY <1>1, <1>5 DEF TypeInv, Teams
<1>8. TypeInv'
  BY <1>2, <1>3, <1>6, <1>7, EndsTypes
<1> QED
  BY <1>1, <1>3, <1>5, <1>6, <1>8 DEF ParallelEnded

WorkEnded(t) ==
    LET k == Inner(t).kind
        owns == Deref(TopOf(t)).kind = k
        by == IF owns \/ k = "work" THEN TopOf(t) ELSE Inner(t).pdata IN
    /\ Ends(t) /\ Prefix(t)
    /\ In(t, {"work", "masked"})
    /\ IF Delivered(k) /\ owns THEN Pops(t) ELSE StackSame
    /\ Delivered(k) => top[t] # 0 /\ by # NULL
    /\ Unpairs(t, Delivered(k) /\ Shows(k, LexgionOf(by)))
    /\ UNCHANGED <<context, team, miscounted, restoring>>

LEMMA WorkEndEffect ==
    ASSUME TypeInv, NEW t \in Threads, WorkEnd(t)
    PROVE  Crash \/ (TypeInv' /\ WorkEnded(t))
<1> SUFFICES ASSUME ~Crash PROVE TypeInv' /\ WorkEnded(t)
  OBVIOUS
<1> DEFINE k == Inner(t).kind
           owns == Deref(TopOf(t)).kind = k
           by == IF owns \/ k = "work" THEN TopOf(t) ELSE Inner(t).pdata
           s == Delivered(k) /\ Shows(k, LexgionOf(by))
<1>1. /\ Executes(t) /\ In(t, {"work", "masked"})
      /\ ~(Delivered(k) /\ (top[t] = 0 \/ by = NULL))
      /\ IF Delivered(k) /\ owns THEN Pop(t) ELSE UNCHANGED stackVars
      /\ Leave(t, s)
      /\ UNCHANGED <<controlVars, traced, context, team, miscounted, restoring, ended,
                     crashed, constructs>>
  BY Zenon DEF WorkEnd
<1>2. nest[t] # <<>> /\ s \in BOOLEAN
  BY <1>1 DEF In, Idle, Shows
<1>3. Closes(t) /\ Prefix(t) /\ Unpairs(t, s)
  BY <1>1, <1>2, LeaveEffect
<1>4. IF Delivered(k) /\ owns THEN Pops(t) ELSE StackSame
  BY <1>1 DEF Pops, StackSame, stackVars
<1>5. Ends(t)
  BY <1>1, <1>2, <1>3, <1>4 DEF Ends, Executes, controlVars
<1>6. TypeInv'
  BY <1>1, <1>2, <1>3, <1>5, EndsTypes DEF TypeInv
<1> QED
  BY <1>1, <1>3, <1>4, <1>5, <1>6 DEF WorkEnded

BarrierEnded(t) ==
    LET join == Inner(t).joined
        depth == Len(nest[t]) - 1
        sync == Synchronizes(t, "sync_region")
        inTeam == depth = IF t = Master THEN 3 ELSE 1
        isJoin == join /\ \/ t # Master /\ inTeam
                          \/ context[t].parcode = Inner(t).code
        byWork == ~isJoin /\ context[t].work # NULL
        by == IF byWork THEN context[t].work ELSE LexgionOf(context[t].par) IN
    /\ Ends(t) /\ StackSame
    /\ In(t, {"barrier"})
    /\ join /\ inTeam => team.arrived = Threads \/ t \notin team.entered
    /\ \A i \in 1 .. Len(nest[t]) - 1 :
          nest'[t][i].joined = (nest[t][i].joined \/ (join /\ i >= Len(nest[t]) - 2))
    /\ Unpairs(t, sync /\ by \in traced /\ (isJoin \/ "barrier" \in EnabledEvents))
    /\ IF sync /\ ~isJoin
       THEN ContextSet(t, [context[t] EXCEPT !.work = NULL]) ELSE context' = context
    /\ UNCHANGED <<team, miscounted, restoring>>

LEMMA BarrierEndEffect ==
    ASSUME TypeInv, NEW t \in Threads, BarrierEnd(t)
    PROVE  Crash \/ (TypeInv' /\ BarrierEnded(t))
<1> SUFFICES ASSUME ~Crash PROVE TypeInv' /\ BarrierEnded(t)
  OBVIOUS
<1> DEFINE join == Inner(t).joined
           depth == Len(nest[t]) - 1
           sync == Synchronizes(t, "sync_region")
           inTeam == depth = IF t = Master THEN 3 ELSE 1
           isJoin == join /\ \/ t # Master /\ inTeam
                             \/ context[t].parcode = Inner(t).code
           byWork == ~isJoin /\ context[t].work # NULL
           by == IF byWork THEN context[t].work ELSE LexgionOf(context[t].par)
           s == sync /\ by \in traced /\ (isJoin \/ "barrier" \in EnabledEvents)
           w == [context[t] EXCEPT !.work = NULL]
<1>1. /\ Executes(t) /\ In(t, {"barrier"})
      /\ join /\ inTeam => team.arrived = Threads \/ t \notin team.entered
      /\ LeaveTo(t, [i \in 1 .. depth |->
                       IF join /\ i >= depth - 1
                       THEN [nest[t][i] EXCEPT !.joined = TRUE] ELSE nest[t][i]], s)
      /\ context' = IF sync /\ ~isJoin
                    THEN [context EXCEPT ![t].work = NULL] ELSE context
      /\ UNCHANGED <<controlVars, stackVars, traced, team, miscounted, restoring, ended,
                     crashed, constructs>>
  BY Zenon DEF BarrierEnd
<1>2. nest[t] # <<>> /\ s \in BOOLEAN /\ join \in BOOLEAN
  <2>1. nest[t] # <<>> /\ join \in BOOLEAN
    BY <1>1, Innermost, Fields DEF In, Idle
  <2> QED
    BY <2>1 DEF Synchronizes
<1>3. LeaveTo(t, Rejoined(t, join), s)
  BY <1>1 DEF Rejoined
<1>4. /\ Closes(t)
      /\ \A i \in 1 .. Len(nest[t]) - 1 :
            nest'[t][i].joined = (nest[t][i].joined \/ (join /\ i >= Len(nest[t]) - 2))
  BY <1>2, <1>3, RejoinedCloses
<1>5. Unpairs(t, s)
  BY <1>1 DEF LeaveTo, Unpairs
<1>6. Ends(t) /\ StackSame
  BY <1>1, <1>2, <1>4 DEF Ends, Executes, controlVars, StackSame, stackVars
<1>7. IF sync /\ ~isJoin THEN ContextSet(t, w) ELSE context' = context
  <2>1. w \in Context
    <3>1. context[t] \in Context
      BY DEF TypeInv
    <3> QED
      BY <3>1 DEF Context
  <2>2. CASE sync /\ ~isJoin
    <3>1. context' = [context EXCEPT ![t] = w]
      BY <1>1, <2>2 DEF TypeInv
    <3> QED
      BY <2>1, <2>2, <3>1 DEF ContextSet
  <2>3. CASE ~(sync /\ ~isJoin)
    BY <1>1, <2>3
  <2> QED
    BY <2>2, <2>3
<1>8. context' \in [Threads -> Context]
  BY <1>7, ContextIs DEF TypeInv
<1>9. TypeInv'
  BY <1>1, <1>2, <1>5, <1>6, <1>8, EndsTypes DEF TypeInv
<1>10. BarrierEnded(t)
  BY <1>1, <1>4, <1>5, <1>6, <1>7 DEF BarrierEnded
<1> QED
  BY <1>9, <1>10

MpiEnded(t) ==
    /\ Ends(t) /\ Prefix(t)
    /\ In(t, {"mpi"})
    /\ IF Inner(t).own # NULL THEN PopMatch(t, MpiCode) ELSE StackSame
    /\ Unpairs(t, FALSE)
    /\ UNCHANGED <<context, team, miscounted, restoring>>

LEMMA MpiEndEffect ==
    ASSUME TypeInv, NEW t \in Threads, MpiEnd(t)
    PROVE  TypeInv' /\ MpiEnded(t)
<1>1. /\ Executes(t) /\ In(t, {"mpi"})
      /\ IF Inner(t).own # NULL THEN PopMatch(t, MpiCode) ELSE UNCHANGED stackVars
      /\ Leave(t, FALSE)
      /\ UNCHANGED <<controlVars, traced, context, team, miscounted, restoring, ended,
                     crashed, constructs>>
  BY Zenon DEF MpiEnd
<1>2. nest[t] # <<>>
  BY <1>1 DEF In, Idle
<1>3. Closes(t) /\ Prefix(t) /\ Unpairs(t, FALSE)
  BY <1>1, <1>2, LeaveEffect
<1>4. IF Inner(t).own # NULL THEN PopMatch(t, MpiCode) ELSE StackSame
  BY <1>1 DEF StackSame, stackVars
<1>5. Ends(t)
  BY <1>1, <1>2, <1>3, <1>4 DEF Ends, Executes, controlVars
<1>6. TypeInv'
  BY <1>1, <1>3, <1>5, EndsTypes DEF TypeInv
<1> QED
  BY <1>1, <1>3, <1>4, <1>5, <1>6 DEF MpiEnded

-----------------------------------------------------------------------------
ParallelRestored(t) ==
    LET task == Inner(t).tdata IN
    /\ ~crashed /\ t \in restoring /\ restoring' = restoring \ {t}
    /\ Active(mode) /\ task # NULL => Parent(task) # NULL
    /\ IF Active(mode) /\ task # NULL
       THEN ContextSet(t, Restored(t, task)) ELSE context' = context
    /\ UNCHANGED <<controlVars, disturbed, stackVars, traced, nest, team,
                   ended, crashed, constructs, ghostVars>>

LEMMA ParallelRestoreEffect ==
    ASSUME TypeInv, NEW t \in Threads, In(t, {"task"}), ParallelRestore(t)
    PROVE  Crash \/ (TypeInv' /\ ParallelRestored(t))
<1> SUFFICES ASSUME ~Crash PROVE TypeInv' /\ ParallelRestored(t)
  OBVIOUS
<1> DEFINE task == Inner(t).tdata
<1>1. /\ ~crashed /\ t \in restoring
      /\ ~(Active(mode) /\ task # NULL /\ Parent(task) = NULL)
      /\ context' = IF Active(mode) /\ task # NULL
                    THEN [context EXCEPT ![t] = Restored(t, task)] ELSE context
      /\ restoring' = restoring \ {t}
      /\ UNCHANGED <<controlVars, disturbed, stackVars, traced, nest, team,
                     ended, crashed, constructs, ghostVars>>
  BY Zenon DEF ParallelRestore
<1>2. task \in Pointers
  BY Innermost, Fields DEF In, Idle
<1>3. ASSUME Active(mode), task # NULL PROVE Restored(t, task) \in Context
  <2>1. task[1] \in Threads /\ task[2] \in 1 .. MaxDepth /\ MaxDepth \in Nat
    BY <1>2, <1>3, PointersAre, CodesAre
  <2>2. Parent(task) # NULL
    BY <1>1, <1>3
  <2>3. Parent(task) = <<task[1], task[2] - 1>> /\ task[2] - 1 \in 1 .. MaxDepth
    BY <2>1, <2>2 DEF Parent
  <2>4. Parent(task) \in Pointers
    BY <2>1, <2>3, PointersAre
  <2>5. Deref(task).code \in Codes /\ Deref(Parent(task)).code \in Codes
    BY <1>2, <1>3, <2>2, <2>4, DerefIs
  <2>6. context[t] \in Context
    BY DEF TypeInv
  <2> HIDE DEF task
  <2> QED
    BY <1>2, <2>4, <2>5, <2>6 DEF Restored, Context
<1>4. IF Active(mode) /\ task # NULL
      THEN ContextSet(t, Restored(t, task)) ELSE context' = context
  BY <1>1, <1>3 DEF ContextSet
<1>5. context' \in [Threads -> Context]
  BY <1>4, ContextIs DEF TypeInv
<1>6. TypeInv'
  BY <1>1, <1>5 DEF TypeInv, controlVars, stackVars, ghostVars
<1> QED
  BY <1>1, <1>4, <1>6 DEF ParallelRestored

LEMMA ThreadEndEffect ==
    ASSUME TypeInv, ThreadEnd
    PROVE  /\ TypeInv'
           /\ top'[Master] \in Nat /\ top'[Master] <= top[Master]
           /\ \A u \in Threads \ {Master} : top'[u] = top[u]
           /\ registered # {} /\ (\A n \in 1 .. top[Master] :
                                     slots[Master][n].code = Initial => n <= 2)
              => top'[Master] <= 1
<1> DEFINE initial == {i \in 1 .. top[Master] : slots[Master][i].code = Initial}
           h == CHOOSE i \in initial : \A j \in initial : j <= i
<1>1. top[Master] \in 0 .. MaxDepth /\ MaxDepth \in Nat /\ Master \in Threads
  BY CodesAre DEF TypeInv
<1>2. initial \in SUBSET (1 .. top[Master]) /\ top[Master] \in Nat
  BY <1>1
<1>3. initial # {} => h \in initial
  BY <1>2, Topmost
<1>4. Drained = IF initial = {} THEN 0 ELSE h - 1
  BY DEF Drained
<1> HIDE DEF h
<1>5. Drained \in 0 .. MaxDepth /\ Drained <= top[Master]
  BY <1>1, <1>3, <1>4
<1>6. /\ top' = IF registered = {} THEN top ELSE [top EXCEPT ![Master] = Drained]
      /\ ended' = TRUE
      /\ UNCHANGED <<controlVars, disturbed, slots, traced, context, nest, team,
                     restoring, crashed, constructs, ghostVars>>
  BY DEF ThreadEnd
<1>7. StackTypes'
  BY <1>1, <1>5, <1>6 DEF StackTypes, TypeInv
<1>8. NestTypes' /\ OtherTypes' /\ team' \in Teams /\ traced' \subseteq Lexgions
      /\ context' \in [Threads -> Context]
  BY <1>6 DEF TypeInv, NestTypes, OtherTypes, controlVars, ghostVars
<1>9. TypeInv'
  BY <1>7, <1>8, TypePartsNext
<1>10. ASSUME registered # {},
              \A n \in 1 .. top[Master] : slots[Master][n].code = Initial => n <= 2
       PROVE  top'[Master] <= 1
  <2>1. initial # {} => h \in Nat /\ h <= 2
    BY <1>2, <1>3, <1>10
  <2>2. Drained <= 1
    BY <1>4, <2>1
  <2> QED
    BY <1>1, <1>6, <1>10, <2>2 DEF TypeInv
<1>11. /\ top'[Master] \in Nat /\ top'[Master] <= top[Master]
       /\ \A u \in Threads \ {Master} : top'[u] = top[u]
  BY <1>1, <1>5, <1>6 DEF TypeInv
<1> QED
  BY <1>9, <1>10, <1>11

LEMMA SwitchModeEffect ==
    ASSUME TypeInv, NEW m \in Modes, SwitchMode(m)
    PROVE  TypeInv'
BY CodesAre DEF TypeInv, SwitchMode, Disturb, stackVars, ghostVars

LEMMA CrashEffect ==
    ASSUME TypeInv, Crash
    PROVE  TypeInv'
BY DEF TypeInv, Crash, controlVars, stackVars, ghostVars

-----------------------------------------------------------------------------
(***************************************************************************)
(* The constructs in progress.                                             *)
(***************************************************************************)
Initially(t, i) == t = Master /\ i = 1
Inside(k) == k \in {"work", "masked", "barrier", "mpi"}

\* Tasks and regions take turns, and any other construct is innermost.
ShapeAt(t, i) ==
    LET c == nest[t][i] IN
    /\ i = 1 => c.kind = "task"
    /\ i > 1 => /\ nest[t][i - 1].kind \in {"task", "parallel"}
                /\ c.kind = "task" <=> nest[t][i - 1].kind = "parallel"
    /\ t = Master /\ i = 2 => c.kind \in {"parallel", "mpi"}

\* What a construct takes from the one around it.
LinkAt(t, i) ==
    LET c == nest[t][i] IN
    /\ c.kind = "parallel" => c.pdata = c.own /\ c.code \in ParallelCodes
    /\ c.kind = "task" => c.tdata = c.own
    /\ c.kind = "task" /\ i > 1 => /\ c.pdata = nest[t][i - 1].own
                                   /\ c.code = nest[t][i - 1].code
    /\ Inside(c.kind) => /\ c.pdata = nest[t][i - 1].pdata
                         /\ c.tdata = nest[t][i - 1].tdata
    /\ c.kind = "barrier" => c.own = NULL
    /\ c.kind \in {"work", "masked"} => c.code \in WorkCodes \cup MaskedCodes
    /\ c.kind = "mpi" => c.code = MpiCode
    /\ Initially(t, i) => IF "implicit_task" \in registered
                          THEN c.own = <<Master, 2>> /\ c.pdata = <<Master, 1>>
                          ELSE c.own = NULL

\* The threads whose ends are delivered as their begins were.
Regular(t) == t \notin disturbed \/ registered = {}

DeliveredAt(t, i) ==
    LET c == nest[t][i] IN
    /\ c.kind = "parallel" => (c.own # NULL <=> Delivered("parallel_begin"))
    /\ c.kind = "task" /\ ~Initially(t, i)
         => (c.own # NULL <=> Delivered("implicit_task") /\ c.pdata # NULL)
    /\ c.kind \in {"work", "masked"} /\ c.own # NULL => Delivered(c.kind)

ShapeInv == \A t \in Threads : \A i \in DOMAIN nest[t] : ShapeAt(t, i)
LinkInv == \A t \in Threads : \A i \in DOMAIN nest[t] : LinkAt(t, i)
DeliveredInv ==
    \A t \in Threads : Regular(t) => \A i \in DOMAIN nest[t] : DeliveredAt(t, i)
PhaseInv == (\A t \in restoring : In(t, {"task"})) /\ (ended => Idle(Master))
NestInv == ShapeInv /\ LinkInv /\ DeliveredInv /\ PhaseInv

\* What the construct that begins next on t looks like.
Fits(t, d) ==
    /\ IF Idle(t) THEN t # Master /\ d.kind = "task"
       ELSE /\ Inner(t).kind \in {"task", "parallel"}
            /\ d.kind = "task" <=> Inner(t).kind = "parallel"
            /\ d.kind = "task" => d.pdata = Inner(t).own /\ d.code = Inner(t).code
            /\ Inside(d.kind) => d.pdata = Inner(t).pdata /\ d.tdata = Inner(t).tdata
    /\ t = Master /\ Len(nest[t]) = 1 => d.kind \in {"parallel", "mpi"}
    /\ d.kind = "parallel" => d.pdata = d.own /\ d.code \in ParallelCodes
    /\ d.kind = "task" => d.tdata = d.own
    /\ d.kind = "barrier" => d.own = NULL
    /\ d.kind \in {"work", "masked"} => d.code \in WorkCodes \cup MaskedCodes
    /\ d.kind = "mpi" => d.code = MpiCode
    /\ d.kind = "parallel" => (d.own # NULL <=> Delivered("parallel_begin"))
    /\ d.kind = "task" => (d.own # NULL <=> Delivered("implicit_task") /\ d.pdata # NULL)
    /\ d.kind \in {"work", "masked"} /\ d.own # NULL => Delivered(d.kind)

LEMMA AboveOne == \A n \in Nat : n > 0 /\ n # 1 => n > 1
OBVIOUS

LEMMA NextIndex ==
    \A n \in Nat : /\ n + 1 - 1 = n /\ (n + 1 > 1 <=> n # 0) /\ (n + 1 = 1 <=> n = 0)
                  /\ (n + 1 = 2 <=> n = 1)
OBVIOUS

\* Other threads' constructs stay as they are.
LEMMA ElsewhereKept ==
    ASSUME NEW u \in Threads, nest'[u] = nest[u], UNCHANGED <<mode, registered>>,
           NEW i
    PROVE  /\ ShapeAt(u, i) => ShapeAt(u, i)'
           /\ LinkAt(u, i) => LinkAt(u, i)'
           /\ DeliveredAt(u, i) => DeliveredAt(u, i)'
BY DEF ShapeAt, LinkAt, DeliveredAt, Delivered

LEMMA OpensKeepsNest ==
    ASSUME TypeInv, NestInv, NEW t \in Threads, NEW d, NEW code, Begins(t, d, code),
           Fits(t, d)
    PROVE  NestInv'
<1>0. PICK n \in Nat : n = Len(nest[t])
  BY Innermost
<1>1. /\ n \in Nat /\ DOMAIN nest[t] = 1 .. n /\ nest[t] \in Seq(Construct)
      /\ \A i \in 1 .. n : nest[t][i] \in Construct
      /\ Idle(t) <=> n = 0
      /\ ~Idle(t) => Inner(t) = nest[t][n]
  BY <1>0, Innermost DEF Idle
<1>2. /\ Opens(t, d) /\ d \in Construct /\ t \notin restoring
      /\ UNCHANGED <<mode, registered, restoring, ended>>
  BY DEF Begins
<1>3. /\ DOMAIN (nest'[t]) = 1 .. n + 1 /\ nest'[t][n + 1] = d
      /\ \A i \in 1 .. n : nest'[t][i] = nest[t][i]
      /\ \A u \in Threads \ {t} : nest'[u] = nest[u]
      /\ disturbed' = disturbed
  BY <1>0, <1>2 DEF Opens
<1>4. ASSUME NEW i \in 1 .. n
      PROVE  /\ ShapeAt(t, i)' /\ LinkAt(t, i)'
             /\ Regular(t) => DeliveredAt(t, i)'
  <2>0. i > 1 => i - 1 \in 1 .. n
    BY <1>1
  <2>1. nest'[t][i] = nest[t][i] /\ (i > 1 => nest'[t][i - 1] = nest[t][i - 1])
    BY <1>3, <2>0
  <2>s. LinkAt(t, i) /\ ShapeAt(t, i)
    BY <1>1 DEF NestInv, LinkInv, ShapeInv
  <2>2. ShapeAt(t, i)'
    BY <2>1, <2>s DEF ShapeAt
  <2>3. LinkAt(t, i)'
    <3>2. Inside(nest[t][i].kind) => i > 1
      BY <2>s DEF ShapeAt, Inside
    <3> QED
      BY <1>2, <2>1, <2>s, <3>2 DEF LinkAt
  <2>4. Regular(t) => DeliveredAt(t, i)'
    BY <1>1, <1>2, <2>1 DEF DeliveredAt, NestInv, DeliveredInv, Delivered
  <2> QED
    BY <2>2, <2>3, <2>4
<1>n. /\ n + 1 - 1 = n /\ (n + 1 > 1 <=> ~Idle(t)) /\ (n + 1 = 1 <=> Idle(t))
      /\ (n + 1 = 2 <=> Len(nest[t]) = 1)
      /\ (~Idle(t) => nest'[t][n] = Inner(t))
  <2>1. ~Idle(t) => n \in 1 .. n
    BY <1>1
  <2>2. ~Idle(t) => nest'[t][n] = Inner(t)
    BY <1>1, <1>3, <2>1
  <2> QED
    <3>1. n \in Nat /\ (Idle(t) <=> n = 0) /\ n = Len(nest[t])
      BY <1>0, <1>1
    <3>2. n + 1 - 1 = n /\ (n + 1 > 1 <=> n # 0) /\ (n + 1 = 1 <=> n = 0) /\ (n + 1 = 2 <=> n = 1)
      BY <3>1, NextIndex
    <3> QED
      BY <3>1, <3>2, <2>2
<1>5. ShapeAt(t, n + 1)'
  BY <1>3, <1>n DEF ShapeAt, Fits
<1>6. LinkAt(t, n + 1)'
  <2>1. ~Initially(t, n + 1)
    BY <1>n DEF Fits, Initially
  <2>2. Inside(d.kind) => ~Idle(t)
    BY DEF Fits, Inside
  <2> QED
    BY <1>3, <1>n, <2>1, <2>2 DEF LinkAt, Fits
<1>7. DeliveredAt(t, n + 1)'
  BY <1>2, <1>3 DEF DeliveredAt, Fits, Delivered
<1>8. Regular(t)' = Regular(t) /\ \A u \in Threads : Regular(u)' = Regular(u)
  BY <1>2, <1>3 DEF Regular
<1>9. \A i \in 1 .. n + 1 : i \in 1 .. n \/ i = n + 1
  BY <1>1
<1>d. \A i \in DOMAIN (nest'[t]) :
         ShapeAt(t, i)' /\ LinkAt(t, i)' /\ (Regular(t) => DeliveredAt(t, i)')
  BY <1>3, <1>4, <1>5, <1>6, <1>7, <1>9
<1>10. ShapeInv' /\ LinkInv'
  BY <1>2, <1>3, <1>d, ElsewhereKept DEF NestInv, ShapeInv, LinkInv
<1>11. DeliveredInv'
  BY <1>2, <1>3, <1>d, <1>8, ElsewhereKept DEF NestInv, DeliveredInv
<1>12. PhaseInv'
  <2>1. \A u \in restoring : u # t /\ nest'[u] = nest[u]
    BY <1>2, <1>3 DEF TypeInv
  <2>2. ended => t # Master
    BY DEF NestInv, PhaseInv, Fits
  <2>3. Master \in Threads
    BY CodesAre
  <2> QED
    BY <1>2, <1>3, <2>1, <2>2, <2>3 DEF NestInv, PhaseInv, In, Idle, Inner
<1> QED
  BY <1>10, <1>11, <1>12 DEF NestInv

LEMMA ClosesKeepsNest ==
    ASSUME TypeInv, NestInv, NEW t \in Threads, Ends(t),
           restoring' \in {restoring, restoring \cup {t}},
           restoring' # restoring => Inner(t).kind = "parallel"
    PROVE  NestInv'
<1> DEFINE n == Len(nest[t])
<1>1. /\ n \in Nat /\ n > 0 /\ DOMAIN nest[t] = 1 .. n /\ nest[t] \in Seq(Construct)
      /\ \A i \in 1 .. n : nest[t][i] \in Construct
      /\ Inner(t) = nest[t][n]
  BY Innermost DEF Ends
<1>2. /\ Closes(t) /\ t \notin restoring
      /\ UNCHANGED <<mode, registered, ended>>
  BY DEF Ends
<1>3. /\ DOMAIN (nest'[t]) = 1 .. n - 1 /\ Len(nest'[t]) = n - 1
      /\ \A i \in 1 .. n - 1 : Alike(nest'[t][i], nest[t][i])
      /\ \A u \in Threads \ {t} : nest'[u] = nest[u]
      /\ disturbed' = disturbed /\ nest'[t] \in Seq(Construct)
  BY <1>2 DEF Closes
<1>4. ASSUME NEW i \in 1 .. n - 1
      PROVE  /\ ShapeAt(t, i)' /\ LinkAt(t, i)'
             /\ Regular(t) => DeliveredAt(t, i)'
  <2>0. i \in 1 .. n /\ (i > 1 => i - 1 \in 1 .. n - 1)
    BY <1>1
  <2>1. /\ i \in 1 .. n /\ Alike(nest'[t][i], nest[t][i])
        /\ i > 1 => Alike(nest'[t][i - 1], nest[t][i - 1])
    BY <1>3, <2>0
  <2>2. ShapeAt(t, i) /\ LinkAt(t, i)
    BY <1>1, <2>1 DEF NestInv, LinkInv, ShapeInv
  <2>3. ShapeAt(t, i)'
    BY <2>1, <2>2 DEF ShapeAt, Alike
  <2>4. LinkAt(t, i)'
    <3>1. Inside(nest[t][i].kind) => i > 1
      BY <2>2 DEF ShapeAt, Inside
    <3> QED
      BY <1>2, <2>1, <2>2, <3>1 DEF LinkAt, Alike
  <2>5. Regular(t) => DeliveredAt(t, i)'
    BY <1>1, <1>2, <2>1 DEF DeliveredAt, NestInv, DeliveredInv, Delivered, Alike
  <2> QED
    BY <2>3, <2>4, <2>5
<1>5. Regular(t)' = Regular(t) /\ \A u \in Threads : Regular(u)' = Regular(u)
  BY <1>2, <1>3 DEF Regular
<1>6. ShapeInv' /\ LinkInv'
  BY <1>2, <1>3, <1>4, ElsewhereKept DEF NestInv, ShapeInv, LinkInv
<1>7. DeliveredInv'
  BY <1>2, <1>3, <1>4, <1>5, ElsewhereKept DEF NestInv, DeliveredInv
<1>8. PhaseInv'
  <2>1. \A u \in restoring : u # t /\ u \in Threads /\ nest'[u] = nest[u]
    BY <1>2, <1>3 DEF TypeInv
  <2>2. \A u \in restoring : In(u, {"task"})'
    BY <2>1 DEF NestInv, PhaseInv, In, Idle, Inner
  <2>3. Master \in Threads /\ (ended => t # Master)
    BY CodesAre DEF NestInv, PhaseInv, Ends, Idle
  <2>4. ASSUME restoring' # restoring PROVE In(t, {"task"})'
    <3>1. ShapeAt(t, n) /\ nest[t][n].kind = "parallel"
      BY <1>1, <2>4 DEF NestInv, ShapeInv
    <3>0. n # 1
      BY <3>1 DEF ShapeAt
    <3>4. n > 1
      <4>1. n \in Nat /\ n > 0
        BY <1>1
      <4> QED
        BY <3>0, <4>1, AboveOne
    <3>2. n > 1 /\ nest[t][n - 1].kind = "task"
      BY <3>4, <3>1 DEF ShapeAt
    <3>3. n - 1 \in 1 .. n - 1 /\ nest'[t][n - 1].kind = "task"
      BY <1>1, <1>3, <3>2 DEF Alike
    <3>5. nest'[t] # <<>>
      BY <1>1, <1>3, <3>2, EmptySeq
    <3> QED
      BY <1>3, <3>3, <3>5 DEF In, Idle, Inner, Last
  <2> QED
    BY <1>2, <1>3, <2>2, <2>3, <2>4 DEF PhaseInv, NestInv, Idle
<1> QED
  BY <1>6, <1>7, <1>8 DEF NestInv

-----------------------------------------------------------------------------
(***************************************************************************)
(* The team.                                                               *)
(***************************************************************************)
\* The outermost region is open while the master executes it.
HasRegion == Len(nest[Master]) > 1 /\ nest[Master][2].kind = "parallel"

\* A worker is past its join: at its barrier, or after it.
Past(t) ==
    \/ Len(nest[t]) = 1 /\ nest[t][1].joined
    \/ Len(nest[t]) = 2 /\ nest[t][2].kind = "barrier" /\ nest[t][2].joined

JoinBehind ==
    \/ HasRegion /\ nest[Master][2].joined
    \/ Len(nest[Master]) > 2 /\ nest[Master][3].joined

TeamInv ==
    /\ team.open <=> HasRegion
    /\ team.open => team.pdata = nest[Master][2].own
    /\ team.arrived \subseteq team.entered
    /\ \A t \in Workers :
          nest[t] # <<>> /\ (t \notin team.entered \/ t \in team.arrived \/ ~team.open)
          => Past(t)
    /\ Len(nest[Master]) > 2 => Master \in team.entered
    /\ JoinBehind => team.arrived = Threads

LEMMA AboveZero == \A n \in Nat : n # 0 => n > 0
OBVIOUS

LEMMA InnerShape ==
    ASSUME TypeInv, NestInv, NEW t \in Threads, nest[t] # <<>>
    PROVE  /\ Inner(t) \in Construct /\ Inner(t) = nest[t][Len(nest[t])]
           /\ Len(nest[t]) \in 1 .. Len(nest[t]) /\ Len(nest[t]) \in Nat
           /\ ShapeAt(t, Len(nest[t])) /\ LinkAt(t, Len(nest[t]))
           /\ Regular(t) => DeliveredAt(t, Len(nest[t]))
BY Innermost DEF NestInv, ShapeInv, LinkInv, DeliveredInv

\* A task or a region is innermost where a construct may begin.
LEMMA BodyShape ==
    ASSUME TypeInv, NestInv, NEW t \in Threads,
           InBody(t) \/ AtInitialTask(t) \/ (t = Master /\ In(t, {"task"}))
    PROVE  ~Idle(t) /\ Inner(t).kind = "task"
<1>1. CASE AtInitialTask(t)
  <2>0. Len(nest[t]) = 1 /\ 1 > 0
    BY <1>1 DEF AtInitialTask
  <2>1. nest[t] # <<>> /\ Len(nest[t]) = 1
    BY <2>0, Innermost
  <2> QED
    BY <2>1, InnerShape DEF ShapeAt, Idle
<1> QED
  BY <1>1 DEF InBody, In

LEMMA ParallelFits ==
    ASSUME TypeInv, NestInv, NEW t \in Threads, NEW c \in ParallelCodes, NEW d,
           ParallelBegun(t, c, d)
    PROVE  Fits(t, d)
<1>1. ~Idle(t) /\ Inner(t).kind = "task"
  BY BodyShape DEF ParallelBegun
<1> QED
  BY <1>1 DEF ParallelBegun, Fits, Inside

LEMMA TaskFits ==
    ASSUME TypeInv, NestInv, TeamInv, NEW t \in Threads, NEW d, TaskBegun(t, d)
    PROVE  Fits(t, d)
<1>1. CASE Idle(t)
  <2>1. team.open /\ d.kind = "task"
    BY <1>1 DEF TaskBegun
  <2>2. t # Master
    <3>1. Len(nest[t]) = 0
      BY <1>1, Innermost DEF Idle
    <3> QED
      BY <2>1, <3>1 DEF TeamInv, HasRegion
  <2> QED
    BY <1>1, <2>1, <2>2 DEF TaskBegun, Fits
<1>2. CASE ~Idle(t)
  <2>1. Inner(t).kind = "parallel" /\ d.kind = "task" /\ d.pdata = Inner(t).pdata
        /\ d.code = Inner(t).code
    BY <1>2 DEF TaskBegun, RegionFor
  <2>2. Inner(t).pdata = Inner(t).own /\ Len(nest[t]) # 1
    BY <1>2, <2>1, InnerShape DEF Idle, LinkAt, ShapeAt
  <2> QED
    BY <1>2, <2>1, <2>2 DEF TaskBegun, Fits, Inside
<1> QED
  BY <1>1, <1>2

LEMMA WorkFits ==
    ASSUME TypeInv, NestInv, NEW t \in Threads, NEW k \in {"work", "masked"},
           NEW c \in WorkCodes \cup MaskedCodes, NEW d, WorkBegun(t, k, c, d)
    PROVE  Fits(t, d)
<1>1. ~Idle(t) /\ Inner(t).kind = "task"
  BY BodyShape DEF WorkBegun
<1>2. ~AtInitialTask(t)
  BY DEF WorkBegun, InBody
<1> QED
  BY <1>1, <1>2 DEF WorkBegun, Fits, AtInitialTask

LEMMA MpiFits ==
    ASSUME TypeInv, NestInv, NEW t \in Threads, NEW d, MpiBegun(t, d)
    PROVE  Fits(t, d)
<1>1. ~Idle(t) /\ Inner(t).kind = "task"
  BY BodyShape DEF MpiBegun
<1> QED
  BY <1>1 DEF MpiBegun, Fits

LEMMA BarrierFits ==
    ASSUME TypeInv, NestInv, NEW t \in Threads, NEW join, NEW d, BarrierBegun(t, join, d)
    PROVE  Fits(t, d)
<1>1. ~Idle(t) /\ Inner(t).kind = "task"
  BY BodyShape DEF BarrierBegun
<1>2. ~AtInitialTask(t)
  BY DEF BarrierBegun, InBody
<1> QED
  BY <1>1, <1>2 DEF BarrierBegun, Fits, AtInitialTask

-----------------------------------------------------------------------------
\* The team.
LEMMA OpensAt ==
    ASSUME TypeInv, NEW t \in Threads, NEW d, Opens(t, d)
    PROVE  /\ Len(nest[t]) \in Nat /\ Len(nest'[t]) = Len(nest[t]) + 1
           /\ nest'[t] # <<>>
           /\ \A i \in 1 .. Len(nest[t]) : nest'[t][i] = nest[t][i]
           /\ nest'[t][Len(nest[t]) + 1] = d
           /\ \A u \in Threads \ {t} : nest'[u] = nest[u]
           /\ nest[t] = <<>> <=> Len(nest[t]) = 0
<1>1. Len(nest[t]) \in Nat /\ Len(nest'[t]) = Len(nest[t]) + 1 /\ nest'[t] \in Seq(Construct)
      /\ (nest[t] = <<>> <=> Len(nest[t]) = 0)
  BY Innermost DEF Opens
<1>2. nest'[t] # <<>>
  BY <1>1, EmptySeq
<1> QED
  BY <1>1, <1>2 DEF Opens

\* A construct that begins on the master leaves its region as it is, unless it
\* is the region.
LEMMA MasterOpens ==
    ASSUME TypeInv, NestInv, NEW d, NEW code, Begins(Master, d, code), Fits(Master, d)
    PROVE  /\ d.kind # "parallel" \/ Len(nest[Master]) > 1
              => (HasRegion' <=> HasRegion)
                 /\ (HasRegion => nest'[Master][2].own = nest[Master][2].own)
           /\ d.kind = "parallel" /\ Len(nest[Master]) = 1
              => HasRegion' /\ nest'[Master][2] = d /\ ~HasRegion
           /\ (d.joined => d.kind = "barrier") => (JoinBehind' => JoinBehind)
           /\ Len(nest'[Master]) > 2 => Len(nest[Master]) > 2 \/ d.kind = "task"
<1>0. PICK n \in Nat : n = Len(nest[Master])
  BY CodesAre, Innermost
<1>1. /\ Len(nest'[Master]) = n + 1 /\ nest'[Master][n + 1] = d
      /\ \A i \in 1 .. n : nest'[Master][i] = nest[Master][i]
      /\ nest[Master] # <<>> /\ n > 0
  <2>1. nest[Master] # <<>> /\ Opens(Master, d)
    BY DEF Begins, Fits, Idle
  <2> QED
    BY <1>0, <2>1, CodesAre, OpensAt, AboveZero
<1>s. n = 1 \/ n = 2 \/ n > 2
  BY <1>1
<1>2. CASE n = 1
  <2>1. nest'[Master][2] = d /\ Len(nest'[Master]) = 2
    BY <1>1, <1>2
  <2>2. d.kind # "barrier" /\ d.kind # "task"
    BY <1>0, <1>2 DEF Fits
  <2>3. ~HasRegion
    BY <1>0, <1>2 DEF HasRegion
  <2> QED
    BY <1>0, <1>2, <2>1, <2>2, <2>3 DEF HasRegion, JoinBehind
<1>3. CASE n = 2
  <2>1. nest'[Master][3] = d /\ Len(nest'[Master]) = 3 /\ nest'[Master][2] = nest[Master][2]
    BY <1>1, <1>3
  <2>2. d.kind = "task"
    <3>1. ShapeAt(Master, 2) /\ Inner(Master) = nest[Master][2]
      BY <1>0, <1>1, <1>3, CodesAre, InnerShape
    <3>2. nest[Master][2].kind = "parallel"
      BY <1>1, <3>1 DEF ShapeAt, Fits, Idle
    <3> QED
      BY <1>1, <3>1, <3>2 DEF Fits, Idle
  <2> QED
    BY <1>0, <1>3, <2>1, <2>2 DEF HasRegion, JoinBehind
<1>4. CASE n > 2
  <2>1. /\ nest'[Master][3] = nest[Master][3] /\ Len(nest'[Master]) > 2
        /\ nest'[Master][2] = nest[Master][2] /\ Len(nest'[Master]) > 1
        /\ Len(nest[Master]) > 1 /\ Len(nest[Master]) > 2 /\ Len(nest[Master]) # 1
    BY <1>0, <1>1, <1>4
  <2> QED
    BY <2>1 DEF HasRegion, JoinBehind
<1> QED
  BY <1>s, <1>2, <1>3, <1>4

LEMMA AboveTwo == \A n \in Nat : n + 1 > 2 => n = 2 \/ n > 2
OBVIOUS

\* A worker that executes its task or a region has not joined.
LEMMA BusyWorker ==
    ASSUME TypeInv, NestInv, TeamInv, NEW t \in Threads \ {Master}, nest[t] # <<>>,
           Inner(t).kind # "barrier", ~Inner(t).joined \/ Inner(t).kind # "task"
    PROVE  t \in team.entered /\ t \notin team.arrived /\ team.open
<1>1. ~Past(t)
  <2>1. CASE Len(nest[t]) = 1
    <3>1. Inner(t) = nest[t][1] /\ nest[t][1].kind = "task" /\ Len(nest[t]) # 2
      BY <2>1, InnerShape DEF ShapeAt
    <3> QED
      BY <3>1 DEF Past
  <2>2. CASE Len(nest[t]) = 2
    <3>1. Inner(t) = nest[t][2] /\ Len(nest[t]) # 1
      BY <2>2, InnerShape
    <3> QED
      BY <3>1 DEF Past
  <2> QED
    BY <2>1, <2>2 DEF Past
<1>2. t \in Workers
  BY CodesAre
<1> QED
  BY <1>1, <1>2 DEF TeamInv

\* A step of t that leaves the team as it is.
LEMMA TeamKept ==
    ASSUME TypeInv, TeamInv, NEW t \in Threads,
           \A u \in Threads \ {t} : nest'[u] = nest[u],
           team' = team,
           t = Master => /\ (HasRegion' <=> HasRegion)
                         /\ (HasRegion => nest'[Master][2].own = nest[Master][2].own)
                         /\ (Len(nest'[Master]) > 2 => Master \in team.entered)
                         /\ (JoinBehind' => team.arrived = Threads),
           t # Master => \/ t \in team.entered /\ t \notin team.arrived /\ team.open
                         \/ nest'[t] = <<>>
                         \/ Past(t)'
    PROVE  TeamInv'
<1>1. Master \in Threads /\ Workers = Threads \ {Master}
  BY CodesAre
<1>2. CASE t = Master
  <2>1. \A u \in Workers : nest'[u] = nest[u]
    BY <1>1, <1>2
  <2>2. \A u \in Workers :
           nest'[u] # <<>> /\ (u \notin team.entered \/ u \in team.arrived \/ ~team.open)
           => Past(u)'
    BY <2>1 DEF TeamInv, Past
  <2> QED
    BY <1>2, <2>2 DEF TeamInv
<1>3. CASE t # Master
  <2>1. nest'[Master] = nest[Master]
    BY <1>1, <1>3
  <2>2. \A u \in Workers :
           nest'[u] # <<>> /\ (u \notin team.entered \/ u \in team.arrived \/ ~team.open)
           => Past(u)'
    <3> SUFFICES ASSUME NEW u \in Workers, nest'[u] # <<>>,
                        u \notin team.entered \/ u \in team.arrived \/ ~team.open
                 PROVE  Past(u)'
      OBVIOUS
    <3>1. CASE u = t
      BY <1>3, <3>1
    <3>2. CASE u # t
      <4>1. nest'[u] = nest[u]
        BY <1>1, <3>2
      <4> QED
        BY <4>1 DEF TeamInv, Past
    <3> QED
      BY <3>1, <3>2
  <2>3. (HasRegion' <=> HasRegion) /\ (JoinBehind' <=> JoinBehind)
    BY <2>1 DEF HasRegion, JoinBehind
  <2> QED
    BY <2>1, <2>2, <2>3 DEF TeamInv
<1> QED
  BY <1>2, <1>3

LEMMA ParallelBegunTeam ==
    ASSUME TypeInv, NestInv, TeamInv, NEW t \in Threads, NEW c \in ParallelCodes, NEW d,
           ParallelBegun(t, c, d)
    PROVE  TeamInv'
<1>1. Begins(t, d, c) /\ Fits(t, d) /\ Opens(t, d) /\ d.kind = "parallel" /\ ~d.joined
  BY ParallelFits DEF ParallelBegun, Begins
<1>2. \A u \in Threads \ {t} : nest'[u] = nest[u]
  BY <1>1 DEF Opens
<1>3. Master \in Threads /\ Workers = Threads \ {Master}
  BY CodesAre
<1>4. CASE AtInitialTask(t)
  <2>1. t = Master /\ Len(nest[Master]) = 1
    BY <1>4 DEF AtInitialTask
  <2>2. HasRegion' /\ nest'[Master][2] = d /\ ~HasRegion /\ (JoinBehind' => JoinBehind)
    BY <1>1, <2>1, MasterOpens
  <2>3. ~JoinBehind
    BY <2>1, <2>2 DEF JoinBehind
  <2>4. ~(Len(nest'[Master]) > 2)
    <3>1. Len(nest'[Master]) = Len(nest[Master]) + 1 /\ Len(nest[Master]) \in Nat
      BY <1>1, <2>1, OpensAt
    <3> QED
      BY <2>1, <3>1, AboveTwo
  <2>5. team' = [open |-> TRUE, pdata |-> d.own, entered |-> {}, arrived |-> {}]
    BY <1>4 DEF ParallelBegun
  <2>6. \A u \in Workers : nest'[u] = nest[u] /\ (nest[u] # <<>> => Past(u))
    BY <1>2, <1>3, <2>1, <2>2 DEF TeamInv
  <2>7. \A u \in Workers : nest'[u] # <<>> => Past(u)'
    BY <2>6 DEF Past
  <2> QED
    BY <2>2, <2>3, <2>4, <2>5, <2>7 DEF TeamInv
<1>5. CASE ~AtInitialTask(t)
  <2>1. InBody(t) /\ team' = team /\ Inner(t).kind = "task" /\ nest[t] # <<>>
        /\ ~Inner(t).joined
    BY <1>5, BodyShape DEF ParallelBegun, InBody, Idle
  <2>2. ASSUME t = Master
        PROVE  /\ (HasRegion' <=> HasRegion)
               /\ (HasRegion => nest'[Master][2].own = nest[Master][2].own)
               /\ (Len(nest'[Master]) > 2 => Master \in team.entered)
               /\ (JoinBehind' => team.arrived = Threads)
    <3>1. Len(nest[Master]) > 1
      <4>1. Len(nest[Master]) \in Nat /\ Len(nest[Master]) > 0 /\ Len(nest[Master]) # 1
        BY <1>3, <1>5, <2>1, <2>2, Innermost DEF AtInitialTask
      <4> QED
        BY <4>1, AboveOne
    <3> QED
      BY <1>1, <2>2, <3>1, MasterOpens DEF TeamInv
  <2>3. ASSUME t # Master
        PROVE  t \in team.entered /\ t \notin team.arrived /\ team.open
    BY <2>1, <2>3, BusyWorker
  <2> QED
    BY <1>2, <2>1, <2>2, <2>3, TeamKept
<1> QED
  BY <1>4, <1>5

\* A worksharing or masked construct, or an MPI call.
LEMMA InsideBegunTeam ==
    ASSUME TypeInv, NestInv, TeamInv, NEW t \in Threads, NEW d, NEW code,
           Begins(t, d, code), Fits(t, d), d.kind \in {"work", "masked", "mpi", "barrier"},
           d.kind # "barrier" => ~d.joined,
           Inner(t).kind = "task", ~Inner(t).joined, nest[t] # <<>>,
           team' = team
    PROVE  TeamInv'
<1>1. Opens(t, d) /\ \A u \in Threads \ {t} : nest'[u] = nest[u]
  BY DEF Begins, Opens
<1>2. ASSUME t = Master
      PROVE  /\ (HasRegion' <=> HasRegion)
             /\ (HasRegion => nest'[Master][2].own = nest[Master][2].own)
             /\ (Len(nest'[Master]) > 2 => Master \in team.entered)
             /\ (JoinBehind' => team.arrived = Threads)
  BY <1>2, MasterOpens DEF TeamInv
<1>3. ASSUME t # Master
      PROVE  t \in team.entered /\ t \notin team.arrived /\ team.open
  BY <1>3, BusyWorker
<1> QED
  BY <1>1, <1>2, <1>3, TeamKept

LEMMA BarrierBegunTeam ==
    ASSUME TypeInv, NestInv, TeamInv, NEW t \in Threads, NEW join \in BOOLEAN, NEW d,
           BarrierBegun(t, join, d)
    PROVE  TeamInv'
<1>1. Begins(t, d, NoCode) /\ Fits(t, d) /\ Opens(t, d) /\ d.kind = "barrier"
      /\ d.joined = join /\ \A u \in Threads \ {t} : nest'[u] = nest[u]
  BY BarrierFits DEF BarrierBegun, Begins, Opens
<1>2. Inner(t).kind = "task" /\ nest[t] # <<>> /\ ~Inner(t).joined
  BY BodyShape DEF BarrierBegun, InBody, Idle
<1>3. Master \in Threads /\ Workers = Threads \ {Master}
  BY CodesAre
<1>4. CASE ~(join /\ InTeam(t))
  <2>1. team' = team
    BY <1>4 DEF BarrierBegun
  <2> QED
    BY <1>1, <1>2, <2>1, InsideBegunTeam
<1>5. CASE join /\ InTeam(t)
  <2>1. team' = [team EXCEPT !.arrived = team.arrived \cup {t}]
    BY <1>5 DEF BarrierBegun
  <2>2. /\ team'.open = team.open /\ team'.pdata = team.pdata /\ team'.entered = team.entered
        /\ team'.arrived = team.arrived \cup {t}
    BY <2>1 DEF TypeInv, Teams
  <2>3. CASE t = Master
    <3>1. Len(nest[Master]) = 3 /\ 3 > 2
      BY <1>5, <2>3 DEF InTeam
    <3>2. Master \in team.entered
      BY <3>1 DEF TeamInv
    <3>3. /\ (HasRegion' <=> HasRegion)
          /\ (HasRegion => nest'[Master][2].own = nest[Master][2].own)
          /\ (JoinBehind' => team.arrived = Threads)
      BY <1>1, <2>3, MasterOpens DEF TeamInv
    <3>4. \A u \in Workers : nest'[u] = nest[u] /\ u # Master
      BY <1>1, <1>3, <2>3
    <3>5. \A u \in Workers :
           nest'[u] # <<>> /\ (u \notin team'.entered \/ u \in team'.arrived \/ ~team'.open)
           => Past(u)'
      BY <2>2, <2>3, <3>4 DEF TeamInv, Past
    <3> QED
      BY <1>3, <2>2, <2>3, <3>2, <3>3, <3>5 DEF TeamInv
  <2>4. CASE t # Master
    <3>1. Len(nest[t]) = 1
      BY <1>5, <2>4 DEF InTeam
    <3>2. Past(t)'
      <4>1. Len(nest'[t]) = 2 /\ nest'[t][2] = d
        <5>1. /\ Len(nest'[t]) = Len(nest[t]) + 1 /\ Len(nest[t]) \in Nat
              /\ nest'[t][Len(nest[t]) + 1] = d
          BY <1>1, OpensAt
        <5>2. Len(nest[t]) + 1 = 2
          BY <3>1
        <5> QED
          BY <5>1, <5>2
      <4> QED
        BY <1>1, <1>5, <4>1 DEF Past
    <3>3. t \in team.entered
      BY <1>2, <2>4, BusyWorker
    <3>4. nest'[Master] = nest[Master]
      BY <1>1, <1>3, <2>4
    <3>5. \A u \in Workers :
           nest'[u] # <<>> /\ (u \notin team'.entered \/ u \in team'.arrived \/ ~team'.open)
           => Past(u)'
      <4> SUFFICES ASSUME NEW u \in Workers, u # t, nest'[u] # <<>>,
                          u \notin team.entered \/ u \in team.arrived \/ ~team.open
                   PROVE  Past(u)'
        BY <2>2, <3>2
      <4>1. nest'[u] = nest[u]
        BY <1>1, <1>3
      <4> QED
        BY <4>1 DEF TeamInv, Past
    <3>6. (HasRegion' <=> HasRegion) /\ (JoinBehind' <=> JoinBehind)
      BY <3>4 DEF HasRegion, JoinBehind
    <3> QED
      BY <1>3, <2>2, <3>3, <3>4, <3>5, <3>6 DEF TeamInv
  <2> QED
    BY <2>3, <2>4
<1> QED
  BY <1>4, <1>5

LEMMA TaskBegunTeam ==
    ASSUME TypeInv, NestInv, TeamInv, NEW t \in Threads, NEW d, TaskBegun(t, d)
    PROVE  TeamInv'
<1>1. /\ Begins(t, d, Deref(d.pdata).code) /\ Fits(t, d) /\ Opens(t, d)
      /\ d.kind = "task" /\ ~d.joined /\ \A u \in Threads \ {t} : nest'[u] = nest[u]
  BY TaskFits DEF TaskBegun, Begins, Opens
<1>2. Master \in Threads /\ Workers = Threads \ {Master}
  BY CodesAre
<1>3. CASE t = Master
  <2>1. ~Idle(t) /\ Inner(t).kind = "parallel" /\ Len(nest[t]) # 1
    BY <1>1, <1>3 DEF Fits
  <2>2. /\ (HasRegion' <=> HasRegion)
        /\ (HasRegion => nest'[Master][2].own = nest[Master][2].own)
        /\ (JoinBehind' => team.arrived = Threads)
    BY <1>1, <1>3, MasterOpens DEF TeamInv
  <2>3. team'.open = team.open /\ team'.pdata = team.pdata /\ team'.arrived = team.arrived
        /\ team.entered \subseteq team'.entered
        /\ team'.entered \subseteq team.entered \cup {Master}
    BY <1>3 DEF TaskBegun, TypeInv, Teams
  <2>4. Len(nest[Master]) = 2 => Master \in team'.entered
    BY <1>3 DEF TaskBegun, TypeInv, Teams
  <2>5. Len(nest'[Master]) > 2 => Master \in team'.entered
    <3>1. Len(nest'[Master]) = Len(nest[Master]) + 1 /\ Len(nest[Master]) \in Nat
      BY <1>1, <1>3, OpensAt
    <3>2. Len(nest'[Master]) > 2 => Len(nest[Master]) = 2 \/ Len(nest[Master]) > 2
      BY <3>1, AboveTwo
    <3> QED
      BY <2>3, <2>4, <3>2 DEF TeamInv
  <2>6. \A u \in Workers : nest'[u] = nest[u] /\ u # Master
    BY <1>1, <1>2, <1>3
  <2>7. \A u \in Workers :
           nest'[u] # <<>> /\ (u \notin team'.entered \/ u \in team'.arrived \/ ~team'.open)
           => Past(u)'
    BY <2>3, <2>6 DEF TeamInv, Past
  <2> QED
    BY <2>2, <2>3, <2>5, <2>7 DEF TeamInv
<1>4. CASE t # Master /\ ~Idle(t)
  <2>1. Inner(t).kind = "parallel" /\ team' = team /\ nest[t] # <<>>
    BY <1>4 DEF TaskBegun, Idle
  <2>2. t \in team.entered /\ t \notin team.arrived /\ team.open
    BY <1>4, <2>1, BusyWorker
  <2> QED
    BY <1>1, <1>4, <2>1, <2>2, TeamKept
<1>5. CASE t # Master /\ Idle(t)
  <2>1. team.open /\ t \notin team.entered /\ t \notin team.arrived
    BY <1>5 DEF TaskBegun, TeamInv
  <2>2. team'.open = team.open /\ team'.pdata = team.pdata /\ team'.arrived = team.arrived
        /\ team'.entered = team.entered \cup {t}
    BY <1>5 DEF TaskBegun, TypeInv, Teams
  <2>3. nest'[Master] = nest[Master]
    BY <1>1, <1>2, <1>5
  <2>4. (HasRegion' <=> HasRegion) /\ (JoinBehind' <=> JoinBehind)
    BY <2>3 DEF HasRegion, JoinBehind
  <2>5. \A u \in Workers :
           nest'[u] # <<>> /\ (u \notin team'.entered \/ u \in team'.arrived \/ ~team'.open)
           => Past(u)'
    <3> SUFFICES ASSUME NEW u \in Workers, u # t, nest'[u] # <<>>,
                        u \notin team.entered \/ u \in team.arrived \/ ~team.open
                 PROVE  Past(u)'
      BY <2>1, <2>2
    <3>1. nest'[u] = nest[u]
      BY <1>1, <1>2
    <3> QED
      BY <3>1 DEF TeamInv, Past
  <2> QED
    BY <2>2, <2>3, <2>4, <2>5 DEF TeamInv
<1> QED
  BY <1>3, <1>4, <1>5

LEMMA ClosesAt ==
    ASSUME TypeInv, NEW t \in Threads, Closes(t)
    PROVE  /\ Len(nest[t]) \in Nat /\ Len(nest[t]) > 0 /\ Len(nest'[t]) = Len(nest[t]) - 1
           /\ \A i \in 1 .. Len(nest[t]) - 1 : Alike(nest'[t][i], nest[t][i])
           /\ \A u \in Threads \ {t} : nest'[u] = nest[u]
           /\ Len(nest[t]) = 1 => nest'[t] = <<>>
<1>1. /\ Len(nest[t]) \in Nat /\ Len(nest[t]) > 0 /\ Len(nest'[t]) = Len(nest[t]) - 1
      /\ nest'[t] \in Seq(Construct)
  BY Innermost DEF Closes
<1>2. Len(nest[t]) = 1 => nest'[t] = <<>>
  BY <1>1, EmptySeq
<1> QED
  BY <1>1, <1>2 DEF Closes

\* The joins that the end of a construct leaves as they are.
SameJoins(t) ==
    \A i \in 1 .. Len(nest[t]) - 1 : nest'[t][i].joined = nest[t][i].joined

\* A construct that ends on the master leaves its region as it is, unless it
\* is the region.
LEMMA MasterCloses ==
    ASSUME TypeInv, NestInv, Closes(Master),
           Inner(Master).kind # "parallel" \/ Len(nest[Master]) # 2
    PROVE  /\ HasRegion' <=> HasRegion
           /\ HasRegion => nest'[Master][2].own = nest[Master][2].own
           /\ Len(nest'[Master]) > 2 => Len(nest[Master]) > 2
           /\ SameJoins(Master) => (JoinBehind' => JoinBehind)
<1>0. PICK n \in Nat : n = Len(nest[Master])
  BY CodesAre, Innermost
<1>1. /\ Len(nest'[Master]) = n - 1 /\ n > 0
      /\ \A i \in 1 .. n - 1 : Alike(nest'[Master][i], nest[Master][i])
      /\ nest[Master] # <<>>
  BY <1>0, CodesAre, ClosesAt DEF Closes
<1>2. Inner(Master) = nest[Master][n]
  BY <1>0, <1>1, CodesAre, Innermost
<1>s. n = 1 \/ n = 2 \/ n > 2
  BY <1>1
<1>3. CASE n = 1
  <2>1. ~(Len(nest[Master]) > 1) /\ ~(Len(nest'[Master]) > 1) /\ ~(Len(nest[Master]) > 2)
        /\ ~(Len(nest'[Master]) > 2)
    BY <1>0, <1>1, <1>3
  <2> QED
    BY <2>1 DEF HasRegion, JoinBehind
<1>4. CASE n = 2
  <2>1. ~(Len(nest'[Master]) > 1) /\ ~(Len(nest[Master]) > 2)
        /\ ~(Len(nest'[Master]) > 2)
    BY <1>0, <1>1, <1>4
  <2>2. ~HasRegion
    BY <1>0, <1>2, <1>4 DEF HasRegion
  <2> QED
    BY <2>1, <2>2 DEF HasRegion, JoinBehind
<1>5. CASE n > 2
  <2>1. /\ Alike(nest'[Master][2], nest[Master][2]) /\ Len(nest'[Master]) > 1
        /\ Len(nest[Master]) > 1 /\ Len(nest[Master]) > 2
        /\ 2 \in 1 .. Len(nest[Master]) - 1
    BY <1>0, <1>1, <1>5
  <2>2. Len(nest'[Master]) > 2 => 3 \in 1 .. Len(nest[Master]) - 1
    BY <1>0, <1>1, <1>5
  <2> QED
    BY <2>1, <2>2 DEF HasRegion, JoinBehind, Alike, SameJoins
<1> QED
  BY <1>s, <1>3, <1>4, <1>5

LEMMA PrefixJoins == ASSUME NEW t, Prefix(t) PROVE SameJoins(t)
BY DEF Prefix, SameJoins

\* A construct that ends and that is not a barrier.
LEMMA ClosesTeam ==
    ASSUME TypeInv, NestInv, TeamInv, NEW t \in Threads, Ends(t), Prefix(t),
           Inner(t).kind # "barrier",
           t = Master => Inner(Master).kind # "parallel" \/ Len(nest[Master]) # 2,
           team' = team
    PROVE  TeamInv'
<1>1. Closes(t) /\ \A u \in Threads \ {t} : nest'[u] = nest[u]
  BY ClosesAt DEF Ends
<1>2. ASSUME t = Master
      PROVE  /\ (HasRegion' <=> HasRegion)
             /\ (HasRegion => nest'[Master][2].own = nest[Master][2].own)
             /\ (Len(nest'[Master]) > 2 => Master \in team.entered)
             /\ (JoinBehind' => team.arrived = Threads)
  BY <1>1, <1>2, MasterCloses, PrefixJoins DEF TeamInv
<1>3. ASSUME t # Master
      PROVE  \/ t \in team.entered /\ t \notin team.arrived /\ team.open
             \/ nest'[t] = <<>>
  <2>1. CASE Len(nest[t]) = 1
    BY <1>1, <2>1, ClosesAt
  <2>2. CASE ~Past(t)
    BY <1>3, <2>2, CodesAre DEF TeamInv, Ends
  <2>3. CASE Len(nest[t]) # 1 /\ Past(t)
    <3>1. Len(nest[t]) = 2 /\ nest[t][2].kind = "barrier"
      BY <2>3 DEF Past
    <3> QED
      BY <3>1, InnerShape DEF Ends
  <2> QED
    BY <2>1, <2>2, <2>3
<1> QED
  BY <1>1, <1>2, <1>3, TeamKept

LEMMA ParallelEndedTeam ==
    ASSUME TypeInv, NestInv, TeamInv, NEW t \in Threads, ParallelEnded(t)
    PROVE  TeamInv'
<1>1. Ends(t) /\ Prefix(t) /\ Inner(t).kind = "parallel" /\ Inner(t).joined
      /\ nest[t] # <<>>
  BY DEF ParallelEnded, In, Ends
<1>2. Master \in Threads /\ Workers = Threads \ {Master}
  BY CodesAre
<1>3. CASE ~(t = Master /\ Len(nest[t]) = 2)
  <2>1. team' = team
    BY <1>3 DEF ParallelEnded
  <2> QED
    BY <1>1, <1>3, <2>1, ClosesTeam
<1>4. CASE t = Master /\ Len(nest[t]) = 2
  <2>1. team' = [team EXCEPT !.open = FALSE]
    BY <1>4 DEF ParallelEnded
  <2>2. /\ team'.open = FALSE /\ team'.pdata = team.pdata /\ team'.entered = team.entered
        /\ team'.arrived = team.arrived
    BY <2>1 DEF TypeInv, Teams
  <2>3. Inner(Master) = nest[Master][2] /\ 2 > 1
    BY <1>1, <1>4, InnerShape
  <2>4. HasRegion /\ JoinBehind
    BY <1>1, <1>4, <2>3 DEF HasRegion, JoinBehind
  <2>5. team.arrived = Threads
    BY <2>4 DEF TeamInv
  <2>6. Len(nest'[Master]) = 1 /\ ~(1 > 1) /\ ~(1 > 2)
    <3>1. Len(nest'[Master]) = Len(nest[Master]) - 1
      BY <1>1, <1>4, ClosesAt DEF Ends
    <3> QED
      BY <1>4, <3>1
  <2>7. ~HasRegion' /\ ~JoinBehind' /\ ~(Len(nest'[Master]) > 2)
    BY <2>6 DEF HasRegion, JoinBehind
  <2>8. \A u \in Workers : nest'[u] # <<>> => Past(u)'
    <3> SUFFICES ASSUME NEW u \in Workers, nest'[u] # <<>> PROVE Past(u)'
      OBVIOUS
    <3>1. nest'[u] = nest[u] /\ u \in team.arrived
      BY <1>1, <1>2, <1>4, <2>5, ClosesAt DEF Ends
    <3> QED
      BY <3>1 DEF TeamInv, Past
  <2> QED
    BY <2>2, <2>5, <2>7, <2>8 DEF TeamInv
<1> QED
  BY <1>3, <1>4

\* The master's barriers are deep: its region and its task are below.
LEMMA MasterBarrier ==
    ASSUME TypeInv, NestInv, nest[Master] # <<>>, Inner(Master).kind = "barrier"
    PROVE  Len(nest[Master]) = 4 \/ Len(nest[Master]) > 5
<1>0. PICK n \in Nat : n = Len(nest[Master])
  BY CodesAre, Innermost
<1>1. n > 0 /\ nest[Master][n].kind = "barrier" /\ \A i \in 1 .. n : ShapeAt(Master, i)
  BY <1>0, CodesAre, Innermost DEF NestInv, ShapeInv
<1>2. n # 1
  BY <1>1 DEF ShapeAt
<1>3. n # 2
  BY <1>1 DEF ShapeAt
<1>4. ASSUME n = 3 PROVE FALSE
  <2>1. nest[Master][2].kind = "parallel"
    BY <1>1, <1>4 DEF ShapeAt
  <2>2. nest[Master][3].kind # "task"
    BY <1>1, <1>4
  <2> QED
    BY <1>1, <1>4, <2>1, <2>2 DEF ShapeAt
<1>5. ASSUME n = 5 PROVE FALSE
  <2>1. ShapeAt(Master, 2) /\ ShapeAt(Master, 3) /\ ShapeAt(Master, 4) /\ ShapeAt(Master, 5)
        /\ nest[Master][5].kind = "barrier"
    BY <1>1, <1>5
  <2>2. nest[Master][4].kind = "task"
    BY <2>1 DEF ShapeAt
  <2>3. nest[Master][3].kind = "parallel"
    BY <2>1, <2>2 DEF ShapeAt
  <2>4. nest[Master][2].kind = "task"
    BY <2>1, <2>3 DEF ShapeAt
  <2> QED
    BY <2>1, <2>4 DEF ShapeAt
<1>6. \A m \in Nat : m > 0 /\ m # 1 /\ m # 2 /\ m # 3 /\ m # 5 => m = 4 \/ m > 5
  OBVIOUS
<1> QED
  BY <1>0, <1>1, <1>2, <1>3, <1>4, <1>5, <1>6

LEMMA BarrierEndedTeam ==
    ASSUME TypeInv, NestInv, TeamInv, NEW t \in Threads, BarrierEnded(t)
    PROVE  TeamInv'
<1>1. /\ Ends(t) /\ Closes(t) /\ Inner(t).kind = "barrier" /\ nest[t] # <<>>
      /\ team' = team /\ \A u \in Threads \ {t} : nest'[u] = nest[u]
  BY DEF BarrierEnded, In, Ends, Closes
<1>0. PICK n \in Nat : n = Len(nest[t])
  BY Innermost
<1>2. /\ n > 0 /\ Len(nest'[t]) = n - 1
      /\ \A i \in 1 .. n - 1 : nest'[t][i].joined =
            (nest[t][i].joined \/ (Inner(t).joined /\ i >= n - 2))
      /\ Inner(t) = nest[t][n] /\ Inner(t).joined \in BOOLEAN
  BY <1>0, <1>1, ClosesAt, Innermost, Fields DEF BarrierEnded
<1>3. ASSUME t = Master
      PROVE  /\ (HasRegion' <=> HasRegion)
             /\ (HasRegion => nest'[Master][2].own = nest[Master][2].own)
             /\ (Len(nest'[Master]) > 2 => Master \in team.entered)
             /\ (JoinBehind' => team.arrived = Threads)
  <2>1. n = 4 \/ n > 5
    BY <1>0, <1>1, <1>3, MasterBarrier
  <2>2. /\ (HasRegion' <=> HasRegion)
        /\ (HasRegion => nest'[Master][2].own = nest[Master][2].own)
    BY <1>1, <1>3, MasterCloses
  <2>3. Len(nest[Master]) > 2 /\ Master \in team.entered
    <3>1. n > 2
      BY <2>1
    <3> QED
      BY <1>0, <1>3, <3>1 DEF TeamInv
  <2>4. ASSUME JoinBehind', ~JoinBehind PROVE team.arrived = Threads
    <3>1. 2 \in 1 .. n - 1 /\ 3 \in 1 .. n - 1
      BY <2>1
    <3>2. \/ nest'[Master][2].joined /\ ~nest[Master][2].joined
          \/ nest'[Master][3].joined /\ ~nest[Master][3].joined
      BY <2>2, <2>3, <2>4 DEF JoinBehind
    <3>a. /\ nest'[Master][2].joined = (nest[Master][2].joined \/ (Inner(t).joined /\ 2 >= n - 2))
          /\ nest'[Master][3].joined = (nest[Master][3].joined \/ (Inner(t).joined /\ 3 >= n - 2))
      BY <1>2, <1>3, <3>1
    <3>b. Inner(t).joined /\ (2 >= n - 2 \/ 3 >= n - 2)
      BY <3>2, <3>a, Zenon
    <3>3. Inner(t).joined /\ n - 2 <= 3
      BY <3>b
    <3>4. n = 4
      BY <2>1, <3>3
    <3>5. Len(nest[t]) - 1 = IF t = Master THEN 3 ELSE 1
      BY <1>0, <1>3, <3>4
    <3> QED
      BY <1>3, <2>3, <3>3, <3>5 DEF BarrierEnded
  <2> QED
    BY <2>2, <2>3, <2>4 DEF TeamInv
<1>4. ASSUME t # Master
      PROVE  \/ t \in team.entered /\ t \notin team.arrived /\ team.open
             \/ Past(t)'
  <2>1. CASE ~Past(t)
    BY <1>1, <1>4, <2>1, CodesAre DEF TeamInv
  <2>2. CASE Past(t)
    <3>1. n # 1
      BY <1>0, <1>1, InnerShape DEF ShapeAt
    <3>2. n = 2 /\ nest[t][2].joined
      BY <1>0, <2>2, <3>1 DEF Past
    <3>3. Len(nest'[t]) = 1 /\ nest'[t][1].joined
      BY <1>2, <3>2
    <3> QED
      BY <3>3 DEF Past
  <2> QED
    BY <2>1, <2>2
<1> QED
  BY <1>1, <1>3, <1>4, TeamKept

-----------------------------------------------------------------------------
(***************************************************************************)
(* The record stacks.                                                      *)
(***************************************************************************)
Base(t) == IF t = Master /\ registered # {} THEN 1 ELSE 0

OwnAt(t, i) ==
    LET c == nest[t][i] IN
    c.own # NULL => /\ c.own = <<t, c.own[2]>> /\ c.own[2] \in Base(t) + 1 .. top[t]
                    /\ slots[t][c.own[2]].kind = c.kind
                    /\ c.kind # "task" => slots[t][c.own[2]].code = c.code

\* The records are those of the open constructs, in their order.
Stacked(t) ==
    /\ \A i \in DOMAIN nest[t] : OwnAt(t, i)
    /\ \A i, j \in DOMAIN nest[t] :
          nest[t][i].own # NULL /\ nest[t][j].own # NULL /\ i < j
          => nest[t][i].own[2] < nest[t][j].own[2]
    /\ \A n \in Base(t) + 1 .. top[t] :
          \E i \in DOMAIN nest[t] : nest[t][i].own = <<t, n>>
    /\ Base(t) <= top[t]
    /\ Base(t) = 1 => slots[t][1] = [kind |-> "parallel", code |-> Initial]

Standing(t) == nest[t] # <<>> \/ t # Master \/ registered = {}
StackInv == \A t \in Threads : Regular(t) /\ Standing(t) => Stacked(t)

LEMMA StackTyped ==
    ASSUME TypeInv, NEW t \in Threads
    PROVE  /\ top[t] \in Nat /\ top[t] \in 0 .. MaxDepth /\ MaxDepth \in Nat
           /\ Base(t) \in {0, 1} /\ Base(t) \in Nat
BY CodesAre DEF TypeInv, Base

\* The record of the innermost construct is on top.
LEMMA InnerOnTop ==
    ASSUME TypeInv, NEW t \in Threads, nest[t] # <<>>, Stacked(t), Inner(t).own # NULL
    PROVE  /\ Inner(t).own = <<t, top[t]>> /\ top[t] \in Base(t) + 1 .. top[t]
           /\ top[t] # 0
           /\ slots[t][top[t]].kind = Inner(t).kind
           /\ Inner(t).kind # "task" => slots[t][top[t]].code = Inner(t).code
<1>0. PICK n \in Nat : n = Len(nest[t])
  BY Innermost
<1>1. /\ n > 0 /\ DOMAIN nest[t] = 1 .. n /\ Inner(t) = nest[t][n] /\ n \in 1 .. n
  BY <1>0, Innermost
<1>2. OwnAt(t, n)
  BY <1>1 DEF Stacked
<1>3. /\ Inner(t).own = <<t, Inner(t).own[2]>>
      /\ Inner(t).own[2] \in Base(t) + 1 .. top[t]
      /\ slots[t][Inner(t).own[2]].kind = Inner(t).kind
      /\ Inner(t).kind # "task" => slots[t][Inner(t).own[2]].code = Inner(t).code
  BY <1>1, <1>2 DEF OwnAt
<1>4. PICK m : m = Inner(t).own[2]
  OBVIOUS
<1>5. m \in Base(t) + 1 .. top[t] /\ top[t] \in Base(t) + 1 .. top[t] /\ top[t] # 0
      /\ m \in Int /\ top[t] \in Int
  BY <1>3, <1>4, StackTyped
<1>6. PICK i \in 1 .. n : nest[t][i].own = <<t, top[t]>>
  BY <1>1, <1>5 DEF Stacked
<1>7. i < n => top[t] < m
  <2>1. nest[t][i].own # NULL /\ nest[t][i].own[2] = top[t]
    BY <1>6, PointersAre
  <2> QED
    BY <1>1, <1>4, <2>1 DEF Stacked
<1>8. ~(i < n)
  BY <1>5, <1>7
<1>9. i = n
  BY <1>8
<1>10. Inner(t).own = <<t, top[t]>> /\ m = top[t]
  BY <1>1, <1>4, <1>6, <1>9
<1> QED
  BY <1>3, <1>4, <1>5, <1>10

\* Another thread's stack stays as it is.
LEMMA StackElsewhere ==
    ASSUME NEW u \in Threads, nest'[u] = nest[u], slots'[u] = slots[u], top'[u] = top[u],
           registered' = registered, Stacked(u)
    PROVE  Stacked(u)'
<1>1. Base(u)' = Base(u)
  BY DEF Base
<1>2. \A i : OwnAt(u, i) => OwnAt(u, i)'
  BY <1>1 DEF OwnAt
<1> QED
  BY <1>1, <1>2 DEF Stacked

LEMMA OpensStacked ==
    ASSUME TypeInv, NEW t \in Threads, NEW d, NEW code, Begins(t, d, code), Stacked(t)
    PROVE  Stacked(t)'
<1>0. PICK n \in Nat : n = Len(nest[t])
  BY Innermost
<1>1. /\ DOMAIN nest[t] = 1 .. n /\ DOMAIN (nest'[t]) = 1 .. n + 1
      /\ nest'[t][n + 1] = d /\ \A i \in 1 .. n : nest'[t][i] = nest[t][i]
  BY <1>0, Innermost DEF Begins, Opens
<1>2. Base(t)' = Base(t)
  BY DEF Base, Begins
<1>3. PICK b, m : b = Base(t) /\ m = top[t]
  OBVIOUS
<1>4. b \in Nat /\ m \in Nat /\ Base(t)' = b /\ Base(t) = b
  BY <1>2, <1>3, StackTyped
<1>5. \A i \in 1 .. n + 1 : i \in 1 .. n \/ i = n + 1
  OBVIOUS
<1>6. CASE d.own = NULL /\ StackSame
  <2>1. \A i \in 1 .. n : OwnAt(t, i)'
    BY <1>1, <1>2, <1>6 DEF Stacked, OwnAt, StackSame
  <2>2. OwnAt(t, n + 1)'
    BY <1>1, <1>6 DEF OwnAt
  <2>3. \A i \in 1 .. n + 1 : OwnAt(t, i)'
    BY <1>5, <2>1, <2>2
  <2>4. \A i, j \in 1 .. n + 1 :
          nest'[t][i].own # NULL /\ nest'[t][j].own # NULL /\ i < j
          => nest'[t][i].own[2] < nest'[t][j].own[2]
    BY <1>1, <1>5, <1>6 DEF Stacked
  <2>5. \A k \in b + 1 .. m : \E i \in 1 .. n + 1 : nest'[t][i].own = <<t, k>>
    <3> SUFFICES ASSUME NEW k \in b + 1 .. m
                 PROVE  \E i \in 1 .. n + 1 : nest'[t][i].own = <<t, k>>
      OBVIOUS
    <3>1. PICK i \in 1 .. n : nest[t][i].own = <<t, k>>
      BY <1>1, <1>3 DEF Stacked
    <3>2. i \in 1 .. n + 1 /\ nest'[t][i].own = <<t, k>>
      BY <1>1, <3>1
    <3> QED
      BY <3>2
  <2> QED
    BY <1>1, <1>2, <1>3, <1>6, <2>3, <2>4, <2>5 DEF Stacked, StackSame
<1>7. CASE d.own # NULL
  <2>1. /\ ~Full(t) /\ Push(t, d.kind, code) /\ d.own = Pushed(t) /\ d.kind \in Kinds
        /\ code \in Codes /\ (d.kind # "task" => code = d.code)
    BY <1>7, Fields DEF Begins
  <2>2. /\ m + 1 \in 1 .. MaxDepth /\ d.own = <<t, m + 1>> /\ top'[t] = m + 1
        /\ slots'[t][m + 1] = [kind |-> d.kind, code |-> code]
        /\ \A k \in 1 .. MaxDepth : k # m + 1 => slots'[t][k] = slots[t][k]
    BY <1>3, <2>1, PushEffect
  <2>3. b <= m /\ m <= MaxDepth /\ MaxDepth \in Nat
    BY <1>3, StackTyped DEF Stacked
  <2>4. \A i \in 1 .. n : nest[t][i].own # NULL =>
           /\ nest[t][i].own[2] \in b + 1 .. m /\ OwnAt(t, i)
    BY <1>1, <1>3 DEF Stacked, OwnAt
  <2>5. \A i \in 1 .. n : OwnAt(t, i)'
    <3> SUFFICES ASSUME NEW i \in 1 .. n, nest[t][i].own # NULL PROVE OwnAt(t, i)'
      BY <1>1 DEF OwnAt
    <3>1. PICK k : k = nest[t][i].own[2]
      OBVIOUS
    <3>2. k \in b + 1 .. m /\ k \in b + 1 .. m + 1 /\ k \in 1 .. MaxDepth /\ k # m + 1
      BY <1>4, <2>3, <2>4, <3>1
    <3>3. slots'[t][k] = slots[t][k]
      BY <2>2, <3>2
    <3>4. /\ nest[t][i].own = <<t, k>> /\ slots[t][k].kind = nest[t][i].kind
          /\ nest[t][i].kind # "task" => slots[t][k].code = nest[t][i].code
      BY <2>4, <3>1 DEF OwnAt
    <3>5. nest'[t][i] = nest[t][i] /\ top'[t] = m + 1
      BY <1>1, <2>2
    <3> QED
      BY <1>4, <3>1, <3>2, <3>3, <3>4, <3>5 DEF OwnAt
  <2>6. OwnAt(t, n + 1)'
    <3>1. d.own[2] = m + 1 /\ m + 1 \in b + 1 .. m + 1
      BY <1>4, <2>2, <2>3
    <3> QED
      BY <1>1, <1>4, <2>1, <2>2, <3>1 DEF OwnAt
  <2>7. \A i \in 1 .. n + 1 : OwnAt(t, i)'
    BY <1>5, <2>5, <2>6
  <2>8. \A i, j \in 1 .. n + 1 :
          nest'[t][i].own # NULL /\ nest'[t][j].own # NULL /\ i < j
          => nest'[t][i].own[2] < nest'[t][j].own[2]
    <3> SUFFICES ASSUME NEW i \in 1 .. n + 1, NEW j \in 1 .. n + 1,
                        nest'[t][i].own # NULL, nest'[t][j].own # NULL, i < j
                 PROVE  nest'[t][i].own[2] < nest'[t][j].own[2]
      OBVIOUS
    <3>1. i \in 1 .. n
      OBVIOUS
    <3>2. CASE j \in 1 .. n
      BY <1>1, <3>1, <3>2 DEF Stacked
    <3>3. CASE j = n + 1
      <4>1. nest'[t][j].own[2] = m + 1
        BY <1>1, <2>2, <3>3
      <4>2. nest'[t][i].own[2] \in b + 1 .. m
        BY <1>1, <2>4, <3>1
      <4> QED
        BY <1>4, <4>1, <4>2
    <3> QED
      BY <1>5, <3>2, <3>3
  <2>9. \A k \in b + 1 .. m + 1 : \E i \in 1 .. n + 1 : nest'[t][i].own = <<t, k>>
    <3> SUFFICES ASSUME NEW k \in b + 1 .. m + 1
                 PROVE  \E i \in 1 .. n + 1 : nest'[t][i].own = <<t, k>>
      OBVIOUS
    <3>1. CASE k = m + 1
      BY <1>1, <2>2, <3>1
    <3>2. CASE k # m + 1
      <4>1. k \in b + 1 .. m
        BY <1>4, <3>2
      <4>2. PICK i \in 1 .. n : nest[t][i].own = <<t, k>>
        BY <1>1, <1>3, <4>1 DEF Stacked
      <4>3. i \in 1 .. n + 1 /\ nest'[t][i].own = <<t, k>>
        BY <1>1, <4>2
      <4> QED
        BY <4>3
    <3> QED
      BY <3>1, <3>2
  <2>10. b <= m + 1
    BY <1>4, <2>3
  <2>11. b = 1 => slots'[t][1] = [kind |-> "parallel", code |-> Initial]
    <3>1. b = 1 => 1 \in 1 .. MaxDepth /\ 1 # m + 1
      BY <1>4, <2>3
    <3> QED
      BY <1>3, <2>2, <3>1 DEF Stacked
  <2> QED
    BY <1>1, <1>4, <2>2, <2>7, <2>8, <2>9, <2>10, <2>11 DEF Stacked
<1> QED
  BY <1>6, <1>7 DEF Begins

\* An end pops the record of its construct, and nothing else.
EndsOwn(t) ==
    /\ slots' = slots
    /\ IF Inner(t).own = NULL THEN top' = top
       ELSE /\ top'[t] = top[t] - 1
            /\ \A u \in Threads \ {t} : top'[u] = top[u]

LEMMA ClosesStacked ==
    ASSUME TypeInv, NEW t \in Threads, Ends(t), EndsOwn(t), Stacked(t)
    PROVE  Stacked(t)'
<1>0. PICK n \in Nat : n = Len(nest[t])
  BY Innermost
<1>1. /\ DOMAIN nest[t] = 1 .. n /\ n > 0 /\ DOMAIN (nest'[t]) = 1 .. n - 1
      /\ \A i \in 1 .. n - 1 : Alike(nest'[t][i], nest[t][i])
      /\ nest[t] # <<>> /\ Inner(t) = nest[t][n]
  BY <1>0, Innermost DEF Ends, Closes
<1>2. Base(t)' = Base(t)
  BY DEF Base, Ends
<1>3. PICK b, m : b = Base(t) /\ m = top[t]
  OBVIOUS
<1>4. b \in Nat /\ m \in Nat /\ Base(t)' = b /\ Base(t) = b /\ b <= m
  BY <1>2, <1>3, StackTyped DEF Stacked
<1>5. \A i \in 1 .. n - 1 : i \in 1 .. n /\ i < n
  OBVIOUS
<1>6. \A i, j \in 1 .. n - 1 :
          nest'[t][i].own # NULL /\ nest'[t][j].own # NULL /\ i < j
          => nest'[t][i].own[2] < nest'[t][j].own[2]
  BY <1>1, <1>5 DEF Stacked, Alike
<1>7. \A k, i : k \in b + 1 .. m /\ i \in 1 .. n /\ nest[t][i].own = <<t, k>> /\ i # n
                => i \in 1 .. n - 1 /\ nest'[t][i].own = <<t, k>>
  <2> SUFFICES ASSUME NEW k, NEW i \in 1 .. n, nest[t][i].own = <<t, k>>, i # n
               PROVE  i \in 1 .. n - 1 /\ nest'[t][i].own = <<t, k>>
    OBVIOUS
  <2>1. i \in 1 .. n - 1
    OBVIOUS
  <2> QED
    BY <1>1, <2>1 DEF Alike
<1>8. CASE Inner(t).own = NULL
  <2>1. slots' = slots /\ top' = top
    BY <1>8 DEF EndsOwn
  <2>2. \A i \in 1 .. n - 1 : OwnAt(t, i)'
    <3> SUFFICES ASSUME NEW i \in 1 .. n - 1 PROVE OwnAt(t, i)'
      OBVIOUS
    <3>1. OwnAt(t, i) /\ Alike(nest'[t][i], nest[t][i])
      BY <1>1, <1>5 DEF Stacked
    <3> QED
      BY <1>2, <2>1, <3>1 DEF OwnAt, Alike
  <2>3. \A k \in b + 1 .. m : \E i \in 1 .. n - 1 : nest'[t][i].own = <<t, k>>
    <3> SUFFICES ASSUME NEW k \in b + 1 .. m
                 PROVE  \E i \in 1 .. n - 1 : nest'[t][i].own = <<t, k>>
      OBVIOUS
    <3>1. PICK i \in 1 .. n : nest[t][i].own = <<t, k>>
      BY <1>1, <1>3 DEF Stacked
    <3>2. i # n
      BY <1>1, <1>8, <3>1, PointersAre
    <3> QED
      BY <1>7, <3>1, <3>2
  <2> QED
    BY <1>1, <1>3, <1>4, <1>6, <2>1, <2>2, <2>3 DEF Stacked
<1>9. CASE Inner(t).own # NULL
  <2>1. slots' = slots /\ top'[t] = m - 1
    BY <1>3, <1>9 DEF EndsOwn
  <2>2. nest[t][n].own = <<t, m>> /\ nest[t][n].own[2] = m /\ m \in b + 1 .. m
    BY <1>1, <1>3, <1>9, InnerOnTop
  <2>3. \A i \in 1 .. n - 1 : OwnAt(t, i)'
    <3> SUFFICES ASSUME NEW i \in 1 .. n - 1, nest[t][i].own # NULL PROVE OwnAt(t, i)'
      BY <1>1 DEF OwnAt, Alike
    <3>1. PICK k : k = nest[t][i].own[2]
      OBVIOUS
    <3>2. OwnAt(t, i) /\ k \in b + 1 .. m
      BY <1>1, <1>3, <1>5, <3>1 DEF Stacked, OwnAt
    <3>3. k < m
      <4>1. i \in 1 .. n /\ n \in 1 .. n /\ i < n
        BY <1>1
      <4>2. nest[t][n].own # NULL
        BY <1>1, <1>9
      <4>3. nest[t][i].own[2] < nest[t][n].own[2]
        <5>1. nest[t][i].own # NULL
          BY <1>1 DEF Alike
        <5> QED
          BY <1>1, <4>1, <4>2, <5>1 DEF Stacked
      <4> QED
        BY <2>2, <3>1, <4>3
    <3>4. k \in b + 1 .. m - 1
      BY <1>4, <3>2, <3>3
    <3> QED
      BY <1>1, <1>4, <2>1, <3>1, <3>2, <3>4 DEF OwnAt, Alike
  <2>4. \A k \in b + 1 .. m - 1 : \E i \in 1 .. n - 1 : nest'[t][i].own = <<t, k>>
    <3> SUFFICES ASSUME NEW k \in b + 1 .. m - 1
                 PROVE  \E i \in 1 .. n - 1 : nest'[t][i].own = <<t, k>>
      OBVIOUS
    <3>1. k \in b + 1 .. m /\ k # m
      BY <1>4
    <3>2. PICK i \in 1 .. n : nest[t][i].own = <<t, k>>
      BY <1>1, <1>3, <3>1 DEF Stacked
    <3>3. i # n
      BY <2>2, <3>1, <3>2
    <3> QED
      BY <1>7, <3>1, <3>2, <3>3
  <2>5. b <= m - 1
    BY <1>4, <2>2
  <2> QED
    BY <1>1, <1>3, <1>4, <1>6, <2>1, <2>3, <2>4, <2>5 DEF Stacked
<1> QED
  BY <1>8, <1>9

\* The callbacks of a begin and of its end are registered together.
LEMMA RegisteredTogether ==
    ASSUME RegisteredInv
    PROVE  /\ "parallel_begin" \in registered <=> "parallel_end" \in registered
           /\ "implicit_task" \in registered => registered = AllCallbacks
           /\ "masked" \in registered => registered = AllCallbacks
           /\ "work" \in registered => registered = AllCallbacks
           /\ "sync_region" \in registered => registered = AllCallbacks
           /\ "sync_region_wait" \in registered => registered = AllCallbacks
           /\ registered # {} <=> "parallel_begin" \in registered
BY DEF RegisteredInv, AllCallbacks

LEMMA PopsOwn ==
    ASSUME TypeInv, NEW t \in Threads, Inner(t).own # NULL, Pops(t)
    PROVE  EndsOwn(t)
BY PopEffect DEF Pops, EndsOwn

LEMMA SameOwn ==
    ASSUME NEW t \in Threads, Inner(t).own = NULL, StackSame
    PROVE  EndsOwn(t)
BY DEF StackSame, EndsOwn

LEMMA ParallelEndedOwn ==
    ASSUME TypeInv, RegisteredInv, NestInv, NEW t \in Threads, Regular(t),
           ParallelEnded(t)
    PROVE  EndsOwn(t)
<1>1. nest[t] # <<>> /\ Inner(t).kind = "parallel"
  BY DEF ParallelEnded, Ends, In
<1>2. Inner(t).own # NULL <=> Delivered("parallel_begin")
  BY <1>1, InnerShape DEF DeliveredAt
<1>3. Delivered("parallel_begin") <=> Delivered("parallel_end")
  BY RegisteredTogether DEF Delivered
<1> QED
  BY <1>2, <1>3, PopsOwn, SameOwn DEF ParallelEnded

TaskEnded(t) ==
    /\ Ends(t) /\ Prefix(t)
    /\ In(t, {"task"})
    /\ IF AtInitialTask(t) THEN ~team.open ELSE Inner(t).joined
    /\ IF Delivered("implicit_task") /\ Inner(t).tdata # NULL THEN Pops(t) ELSE StackSame
    /\ Unpairs(t, /\ Delivered("implicit_task") /\ Inner(t).tdata # NULL
                  /\ context[t].par # NULL /\ Shows("task", LexgionOf(context[t].par)))
    /\ UNCHANGED <<context, team, miscounted, restoring>>

LEMMA TaskEndedOwn ==
    ASSUME TypeInv, RegisteredInv, NestInv, NEW t \in Threads, Regular(t),
           AtInitialTask(t) => registered = {}, TaskEnded(t)
    PROVE  EndsOwn(t)
<1>1. nest[t] # <<>> /\ Inner(t).kind = "task" /\ Inner(t) = nest[t][Len(nest[t])]
  BY InnerShape DEF TaskEnded, Ends, In
<1>2. Inner(t).tdata = Inner(t).own
  BY <1>1, InnerShape DEF LinkAt
<1>3. CASE AtInitialTask(t)
  <2>1. Inner(t).own = NULL
    BY <1>1, <1>3, InnerShape DEF LinkAt, Initially, AtInitialTask
  <2> QED
    BY <1>2, <2>1, SameOwn DEF TaskEnded
<1>4. CASE ~AtInitialTask(t)
  <2>1. Inner(t).own # NULL => Delivered("implicit_task")
    BY <1>1, <1>4, InnerShape DEF DeliveredAt, Initially, AtInitialTask
  <2> QED
    BY <1>2, <2>1, PopsOwn, SameOwn DEF TaskEnded
<1> QED
  BY <1>3, <1>4

\* What is on top is of an enclosing task or region, if the innermost construct
\* has no record.
LEMMA OuterOnTop ==
    ASSUME TypeInv, NestInv, NEW t \in Threads, nest[t] # <<>>, Stacked(t),
           Inner(t).own = NULL, top[t] # 0
    PROVE  slots[t][top[t]].kind \in {"task", "parallel"}
<1>0. PICK n \in Nat : n = Len(nest[t])
  BY Innermost
<1>1. /\ n > 0 /\ DOMAIN nest[t] = 1 .. n /\ Inner(t) = nest[t][n]
  BY <1>0, Innermost
<1>2. top[t] \in Nat /\ Base(t) \in {0, 1} /\ Base(t) <= top[t]
  BY StackTyped DEF Stacked
<1>3. CASE top[t] = Base(t)
  <2>1. Base(t) = 1 /\ top[t] = 1
    BY <1>2, <1>3
  <2> QED
    BY <2>1 DEF Stacked
<1>4. CASE top[t] # Base(t)
  <2>1. top[t] \in Base(t) + 1 .. top[t]
    BY <1>2, <1>4
  <2>2. PICK i \in 1 .. n : nest[t][i].own = <<t, top[t]>>
    BY <1>1, <2>1 DEF Stacked
  <2>3. i # n /\ nest[t][i].own # NULL /\ nest[t][i].own[2] = top[t]
    <3>1. PICK m : m = top[t]
      OBVIOUS
    <3>2. nest[t][i].own # NULL /\ nest[t][i].own[2] = m
      BY <2>2, <3>1, PointersAre
    <3> QED
      BY <1>1, <3>1, <3>2
  <2>4. i + 1 \in 1 .. n /\ i + 1 > 1 /\ i + 1 - 1 = i
    BY <2>3
  <2>5. ShapeAt(t, i + 1)
    BY <1>1, <2>4 DEF NestInv, ShapeInv
  <2>6. nest[t][i].kind \in {"task", "parallel"}
    BY <2>4, <2>5 DEF ShapeAt
  <2>7. OwnAt(t, i)
    BY <1>1 DEF Stacked
  <2> QED
    BY <2>3, <2>6, <2>7 DEF OwnAt
<1> QED
  BY <1>3, <1>4

LEMMA WorkEndedOwn ==
    ASSUME TypeInv, NestInv, NEW t \in Threads, Regular(t), Stacked(t), WorkEnded(t)
    PROVE  EndsOwn(t)
<1>1. nest[t] # <<>> /\ Inner(t).kind \in {"work", "masked"}
  BY DEF WorkEnded, Ends, In
<1>2. CASE Inner(t).own # NULL
  <2>1. Delivered(Inner(t).kind)
    BY <1>1, <1>2, InnerShape DEF DeliveredAt
  <2>2. top[t] # 0 /\ slots[t][top[t]].kind = Inner(t).kind
    BY <1>1, <1>2, InnerOnTop
  <2>3. Deref(TopOf(t)).kind = Inner(t).kind
    BY <2>2 DEF Deref, TopOf
  <2> QED
    BY <1>2, <2>1, <2>3, PopsOwn DEF WorkEnded
<1>3. CASE Inner(t).own = NULL
  <2>1. CASE Delivered(Inner(t).kind)
    <3>1. top[t] # 0
      BY <2>1 DEF WorkEnded
    <3>2. slots[t][top[t]].kind # Inner(t).kind
      BY <1>1, <1>3, <3>1, OuterOnTop
    <3>3. Deref(TopOf(t)).kind # Inner(t).kind
      BY <3>1, <3>2 DEF Deref, TopOf
    <3> QED
      BY <1>3, <3>3, SameOwn DEF WorkEnded
  <2>2. CASE ~Delivered(Inner(t).kind)
    BY <1>3, <2>2, SameOwn DEF WorkEnded
  <2> QED
    BY <2>1, <2>2
<1> QED
  BY <1>2, <1>3

LEMMA BarrierEndedOwn ==
    ASSUME TypeInv, NestInv, NEW t \in Threads, BarrierEnded(t)
    PROVE  EndsOwn(t)
<1>1. nest[t] # <<>> /\ Inner(t).kind = "barrier" /\ StackSame
  BY DEF BarrierEnded, Ends, In
<1>2. Inner(t).own = NULL
  BY <1>1, InnerShape DEF LinkAt
<1> QED
  BY <1>1, <1>2, SameOwn

LEMMA MpiEndedOwn ==
    ASSUME TypeInv, NestInv, NEW t \in Threads, Stacked(t), MpiEnded(t)
    PROVE  EndsOwn(t)
<1>1. nest[t] # <<>> /\ Inner(t).kind = "mpi"
  BY DEF MpiEnded, Ends, In
<1>2. Inner(t).code = MpiCode
  BY <1>1, InnerShape DEF LinkAt
<1>3. CASE Inner(t).own = NULL
  BY <1>3, SameOwn DEF MpiEnded
<1>4. CASE Inner(t).own # NULL
  <2>1. top[t] # 0 /\ slots[t][top[t]].code = MpiCode
    BY <1>1, <1>2, <1>4, InnerOnTop
  <2>2. PopMatch(t, MpiCode)
    BY <1>4 DEF MpiEnded
  <2> QED
    BY <1>4, <2>1, <2>2, PopMatchEffect DEF EndsOwn
<1> QED
  BY <1>3, <1>4

-----------------------------------------------------------------------------
LEMMA EndsStack ==
    ASSUME TypeInv, NEW t \in Threads, Ends(t)
    PROVE  /\ slots' = slots /\ \A u \in Threads \ {t} : top'[u] = top[u]
           /\ top'[t] <= top[t] /\ top'[t] \in Nat
<1>1. CASE StackSame
  BY <1>1, StackTyped DEF StackSame
<1>2. CASE Pops(t)
  <2>1. top'[t] = top[t] - 1 /\ top[t] \in 1 .. MaxDepth
    BY <1>2, PopEffect DEF Pops
  <2>2. top'[t] <= top[t] /\ top'[t] \in Nat
    BY <2>1, StackTyped
  <2> QED
    BY <1>2, <2>2, PopEffect DEF Pops
<1>3. CASE PopMatch(t, MpiCode)
  BY <1>3, PopMatchEffect
<1> QED
  BY <1>1, <1>2, <1>3 DEF Ends

LEMMA BeginsStack ==
    ASSUME TypeInv, NEW t \in Threads, NEW d, NEW code, Begins(t, d, code)
    PROVE  \A u \in Threads \ {t} : slots'[u] = slots[u] /\ top'[u] = top[u]
<1>1. d.own # NULL => d.kind \in Kinds
  BY Fields DEF Begins
<1> QED
  BY <1>1, PushEffect DEF Begins, StackSame

LEMMA StackOpens ==
    ASSUME TypeInv, StackInv, NEW t \in Threads, NEW d, NEW code, Begins(t, d, code),
           Fits(t, d)
    PROVE  StackInv'
<1> SUFFICES ASSUME NEW u \in Threads, Regular(u)', Standing(u)'
             PROVE  Stacked(u)'
  BY DEF StackInv
<1>1. Regular(u) /\ registered' = registered
  BY DEF Begins, Opens, Regular
<1>2. CASE u = t
  <2>1. Standing(t)
    BY DEF Fits, Idle, Standing
  <2> QED
    BY <1>1, <1>2, <2>1, OpensStacked DEF StackInv
<1>3. CASE u # t
  <2>1. nest'[u] = nest[u] /\ slots'[u] = slots[u] /\ top'[u] = top[u]
    <3>1. nest'[u] = nest[u]
      BY <1>3 DEF Begins, Opens
    <3> QED
      BY <1>3, <3>1, BeginsStack
  <2>2. Standing(u)
    BY <1>1, <2>1 DEF Standing
  <2> QED
    BY <1>1, <2>1, <2>2, StackElsewhere DEF StackInv
<1> QED
  BY <1>2, <1>3

LEMMA StackCloses ==
    ASSUME TypeInv, StackInv, NEW t \in Threads, Ends(t),
           /\ Regular(t) /\ Stacked(t) /\ (AtInitialTask(t) => registered = {})
           => EndsOwn(t)
    PROVE  StackInv'
<1> SUFFICES ASSUME NEW u \in Threads, Regular(u)', Standing(u)'
             PROVE  Stacked(u)'
  BY DEF StackInv
<1>1. Regular(u) /\ registered' = registered /\ nest[t] # <<>>
  BY DEF Ends, Closes, Regular
<1>2. CASE u = t
  <2>1. Standing(t) /\ Stacked(t)
    BY <1>1, <1>2 DEF Standing, StackInv
  <2>2. AtInitialTask(t) => registered = {}
    BY <1>1, <1>2, ClosesAt DEF AtInitialTask, Ends, Standing
  <2> QED
    BY <1>1, <1>2, <2>1, <2>2, ClosesStacked
<1>3. CASE u # t
  <2>1. nest'[u] = nest[u] /\ slots'[u] = slots[u] /\ top'[u] = top[u]
    BY <1>3, EndsStack DEF Ends, Closes
  <2>2. Standing(u)
    BY <1>1, <2>1 DEF Standing
  <2> QED
    BY <1>1, <2>1, <2>2, StackElsewhere DEF StackInv
<1> QED
  BY <1>2, <1>3

-----------------------------------------------------------------------------
(***************************************************************************)
(* The initial region's records stay at the bottom.                        *)
(***************************************************************************)
InitialBelow == \A t \in Threads : \A n \in 1 .. top[t] :
                    slots[t][n].code = Initial => t = Master /\ n <= 2
RegionsCoded == \A t \in Threads : \A i \in DOMAIN nest[t] :
                    nest[t][i].kind = "parallel" /\ nest[t][i].own # NULL
                    => Deref(nest[t][i].own).code # Initial
TeamCoded == team.pdata # NULL => Deref(team.pdata).code # Initial
EndDrained == ended => top[Master] <= 1
CodeInv == InitialBelow /\ RegionsCoded /\ TeamCoded /\ EndDrained

LEMMA PushedRecord ==
    ASSUME TypeInv, NEW t \in Threads, NEW d, NEW code, Begins(t, d, code), d.own # NULL
    PROVE  /\ d.own = <<t, top[t] + 1>> /\ top'[t] = top[t] + 1
           /\ top[t] + 1 \in 1 .. MaxDepth
           /\ slots'[t][top[t] + 1].kind = d.kind /\ slots'[t][top[t] + 1].code = code
           /\ \A k \in 1 .. MaxDepth : k # top[t] + 1 => slots'[t][k] = slots[t][k]
           /\ \A u \in Threads \ {t} : slots'[u] = slots[u]
<1>1. ~Full(t) /\ Push(t, d.kind, code) /\ d.kind \in Kinds /\ code \in Codes
      /\ d.own = Pushed(t)
  BY Fields DEF Begins
<1>2. /\ Pushed(t) = <<t, top[t] + 1>> /\ top'[t] = top[t] + 1
      /\ top[t] + 1 \in 1 .. MaxDepth
      /\ slots'[t][top[t] + 1] = [kind |-> d.kind, code |-> code]
      /\ \A k \in 1 .. MaxDepth : k # top[t] + 1 => slots'[t][k] = slots[t][k]
      /\ \A u \in Threads \ {t} : slots'[u] = slots[u]
  BY <1>1, PushEffect
<1> QED
  BY <1>1, <1>2

LEMMA CodeStays ==
    ASSUME TypeInv, NEW t \in Threads, NEW d, NEW code, Begins(t, d, code),
           d.own # NULL => code # Initial,
           NEW p \in Pointers, p # NULL, Deref(p).code # Initial
    PROVE  Deref(p)'.code # Initial
<1>1. p[1] \in Threads /\ p[2] \in 1 .. MaxDepth
  BY PointersAre
<1>2. CASE d.own = NULL
  BY <1>2, PointersAre DEF Begins, StackSame, Deref
<1>3. CASE d.own # NULL
  <2>1. CASE p[1] = t
    <3>1. CASE p[2] = top[t] + 1
      BY <1>3, <2>1, <3>1, PushedRecord DEF Deref
    <3>2. CASE p[2] # top[t] + 1
      <4>1. slots'[t][p[2]] = slots[t][p[2]]
        BY <1>1, <1>3, <3>2, PushedRecord
      <4> QED
        BY <2>1, <4>1 DEF Deref
    <3> QED
      BY <3>1, <3>2
  <2>2. CASE p[1] # t
    <3>1. slots'[p[1]] = slots[p[1]]
      BY <1>1, <1>3, <2>2, PushedRecord
    <3> QED
      BY <3>1 DEF Deref
  <2> QED
    BY <2>1, <2>2
<1> QED
  BY <1>2, <1>3

LEMMA CodeOpens ==
    ASSUME TypeInv, NestInv, CodeInv, NEW t \in Threads, NEW d, NEW code,
           Begins(t, d, code), Fits(t, d), d.own # NULL => code # Initial,
           team'.pdata = team.pdata \/ (team'.pdata = d.own /\ d.kind = "parallel")
    PROVE  CodeInv'
<1>1. /\ Opens(t, d) /\ d \in Construct /\ ended' = ended
      /\ \A u \in Threads \ {t} : nest'[u] = nest[u]
  BY DEF Begins, Opens
<1>2. \A u \in Threads : top[u] \in Nat /\ top[u] <= MaxDepth /\ MaxDepth \in Nat
  BY StackTyped
<1>3. d.own \in Pointers
  BY <1>1, Fields
<1>4. InitialBelow'
  <2> SUFFICES ASSUME NEW u \in Threads, NEW n \in 1 .. top'[u],
                      slots'[u][n].code = Initial
               PROVE  u = Master /\ n <= 2
    BY DEF InitialBelow
  <2>1. CASE u # t \/ StackSame
    <3>1. slots'[u] = slots[u] /\ top'[u] = top[u]
      BY <2>1, BeginsStack DEF StackSame
    <3> QED
      BY <3>1 DEF CodeInv, InitialBelow
  <2>2. CASE u = t /\ d.own # NULL
    <3>2. /\ top'[t] = top[t] + 1 /\ slots'[t][top[t] + 1].code = code
          /\ top[t] + 1 \in 1 .. MaxDepth
          /\ \A k \in 1 .. MaxDepth : k # top[t] + 1 => slots'[t][k] = slots[t][k]
      BY <2>2, PushedRecord
    <3>3. n # top[t] + 1
      BY <2>2, <3>2
    <3>4. n \in 1 .. top[t] /\ n \in 1 .. MaxDepth
      BY <1>2, <2>2, <3>2, <3>3
    <3> QED
      BY <2>2, <3>2, <3>3, <3>4 DEF CodeInv, InitialBelow
  <2> QED
    BY <2>1, <2>2 DEF Begins
<1>5. d.kind = "parallel" /\ d.own # NULL => Deref(d.own)'.code # Initial
  <2> SUFFICES ASSUME d.kind = "parallel", d.own # NULL
               PROVE  Deref(d.own)'.code # Initial
    OBVIOUS
  <2>2. d.own = <<t, top[t] + 1>> /\ slots'[t][top[t] + 1].code = code
    BY PushedRecord
  <2> QED
    BY <2>2 DEF Deref
<1>6. \A p \in Pointers : p # NULL /\ Deref(p).code # Initial => Deref(p)'.code # Initial
  BY CodeStays
<1>7. RegionsCoded'
  <2> SUFFICES ASSUME NEW u \in Threads, NEW i \in DOMAIN (nest'[u]),
                      nest'[u][i].kind = "parallel", nest'[u][i].own # NULL
               PROVE  Deref(nest[u][i].own)'.code # Initial
    BY DEF RegionsCoded
  <2>1. CASE u # t
    <3>1. nest'[u] = nest[u] /\ i \in DOMAIN nest[u]
      BY <1>1, <2>1
    <3>2. nest[u][i].own \in Pointers /\ Deref(nest[u][i].own).code # Initial
      BY <2>1, <3>1, Innermost, Fields DEF CodeInv, RegionsCoded
    <3>3. PICK p \in Pointers : p = nest[u][i].own
      BY <3>2
    <3>4. p # NULL /\ Deref(p)'.code # Initial
      BY <1>6, <3>1, <3>2, <3>3
    <3> QED
      BY <3>1, <3>3, <3>4 DEF Deref
  <2>2. CASE u = t
    <3>0. PICK n \in Nat : n = Len(nest[t])
      BY Innermost
    <3>1. /\ DOMAIN nest[t] = 1 .. n /\ i \in 1 .. n + 1
          /\ nest'[t][n + 1] = d
          /\ \A j \in 1 .. n : nest'[t][j] = nest[t][j] /\ nest[t][j] \in Construct
      BY <1>1, <2>2, <3>0, Innermost DEF Opens
    <3>2. CASE i = n + 1
      <4>1. nest'[t][i] = d
        BY <3>1, <3>2
      <4> QED
        BY <1>5, <2>2, <4>1 DEF Deref
    <3>3. CASE i # n + 1
      <4>1. i \in 1 .. n /\ nest'[t][i] = nest[t][i]
        BY <3>1, <3>3
      <4>2. nest[t][i].own \in Pointers /\ Deref(nest[t][i].own).code # Initial
        BY <2>2, <3>1, <4>1, Fields DEF CodeInv, RegionsCoded
      <4>3. PICK p \in Pointers : p = nest[t][i].own
        BY <4>2
      <4>4. p # NULL /\ Deref(p)'.code # Initial
        BY <1>6, <2>2, <4>1, <4>2, <4>3
      <4> QED
        BY <2>2, <4>1, <4>3, <4>4 DEF Deref
    <3> QED
      BY <3>2, <3>3
  <2> QED
    BY <2>1, <2>2
<1>8. TeamCoded'
  <2>1. CASE team'.pdata = team.pdata
    <3>1. PICK p \in Pointers : p = team.pdata
      BY DEF TypeInv, Teams
    <3> QED
      BY <1>6, <2>1, <3>1 DEF CodeInv, TeamCoded, Deref
  <2>2. CASE team'.pdata = d.own /\ d.kind = "parallel"
    BY <1>5, <2>2 DEF TeamCoded, Deref
  <2> QED
    BY <2>1, <2>2
<1>9. EndDrained'
  <2>1. ended => t # Master
    BY DEF NestInv, PhaseInv, Fits
  <2> QED
    BY <1>1, <2>1, BeginsStack, CodesAre DEF CodeInv, EndDrained
<1> QED
  BY <1>4, <1>7, <1>8, <1>9 DEF CodeInv

LEMMA CodeCloses ==
    ASSUME TypeInv, NestInv, CodeInv, NEW t \in Threads, Ends(t), team'.pdata = team.pdata
    PROVE  CodeInv'
<1>1. /\ slots' = slots /\ \A u \in Threads \ {t} : top'[u] = top[u]
      /\ top'[t] <= top[t] /\ top'[t] \in Nat /\ ended' = ended
  BY EndsStack DEF Ends
<1>2. \A u \in Threads : top[u] \in Nat /\ top'[u] \in Nat /\ top'[u] <= top[u]
  <2> SUFFICES ASSUME NEW u \in Threads
               PROVE  top[u] \in Nat /\ top'[u] \in Nat /\ top'[u] <= top[u]
    OBVIOUS
  <2>1. top[u] \in Nat
    BY StackTyped
  <2>2. CASE u = t
    BY <1>1, <2>1, <2>2
  <2>3. CASE u # t
    BY <1>1, <2>1, <2>3
  <2> QED
    BY <2>2, <2>3
<1>3. InitialBelow'
  BY <1>1, <1>2 DEF CodeInv, InitialBelow
<1>4. RegionsCoded'
  <2> SUFFICES ASSUME NEW u \in Threads, NEW i \in DOMAIN (nest'[u]),
                      nest'[u][i].kind = "parallel", nest'[u][i].own # NULL
               PROVE  Deref(nest[u][i].own)'.code # Initial
    BY DEF RegionsCoded
  <2>1. CASE u # t
    <3>1. nest'[u] = nest[u]
      BY <2>1 DEF Ends, Closes
    <3> QED
      BY <1>1, <3>1 DEF CodeInv, RegionsCoded, Deref
  <2>2. CASE u = t
    <3>0. PICK n \in Nat : n = Len(nest[t])
      BY Innermost
    <3>1. /\ DOMAIN nest[t] = 1 .. n /\ i \in 1 .. n - 1
          /\ Alike(nest'[t][i], nest[t][i])
      BY <2>2, <3>0, Innermost DEF Ends, Closes
    <3>2. i \in DOMAIN nest[t]
      BY <3>1
    <3> QED
      BY <1>1, <2>2, <3>1, <3>2 DEF CodeInv, RegionsCoded, Deref, Alike
  <2> QED
    BY <2>1, <2>2
<1>5. TeamCoded'
  BY <1>1 DEF CodeInv, TeamCoded, Deref
<1>6. EndDrained'
  <2>1. ended => t # Master
    BY DEF NestInv, PhaseInv, Idle, Ends
  <2> QED
    BY <1>1, <2>1, CodesAre DEF CodeInv, EndDrained
<1> QED
  BY <1>3, <1>4, <1>5, <1>6 DEF CodeInv

-----------------------------------------------------------------------------
\* What each begin pushes is not the initial region's.
LEMMA ParallelCode ==
    ASSUME NEW t \in Threads, NEW c \in ParallelCodes, NEW d, ParallelBegun(t, c, d)
    PROVE  c # Initial
BY CodesAre

LEMMA TaskCode ==
    ASSUME TypeInv, NestInv, CodeInv, NEW t \in Threads, NEW d, TaskBegun(t, d)
    PROVE  d.own # NULL => Deref(d.pdata).code # Initial
<1> SUFFICES ASSUME d.own # NULL PROVE Deref(d.pdata).code # Initial
  OBVIOUS
<1>1. d.pdata # NULL /\ d.pdata = RegionFor(t)
  BY DEF TaskBegun
<1>2. CASE Idle(t)
  BY <1>1, <1>2 DEF RegionFor, CodeInv, TeamCoded
<1>3. CASE ~Idle(t)
  <2>1. Inner(t).kind = "parallel" /\ nest[t] # <<>> /\ d.pdata = Inner(t).pdata
    BY <1>1, <1>3 DEF TaskBegun, Idle, RegionFor
  <2>2. Inner(t).pdata = Inner(t).own /\ Inner(t) = nest[t][Len(nest[t])]
        /\ Len(nest[t]) \in DOMAIN nest[t]
    BY <2>1, InnerShape, Innermost DEF LinkAt
  <2> QED
    BY <1>1, <2>1, <2>2 DEF CodeInv, RegionsCoded
<1> QED
  BY <1>2, <1>3

LEMMA WorkCode ==
    ASSUME NEW c \in WorkCodes \cup MaskedCodes PROVE c # Initial
BY CodesAre

-----------------------------------------------------------------------------
(***************************************************************************)
(* The steps.                                                              *)
(***************************************************************************)
CoreInv == /\ TypeInv /\ RegisteredInv /\ NestInv /\ TeamInv
           /\ StackInv /\ CodeInv

LEMMA RegisteredKept == ASSUME RegisteredInv, registered' = registered PROVE RegisteredInv'
BY DEF RegisteredInv

\* Steps that leave constructs, stacks and team as they are.
LEMMA CoreSame ==
    ASSUME CoreInv, TypeInv',
           UNCHANGED <<mode, registered, disturbed, ended, nest, team, slots, top>>,
           restoring' \subseteq restoring
    PROVE  CoreInv'
<1>1. RegisteredInv'
  BY RegisteredKept DEF CoreInv
<1>2. /\ \A t, i : /\ ShapeAt(t, i) => ShapeAt(t, i)'
                   /\ LinkAt(t, i) => LinkAt(t, i)'
                   /\ DeliveredAt(t, i) => DeliveredAt(t, i)'
                   /\ OwnAt(t, i) => OwnAt(t, i)'
      /\ \A t : Regular(t)' = Regular(t) /\ Base(t)' = Base(t)
  BY DEF ShapeAt, LinkAt, DeliveredAt, OwnAt, Delivered, Regular, Base
<1>3. ShapeInv' /\ LinkInv' /\ DeliveredInv'
  BY <1>2 DEF CoreInv, NestInv, ShapeInv, LinkInv, DeliveredInv
<1>4. PhaseInv'
  BY DEF CoreInv, NestInv, PhaseInv, In, Idle, Inner
<1>5. TeamInv'
  BY DEF CoreInv, TeamInv, HasRegion, JoinBehind, Past
<1>6. StackInv'
  <2>1. \A t : Stacked(t) => Stacked(t)'
    BY <1>2 DEF Stacked
  <2> QED
    BY <1>2, <2>1 DEF CoreInv, StackInv, Standing
<1>7. CodeInv'
  BY DEF CoreInv, CodeInv, InitialBelow, RegionsCoded, TeamCoded, EndDrained, Deref
<1> QED
  BY <1>1, <1>3, <1>4, <1>5, <1>6, <1>7 DEF CoreInv, NestInv

LEMMA CoreCrash == ASSUME CoreInv, Crash PROVE CoreInv'
<1>1. TypeInv'
  BY CrashEffect DEF CoreInv
<1>2. UNCHANGED <<mode, registered, disturbed, ended, nest, team, slots, top, restoring>>
  BY DEF Crash, controlVars, stackVars
<1> QED
  BY <1>1, <1>2, CoreSame

LEMMA CoreOpens ==
    ASSUME CoreInv, TypeInv', NEW t \in Threads, NEW d, NEW code, Begins(t, d, code),
           Fits(t, d), d.own # NULL => code # Initial, TeamInv',
           team'.pdata = team.pdata \/ (team'.pdata = d.own /\ d.kind = "parallel")
    PROVE  CoreInv'
<1>1. registered' = registered
  BY DEF Begins
<1> QED
  BY <1>1, RegisteredKept, OpensKeepsNest, StackOpens, CodeOpens DEF CoreInv

LEMMA CoreCloses ==
    ASSUME CoreInv, TypeInv', NEW t \in Threads, Ends(t), TeamInv',
           /\ Regular(t) /\ Stacked(t) /\ (AtInitialTask(t) => registered = {})
           => EndsOwn(t),
           restoring' \in {restoring, restoring \cup {t}},
           restoring' # restoring => Inner(t).kind = "parallel",
           team'.pdata = team.pdata
    PROVE  CoreInv'
<1>1. registered' = registered
  BY DEF Ends
<1> QED
  BY <1>1, RegisteredKept, ClosesKeepsNest, StackCloses, CodeCloses DEF CoreInv

LEMMA CoreParallelBegin ==
    ASSUME CoreInv, NEW t \in Threads, NEW c \in ParallelCodes, ParallelBegin(t, c)
    PROVE  CoreInv'
<1>1. CASE Crash
  BY <1>1, CoreCrash
<1>2. ASSUME TypeInv', NEW d, ParallelBegun(t, c, d) PROVE CoreInv'
  <2>1. Begins(t, d, c) /\ Fits(t, d) /\ TeamInv' /\ c # Initial /\ d.kind = "parallel"
    BY <1>2, ParallelFits, ParallelBegunTeam, ParallelCode DEF CoreInv, ParallelBegun
  <2>2. team'.pdata = team.pdata \/ team'.pdata = d.own
    BY <1>2 DEF ParallelBegun
  <2> QED
    BY <1>2, <2>1, <2>2, CoreOpens
<1> QED
  BY <1>1, <1>2, ParallelBeginEffect DEF CoreInv

LEMMA CoreTaskBegin ==
    ASSUME CoreInv, NEW t \in Threads, ImplicitTaskBegin(t)
    PROVE  CoreInv'
<1>1. CASE Crash
  BY <1>1, CoreCrash
<1>2. ASSUME TypeInv', NEW d, TaskBegun(t, d) PROVE CoreInv'
  <2>1. /\ Begins(t, d, Deref(d.pdata).code) /\ Fits(t, d) /\ TeamInv'
        /\ d.own # NULL => Deref(d.pdata).code # Initial
    BY <1>2, TaskFits, TaskBegunTeam, TaskCode DEF CoreInv, TaskBegun
  <2>2. team'.pdata = team.pdata
    BY <1>2 DEF TaskBegun, CoreInv, TypeInv, Teams
  <2>3. PICK code : code = Deref(d.pdata).code
    OBVIOUS
  <2>4. Begins(t, d, code) /\ (d.own # NULL => code # Initial)
    BY <2>1, <2>3
  <2> QED
    BY <1>2, <2>1, <2>2, <2>4, CoreOpens
<1> QED
  BY <1>1, <1>2, ImplicitTaskBeginEffect DEF CoreInv

LEMMA CoreWorkBegin ==
    ASSUME CoreInv, NEW t \in Threads, NEW k \in {"work", "masked"},
           NEW c \in WorkCodes \cup MaskedCodes, WorkBegin(t, k, c)
    PROVE  CoreInv'
<1>1. CASE Crash
  BY <1>1, CoreCrash
<1>2. ASSUME TypeInv', NEW d, WorkBegun(t, k, c, d) PROVE CoreInv'
  <2>1. Begins(t, d, c) /\ Fits(t, d) /\ c # Initial /\ d.kind = k /\ ~d.joined
        /\ team' = team
    BY <1>2, WorkFits, WorkCode DEF CoreInv, WorkBegun
  <2>2. Inner(t).kind = "task" /\ ~Inner(t).joined /\ nest[t] # <<>>
    BY <1>2, BodyShape DEF CoreInv, WorkBegun, InBody, Idle
  <2>3. TeamInv'
    BY <2>1, <2>2, InsideBegunTeam DEF CoreInv
  <2> QED
    BY <1>2, <2>1, <2>3, CoreOpens
<1> QED
  BY <1>1, <1>2, WorkBeginEffect DEF CoreInv

LEMMA CoreMpiBegin ==
    ASSUME CoreInv, NEW t \in Threads, MpiBegin(t)
    PROVE  CoreInv'
<1>1. CASE Crash
  BY <1>1, CoreCrash
<1>2. ASSUME TypeInv', NEW d, MpiBegun(t, d) PROVE CoreInv'
  <2>1. Begins(t, d, MpiCode) /\ Fits(t, d) /\ MpiCode # Initial /\ d.kind = "mpi"
        /\ ~d.joined /\ team' = team
    BY <1>2, MpiFits, CodesAre DEF CoreInv, MpiBegun
  <2>2. Inner(t).kind = "task" /\ ~Inner(t).joined /\ nest[t] # <<>>
    BY <1>2 DEF MpiBegun, In, Idle
  <2>3. TeamInv'
    BY <2>1, <2>2, InsideBegunTeam DEF CoreInv
  <2> QED
    BY <1>2, <2>1, <2>3, CoreOpens
<1> QED
  BY <1>1, <1>2, MpiBeginEffect DEF CoreInv

LEMMA CoreBarrierBegin ==
    ASSUME CoreInv, NEW t \in Threads, NEW join \in BOOLEAN, BarrierBegin(t, join)
    PROVE  CoreInv'
<1>1. ASSUME TypeInv', NEW d, BarrierBegun(t, join, d) PROVE CoreInv'
  <2>1. Begins(t, d, NoCode) /\ Fits(t, d) /\ TeamInv' /\ d.own = NULL
    BY <1>1, BarrierFits, BarrierBegunTeam DEF CoreInv, BarrierBegun
  <2>2. team'.pdata = team.pdata
    BY <1>1 DEF BarrierBegun, CoreInv, TypeInv, Teams
  <2> QED
    BY <1>1, <2>1, <2>2, CoreOpens
<1> QED
  BY <1>1, BarrierBeginEffect DEF CoreInv

-----------------------------------------------------------------------------
LEMMA CoreTaskEnd ==
    ASSUME CoreInv, NEW t \in Threads, ImplicitTaskEnd(t)
    PROVE  CoreInv'
<1>1. CASE Crash
  BY <1>1, CoreCrash
<1>2. ASSUME TypeInv', TaskEnded(t) PROVE CoreInv'
  <2>1. /\ Ends(t) /\ Prefix(t) /\ Inner(t).kind = "task" /\ team' = team
        /\ restoring' = restoring
    BY <1>2 DEF TaskEnded, In
  <2>2. TeamInv'
    BY <2>1, ClosesTeam DEF CoreInv
  <2>3. Regular(t) /\ (AtInitialTask(t) => registered = {}) => EndsOwn(t)
    BY <1>2, TaskEndedOwn DEF CoreInv
  <2> QED
    BY <1>2, <2>1, <2>2, <2>3, CoreCloses
<1> QED
  BY <1>1, <1>2, ImplicitTaskEndEffect DEF CoreInv, TaskEnded

LEMMA CoreParallelEnd ==
    ASSUME CoreInv, NEW t \in Threads, ParallelEnd(t)
    PROVE  CoreInv'
<1>1. CASE Crash
  BY <1>1, CoreCrash
<1>2. ASSUME TypeInv', ParallelEnded(t) PROVE CoreInv'
  <2>1. Ends(t) /\ Inner(t).kind = "parallel" /\ restoring' \in {restoring, restoring \cup {t}}
    BY <1>2 DEF ParallelEnded, In
  <2>2. TeamInv' /\ (Regular(t) => EndsOwn(t))
    BY <1>2, ParallelEndedTeam, ParallelEndedOwn DEF CoreInv
  <2>3. team'.pdata = team.pdata
    BY <1>2 DEF ParallelEnded, CoreInv, TypeInv, Teams
  <2> QED
    BY <1>2, <2>1, <2>2, <2>3, CoreCloses
<1> QED
  BY <1>1, <1>2, ParallelEndEffect DEF CoreInv

LEMMA CoreWorkEnd ==
    ASSUME CoreInv, NEW t \in Threads, WorkEnd(t)
    PROVE  CoreInv'
<1>1. CASE Crash
  BY <1>1, CoreCrash
<1>2. ASSUME TypeInv', WorkEnded(t) PROVE CoreInv'
  <2>1. /\ Ends(t) /\ Prefix(t) /\ Inner(t).kind \in {"work", "masked"} /\ team' = team
        /\ restoring' = restoring
    BY <1>2 DEF WorkEnded, In
  <2>2. TeamInv'
    BY <2>1, ClosesTeam DEF CoreInv
  <2>3. Regular(t) /\ Stacked(t) => EndsOwn(t)
    BY <1>2, WorkEndedOwn DEF CoreInv
  <2> QED
    BY <1>2, <2>1, <2>2, <2>3, CoreCloses
<1> QED
  BY <1>1, <1>2, WorkEndEffect DEF CoreInv

LEMMA CoreBarrierEnd ==
    ASSUME CoreInv, NEW t \in Threads, BarrierEnd(t)
    PROVE  CoreInv'
<1>1. CASE Crash
  BY <1>1, CoreCrash
<1>2. ASSUME TypeInv', BarrierEnded(t) PROVE CoreInv'
  <2>1. Ends(t) /\ team' = team /\ restoring' = restoring
    BY <1>2 DEF BarrierEnded
  <2>2. TeamInv' /\ EndsOwn(t)
    BY <1>2, BarrierEndedTeam, BarrierEndedOwn DEF CoreInv
  <2> QED
    BY <1>2, <2>1, <2>2, CoreCloses
<1> QED
  BY <1>1, <1>2, BarrierEndEffect DEF CoreInv

LEMMA CoreMpiEnd ==
    ASSUME CoreInv, NEW t \in Threads, MpiEnd(t)
    PROVE  CoreInv'
<1>1. TypeInv' /\ MpiEnded(t)
  BY MpiEndEffect DEF CoreInv
<1>2. /\ Ends(t) /\ Prefix(t) /\ Inner(t).kind = "mpi" /\ team' = team
      /\ restoring' = restoring
  BY <1>1 DEF MpiEnded, In
<1>3. TeamInv'
  BY <1>2, ClosesTeam DEF CoreInv
<1>4. Stacked(t) => EndsOwn(t)
  BY <1>1, MpiEndedOwn DEF CoreInv
<1> QED
  BY <1>1, <1>2, <1>3, <1>4, CoreCloses

LEMMA CoreRestore ==
    ASSUME CoreInv, NEW t \in Threads, ParallelRestore(t)
    PROVE  CoreInv'
<1>1. CASE Crash
  BY <1>1, CoreCrash
<1>2. CASE TypeInv' /\ ParallelRestored(t)
  <2>1. /\ UNCHANGED <<mode, registered, disturbed, ended, nest, team, slots, top>>
        /\ restoring' \subseteq restoring
    BY <1>2 DEF ParallelRestored, controlVars, stackVars
  <2> QED
    BY <1>2, <2>1, CoreSame
<1>3. In(t, {"task"})
  BY DEF ParallelRestore, CoreInv, NestInv, PhaseInv
<1> QED
  BY <1>1, <1>2, <1>3, ParallelRestoreEffect DEF CoreInv

LEMMA CoreSwitch ==
    ASSUME CoreInv, NEW m \in Modes, SwitchMode(m)
    PROVE  CoreInv'
<1>1. TypeInv'
  BY SwitchModeEffect DEF CoreInv
<1>2. /\ UNCHANGED <<registered, ended, nest, team, slots, top, restoring>>
      /\ Disturb
  BY DEF SwitchMode, stackVars
<1>3. RegisteredInv'
  BY <1>2, RegisteredKept DEF CoreInv
<1>4. /\ \A t, i : /\ ShapeAt(t, i) => ShapeAt(t, i)'
                   /\ LinkAt(t, i) => LinkAt(t, i)'
                   /\ OwnAt(t, i) => OwnAt(t, i)'
      /\ \A t : Base(t)' = Base(t) /\ (Regular(t)' => Regular(t))
  BY <1>2 DEF ShapeAt, LinkAt, OwnAt, Regular, Base, Disturb
<1>5. ShapeInv' /\ LinkInv'
  BY <1>2, <1>4 DEF CoreInv, NestInv, ShapeInv, LinkInv
<1>6. DeliveredInv'
  <2> SUFFICES ASSUME NEW t \in Threads, Regular(t)', NEW i \in DOMAIN (nest'[t])
               PROVE  DeliveredAt(t, i)'
    BY DEF DeliveredInv
  <2>1. CASE registered = {}
    <3>1. DeliveredAt(t, i)
      BY <1>2, <2>1 DEF CoreInv, NestInv, DeliveredInv, Regular
    <3> QED
      BY <1>2, <2>1, <3>1 DEF DeliveredAt, Delivered
  <2>2. CASE registered # {}
    <3>1. t \notin disturbed' /\ (Idle(t) \/ AtInitialTask(t))
      BY <1>2, <2>2 DEF Regular, Disturb
    <3>2. i \in 1 .. Len(nest[t]) /\ Len(nest[t]) \in Nat /\ (Idle(t) => Len(nest[t]) = 0)
      BY <1>2, Innermost DEF CoreInv, Idle
    <3>3. AtInitialTask(t) /\ i = 1
      BY <3>1, <3>2 DEF AtInitialTask
    <3>4. ShapeAt(t, 1)
      BY <1>2, <3>3 DEF CoreInv, NestInv, ShapeInv
    <3> QED
      BY <1>2, <3>3, <3>4 DEF ShapeAt, DeliveredAt, Initially, AtInitialTask
  <2> QED
    BY <2>1, <2>2
<1>7. PhaseInv'
  BY <1>2 DEF CoreInv, NestInv, PhaseInv, In, Idle, Inner
<1>8. TeamInv'
  BY <1>2 DEF CoreInv, TeamInv, HasRegion, JoinBehind, Past
<1>9. StackInv'
  <2>1. \A t : Stacked(t) => Stacked(t)'
    BY <1>2, <1>4 DEF Stacked
  <2>2. \A t : Standing(t)' => Standing(t)
    BY <1>2 DEF Standing
  <2> QED
    BY <1>4, <2>1, <2>2 DEF CoreInv, StackInv
<1>10. CodeInv'
  BY <1>2 DEF CoreInv, CodeInv, InitialBelow, RegionsCoded, TeamCoded, EndDrained, Deref
<1> QED
  BY <1>1, <1>3, <1>5, <1>6, <1>7, <1>8, <1>9, <1>10 DEF CoreInv, NestInv

LEMMA CoreThreadEnd == ASSUME CoreInv, ThreadEnd PROVE CoreInv'
<1>1. /\ UNCHANGED <<mode, registered, disturbed, nest, team, slots, restoring>>
      /\ ended' = TRUE /\ Idle(Master) /\ Master \in Threads
      /\ (registered = {} => top' = top)
  BY CodesAre DEF ThreadEnd, controlVars
<1>2. /\ TypeInv'
      /\ top'[Master] \in Nat /\ top'[Master] <= top[Master]
      /\ \A u \in Threads \ {Master} : top'[u] = top[u]
      /\ registered # {} /\ (\A n \in 1 .. top[Master] :
                                slots[Master][n].code = Initial => n <= 2)
         => top'[Master] <= 1
  BY ThreadEndEffect DEF CoreInv
<1>3. RegisteredInv'
  BY <1>1, RegisteredKept DEF CoreInv
<1>4. /\ \A t, i : /\ ShapeAt(t, i) => ShapeAt(t, i)'
                   /\ LinkAt(t, i) => LinkAt(t, i)'
                   /\ DeliveredAt(t, i) => DeliveredAt(t, i)'
      /\ \A t : Regular(t)' = Regular(t)
  BY <1>1 DEF ShapeAt, LinkAt, DeliveredAt, Delivered, Regular
<1>5. ShapeInv' /\ LinkInv' /\ DeliveredInv'
  BY <1>1, <1>4 DEF CoreInv, NestInv, ShapeInv, LinkInv, DeliveredInv
<1>6. PhaseInv'
  BY <1>1 DEF CoreInv, NestInv, PhaseInv, In, Idle, Inner
<1>7. TeamInv'
  BY <1>1 DEF CoreInv, TeamInv, HasRegion, JoinBehind, Past
<1>8. StackInv'
  <2> SUFFICES ASSUME NEW t \in Threads, Regular(t)', Standing(t)'
               PROVE  Stacked(t)'
    BY DEF StackInv
  <2>1. Regular(t) /\ Standing(t) /\ Stacked(t)
    BY <1>1, <1>4 DEF CoreInv, StackInv, Standing
  <2>2. t # Master \/ registered = {}
    BY <1>1 DEF Standing, Idle
  <2>3. nest'[t] = nest[t] /\ slots'[t] = slots[t] /\ top'[t] = top[t]
        /\ registered' = registered
    BY <1>1, <1>2, <2>2
  <2> QED
    BY <2>1, <2>3, StackElsewhere
<1>9. CodeInv'
  <2>1. \A u \in Threads : top[u] \in Nat /\ top'[u] \in Nat /\ top'[u] <= top[u]
    <3> SUFFICES ASSUME NEW u \in Threads
                 PROVE  top[u] \in Nat /\ top'[u] \in Nat /\ top'[u] <= top[u]
      OBVIOUS
    <3>1. top[u] \in Nat
      BY StackTyped DEF CoreInv
    <3>2. CASE u = Master
      BY <1>2, <3>1, <3>2
    <3>3. CASE u # Master
      BY <1>2, <3>1, <3>3
    <3> QED
      BY <3>2, <3>3
  <2>2. InitialBelow'
    BY <1>1, <2>1 DEF CoreInv, CodeInv, InitialBelow
  <2>3. RegionsCoded' /\ TeamCoded'
    BY <1>1 DEF CoreInv, CodeInv, RegionsCoded, TeamCoded, Deref
  <2>4. top'[Master] <= 1
    <3>1. CASE registered # {}
      BY <1>1, <1>2, <3>1 DEF CoreInv, CodeInv, InitialBelow
    <3>2. CASE registered = {}
      <4>1. Stacked(Master) /\ Base(Master) = 0 /\ DOMAIN nest[Master] = {}
        <5>1. Stacked(Master) /\ Base(Master) = 0
          BY <1>1, <3>2 DEF CoreInv, StackInv, Regular, Standing, Base
        <5>2. DOMAIN nest[Master] = 1 .. 0
          BY <1>1 DEF Idle
        <5> QED
          BY <5>1, <5>2
      <4>2. ~(1 \in 0 + 1 .. top[Master])
        BY <4>1 DEF Stacked
      <4>3. top[Master] \in Nat /\ top' = top
        BY <1>1, <2>1, <3>2
      <4> QED
        BY <4>2, <4>3
    <3> QED
      BY <3>1, <3>2
  <2> QED
    BY <2>2, <2>3, <2>4 DEF CodeInv, EndDrained
<1> QED
  BY <1>2, <1>3, <1>5, <1>6, <1>7, <1>8, <1>9 DEF CoreInv, NestInv

-----------------------------------------------------------------------------
LEMMA InitialMode ==
    ASSUME Init
    PROVE  \/ mode = "OFF" /\ registered = {}
           \/ mode = "MONITORING" /\ registered = {"parallel_begin", "parallel_end"}
           \/ mode = "TRACING" /\ registered = AllCallbacks
BY CallbacksAre DEF Init, OmptInitialize, CallbacksOf, Modes

InitialTop == IF mode = "TRACING" THEN 2 ELSE IF mode = "MONITORING" THEN 1 ELSE 0
InitialRegion == IF Active(mode) THEN <<Master, 1>> ELSE NULL
InitialTask == IF Tracing THEN <<Master, 2>> ELSE NULL
InitialConstruct == Opened("task", Initial, IF Tracing THEN InitialRegion ELSE NULL,
                           InitialTask, InitialTask, FALSE)

LEMMA InitialStack ==
    ASSUME Init
    PROVE  top = [t \in Threads |-> IF t # Master THEN 0 ELSE InitialTop]
<1>1. top = [t \in Threads |-> IF t # Master THEN 0
                               ELSE Cardinality({InitialRegion, InitialTask} \ {NULL})]
  BY DEF Init, InitialRegion, InitialTask
<1>2. <<Master, 1>> # <<Master, 2>> /\ <<Master, 1>> # NULL /\ <<Master, 2>> # NULL
  BY PointersAre
<1>3. Cardinality({InitialRegion, InitialTask} \ {NULL}) = InitialTop
  <2>1. CASE mode = "TRACING"
    <3>1. {InitialRegion, InitialTask} \ {NULL} = {<<Master, 1>>} \cup {<<Master, 2>>}
      BY <1>2, <2>1 DEF InitialRegion, InitialTask, Active, Tracing
    <3>2. IsFiniteSet({<<Master, 1>>}) /\ Cardinality({<<Master, 1>>}) = 1
      BY FS_Singleton
    <3>3. <<Master, 2>> \notin {<<Master, 1>>}
      BY <1>2
    <3>4. Cardinality({<<Master, 1>>} \cup {<<Master, 2>>}) = 1 + 1
      BY <3>2, <3>3, FS_AddElement
    <3> QED
      BY <2>1, <3>1, <3>4 DEF InitialTop
  <2>2. CASE mode = "MONITORING"
    <3>1. {InitialRegion, InitialTask} \ {NULL} = {<<Master, 1>>}
      BY <1>2, <2>2 DEF InitialRegion, InitialTask, Active, Tracing
    <3> QED
      BY <2>2, <3>1, FS_Singleton DEF InitialTop
  <2>3. CASE mode = "OFF"
    <3>1. {InitialRegion, InitialTask} \ {NULL} = {}
      BY <1>2, <2>3 DEF InitialRegion, InitialTask, Active, Tracing
    <3> QED
      BY <2>3, <3>1, FS_EmptySet DEF InitialTop
  <2> QED
    BY <2>1, <2>2, <2>3, InitialMode
<1> QED
  BY <1>1, <1>3

LEMMA InitialNest ==
    ASSUME Init
    PROVE  /\ nest = [t \in Threads |-> IF t = Master THEN <<InitialConstruct>> ELSE <<>>]
           /\ InitialConstruct \in Construct
           /\ InitialConstruct.kind = "task" /\ ~InitialConstruct.joined
           /\ InitialConstruct.own = InitialTask /\ InitialConstruct.tdata = InitialTask
           /\ InitialConstruct.pdata = (IF Tracing THEN <<Master, 1>> ELSE NULL)
           /\ InitialConstruct.shown = FALSE
           /\ DOMAIN nest[Master] = {1} /\ Len(nest[Master]) = 1
           /\ nest[Master] # <<>> /\ nest[Master][1] = InitialConstruct
           /\ \A t \in Workers : nest[t] = <<>> /\ DOMAIN nest[t] = {}
<1>1. nest = [t \in Threads |-> IF t = Master THEN <<InitialConstruct>> ELSE <<>>]
  BY DEF Init, InitialConstruct, InitialRegion, InitialTask
<1>2. /\ InitialConstruct.kind = "task" /\ ~InitialConstruct.joined
      /\ InitialConstruct.own = InitialTask /\ InitialConstruct.tdata = InitialTask
      /\ InitialConstruct.pdata = (IF Tracing THEN <<Master, 1>> ELSE NULL)
      /\ InitialConstruct.shown = FALSE
  BY DEF InitialConstruct, Opened, InitialRegion, Tracing, Active
<1>3. InitialConstruct \in Construct
  <2>1. InitialTask \in Pointers /\ (IF Tracing THEN InitialRegion ELSE NULL) \in Pointers
    BY PointersAre, CodesAre DEF InitialTask, InitialRegion
  <2> QED
    BY <2>1, CodesAre DEF InitialConstruct, Opened, Construct, Kinds
<1>4. DOMAIN <<InitialConstruct>> = {1} /\ Len(<<InitialConstruct>>) = 1
      /\ <<InitialConstruct>> # <<>> /\ <<InitialConstruct>>[1] = InitialConstruct
  OBVIOUS
<1>5. DOMAIN <<>> = {}
  OBVIOUS
<1> HIDE DEF InitialConstruct
<1>6. nest[Master] = <<InitialConstruct>> /\ \A t \in Workers : nest[t] = <<>>
  BY <1>1, CodesAre
<1> QED
  BY <1>1, <1>2, <1>3, <1>4, <1>5, <1>6

LEMMA InitType == ASSUME Init PROVE TypeInv
<1>1. InitialTop \in 0 .. MaxDepth
  BY CodesAre DEF InitialTop
<1>2. NestTypes
  <2>1. <<InitialConstruct>> \in Seq(Construct) /\ <<>> \in Seq(Construct)
    BY InitialNest
  <2> QED
    BY <2>1, InitialNest DEF NestTypes
<1>3. StackTypes
  <2>1. 0 \in 0 .. MaxDepth
    BY CodesAre
  <2>2. top \in [Threads -> 0 .. MaxDepth]
    BY <1>1, <2>1, InitialStack
  <2>3. /\ [kind |-> "task", code |-> Initial] \in Record
        /\ [kind |-> "parallel", code |-> Initial] \in Record
    BY CodesAre DEF Record, Kinds
  <2>4. slots = [t \in Threads |-> [i \in 1 .. MaxDepth |->
                   [kind |-> IF t = Master /\ i = 2 THEN "task" ELSE "parallel",
                    code |-> Initial]]]
    BY DEF Init
  <2>5. \A t, i : [kind |-> IF t = Master /\ i = 2 THEN "task" ELSE "parallel",
                  code |-> Initial] \in Record
    BY <2>3
  <2>6. slots \in [Threads -> [1 .. MaxDepth -> Record]]
    BY <2>4, <2>5
  <2> QED
    BY <2>2, <2>6 DEF StackTypes
<1>4. context \in [Threads -> Context]
  BY PointersAre, CodesAre DEF Init, Context
<1>5. OtherTypes
  <2>1. 0 \in 0 .. MaxConstructs /\ 0 \in 0 .. MaxSwitches
    BY CodesAre
  <2>2. /\ mode \in Modes /\ restoring = {} /\ disturbed = {} /\ unpaired = {}
        /\ miscounted = {} /\ ended = FALSE /\ crashed = FALSE
        /\ constructs = 0 /\ switches = 0
    BY DEF Init
  <2> QED
    BY <2>1, <2>2 DEF OtherTypes
<1>6. team \in Teams
  <2>1. team = [open |-> FALSE, pdata |-> NULL, entered |-> {}, arrived |-> {}]
    BY DEF Init
  <2>2. NULL \in Pointers /\ {} \in SUBSET Threads /\ FALSE \in BOOLEAN
    BY PointersAre
  <2> HIDE DEF NULL
  <2> QED
    BY <2>1, <2>2 DEF Teams
<1>7. traced \subseteq Lexgions
  BY DEF Init
<1> QED
  BY <1>2, <1>3, <1>4, <1>5, <1>6, <1>7, TypeParts

LEMMA InitCore == Init => CoreInv
<1> SUFFICES ASSUME Init PROVE CoreInv
  OBVIOUS
<1>1. TypeInv
  BY InitType
<1>2. RegisteredInv
  BY InitialMode DEF RegisteredInv
<1>3. Master \in Threads /\ Workers = Threads \ {Master}
  BY CodesAre
<1>4. \A t \in Threads : \A i \in DOMAIN nest[t] :
         t = Master /\ i = 1 /\ nest[t][i] = InitialConstruct
  BY <1>3, InitialNest
<1>5. ShapeInv
  BY <1>4, InitialNest DEF ShapeInv, ShapeAt
<1>6. LinkInv
  <2>1. LinkAt(Master, 1)
    <3>1. "implicit_task" \in registered <=> Tracing
      BY InitialMode DEF Tracing, AllCallbacks
    <3> QED
      BY <3>1, InitialNest DEF LinkAt, Initially, InitialTask, Inside
  <2> QED
    BY <1>4, <2>1 DEF LinkInv
<1>7. DeliveredInv
  BY <1>4, InitialNest DEF DeliveredInv, DeliveredAt, Initially
<1>8. PhaseInv
  BY DEF PhaseInv, Init
<1>9. TeamInv
  <2>1. ~HasRegion /\ ~JoinBehind /\ ~(Len(nest[Master]) > 2)
    BY InitialNest DEF HasRegion, JoinBehind
  <2> QED
    BY <2>1, InitialNest DEF TeamInv, Init
<1>10. /\ top[Master] = InitialTop /\ \A t \in Workers : top[t] = 0
       /\ \A t \in Threads : \A i \in 1 .. MaxDepth :
             slots[t][i] = [kind |-> IF t = Master /\ i = 2 THEN "task" ELSE "parallel",
                            code |-> Initial]
  BY <1>3, InitialStack DEF Init
<1>11. StackInv
  <2> SUFFICES ASSUME NEW t \in Threads PROVE Stacked(t)
    BY DEF StackInv
  <2>1. CASE t # Master
    <3>1. nest[t] = <<>> /\ DOMAIN nest[t] = {} /\ top[t] = 0 /\ Base(t) = 0
      BY <1>3, <1>10, <2>1, InitialNest DEF Base
    <3> QED
      BY <3>1 DEF Stacked
  <2>2. CASE t = Master
    <3>1. CASE mode = "TRACING"
      <4>1. /\ top[t] = 2 /\ Base(t) = 1 /\ InitialTask = <<Master, 2>>
            /\ 1 \in 1 .. MaxDepth /\ 2 \in 1 .. MaxDepth
        BY <1>10, <2>2, <3>1, InitialMode, CodesAre
           DEF InitialTop, Base, AllCallbacks, InitialTask, Tracing
      <4>2. nest[t][1].own = <<t, 2>> /\ nest[t][1].kind = "task" /\ DOMAIN nest[t] = {1}
        BY <2>2, <4>1, InitialNest
      <4>3. slots[t][2].kind = "task" /\ slots[t][1] = [kind |-> "parallel", code |-> Initial]
        <5>1. slots[t][2] = [kind |-> IF t = Master /\ 2 = 2 THEN "task" ELSE "parallel",
                             code |-> Initial]
          BY <1>10, <4>1
        <5>2. slots[t][1] = [kind |-> IF t = Master /\ 1 = 2 THEN "task" ELSE "parallel",
                             code |-> Initial]
          BY <1>10, <4>1
        <5>3. slots[t][2] = [kind |-> "task", code |-> Initial]
          BY <2>2, <5>1
        <5> QED
          BY <5>2, <5>3
      <4>4. OwnAt(t, 1)
        BY <4>1, <4>2, <4>3 DEF OwnAt
      <4>5. \A n \in Base(t) + 1 .. top[t] : n = 2
        BY <4>1
      <4> QED
        BY <4>1, <4>2, <4>3, <4>4, <4>5 DEF Stacked
    <3>2. CASE mode # "TRACING"
      <4>1. /\ top[t] = Base(t) /\ Base(t) \in {0, 1} /\ InitialTask = NULL
            /\ 1 \in 1 .. MaxDepth
        BY <1>10, <2>2, <3>2, InitialMode, CodesAre
           DEF InitialTop, Base, InitialTask, Tracing
      <4>2. nest[t][1].own = NULL /\ DOMAIN nest[t] = {1}
        BY <2>2, <4>1, InitialNest
      <4>3. slots[t][1] = [kind |-> "parallel", code |-> Initial]
        BY <1>10, <2>2, <4>1
      <4>4. \A n : ~(n \in Base(t) + 1 .. top[t])
        BY <4>1
      <4> QED
        BY <4>1, <4>2, <4>3, <4>4 DEF Stacked, OwnAt
    <3> QED
      BY <3>1, <3>2
  <2> QED
    BY <2>1, <2>2
<1>12. CodeInv
  <2>1. InitialBelow
    <3>1. InitialTop \in 0 .. 2
      BY DEF InitialTop
    <3> QED
      BY <1>3, <1>10, <3>1 DEF InitialBelow
  <2>2. RegionsCoded
    BY <1>4, InitialNest DEF RegionsCoded
  <2> QED
    BY <2>1, <2>2 DEF CodeInv, TeamCoded, EndDrained, Init
<1> QED
  BY <1>1, <1>2, <1>5, <1>6, <1>7, <1>8, <1>9, <1>11, <1>12 DEF CoreInv, NestInv

LEMMA NextCore == CoreInv /\ [Next]_vars => CoreInv'
<1> SUFFICES ASSUME CoreInv, [Next]_vars PROVE CoreInv'
  OBVIOUS
<1>1. CASE UNCHANGED vars
  <2>1. TypeInv'
    BY <1>1 DEF CoreInv, TypeInv, vars, controlVars, stackVars, ghostVars
  <2>2. /\ UNCHANGED <<mode, registered, disturbed, ended, nest, team, slots, top>>
        /\ restoring' \subseteq restoring
    BY <1>1 DEF vars, controlVars, stackVars
  <2> QED
    BY <2>1, <2>2, CoreSame
<1>2. ASSUME NEW t \in Threads, NEW c \in ParallelCodes, ParallelBegin(t, c) PROVE CoreInv'
  BY <1>2, CoreParallelBegin
<1>3. ASSUME NEW t \in Threads, ImplicitTaskBegin(t) PROVE CoreInv'
  BY <1>3, CoreTaskBegin
<1>4. ASSUME NEW t \in Threads, ImplicitTaskEnd(t) PROVE CoreInv'
  BY <1>4, CoreTaskEnd
<1>5. ASSUME NEW t \in Threads, ParallelEnd(t) PROVE CoreInv'
  BY <1>5, CoreParallelEnd
<1>6. ASSUME NEW t \in Threads, ParallelRestore(t) PROVE CoreInv'
  BY <1>6, CoreRestore
<1>7. ASSUME NEW t \in Threads, NEW c \in WorkCodes, WorkBegin(t, "work", c) PROVE CoreInv'
  BY <1>7, CoreWorkBegin
<1>8. ASSUME NEW t \in Threads, NEW c \in MaskedCodes, WorkBegin(t, "masked", c)
      PROVE  CoreInv'
  BY <1>8, CoreWorkBegin
<1>9. ASSUME NEW t \in Threads, WorkEnd(t) PROVE CoreInv'
  BY <1>9, CoreWorkEnd
<1>10. ASSUME NEW t \in Threads, NEW join \in BOOLEAN, BarrierBegin(t, join) PROVE CoreInv'
  BY <1>10, CoreBarrierBegin
<1>11. ASSUME NEW t \in Threads, BarrierEnd(t) PROVE CoreInv'
  BY <1>11, CoreBarrierEnd
<1>12. ASSUME NEW t \in Threads, MpiBegin(t) PROVE CoreInv'
  BY <1>12, CoreMpiBegin
<1>13. ASSUME NEW t \in Threads, MpiEnd(t) PROVE CoreInv'
  BY <1>13, CoreMpiEnd
<1>14. CASE ThreadEnd
  BY <1>14, CoreThreadEnd
<1>15. ASSUME NEW m \in Modes, SwitchMode(m) PROVE CoreInv'
  BY <1>15, CoreSwitch
<1>16. CASE Done
  BY <1>1, <1>16 DEF Done
<1> QED
  BY <1>1, <1>2, <1>3, <1>4, <1>5, <1>6, <1>7, <1>8, <1>9, <1>10, <1>11, <1>12, <1>13,
     <1>14, <1>15, <1>16 DEF Next

LEMMA CoreHolds == Spec => []CoreInv
<1> QED
  BY InitCore, NextCore, PTL DEF Spec

-----------------------------------------------------------------------------
(***************************************************************************)
(* What the invariant gives.                                               *)
(***************************************************************************)
\* The values the callbacks keep have their types, and those who arrived at the
\* join of the outermost region had entered it.
THEOREM OmptTypeCorrect == Spec => []TypeOK
<1>1. CoreInv => TypeOK
  <2> SUFFICES ASSUME CoreInv PROVE TypeOK
    OBVIOUS
  <2>1. TypeInv /\ RegisteredInv /\ TeamInv
    BY DEF CoreInv
  <2>2. registered \subseteq ToSet(Callbacks)
    BY <2>1, CallbacksAre DEF RegisteredInv, AllCallbacks
  <2>3. \A t \in Threads : \A i \in DOMAIN nest[t] : nest[t][i] \in Construct
    BY <2>1, Innermost
  <2>4. /\ team.pdata \in Pointers /\ team.entered \subseteq Threads
        /\ team.arrived \subseteq team.entered
    BY <2>1 DEF TypeInv, Teams, TeamInv
  <2>5. /\ mode \in Modes
        /\ slots \in [Threads -> [1 .. MaxDepth -> Record]]
        /\ top \in [Threads -> 0 .. MaxDepth]
        /\ traced \subseteq Lexgions /\ context \in [Threads -> Context]
        /\ restoring \subseteq Threads /\ disturbed \subseteq Threads
        /\ unpaired \subseteq Threads \X Kinds \X BOOLEAN /\ miscounted \subseteq Threads
        /\ constructs \in 0 .. MaxConstructs /\ switches \in 0 .. MaxSwitches
    BY <2>1 DEF TypeInv
  <2> QED
    BY <2>2, <2>3, <2>4, <2>5 DEF TypeOK
<1> QED
  BY <1>1, CoreHolds, PTL

\* The owners are as they are in Stacked.
LEMMA StackedMatches ==
    ASSUME TypeInv, NEW t \in Threads, Stacked(t)
    PROVE  LET owners == {i \in DOMAIN nest[t] : nest[t][i].own # NULL} IN
           /\ \A i \in owners : Deref(nest[t][i].own).kind = nest[t][i].kind
           /\ \A i, j \in owners : i < j => nest[t][i].own[2] < nest[t][j].own[2]
           /\ top[t] >= Base(t)
           /\ {nest[t][i].own : i \in owners} = {<<t, n>> : n \in Base(t) + 1 .. top[t]}
<1> DEFINE owners == {i \in DOMAIN nest[t] : nest[t][i].own # NULL}
<1>1. \A i \in owners : /\ nest[t][i].own = <<t, nest[t][i].own[2]>>
                        /\ nest[t][i].own[2] \in Base(t) + 1 .. top[t]
                        /\ slots[t][nest[t][i].own[2]].kind = nest[t][i].kind
  BY DEF Stacked, OwnAt
<1>2. \A i \in owners : Deref(nest[t][i].own).kind = nest[t][i].kind
  <2> SUFFICES ASSUME NEW i \in owners PROVE Deref(nest[t][i].own).kind = nest[t][i].kind
    OBVIOUS
  <2>1. PICK p : p = nest[t][i].own
    OBVIOUS
  <2>2. p = <<t, p[2]>> /\ slots[t][p[2]].kind = nest[t][i].kind
    BY <1>1, <2>1
  <2>3. p[1] = t
    BY <2>2, PointersAre
  <2> QED
    BY <2>1, <2>2, <2>3 DEF Deref
<1>3. \A i, j \in owners : i < j => nest[t][i].own[2] < nest[t][j].own[2]
  BY DEF Stacked
<1>4. top[t] >= Base(t)
  BY StackTyped DEF Stacked
<1>5. \A i \in owners : \E n \in Base(t) + 1 .. top[t] : nest[t][i].own = <<t, n>>
  BY <1>1
<1>6. \A n \in Base(t) + 1 .. top[t] : \E i \in owners : nest[t][i].own = <<t, n>>
  <2> SUFFICES ASSUME NEW n \in Base(t) + 1 .. top[t]
               PROVE  \E i \in owners : nest[t][i].own = <<t, n>>
    OBVIOUS
  <2>1. PICK i \in DOMAIN nest[t] : nest[t][i].own = <<t, n>>
    BY DEF Stacked
  <2>2. nest[t][i].own # NULL
    BY <2>1, PointersAre
  <2> QED
    BY <2>1, <2>2
<1>7. {nest[t][i].own : i \in owners} = {<<t, n>> : n \in Base(t) + 1 .. top[t]}
  <2> HIDE DEF owners
  <2> QED
    BY <1>5, <1>6
<1> QED
  BY <1>2, <1>3, <1>4, <1>7

\* Although parallel_end, implicit_task_end, work_end and masked_end pop what is
\* on top, the records above the initial region's are those of the open
\* constructs, whatever the teams, the nesting and the MPI calls, on every thread
\* that had no construct open when the mode changed.
THEOREM RecordsMatchAlways == Spec => []RecordsMatch
<1>1. CoreInv => RecordsMatch
  <2> SUFFICES ASSUME CoreInv, NEW t \in Threads \ disturbed, nest[t] # <<>>
               PROVE  LET base == IF t = Master /\ registered # {} THEN 1 ELSE 0
                          owners == {i \in DOMAIN nest[t] : nest[t][i].own # NULL} IN
                      /\ \A i \in owners : Deref(nest[t][i].own).kind = nest[t][i].kind
                      /\ \A i, j \in owners :
                            i < j => nest[t][i].own[2] < nest[t][j].own[2]
                      /\ top[t] >= base
                      /\ {nest[t][i].own : i \in owners}
                           = {<<t, n>> : n \in base + 1 .. top[t]}
    BY DEF RecordsMatch
  <2>1. TypeInv /\ Stacked(t) /\ t \in Threads
    BY DEF CoreInv, StackInv, Regular, Standing
  <2> QED
    BY <2>1, StackedMatches DEF Base
<1> QED
  BY <1>1, CoreHolds, PTL

\* thread_end leaves at most the initial region's record on the initial thread's
\* stack, whatever the undelivered ends before it have left there.
THEOREM StackDrainedAlways == Spec => []StackDrained
<1>1. CoreInv => StackDrained
  BY DEF CoreInv, CodeInv, EndDrained, StackDrained
<1> QED
  BY <1>1, CoreHolds, PTL

-----------------------------------------------------------------------------
(***************************************************************************)
(* What parallel_end counts.                                               *)
(***************************************************************************)
\* On the master the top record is the ending region's, and there is an enclosing
\* parallel record below it if the region is nested, and only then.
LEMMA TopmostOutermost ==
    ASSUME CoreInv, Master \notin disturbed, In(Master, {"parallel"}),
           Delivered("parallel_end")
    PROVE  /\ Deref(TopOf(Master)).code = Inner(Master).code
           /\ IsTopmost(top[Master], Master) <=> Len(nest[Master]) = 2
<1>0. PICK n \in Nat : n = Len(nest[Master])
  BY Innermost, CodesAre DEF CoreInv
<1>1. /\ TypeInv /\ NestInv /\ Master \in Threads /\ nest[Master] # <<>>
      /\ Inner(Master).kind = "parallel" /\ Regular(Master) /\ Stacked(Master)
  BY CodesAre DEF CoreInv, In, Idle, Regular, StackInv, Standing
<1>2. /\ n > 0 /\ DOMAIN nest[Master] = 1 .. n /\ Inner(Master) = nest[Master][n]
      /\ n \in 1 .. n
      /\ \A i \in 1 .. n : ShapeAt(Master, i) /\ LinkAt(Master, i) /\ DeliveredAt(Master, i)
  BY <1>0, <1>1, Innermost DEF NestInv, ShapeInv, LinkInv, DeliveredInv
<1>3. Delivered("parallel_begin") /\ registered # {}
  BY CallbacksAre DEF CoreInv, RegisteredInv, Delivered, AllCallbacks
<1>4. \A i \in 1 .. n : nest[Master][i].kind = "parallel"
                        => nest[Master][i].own # NULL /\ nest[Master][i].code \in ParallelCodes
  BY <1>2, <1>3 DEF DeliveredAt, LinkAt
<1>5. Inner(Master).own # NULL /\ Base(Master) = 1
  BY <1>1, <1>2, <1>3, <1>4 DEF Base
<1>6. PICK m : m = top[Master]
  OBVIOUS
<1>7. /\ Inner(Master).own = <<Master, m>> /\ m \in 2 .. m /\ m \in Nat
      /\ slots[Master][m].code = Inner(Master).code
      /\ TopOf(Master) = <<Master, m>>
  <2>1. /\ Inner(Master).own = <<Master, top[Master]>>
        /\ top[Master] \in Base(Master) + 1 .. top[Master] /\ top[Master] # 0
        /\ slots[Master][top[Master]].code = Inner(Master).code
    BY <1>1, <1>5, InnerOnTop
  <2>2. top[Master] \in Nat
    BY <1>1, StackTyped
  <2> QED
    BY <1>5, <1>6, <2>1, <2>2 DEF TopOf
<1>8. Deref(TopOf(Master)).code = Inner(Master).code
  BY <1>7, PointersAre DEF Deref
<1>9. slots[Master][1].code = Initial
  BY <1>1, <1>5 DEF Stacked
<1>10. n # 1
  BY <1>1, <1>2 DEF ShapeAt
<1>11. ASSUME n = 2 PROVE IsTopmost(m, Master)
  <2>1. ASSUME NEW j \in 1 .. m - 1, j # 1 PROVE slots[Master][j].kind # "parallel"
    <3>1. j \in 1 + 1 .. m
      BY <1>7, <2>1
    <3>2. PICK i \in 1 .. n : nest[Master][i].own = <<Master, j>>
      BY <1>1, <1>2, <1>5, <1>6, <3>1 DEF Stacked
    <3>3. j # m
      BY <1>7, <2>1
    <3>4. i = 1
      BY <1>2, <1>7, <1>11, <3>2, <3>3, PointersAre
    <3>5. nest[Master][1].kind = "task" /\ OwnAt(Master, 1)
      BY <1>1, <1>2, <1>11 DEF ShapeAt, Stacked
    <3>6. nest[Master][1].own = <<Master, j>>
      BY <3>2, <3>4
    <3>7. nest[Master][1].own # NULL /\ nest[Master][1].own[2] = j
      BY <3>6, PointersAre
    <3>8. slots[Master][j].kind = "task"
      BY <3>5, <3>7 DEF OwnAt
    <3> QED
      BY <3>8
  <2> QED
    BY <1>9, <2>1 DEF IsTopmost
<1>12. ASSUME n # 2 PROVE ~IsTopmost(m, Master)
  <2>1. 2 \in 1 .. n /\ 2 < n
    BY <1>2, <1>10, <1>12
  <2>2. nest[Master][2].kind \in {"parallel", "mpi"}
    BY <1>2, <2>1 DEF ShapeAt
  <2>3. nest[Master][2].kind \in {"task", "parallel"}
    <3>1. 3 \in 1 .. n /\ 3 > 1 /\ 3 - 1 = 2
      BY <2>1
    <3>2. nest[Master][3 - 1].kind \in {"task", "parallel"}
      BY <1>2, <3>1 DEF ShapeAt
    <3> QED
      BY <3>1, <3>2
  <2>4. nest[Master][2].kind = "parallel"
    BY <2>2, <2>3
  <2>5. /\ nest[Master][2].own # NULL /\ nest[Master][2].code \in ParallelCodes
        /\ OwnAt(Master, 2)
    BY <1>1, <1>2, <1>4, <2>1, <2>4 DEF Stacked
  <2>6. PICK k : k = nest[Master][2].own[2]
    OBVIOUS
  <2>7. /\ k \in 2 .. m /\ slots[Master][k].kind = "parallel"
        /\ slots[Master][k].code \in ParallelCodes
    BY <1>5, <1>6, <2>4, <2>5, <2>6 DEF OwnAt
  <2>8. nest[Master][n].own # NULL /\ nest[Master][n].own[2] = m
    BY <1>2, <1>5, <1>7, PointersAre
  <2>9. nest[Master][2].own[2] < nest[Master][n].own[2]
    BY <1>1, <1>2, <2>1, <2>5, <2>8 DEF Stacked
  <2>10. k \in 1 .. m - 1
    BY <1>7, <2>6, <2>7, <2>8, <2>9
  <2>11. slots[Master][k].code # Initial
    BY <2>7, CodesAre
  <2> QED
    BY <2>7, <2>10, <2>11 DEF IsTopmost
<1> QED
  BY <1>0, <1>6, <1>8, <1>11, <1>12

CountInv == Master \notin miscounted

LEMMA CountParallelEnd ==
    ASSUME CoreInv, CountInv, NEW t \in Threads, ParallelEnd(t)
    PROVE  CountInv'
<1>1. CASE Crash
  BY <1>1 DEF Crash, ghostVars, CountInv
<1>2. CASE ParallelEnded(t)
  <2> DEFINE shows == /\ Delivered("parallel_end") /\ Tracing
                      /\ LexgionOf(TopOf(t)) \in traced
             outermost == t = Master /\ Len(nest[t]) = 2
             counts == /\ shows
                       /\ (Deref(TopOf(t)).code \in Addressed \/ IsTopmost(top[t], t))
  <2>1. /\ In(t, {"parallel"})
        /\ miscounted' = IF /\ t \notin disturbed /\ shows
                            /\ counts # (outermost \/ Inner(t).code \in Addressed)
                         THEN miscounted \cup {t} ELSE miscounted
    BY <1>2 DEF ParallelEnded
  <2>2. ASSUME t = Master, Master \notin disturbed, shows
        PROVE  counts = (outermost \/ Inner(t).code \in Addressed)
    <3>1. /\ Deref(TopOf(t)).code = Inner(t).code
          /\ IsTopmost(top[t], t) <=> Len(nest[t]) = 2
      BY <2>1, <2>2, TopmostOutermost
    <3> QED
      BY <2>2, <3>1
  <2> HIDE DEF counts, shows, outermost
  <2> QED
    BY <2>1, <2>2 DEF CountInv
<1> QED
  BY <1>1, <1>2, ParallelEndEffect DEF CoreInv

LEMMA NextCount == CoreInv /\ CountInv /\ [Next]_vars => CountInv'
<1> SUFFICES ASSUME CoreInv, CountInv, [Next]_vars PROVE CountInv'
  OBVIOUS
<1>1. ASSUME NEW t \in Threads, ParallelEnd(t) PROVE CountInv'
  BY <1>1, CountParallelEnd
<1>2. CASE UNCHANGED vars
  BY <1>2 DEF vars, ghostVars, CountInv
<1>3. ASSUME NEW t \in Threads, NEW c \in ParallelCodes, ParallelBegin(t, c)
      PROVE  miscounted' = miscounted
  BY <1>3 DEF ParallelBegin, Crash, ghostVars
<1>4. ASSUME NEW t \in Threads, ImplicitTaskBegin(t) PROVE miscounted' = miscounted
  BY <1>4 DEF ImplicitTaskBegin, Crash, ghostVars
<1>5. ASSUME NEW t \in Threads, ImplicitTaskEnd(t) PROVE miscounted' = miscounted
  BY <1>5 DEF ImplicitTaskEnd, Crash, ghostVars
<1>6. ASSUME NEW t \in Threads, ParallelRestore(t) PROVE miscounted' = miscounted
  BY <1>6 DEF ParallelRestore, Crash, ghostVars
<1>7. ASSUME NEW t \in Threads, NEW k, NEW c, WorkBegin(t, k, c)
      PROVE  miscounted' = miscounted
  BY <1>7 DEF WorkBegin, Crash, ghostVars
<1>8. ASSUME NEW t \in Threads, WorkEnd(t) PROVE miscounted' = miscounted
  BY <1>8 DEF WorkEnd, Crash, ghostVars
<1>9. ASSUME NEW t \in Threads, NEW join, BarrierBegin(t, join)
      PROVE  miscounted' = miscounted
  BY <1>9 DEF BarrierBegin, Crash, ghostVars
<1>10. ASSUME NEW t \in Threads, BarrierEnd(t) PROVE miscounted' = miscounted
  BY <1>10 DEF BarrierEnd, Crash, ghostVars
<1>11. ASSUME NEW t \in Threads, MpiBegin(t) PROVE miscounted' = miscounted
  BY <1>11 DEF MpiBegin, Crash, ghostVars
<1>12. ASSUME NEW t \in Threads, MpiEnd(t) PROVE miscounted' = miscounted
  BY <1>12 DEF MpiEnd, Crash, ghostVars
<1>13. CASE ThreadEnd
  BY <1>13 DEF ThreadEnd, ghostVars, CountInv
<1>14. ASSUME NEW m \in Modes, SwitchMode(m) PROVE miscounted' = miscounted
  BY <1>14 DEF SwitchMode, ghostVars
<1>15. CASE Done
  BY <1>2, <1>15 DEF Done
<1> QED
  BY <1>1, <1>2, <1>3, <1>4, <1>5, <1>6, <1>7, <1>8, <1>9, <1>10, <1>11, <1>12, <1>13,
     <1>14, <1>15 DEF Next, CountInv

\* On the master the walk over the records below a region finds an enclosing one
\* if there is one: a traced region is counted if it is outermost or configured,
\* and only then.
THEOREM MasterCountsAlways == Spec => []MasterCountsOutermost
<1>1. Init => CountInv
  BY DEF Init, CountInv
<1>2. CountInv => MasterCountsOutermost
  BY DEF CountInv, MasterCountsOutermost
<1> QED
  BY <1>1, <1>2, CoreHolds, NextCount, PTL DEF Spec

-----------------------------------------------------------------------------
(***************************************************************************)
(* The context.                                                            *)
(***************************************************************************)
\* The innermost task or region of t is its i-th construct.
Current(t, i) ==
    /\ i \in DOMAIN nest[t] /\ ~Inside(nest[t][i].kind)
    /\ \A j \in DOMAIN nest[t] : j > i => Inside(nest[t][j].kind)

ContextAt(t, i) ==
    LET c == nest[t][i] IN
    /\ c.kind = "task" /\ c.tdata # NULL
       => context[t].task = c.tdata /\ context[t].par = c.pdata
    /\ c.kind = "parallel" /\ c.own # NULL /\ "implicit_task" \in registered
       => context[t].par = c.own

CurrentInv == \A t \in Threads \ (disturbed \cup restoring) :
                  \A i : Current(t, i) => ContextAt(t, i)
RestoringInv == \A t \in restoring \ disturbed :
                    Active(mode) /\ "parallel_end" \in registered
\* The initial task's context waits for the callbacks to be active again.
InitialInv == Master \notin disturbed /\ ~Active(mode) /\ nest[Master] # <<>>
              => ContextAt(Master, 1)
ContextInv == CurrentInv /\ RestoringInv /\ InitialInv

\* A step of t that keeps the mode leaves the other threads' context.
LEMMA ContextElsewhere ==
    ASSUME ContextInv, NEW t \in Threads,
           UNCHANGED <<mode, registered, disturbed>>,
           restoring' \ {t} = restoring \ {t},
           \A u \in Threads \ {t} : nest'[u] = nest[u] /\ context'[u] = context[u],
           t \in restoring' \ disturbed => Active(mode) /\ "parallel_end" \in registered,
           t \notin disturbed \cup restoring'
           => \A i : Current(t, i)' => ContextAt(t, i)',
           t = Master /\ Master \notin disturbed /\ ~Active(mode) /\ nest'[Master] # <<>>
           => ContextAt(Master, 1)'
    PROVE  ContextInv'
<1>1. \A u \in Threads \ {t} : \A i : /\ Current(u, i)' <=> Current(u, i)
                                      /\ ContextAt(u, i)' <=> ContextAt(u, i)
  BY DEF Current, ContextAt
<1>2. CurrentInv'
  <2> SUFFICES ASSUME NEW u \in Threads, u \notin disturbed, u \notin restoring', NEW i,
                      Current(u, i)'
               PROVE  ContextAt(u, i)'
    BY DEF CurrentInv
  <2>1. CASE u = t
    BY <2>1
  <2>2. CASE u # t
    BY <1>1, <2>2 DEF ContextInv, CurrentInv
  <2> QED
    BY <2>1, <2>2
<1>3. RestoringInv'
  BY DEF ContextInv, RestoringInv
<1>4. InitialInv'
  <2>1. CASE t = Master
    BY <2>1 DEF InitialInv
  <2>2. CASE t # Master
    <3>1. Master \in Threads \ {t}
      BY <2>2, CodesAre
    <3>2. nest'[Master] = nest[Master] /\ (ContextAt(Master, 1)' <=> ContextAt(Master, 1))
      BY <1>1, <3>1
    <3> QED
      BY <3>2 DEF ContextInv, InitialInv
  <2> QED
    BY <2>1, <2>2
<1> QED
  BY <1>2, <1>3, <1>4 DEF ContextInv

\* The pointers to the records of the task and the region stay.
SamePointers(t) == context'[t].task = context[t].task /\ context'[t].par = context[t].par

\* A construct that is neither a task nor a region begins.
LEMMA ContextOpensInside ==
    ASSUME TypeInv, ContextInv, NEW t \in Threads, NEW d, NEW code, Begins(t, d, code),
           Inside(d.kind), nest[t] # <<>>, SamePointers(t),
           \A u \in Threads \ {t} : context'[u] = context[u]
    PROVE  ContextInv'
<1>0. PICK n \in Nat : n = Len(nest[t])
  BY Innermost
<1>1. /\ DOMAIN nest[t] = 1 .. n /\ DOMAIN (nest'[t]) = 1 .. n + 1
      /\ nest'[t][n + 1] = d /\ \A i \in 1 .. n : nest'[t][i] = nest[t][i]
      /\ n > 0 /\ 1 \in 1 .. n
  BY <1>0, Innermost DEF Begins, Opens
<1>2. \A i \in 1 .. n : ContextAt(t, i) => ContextAt(t, i)'
  BY <1>1 DEF ContextAt, SamePointers, Begins
<1>3. ASSUME NEW i, Current(t, i)' PROVE i \in 1 .. n /\ Current(t, i)
  <2>1. i \in 1 .. n + 1 /\ ~Inside(nest'[t][i].kind)
        /\ \A j \in 1 .. n + 1 : j > i => Inside(nest'[t][j].kind)
    BY <1>1, <1>3 DEF Current
  <2>2. i # n + 1
    BY <1>1, <2>1
  <2>3. i \in 1 .. n
    BY <2>1, <2>2
  <2> QED
    BY <1>1, <2>1, <2>3 DEF Current
<1>4. t \notin disturbed \cup restoring' => \A i : Current(t, i)' => ContextAt(t, i)'
  BY <1>2, <1>3 DEF ContextInv, CurrentInv, Begins
<1>5. t = Master /\ Master \notin disturbed /\ ~Active(mode) => ContextAt(Master, 1)'
  BY <1>1, <1>2 DEF ContextInv, InitialInv
<1> QED
  BY <1>4, <1>5, ContextElsewhere DEF Begins, Opens

\* A task or a region begins.
LEMMA ContextOpensOwn ==
    ASSUME TypeInv, NestInv, ContextInv, NEW t \in Threads, NEW d, NEW code,
           Begins(t, d, code), ~Inside(d.kind), Idle(t) => t # Master,
           ~Active(mode) => SamePointers(t),
           d.kind = "task" /\ d.tdata # NULL
           => context'[t].task = d.tdata /\ context'[t].par = d.pdata,
           d.kind = "parallel" /\ d.own # NULL => context'[t].par = d.own,
           \A u \in Threads \ {t} : context'[u] = context[u]
    PROVE  ContextInv'
<1>0. PICK n \in Nat : n = Len(nest[t])
  BY Innermost
<1>1. /\ DOMAIN nest[t] = 1 .. n /\ DOMAIN (nest'[t]) = 1 .. n + 1
      /\ nest'[t][n + 1] = d /\ \A i \in 1 .. n : nest'[t][i] = nest[t][i]
  BY <1>0, Innermost DEF Begins, Opens
<1>2. ContextAt(t, n + 1)'
  BY <1>1 DEF ContextAt
<1>3. ASSUME NEW i, Current(t, i)' PROVE i = n + 1
  <2>1. i \in 1 .. n + 1
        /\ \A j \in 1 .. n + 1 : j > i => Inside(nest'[t][j].kind)
    BY <1>1, <1>3 DEF Current
  <2>2. ~(n + 1 > i)
    BY <1>1, <2>1
  <2> QED
    BY <2>1, <2>2
<1>4. \A i : Current(t, i)' => ContextAt(t, i)'
  BY <1>2, <1>3
<1>5. ASSUME t = Master, Master \notin disturbed, ~Active(mode) PROVE ContextAt(Master, 1)'
  <2>1. nest[t] # <<>> /\ n > 0
    BY <1>0, <1>5, Innermost DEF Idle
  <2>2. nest'[t][1] = nest[t][1]
    BY <1>1, <2>1
  <2>3. ContextAt(t, 1)
    BY <1>5, <2>1 DEF ContextInv, InitialInv
  <2> QED
    BY <1>5, <2>2, <2>3 DEF ContextAt, SamePointers, Begins
<1> QED
  BY <1>4, <1>5, ContextElsewhere DEF Begins, Opens

\* One that is neither ends.
LEMMA ContextClosesInside ==
    ASSUME TypeInv, ContextInv, NEW t \in Threads, Ends(t), restoring' = restoring,
           Inside(Inner(t).kind), SamePointers(t),
           \A u \in Threads \ {t} : context'[u] = context[u]
    PROVE  ContextInv'
<1>0. PICK n \in Nat : n = Len(nest[t])
  BY Innermost
<1>1. /\ DOMAIN nest[t] = 1 .. n /\ DOMAIN (nest'[t]) = 1 .. n - 1 /\ n > 0
      /\ Inner(t) = nest[t][n]
      /\ \A i \in 1 .. n - 1 : Alike(nest'[t][i], nest[t][i])
  BY <1>0, Innermost DEF Ends, Closes
<1>2. \A i \in 1 .. n - 1 : ContextAt(t, i) => ContextAt(t, i)'
  BY <1>1 DEF ContextAt, SamePointers, Ends, Alike
<1>3. ASSUME NEW i, Current(t, i)' PROVE i \in 1 .. n - 1 /\ Current(t, i)
  <2>1. i \in 1 .. n - 1 /\ ~Inside(nest'[t][i].kind)
        /\ \A j \in 1 .. n - 1 : j > i => Inside(nest'[t][j].kind)
    BY <1>1, <1>3 DEF Current
  <2>2. \A j \in 1 .. n : j \in 1 .. n - 1 \/ j = n
    OBVIOUS
  <2>3. \A j \in 1 .. n : j > i => Inside(nest[t][j].kind)
    BY <1>1, <2>1, <2>2 DEF Alike
  <2>4. i \in 1 .. n /\ ~Inside(nest[t][i].kind)
    BY <1>1, <2>1 DEF Alike
  <2> QED
    BY <1>1, <2>1, <2>3, <2>4 DEF Current
<1>4. t \notin disturbed \cup restoring' => \A i : Current(t, i)' => ContextAt(t, i)'
  BY <1>2, <1>3 DEF ContextInv, CurrentInv
<1>5. ASSUME t = Master, Master \notin disturbed, ~Active(mode), nest'[Master] # <<>>
      PROVE  ContextAt(Master, 1)'
  <2>1. 1 \in 1 .. n - 1
    <3>1. Len(nest'[t]) = n - 1 /\ nest'[t] \in Seq(Construct)
      BY <1>0 DEF Ends, Closes
    <3>2. n - 1 # 0
      BY <1>5, <3>1, EmptySeq
    <3> QED
      BY <1>1, <3>2
  <2> QED
    BY <1>2, <1>5, <2>1 DEF ContextInv, InitialInv, Ends
<1> QED
  BY <1>4, <1>5, ContextElsewhere DEF Ends, Closes

\* A task or a region ends.
LEMMA ContextClosesOwn ==
    ASSUME TypeInv, NestInv, ContextInv, NEW t \in Threads, Ends(t),
           restoring' \in {restoring, restoring \cup {t}},
           ~Inside(Inner(t).kind), context' = context,
           t \in restoring' \ disturbed => Active(mode) /\ "parallel_end" \in registered,
           t \notin disturbed \cup restoring' /\ Len(nest[t]) > 1
           => ContextAt(t, Len(nest[t]) - 1)
    PROVE  ContextInv'
<1>0. PICK n \in Nat : n = Len(nest[t])
  BY Innermost
<1>1. /\ DOMAIN nest[t] = 1 .. n /\ DOMAIN (nest'[t]) = 1 .. n - 1 /\ n > 0
      /\ Inner(t) = nest[t][n]
      /\ \A i \in 1 .. n - 1 : Alike(nest'[t][i], nest[t][i])
  BY <1>0, Innermost DEF Ends, Closes
<1>2. \A i \in 1 .. n - 1 : ContextAt(t, i) => ContextAt(t, i)'
  BY <1>1 DEF ContextAt, Ends, Alike
<1>3. ASSUME NEW i, Current(t, i)' PROVE i = n - 1 /\ n > 1
  <2>1. i \in 1 .. n - 1
        /\ \A j \in 1 .. n - 1 : j > i => Inside(nest'[t][j].kind)
    BY <1>1, <1>3 DEF Current
  <2>2. n > 1 /\ n - 1 \in 1 .. n - 1
    BY <2>1
  <2>3. ~Inside(nest[t][n - 1].kind)
    <3>1. ShapeAt(t, n)
      BY <1>1 DEF NestInv, ShapeInv
    <3> QED
      BY <2>2, <3>1 DEF ShapeAt, Inside
  <2>4. ~Inside(nest'[t][n - 1].kind)
    BY <1>1, <2>2, <2>3 DEF Alike
  <2>5. ~(n - 1 > i)
    BY <2>1, <2>2, <2>4
  <2> QED
    BY <2>1, <2>2, <2>5
<1>4. t \notin disturbed \cup restoring' => \A i : Current(t, i)' => ContextAt(t, i)'
  <2> SUFFICES ASSUME t \notin disturbed \cup restoring', NEW i, Current(t, i)'
               PROVE  ContextAt(t, i)'
    OBVIOUS
  <2>1. i = n - 1 /\ n > 1 /\ n - 1 \in 1 .. n - 1
    BY <1>3
  <2>2. PICK m : m = n - 1
    OBVIOUS
  <2>3. ContextAt(t, m) /\ m \in 1 .. n - 1 /\ i = m
    BY <1>0, <2>1, <2>2
  <2> QED
    BY <1>2, <2>3
<1>5. ASSUME t = Master, Master \notin disturbed, ~Active(mode), nest'[Master] # <<>>
      PROVE  ContextAt(Master, 1)'
  <2>1. 1 \in 1 .. n - 1
    <3>1. Len(nest'[t]) = n - 1 /\ nest'[t] \in Seq(Construct)
      BY <1>0 DEF Ends, Closes
    <3>2. n - 1 # 0
      BY <1>5, <3>1, EmptySeq
    <3> QED
      BY <1>1, <3>2
  <2> QED
    BY <1>2, <1>5, <2>1 DEF ContextInv, InitialInv, Ends
<1> QED
  BY <1>4, <1>5, ContextElsewhere DEF Ends, Closes

\* No step changes another thread's context.
LEMMA ContextOthers ==
    ASSUME TypeInv, NEW t \in Threads, NEW v, ContextSet(t, v) \/ context' = context
    PROVE  \A u \in Threads \ {t} : context'[u] = context[u]
BY ContextIs

LEMMA ContextParallelBegun ==
    ASSUME TypeInv, NestInv, ContextInv, NEW t \in Threads, NEW c \in ParallelCodes, NEW d,
           ParallelBegun(t, c, d)
    PROVE  ContextInv'
<1>1. /\ Begins(t, d, c) /\ d.kind = "parallel" /\ ~Idle(t)
      /\ d.own # NULL <=> Delivered("parallel_begin")
  BY BodyShape DEF ParallelBegun
<1>2. CASE d.own # NULL
  <2> DEFINE v == [context[t] EXCEPT !.par = d.own, !.parcode = c]
  <2>1. ContextSet(t, v)
    BY <1>2 DEF ParallelBegun
  <2>2. v.par = d.own
    BY DEF TypeInv, Context
  <2>3. context'[t].par = d.own /\ \A u \in Threads \ {t} : context'[u] = context[u]
    BY <2>1, <2>2, ContextIs
  <2>4. Active(mode)
    BY <1>1, <1>2 DEF Delivered
  <2> QED
    BY <1>1, <2>3, <2>4, ContextOpensOwn DEF Inside
<1>3. CASE d.own = NULL
  <2>1. context' = context
    BY <1>3 DEF ParallelBegun
  <2> QED
    BY <1>1, <1>3, <2>1, ContextOpensOwn DEF Inside, SamePointers
<1> QED
  BY <1>2, <1>3

LEMMA ContextTaskBegun ==
    ASSUME TypeInv, NestInv, TeamInv, ContextInv, NEW t \in Threads, NEW d, TaskBegun(t, d)
    PROVE  ContextInv'
<1>1. /\ Begins(t, d, Deref(d.pdata).code) /\ d.kind = "task" /\ d.tdata = d.own
      /\ d.own # NULL <=> Delivered("implicit_task") /\ d.pdata # NULL
      /\ Idle(t) => t # Master
  BY TaskFits DEF TaskBegun, Fits
<1>2. PICK code : code = Deref(d.pdata).code
  OBVIOUS
<1>3. Begins(t, d, code)
  BY <1>1, <1>2
<1>4. CASE d.own # NULL
  <2> DEFINE v == [par |-> d.pdata, task |-> d.own, parcode |-> Deref(d.pdata).code,
                   taskcode |-> Deref(d.pdata).code, work |-> context[t].work]
  <2>1. ContextSet(t, v) /\ v.par = d.pdata /\ v.task = d.own
    BY <1>4 DEF TaskBegun
  <2> HIDE DEF v
  <2>2. /\ context'[t].par = d.pdata /\ context'[t].task = d.tdata
        /\ \A u \in Threads \ {t} : context'[u] = context[u]
    BY <1>1, <2>1, ContextIs
  <2>3. Active(mode)
    BY <1>1, <1>4 DEF Delivered
  <2> QED
    BY <1>1, <1>3, <2>2, <2>3, ContextOpensOwn DEF Inside
<1>5. CASE d.own = NULL
  <2> DEFINE v == [context[t] EXCEPT !.par = NULL]
  <2>1. IF Delivered("implicit_task") THEN ContextSet(t, v) ELSE context' = context
    BY <1>5 DEF TaskBegun
  <2>2. \A u \in Threads \ {t} : context'[u] = context[u]
    BY <2>1, ContextOthers
  <2>3. ~Active(mode) => SamePointers(t)
    BY <2>1 DEF Delivered, SamePointers
  <2> QED
    BY <1>1, <1>3, <1>5, <2>2, <2>3, ContextOpensOwn DEF Inside
<1> QED
  BY <1>4, <1>5

LEMMA ContextWorkBegun ==
    ASSUME TypeInv, NestInv, ContextInv, NEW t \in Threads, NEW k \in {"work", "masked"},
           NEW c, NEW d, WorkBegun(t, k, c, d)
    PROVE  ContextInv'
<1>1. Begins(t, d, c) /\ Inside(d.kind) /\ nest[t] # <<>>
  BY BodyShape DEF WorkBegun, Inside, Idle
<1> DEFINE v == [context[t] EXCEPT !.work = IF d.own # NULL THEN <<t, k, c>> ELSE NULL]
<1>2. ContextSet(t, v) \/ context' = context
  BY DEF WorkBegun
<1>3. v.task = context[t].task /\ v.par = context[t].par
  BY DEF TypeInv, Context
<1> HIDE DEF v
<1>4. SamePointers(t) /\ \A u \in Threads \ {t} : context'[u] = context[u]
  BY <1>2, <1>3, ContextIs DEF SamePointers
<1> QED
  BY <1>1, <1>4, ContextOpensInside

LEMMA ContextBarrierBegun ==
    ASSUME TypeInv, NestInv, ContextInv, NEW t \in Threads, NEW join, NEW d,
           BarrierBegun(t, join, d)
    PROVE  ContextInv'
<1>1. Begins(t, d, NoCode) /\ Inside(d.kind) /\ nest[t] # <<>> /\ context' = context
  BY BodyShape DEF BarrierBegun, Inside, Idle
<1> QED
  BY <1>1, ContextOpensInside DEF SamePointers

LEMMA ContextMpiBegun ==
    ASSUME TypeInv, ContextInv, NEW t \in Threads, NEW d, MpiBegun(t, d)
    PROVE  ContextInv'
<1>1. Begins(t, d, MpiCode) /\ Inside(d.kind) /\ nest[t] # <<>> /\ context' = context
  BY DEF MpiBegun, Inside, In, Idle
<1> QED
  BY <1>1, ContextOpensInside DEF SamePointers

-----------------------------------------------------------------------------
\* A task's record implies its region's, and so on a thread's own stack.
LEMMA TaskDelivered ==
    ASSUME RegisteredInv, NEW t, NEW i, DeliveredAt(t, i), nest[t][i].kind = "task",
           ~Initially(t, i), nest[t][i].own # NULL
    PROVE  nest[t][i].pdata # NULL /\ Active(mode) /\ registered = AllCallbacks
BY CallbacksAre DEF RegisteredInv, DeliveredAt, Delivered, AllCallbacks

LEMMA ContextTaskEnded ==
    ASSUME CoreInv, ContextInv, NEW t \in Threads, Ends(t), Inner(t).kind = "task",
           context' = context, restoring' = restoring
    PROVE  ContextInv'
<1>0. PICK n \in Nat : n = Len(nest[t])
  BY Innermost DEF CoreInv
<1>1. TypeInv /\ NestInv /\ RegisteredInv
  BY DEF CoreInv
<1>2. /\ DOMAIN nest[t] = 1 .. n /\ Inner(t) = nest[t][n] /\ n > 0 /\ n \in 1 .. n
      /\ nest[t] # <<>> /\ t \notin restoring
  BY <1>0, <1>1, Innermost DEF Ends
<1>3. Current(t, n)
  BY <1>2 DEF Current, Inside
<1>4. ASSUME t \notin disturbed, n > 1 PROVE ContextAt(t, n - 1)
  <2>1. PICK m : m = n - 1
    OBVIOUS
  <2>2. m \in 1 .. n /\ n - 1 \in 1 .. n
    BY <1>4, <2>1
  <2>3. /\ ShapeAt(t, n) /\ LinkAt(t, n) /\ DeliveredAt(t, n) /\ DeliveredAt(t, m)
    BY <1>1, <1>2, <1>4, <2>2 DEF NestInv, ShapeInv, LinkInv, DeliveredInv, Regular
  <2>4. nest[t][m].kind = "parallel" /\ nest[t][n].pdata = nest[t][m].own
        /\ nest[t][n].tdata = nest[t][n].own /\ ~Initially(t, n)
    BY <1>2, <1>4, <2>1, <2>3 DEF ShapeAt, LinkAt, Initially
  <2>5. ASSUME nest[t][m].own # NULL, "implicit_task" \in registered
        PROVE  context[t].par = nest[t][m].own
    <3>1. Delivered("parallel_begin")
      BY <2>3, <2>4, <2>5 DEF DeliveredAt
    <3>2. Delivered("implicit_task")
      BY <2>5, <3>1 DEF Delivered
    <3>3. nest[t][n].own # NULL
      BY <1>2, <2>3, <2>4, <2>5, <3>2 DEF DeliveredAt
    <3>4. ContextAt(t, n)
      BY <1>2, <1>3, <1>4 DEF ContextInv, CurrentInv
    <3> QED
      BY <1>2, <2>4, <3>3, <3>4 DEF ContextAt
  <2> QED
    BY <2>1, <2>4, <2>5 DEF ContextAt
<1>5. t \notin disturbed \cup restoring' /\ Len(nest[t]) > 1 => ContextAt(t, Len(nest[t]) - 1)
  BY <1>0, <1>4
<1> QED
  BY <1>1, <1>2, <1>5, ContextClosesOwn DEF Inside

LEMMA ContextParallelEnded ==
    ASSUME CoreInv, ContextInv, NEW t \in Threads, ParallelEnded(t)
    PROVE  ContextInv'
<1>0. PICK n \in Nat : n = Len(nest[t])
  BY Innermost DEF CoreInv
<1>1. TypeInv /\ NestInv /\ RegisteredInv
  BY DEF CoreInv
<1>2. /\ Ends(t) /\ Inner(t).kind = "parallel" /\ context' = context
      /\ Delivered("parallel_end") => restoring' = restoring \cup {t}
      /\ ~Delivered("parallel_end") => restoring' = restoring
  BY DEF ParallelEnded, In
<1>3. /\ DOMAIN nest[t] = 1 .. n /\ Inner(t) = nest[t][n] /\ n > 0 /\ n \in 1 .. n
      /\ nest[t] # <<>> /\ t \notin restoring
  BY <1>0, <1>1, <1>2, Innermost DEF Ends
<1>4. t \in restoring' => Active(mode) /\ "parallel_end" \in registered
  BY <1>2, <1>3 DEF Delivered
<1>5. ASSUME t \notin disturbed, n > 1, ~Delivered("parallel_end") PROVE ContextAt(t, n - 1)
  <2>1. PICK m : m = n - 1
    OBVIOUS
  <2>2. m \in 1 .. n /\ n - 1 \in 1 .. n
    BY <1>5, <2>1
  <2>3. /\ ShapeAt(t, n) /\ LinkAt(t, m) /\ DeliveredAt(t, m)
    BY <1>1, <1>3, <1>5, <2>2 DEF NestInv, ShapeInv, LinkInv, DeliveredInv, Regular
  <2>4. nest[t][m].kind \in {"task", "parallel"} /\ nest[t][m].kind # "parallel"
    BY <1>2, <1>3, <1>5, <2>1, <2>3 DEF ShapeAt
  <2>5. nest[t][m].kind = "task" /\ nest[t][m].tdata = nest[t][m].own
    BY <2>3, <2>4 DEF LinkAt
  <2>6. ASSUME nest[t][m].tdata # NULL PROVE ContextAt(t, m)
    <3>1. Initially(t, m)
      <4>1. ASSUME ~Initially(t, m) PROVE FALSE
        <5>1. Active(mode) /\ registered = AllCallbacks
          BY <1>1, <2>3, <2>5, <2>6, <4>1, TaskDelivered
        <5> QED
          BY <1>5, <5>1 DEF Delivered, AllCallbacks
      <4> QED
        BY <4>1
    <3>2. "implicit_task" \in registered
      BY <2>3, <2>5, <2>6, <3>1 DEF LinkAt
    <3>3. ~Active(mode)
      BY <1>1, <1>5, <3>2, CallbacksAre DEF RegisteredInv, AllCallbacks, Delivered
    <3> QED
      BY <1>3, <1>5, <3>1, <3>3 DEF ContextInv, InitialInv, Initially
  <2>7. ContextAt(t, m)
    BY <2>5, <2>6 DEF ContextAt
  <2> QED
    BY <2>1, <2>7
<1>6. t \notin disturbed \cup restoring' /\ Len(nest[t]) > 1 => ContextAt(t, Len(nest[t]) - 1)
  BY <1>0, <1>2, <1>5
<1> QED
  BY <1>1, <1>2, <1>3, <1>4, <1>6, ContextClosesOwn DEF Inside

LEMMA ContextInsideEnded ==
    ASSUME TypeInv, ContextInv, NEW t \in Threads,
           WorkEnded(t) \/ MpiEnded(t)
    PROVE  ContextInv'
<1>1. /\ Ends(t) /\ restoring' = restoring /\ context' = context
      /\ Inner(t).kind \in {"work", "masked", "mpi"}
  BY DEF WorkEnded, MpiEnded, In
<1> QED
  BY <1>1, ContextClosesInside DEF Inside, SamePointers

LEMMA ContextBarrierEnded ==
    ASSUME TypeInv, ContextInv, NEW t \in Threads, BarrierEnded(t)
    PROVE  ContextInv'
<1>1. /\ Ends(t) /\ restoring' = restoring /\ Inner(t).kind = "barrier"
  BY DEF BarrierEnded, In
<1> DEFINE v == [context[t] EXCEPT !.work = NULL]
<1>2. ContextSet(t, v) \/ context' = context
  BY Zenon DEF BarrierEnded
<1>3. v.task = context[t].task /\ v.par = context[t].par
  BY DEF TypeInv, Context
<1> HIDE DEF v
<1>4. SamePointers(t) /\ \A u \in Threads \ {t} : context'[u] = context[u]
  BY <1>2, <1>3, ContextIs DEF SamePointers
<1> QED
  BY <1>1, <1>4, ContextClosesInside DEF Inside

\* The record below a task's is the one of the region it executes.
LEMMA TaskOnRegion ==
    ASSUME CoreInv, NEW t \in Threads, t \notin disturbed, In(t, {"task"}),
           Inner(t).tdata # NULL, Parent(Inner(t).tdata) # NULL
    PROVE  Parent(Inner(t).tdata) = Inner(t).pdata
<1>0. PICK n \in Nat : n = Len(nest[t])
  BY Innermost DEF CoreInv
<1>1. TypeInv /\ NestInv /\ RegisteredInv /\ Stacked(t)
  BY DEF CoreInv, StackInv, Regular, Standing, In, Idle
<1>2. /\ DOMAIN nest[t] = 1 .. n /\ Inner(t) = nest[t][n] /\ n > 0 /\ n \in 1 .. n
      /\ Inner(t).kind = "task" /\ ShapeAt(t, n) /\ LinkAt(t, n) /\ DeliveredAt(t, n)
      /\ OwnAt(t, n)
  BY <1>0, <1>1, Innermost DEF In, Idle, NestInv, ShapeInv, LinkInv, DeliveredInv, Regular,
     Stacked
<1>3. Inner(t).tdata = Inner(t).own /\ nest[t][n].own # NULL
  BY <1>2 DEF LinkAt
<1>4. PICK m : m = nest[t][n].own[2]
  OBVIOUS
<1>5. PICK b, k : b = Base(t) /\ k = top[t]
  OBVIOUS
<1>6. /\ nest[t][n].own = <<t, m>> /\ m \in b + 1 .. k /\ b \in {0, 1} /\ k \in Nat
  BY <1>1, <1>2, <1>3, <1>4, <1>5, StackTyped DEF OwnAt
<1>7. m # 1 /\ Parent(Inner(t).tdata) = <<t, m - 1>>
  BY <1>2, <1>3, <1>6, PointersAre DEF Parent
<1>8. m \in Nat /\ m > 1 /\ m - 1 < m
  BY <1>6, <1>7
<1>9. \A i \in 1 .. n : nest[t][i].own # NULL /\ i < n => nest[t][i].own[2] < m
  BY <1>1, <1>2, <1>3, <1>4 DEF Stacked
<1>10. ASSUME m - 1 \in b + 1 .. k
       PROVE  \E i \in 1 .. n : nest[t][i].own = <<t, m - 1>> /\ i < n
  <2>1. PICK i \in 1 .. n : nest[t][i].own = <<t, m - 1>>
    BY <1>1, <1>2, <1>5, <1>10 DEF Stacked
  <2>2. nest[t][i].own[2] = m - 1
    BY <2>1, PointersAre
  <2>3. i # n
    BY <1>4, <1>8, <2>2
  <2> QED
    BY <2>1, <2>3
<1>11. CASE Initially(t, n)
  <2>1. nest[t][n].own = <<Master, 2>> /\ nest[t][n].pdata = <<Master, 1>> /\ t = Master
    BY <1>2, <1>3, <1>11 DEF LinkAt, Initially
  <2>2. m = 2
    BY <1>4, <2>1, PointersAre
  <2> QED
    BY <1>2, <1>7, <2>1, <2>2
<1>12. CASE ~Initially(t, n)
  <2>1. n # 1
    <3>1. ASSUME n = 1 PROVE FALSE
      <4>1. t # Master
        BY <1>12, <3>1 DEF Initially
      <4>2. b = 0
        BY <1>5, <4>1 DEF Base
      <4>3. m - 1 \in b + 1 .. k
        BY <1>6, <1>8, <4>2
      <4>4. PICK i \in 1 .. n : i < n
        BY <1>10, <4>3
      <4> QED
        BY <3>1, <4>4
    <3> QED
      BY <3>1
  <2>2. PICK r : r = n - 1
    OBVIOUS
  <2>3. n > 1 /\ r \in 1 .. n /\ r < n
    BY <1>2, <2>1, <2>2
  <2>4. nest[t][n].pdata # NULL /\ nest[t][n].pdata = nest[t][r].own
    BY <1>1, <1>2, <1>3, <1>12, <2>2, <2>3, TaskDelivered DEF LinkAt
  <2>5. PICK q : q = nest[t][r].own[2]
    OBVIOUS
  <2>6. nest[t][r].own = <<t, q>> /\ q \in b + 1 .. k /\ q < m
    <3>1. OwnAt(t, r) /\ nest[t][r].own # NULL
      BY <1>1, <1>2, <2>3, <2>4 DEF Stacked
    <3> QED
      BY <1>5, <1>9, <2>3, <2>5, <3>1 DEF OwnAt
  <2>7. m - 1 \in b + 1 .. k
    BY <1>6, <2>6
  <2>8. PICK i \in 1 .. n : nest[t][i].own = <<t, m - 1>> /\ i < n
    BY <1>10, <2>7
  <2>9. nest[t][i].own # NULL /\ nest[t][i].own[2] = m - 1
    BY <2>8, PointersAre
  <2>10. i < r => m - 1 < q
    <3>1. nest[t][r].own # NULL /\ nest[t][r].own[2] = q
      BY <2>4, <2>5
    <3> QED
      BY <1>1, <1>2, <2>3, <2>9, <3>1 DEF Stacked
  <2>11. ~(i < r)
    BY <1>6, <2>6, <2>10
  <2>12. i = r
    BY <2>2, <2>8, <2>11
  <2>13. nest[t][r].own = <<t, m - 1>>
    BY <2>8, <2>12
  <2> QED
    BY <1>2, <1>7, <2>4, <2>13
<1> QED
  BY <1>11, <1>12

LEMMA ContextRestoredNext ==
    ASSUME CoreInv, ContextInv, NEW t \in Threads, ParallelRestored(t)
    PROVE  ContextInv'
<1>0. PICK n \in Nat : n = Len(nest[t])
  BY Innermost DEF CoreInv
<1>1. /\ TypeInv /\ t \in restoring /\ In(t, {"task"}) /\ nest' = nest
      /\ restoring' = restoring \ {t}
      /\ UNCHANGED <<mode, registered, disturbed>>
  BY DEF CoreInv, NestInv, PhaseInv, ParallelRestored, controlVars
<1>2. /\ DOMAIN nest[t] = 1 .. n /\ Inner(t) = nest[t][n] /\ n > 0 /\ n \in 1 .. n
      /\ Inner(t).kind = "task"
  BY <1>0, <1>1, Innermost DEF In, Idle
<1> DEFINE task == Inner(t).tdata
           v == Restored(t, task)
<1>3. /\ Active(mode) /\ task # NULL => Parent(task) # NULL
      /\ IF Active(mode) /\ task # NULL THEN ContextSet(t, v) ELSE context' = context
  BY DEF ParallelRestored
<1>4. v.task = task /\ v.par = Parent(task)
  BY DEF Restored, TypeInv, Context, CoreInv
<1> HIDE DEF v
<1>5. \A u \in Threads \ {t} : context'[u] = context[u] /\ nest'[u] = nest[u]
  BY <1>1, <1>3, ContextIs
<1>6. ASSUME t \notin disturbed, NEW i, Current(t, i)' PROVE ContextAt(t, i)'
  <2>1. i \in 1 .. n /\ \A j \in 1 .. n : j > i => Inside(nest[t][j].kind)
    BY <1>1, <1>2, <1>6 DEF Current
  <2>2. ~(n > i)
    BY <1>2, <2>1 DEF Inside
  <2>3. i = n
    BY <2>1, <2>2
  <2>4. ASSUME task # NULL PROVE context'[t].task = task /\ context'[t].par = Inner(t).pdata
    <3>1. Active(mode)
      BY <1>1, <1>6 DEF ContextInv, RestoringInv
    <3>2. ContextSet(t, v) /\ Parent(task) = Inner(t).pdata
      BY <1>1, <1>3, <1>6, <2>4, <3>1, TaskOnRegion
    <3> QED
      BY <1>1, <1>4, <3>2, ContextIs
  <2> QED
    BY <1>1, <1>2, <2>3, <2>4 DEF ContextAt
<1>7. ASSUME t = Master, Master \notin disturbed, ~Active(mode), nest'[Master] # <<>>
      PROVE  ContextAt(Master, 1)'
  BY <1>1, <1>3, <1>7 DEF ContextInv, InitialInv, ContextAt
<1> QED
  BY <1>1, <1>5, <1>6, <1>7, ContextElsewhere

LEMMA ContextSame ==
    ASSUME ContextInv,
           UNCHANGED <<mode, registered, disturbed, nest, context, restoring>>
    PROVE  ContextInv'
BY DEF ContextInv, CurrentInv, RestoringInv, InitialInv, Current, ContextAt

LEMMA ContextSwitched ==
    ASSUME TypeInv, NestInv, ContextInv, NEW m \in Modes, SwitchMode(m)
    PROVE  ContextInv'
<1>1. /\ UNCHANGED <<registered, nest, context, restoring>>
      /\ disturbed' = disturbed \cup
                        {t \in Threads : t \in restoring \/ ~(Idle(t) \/ AtInitialTask(t))}
  BY DEF SwitchMode, Disturb
<1>2. \A t, i : /\ Current(t, i)' <=> Current(t, i)
                /\ ContextAt(t, i)' <=> ContextAt(t, i)
  BY <1>1 DEF Current, ContextAt
<1>3. CurrentInv'
  BY <1>1, <1>2 DEF ContextInv, CurrentInv
<1>4. restoring \subseteq Threads
  BY DEF TypeInv
<1>5. RestoringInv'
  BY <1>1, <1>4 DEF RestoringInv
<1>6. InitialInv'
  <2> SUFFICES ASSUME Master \notin disturbed', nest'[Master] # <<>>
               PROVE  ContextAt(Master, 1)'
    BY DEF InitialInv
  <2>1. Master \notin restoring /\ Master \notin disturbed /\ AtInitialTask(Master)
    BY <1>1, CodesAre DEF Idle
  <2>2. DOMAIN nest[Master] = 1 .. 1
    BY <2>1, Innermost, CodesAre DEF AtInitialTask
  <2>3. 1 \in DOMAIN nest[Master] /\ \A j \in DOMAIN nest[Master] : ~(j > 1)
    BY <2>2
  <2>4. ShapeAt(Master, 1)
    BY <2>3, CodesAre DEF NestInv, ShapeInv
  <2>5. Current(Master, 1)
    BY <2>3, <2>4 DEF Current, ShapeAt, Inside
  <2> QED
    BY <1>2, <2>1, <2>5, CodesAre DEF ContextInv, CurrentInv
<1> QED
  BY <1>3, <1>5, <1>6 DEF ContextInv

LEMMA InitContext == Init => ContextInv
<1> SUFFICES ASSUME Init PROVE ContextInv
  OBVIOUS
<1>1. \A t \in Threads : \A i \in DOMAIN nest[t] :
         t = Master /\ i = 1 /\ nest[t][i] = InitialConstruct
  BY InitialNest, CodesAre
<1>2. ContextAt(Master, 1)
  <2>1. context[Master] = [par |-> InitialRegion, task |-> InitialTask,
                           parcode |-> IF Active(mode) THEN Initial ELSE NoCode,
                           taskcode |-> IF Tracing THEN Initial ELSE NoCode,
                           work |-> NULL]
    BY CodesAre DEF Init, InitialRegion, InitialTask
  <2>2. context[Master].par = InitialRegion /\ context[Master].task = InitialTask
    BY <2>1
  <2>3. InitialTask # NULL => Tracing /\ InitialRegion = <<Master, 1>>
    BY DEF InitialTask, InitialRegion, Tracing, Active
  <2> QED
    BY <2>2, <2>3, InitialNest DEF ContextAt
<1>3. CurrentInv
  BY <1>1, <1>2 DEF CurrentInv, Current
<1>4. restoring = {}
  BY DEF Init
<1> QED
  BY <1>2, <1>3, <1>4 DEF ContextInv, RestoringInv, InitialInv

LEMMA NextContext == CoreInv /\ ContextInv /\ [Next]_vars => ContextInv'
<1> SUFFICES ASSUME CoreInv, ContextInv, [Next]_vars PROVE ContextInv'
  OBVIOUS
<1>0. TypeInv /\ NestInv /\ TeamInv
  BY DEF CoreInv
<1>1. CASE UNCHANGED vars
  BY <1>1, ContextSame DEF vars, controlVars
<1>2. CASE Crash
  BY <1>2, ContextSame DEF Crash, controlVars
<1>3. ASSUME NEW t \in Threads, NEW c \in ParallelCodes, ParallelBegin(t, c)
      PROVE  ContextInv'
  BY <1>0, <1>2, <1>3, ParallelBeginEffect, ContextParallelBegun
<1>4. ASSUME NEW t \in Threads, ImplicitTaskBegin(t) PROVE ContextInv'
  BY <1>0, <1>2, <1>4, ImplicitTaskBeginEffect, ContextTaskBegun
<1>5. ASSUME NEW t \in Threads, ImplicitTaskEnd(t) PROVE ContextInv'
  <2>1. ASSUME ~Crash
        PROVE  Ends(t) /\ Inner(t).kind = "task" /\ context' = context
               /\ restoring' = restoring
    BY <1>0, <1>5, <2>1, ImplicitTaskEndEffect DEF In
  <2> QED
    BY <1>2, <2>1, ContextTaskEnded
<1>6. ASSUME NEW t \in Threads, ParallelEnd(t) PROVE ContextInv'
  BY <1>0, <1>2, <1>6, ParallelEndEffect, ContextParallelEnded
<1>7. ASSUME NEW t \in Threads, ParallelRestore(t) PROVE ContextInv'
  <2>1. In(t, {"task"})
    BY <1>0, <1>7 DEF ParallelRestore, NestInv, PhaseInv
  <2> QED
    BY <1>0, <1>2, <1>7, <2>1, ParallelRestoreEffect, ContextRestoredNext
<1>8. ASSUME NEW t \in Threads, NEW k \in {"work", "masked"},
             NEW c \in WorkCodes \cup MaskedCodes, WorkBegin(t, k, c)
      PROVE  ContextInv'
  BY <1>0, <1>2, <1>8, WorkBeginEffect, ContextWorkBegun
<1>9. ASSUME NEW t \in Threads, WorkEnd(t) PROVE ContextInv'
  BY <1>0, <1>2, <1>9, WorkEndEffect, ContextInsideEnded
<1>10. ASSUME NEW t \in Threads, NEW join \in BOOLEAN, BarrierBegin(t, join)
       PROVE  ContextInv'
  BY <1>0, <1>10, BarrierBeginEffect, ContextBarrierBegun
<1>11. ASSUME NEW t \in Threads, BarrierEnd(t) PROVE ContextInv'
  BY <1>0, <1>2, <1>11, BarrierEndEffect, ContextBarrierEnded
<1>12. ASSUME NEW t \in Threads, MpiBegin(t) PROVE ContextInv'
  BY <1>0, <1>2, <1>12, MpiBeginEffect, ContextMpiBegun
<1>13. ASSUME NEW t \in Threads, MpiEnd(t) PROVE ContextInv'
  BY <1>0, <1>13, MpiEndEffect, ContextInsideEnded
<1>14. CASE ThreadEnd
  BY <1>14, ContextSame DEF ThreadEnd, controlVars
<1>15. ASSUME NEW m \in Modes, SwitchMode(m) PROVE ContextInv'
  BY <1>0, <1>15, ContextSwitched
<1>16. CASE Done
  BY <1>1, <1>16 DEF Done
<1>17. ASSUME NEW t \in Threads, NEW c \in WorkCodes, WorkBegin(t, "work", c)
       PROVE  ContextInv'
  BY <1>8, <1>17
<1>18. ASSUME NEW t \in Threads, NEW c \in MaskedCodes, WorkBegin(t, "masked", c)
       PROVE  ContextInv'
  BY <1>8, <1>18
<1> QED
  BY <1>1, <1>3, <1>4, <1>5, <1>6, <1>7, <1>9, <1>10, <1>11, <1>12, <1>13, <1>14, <1>15,
     <1>16, <1>17, <1>18 DEF Next

\* In the body of a task that has a record the thread-local pointers are the task
\* and its region, whatever nested regions and MPI calls ended in it.
THEOREM ContextRestoredAlways == Spec => []ContextRestored
<1>1. CoreInv /\ ContextInv => ContextRestored
  <2> SUFFICES ASSUME CoreInv, ContextInv, NEW t \in Threads \ (disturbed \cup restoring),
                      In(t, {"task"}), Inner(t).tdata # NULL
               PROVE  context[t].task = Inner(t).tdata /\ context[t].par = Inner(t).pdata
    BY DEF ContextRestored
  <2>0. PICK n \in Nat : n = Len(nest[t])
    BY Innermost DEF CoreInv
  <2>1. /\ DOMAIN nest[t] = 1 .. n /\ Inner(t) = nest[t][n] /\ n > 0 /\ n \in 1 .. n
        /\ Inner(t).kind = "task"
    BY <2>0, Innermost DEF In, Idle, CoreInv
  <2>2. Current(t, n)
    BY <2>1 DEF Current, Inside
  <2> QED
    BY <2>1, <2>2 DEF ContextInv, CurrentInv, ContextAt
<1> QED
  BY <1>1, CoreHolds, InitContext, NextContext, PTL DEF Spec

-----------------------------------------------------------------------------
(***************************************************************************)
(* Crashes.                                                                *)
(***************************************************************************)
\* In a program that traces all through, every construct but the initial task
\* has a region's record.
TracedInv ==
    disturbed = {} /\ registered = AllCallbacks /\ Active(mode) =>
    \A t \in Threads : \A i \in DOMAIN nest[t] :
        ~Initially(t, i) => nest[t][i].pdata # NULL

LEMMA TracedSame ==
    ASSUME TracedInv, UNCHANGED <<mode, registered, disturbed, nest>>
    PROVE  TracedInv'
BY DEF TracedInv, Active

LEMMA TracedOpens ==
    ASSUME TypeInv, TracedInv, NEW t \in Threads, NEW d, NEW code, Begins(t, d, code),
           disturbed = {} /\ registered = AllCallbacks /\ Active(mode) => d.pdata # NULL
    PROVE  TracedInv'
<1>0. PICK n \in Nat : n = Len(nest[t])
  BY Innermost
<1>1. /\ DOMAIN nest[t] = 1 .. n /\ DOMAIN (nest'[t]) = 1 .. n + 1
      /\ nest'[t][n + 1] = d /\ \A i \in 1 .. n : nest'[t][i] = nest[t][i]
      /\ \A u \in Threads \ {t} : nest'[u] = nest[u]
      /\ UNCHANGED <<mode, registered, disturbed>>
  BY <1>0, Innermost DEF Begins, Opens
<1>2. \A i \in 1 .. n + 1 : i \in 1 .. n \/ i = n + 1
  OBVIOUS
<1> SUFFICES ASSUME disturbed = {}, registered = AllCallbacks, Active(mode),
                    NEW u \in Threads, NEW i \in DOMAIN (nest'[u]), ~Initially(u, i)
             PROVE  nest'[u][i].pdata # NULL
  BY <1>1 DEF TracedInv, Initially, Active
<1>3. CASE u # t
  BY <1>1, <1>3 DEF TracedInv
<1>4. CASE u = t
  BY <1>1, <1>2, <1>4 DEF TracedInv
<1> QED
  BY <1>3, <1>4

LEMMA TracedCloses ==
    ASSUME TypeInv, TracedInv, NEW t \in Threads, Ends(t)
    PROVE  TracedInv'
<1>0. PICK n \in Nat : n = Len(nest[t])
  BY Innermost
<1>1. /\ DOMAIN nest[t] = 1 .. n /\ DOMAIN (nest'[t]) = 1 .. n - 1
      /\ \A i \in 1 .. n - 1 : nest'[t][i].pdata = nest[t][i].pdata
      /\ \A u \in Threads \ {t} : nest'[u] = nest[u]
      /\ UNCHANGED <<mode, registered, disturbed>>
  BY <1>0, Innermost DEF Ends, Closes, Alike
<1>2. \A i \in 1 .. n - 1 : i \in 1 .. n
  OBVIOUS
<1> SUFFICES ASSUME disturbed = {}, registered = AllCallbacks, Active(mode),
                    NEW u \in Threads, NEW i \in DOMAIN (nest'[u]), ~Initially(u, i)
             PROVE  nest'[u][i].pdata # NULL
  BY <1>1 DEF TracedInv, Initially, Active
<1>3. CASE u # t
  BY <1>1, <1>3 DEF TracedInv
<1>4. CASE u = t
  BY <1>1, <1>2, <1>4 DEF TracedInv
<1> QED
  BY <1>3, <1>4

\* What a construct inside a task has for a region.
LEMMA TracedInner ==
    ASSUME TypeInv, NestInv, TracedInv, NEW t \in Threads, nest[t] # <<>>,
           disturbed = {}, registered = AllCallbacks, Active(mode)
    PROVE  Inner(t).pdata # NULL
<1>0. PICK n \in Nat : n = Len(nest[t])
  BY Innermost
<1>1. /\ DOMAIN nest[t] = 1 .. n /\ Inner(t) = nest[t][n] /\ n \in 1 .. n
      /\ LinkAt(t, n)
  BY <1>0, Innermost DEF NestInv, LinkInv
<1>2. CASE Initially(t, n)
  <2>1. "implicit_task" \in registered
    BY DEF AllCallbacks
  <2>2. nest[t][n].pdata = <<Master, 1>>
    BY <1>1, <1>2, <2>1 DEF LinkAt
  <2> QED
    BY <1>1, <1>2, <2>1, <2>2, PointersAre
<1>3. CASE ~Initially(t, n)
  BY <1>1, <1>3 DEF TracedInv
<1> QED
  BY <1>2, <1>3

LEMMA TracedTaskBegun ==
    ASSUME TypeInv, NestInv, TeamInv, TracedInv, NEW t \in Threads, NEW d, TaskBegun(t, d)
    PROVE  TracedInv'
<1>1. PICK code : code = Deref(d.pdata).code
  OBVIOUS
<1>2. Begins(t, d, code)
  BY <1>1 DEF TaskBegun
<1>3. ASSUME disturbed = {}, registered = AllCallbacks, Active(mode) PROVE d.pdata # NULL
  <2>1. Delivered("parallel_begin")
    BY <1>3 DEF Delivered, AllCallbacks
  <2>2. CASE Idle(t)
    <3>1. team.open /\ d.pdata = team.pdata
      BY <2>2 DEF TaskBegun, RegionFor
    <3>2. HasRegion /\ team.pdata = nest[Master][2].own
      BY <3>1 DEF TeamInv
    <3>3. 2 \in DOMAIN nest[Master] /\ nest[Master][2].kind = "parallel"
      BY <3>2, Innermost, CodesAre DEF HasRegion
    <3>4. DeliveredAt(Master, 2)
      BY <1>3, <3>3, CodesAre DEF NestInv, DeliveredInv, Regular
    <3> QED
      BY <2>1, <3>1, <3>2, <3>3, <3>4 DEF DeliveredAt
  <2>3. CASE ~Idle(t)
    <3>1. nest[t] # <<>> /\ d.pdata = Inner(t).pdata
      BY <2>3 DEF TaskBegun, RegionFor, Idle
    <3> QED
      BY <1>3, <3>1, TracedInner
  <2> QED
    BY <2>2, <2>3
<1> QED
  BY <1>2, <1>3, TracedOpens

LEMMA NextTraced == CoreInv /\ TracedInv /\ [Next]_vars => TracedInv'
<1> SUFFICES ASSUME CoreInv, TracedInv, [Next]_vars PROVE TracedInv'
  OBVIOUS
<1>0. TypeInv /\ NestInv /\ TeamInv
  BY DEF CoreInv
<1>1. CASE UNCHANGED vars
  BY <1>1, TracedSame DEF vars, controlVars
<1>2. CASE Crash
  BY <1>2, TracedSame DEF Crash, controlVars
<1>3. ASSUME NEW t \in Threads, NEW c \in ParallelCodes, ParallelBegin(t, c)
      PROVE  TracedInv'
  <2>1. ASSUME NEW d, ParallelBegun(t, c, d) PROVE TracedInv'
    <3>1. Begins(t, d, c) /\ d.pdata = d.own /\ (d.own # NULL <=> Delivered("parallel_begin"))
      BY <2>1 DEF ParallelBegun
    <3>2. registered = AllCallbacks /\ Active(mode) => d.pdata # NULL
      BY <3>1 DEF Delivered, AllCallbacks
    <3> QED
      BY <1>0, <3>1, <3>2, TracedOpens
  <2> QED
    BY <1>0, <1>2, <1>3, <2>1, ParallelBeginEffect
<1>4. ASSUME NEW t \in Threads, ImplicitTaskBegin(t) PROVE TracedInv'
  BY <1>0, <1>2, <1>4, ImplicitTaskBeginEffect, TracedTaskBegun
<1>5. ASSUME NEW t \in Threads, ImplicitTaskEnd(t) PROVE TracedInv'
  <2>1. ~Crash => Ends(t)
    BY <1>0, <1>5, ImplicitTaskEndEffect
  <2> QED
    BY <1>0, <1>2, <2>1, TracedCloses
<1>6. ASSUME NEW t \in Threads, ParallelEnd(t) PROVE TracedInv'
  BY <1>0, <1>2, <1>6, ParallelEndEffect, TracedCloses DEF ParallelEnded
<1>7. ASSUME NEW t \in Threads, ParallelRestore(t) PROVE TracedInv'
  <2>1. UNCHANGED <<mode, registered, disturbed, nest>>
    BY <1>7 DEF ParallelRestore, Crash, controlVars
  <2> QED
    BY <2>1, TracedSame
<1>8. ASSUME NEW t \in Threads, NEW k \in {"work", "masked"},
             NEW c \in WorkCodes \cup MaskedCodes, WorkBegin(t, k, c)
      PROVE  TracedInv'
  <2>1. ASSUME NEW d, WorkBegun(t, k, c, d) PROVE TracedInv'
    <3>1. Begins(t, d, c) /\ d.pdata = Inner(t).pdata /\ nest[t] # <<>>
      BY <1>0, <2>1, BodyShape DEF WorkBegun, Idle
    <3> QED
      BY <1>0, <3>1, TracedInner, TracedOpens
  <2> QED
    BY <1>0, <1>2, <1>8, <2>1, WorkBeginEffect
<1>9. ASSUME NEW t \in Threads, WorkEnd(t) PROVE TracedInv'
  BY <1>0, <1>2, <1>9, WorkEndEffect, TracedCloses DEF WorkEnded
<1>10. ASSUME NEW t \in Threads, NEW join \in BOOLEAN, BarrierBegin(t, join)
       PROVE  TracedInv'
  <2>1. PICK d : BarrierBegun(t, join, d)
    BY <1>0, <1>10, BarrierBeginEffect
  <2>2. Begins(t, d, NoCode) /\ d.pdata = Inner(t).pdata /\ nest[t] # <<>>
    BY <1>0, <2>1, BodyShape DEF BarrierBegun, Idle
  <2> QED
    BY <1>0, <2>2, TracedInner, TracedOpens
<1>11. ASSUME NEW t \in Threads, BarrierEnd(t) PROVE TracedInv'
  BY <1>0, <1>2, <1>11, BarrierEndEffect, TracedCloses DEF BarrierEnded
<1>12. ASSUME NEW t \in Threads, MpiBegin(t) PROVE TracedInv'
  <2>1. ASSUME NEW d, MpiBegun(t, d) PROVE TracedInv'
    <3>1. Begins(t, d, MpiCode) /\ d.pdata = Inner(t).pdata /\ nest[t] # <<>>
      BY <2>1 DEF MpiBegun, In, Idle
    <3> QED
      BY <1>0, <3>1, TracedInner, TracedOpens
  <2> QED
    BY <1>0, <1>2, <1>12, <2>1, MpiBeginEffect
<1>13. ASSUME NEW t \in Threads, MpiEnd(t) PROVE TracedInv'
  BY <1>0, <1>13, MpiEndEffect, TracedCloses DEF MpiEnded
<1>14. CASE ThreadEnd
  BY <1>14, TracedSame DEF ThreadEnd, controlVars
<1>15. ASSUME NEW m \in Modes, SwitchMode(m) PROVE TracedInv'
  <2> SUFFICES ASSUME disturbed' = {}, NEW t \in Threads, NEW i \in DOMAIN (nest'[t]),
                      ~Initially(t, i)
               PROVE  FALSE
    BY DEF TracedInv
  <2>1. nest' = nest /\ (Idle(t) \/ AtInitialTask(t))
    BY <1>15 DEF SwitchMode, Disturb
  <2>2. DOMAIN nest[t] = 1 .. Len(nest[t]) /\ Len(nest[t]) \in Nat
        /\ (nest[t] # <<>> <=> Len(nest[t]) > 0)
    BY <1>0, Innermost
  <2>3. CASE Idle(t)
    BY <2>1, <2>2, <2>3 DEF Idle
  <2>4. CASE AtInitialTask(t)
    BY <2>1, <2>2, <2>4 DEF AtInitialTask, Initially
  <2> QED
    BY <2>1, <2>3, <2>4
<1>16. CASE Done
  BY <1>1, <1>16 DEF Done
<1>17. ASSUME NEW t \in Threads, NEW c \in WorkCodes, WorkBegin(t, "work", c)
       PROVE  TracedInv'
  BY <1>8, <1>17
<1>18. ASSUME NEW t \in Threads, NEW c \in MaskedCodes, WorkBegin(t, "masked", c)
       PROVE  TracedInv'
  BY <1>8, <1>18
<1> QED
  BY <1>1, <1>3, <1>4, <1>5, <1>6, <1>7, <1>9, <1>10, <1>11, <1>12, <1>13, <1>14, <1>15,
     <1>16, <1>17, <1>18 DEF Next

LEMMA InitTraced == Init => TracedInv
<1> SUFFICES ASSUME Init PROVE TracedInv
  OBVIOUS
<1>1. \A t \in Threads : \A i \in DOMAIN nest[t] : t = Master /\ i = 1
  BY InitialNest, CodesAre
<1> QED
  BY <1>1 DEF TracedInv, Initially

\* The program has traced all through, with room on its stacks, and no worker
\* returns from a region nested in the team's.
Sound ==
    /\ Tracing /\ disturbed = {} /\ registered = AllCallbacks
    /\ \A t \in Threads : ~Full(t)
    /\ restoring \cap Workers = {}

CrashInv == crashed => ~Sound

\* A task other than the initial one has its record and its region's.
LEMMA SoundTask ==
    ASSUME CoreInv, ContextInv, TracedInv, Sound, NEW t \in Threads, t \notin restoring,
           NEW i, Current(t, i), nest[t][i].kind = "task", ~Initially(t, i)
    PROVE  /\ nest[t][i].pdata # NULL /\ nest[t][i].tdata # NULL /\ top[t] # 0
           /\ context[t].par = nest[t][i].pdata
<1>1. /\ i \in DOMAIN nest[t] /\ t \notin disturbed /\ registered = AllCallbacks
      /\ Active(mode) /\ disturbed = {}
  BY DEF Current, Sound, Tracing, Active
<1>2. nest[t][i].pdata # NULL
  BY <1>1 DEF TracedInv
<1>3. DeliveredAt(t, i) /\ LinkAt(t, i) /\ ContextAt(t, i)
  BY <1>1 DEF CoreInv, NestInv, DeliveredInv, LinkInv, Regular, ContextInv, CurrentInv
<1>4. nest[t][i].own # NULL /\ nest[t][i].tdata = nest[t][i].own
  BY <1>1, <1>2, <1>3 DEF DeliveredAt, LinkAt, Delivered, AllCallbacks
<1>5. OwnAt(t, i)
  <2>1. nest[t] # <<>>
    <3>1. nest[t] = <<>> => DOMAIN nest[t] = {}
      OBVIOUS
    <3> QED
      BY <1>1, <3>1
  <2> QED
    BY <1>1, <2>1 DEF CoreInv, StackInv, Regular, Standing, Stacked
<1>6. top[t] # 0
  <2>1. nest[t][i].own[2] \in Base(t) + 1 .. top[t]
    BY <1>4, <1>5 DEF OwnAt
  <2>2. Base(t) \in Nat /\ top[t] \in Nat
    BY StackTyped DEF CoreInv
  <2> QED
    BY <2>1, <2>2
<1> QED
  BY <1>2, <1>3, <1>4, <1>6 DEF ContextAt

LEMMA SoundBody ==
    ASSUME CoreInv, ContextInv, TracedInv, Sound, NEW t \in Threads, t \notin restoring,
           InBody(t)
    PROVE  /\ Inner(t).pdata # NULL /\ Inner(t).tdata # NULL /\ top[t] # 0
           /\ context[t].par = Inner(t).pdata
<1>0. PICK n \in Nat : n = Len(nest[t])
  BY Innermost DEF CoreInv
<1>1. /\ DOMAIN nest[t] = 1 .. n /\ Inner(t) = nest[t][n] /\ n \in 1 .. n
      /\ Inner(t).kind = "task"
  BY <1>0, Innermost DEF CoreInv, InBody, In, Idle
<1>2. Current(t, n) /\ ~Initially(t, n)
  BY <1>0, <1>1 DEF Current, Inside, InBody, AtInitialTask, Initially
<1> QED
  BY <1>1, <1>2, SoundTask

\* The same where a worksharing construct, a masked one or a barrier is innermost.
LEMMA SoundInside ==
    ASSUME CoreInv, ContextInv, TracedInv, Sound, NEW t \in Threads, t \notin restoring,
           In(t, {"work", "masked", "barrier"})
    PROVE  /\ Inner(t).pdata # NULL /\ Inner(t).tdata # NULL /\ top[t] # 0
           /\ context[t].par = Inner(t).pdata
<1>0. PICK n \in Nat : n = Len(nest[t])
  BY Innermost DEF CoreInv
<1>1. /\ DOMAIN nest[t] = 1 .. n /\ Inner(t) = nest[t][n] /\ n \in 1 .. n /\ n > 0
      /\ Inner(t).kind \in {"work", "masked", "barrier"}
  BY <1>0, Innermost DEF CoreInv, In, Idle
<1>2. ShapeAt(t, n) /\ LinkAt(t, n)
  BY <1>1 DEF CoreInv, NestInv, ShapeInv, LinkInv
<1>3. n # 1
  BY <1>1, <1>2 DEF ShapeAt
<1>4. PICK m : m = n - 1
  OBVIOUS
<1>5. m \in 1 .. n /\ n > 1 /\ m < n /\ \A j \in 1 .. n : j > m => j = n
  BY <1>1, <1>3, <1>4
<1>6. nest[t][m].kind = "task"
  BY <1>1, <1>2, <1>4, <1>5 DEF ShapeAt
<1>7. Inner(t).pdata = nest[t][m].pdata /\ Inner(t).tdata = nest[t][m].tdata
  BY <1>1, <1>2, <1>4 DEF LinkAt, Inside
<1>8. ~Initially(t, m)
  <2>1. t = Master /\ m = 1 => n = 2
    BY <1>4
  <2> QED
    BY <1>1, <1>2, <2>1 DEF ShapeAt, Initially
<1>9. Current(t, m)
  BY <1>1, <1>5, <1>6 DEF Current, Inside
<1> QED
  BY <1>6, <1>7, <1>8, <1>9, SoundTask

-----------------------------------------------------------------------------
LEMMA SoundParallelBegin ==
    ASSUME Sound, NEW t \in Threads, NEW c, ParallelBegin(t, c)
    PROVE  crashed' = crashed
BY DEF ParallelBegin, Sound

LEMMA SoundTaskBegin ==
    ASSUME Sound, NEW t \in Threads, ImplicitTaskBegin(t)
    PROVE  crashed' = crashed
BY DEF ImplicitTaskBegin, Sound

LEMMA SoundTaskEnd ==
    ASSUME CoreInv, Sound, NEW t \in Threads, ImplicitTaskEnd(t)
    PROVE  crashed' = crashed
<1>1. In(t, {"task"}) /\ nest[t] # <<>> /\ t \notin disturbed /\ TypeInv /\ NestInv
  BY DEF ImplicitTaskEnd, In, Idle, Sound, CoreInv
<1>2. Stacked(t)
  BY <1>1 DEF CoreInv, StackInv, Regular, Standing
<1>3. Inner(t).tdata = Inner(t).own
  BY <1>1, InnerShape DEF In, LinkAt
<1>4. Inner(t).tdata # NULL => top[t] # 0
  BY <1>1, <1>2, <1>3, InnerOnTop
<1> QED
  BY <1>4 DEF ImplicitTaskEnd

LEMMA SoundParallelEnd ==
    ASSUME CoreInv, ContextInv, Sound, NEW t \in Threads, ParallelEnd(t)
    PROVE  crashed' = crashed
<1>0. PICK n \in Nat : n = Len(nest[t])
  BY Innermost DEF CoreInv
<1>1. /\ In(t, {"parallel"}) /\ nest[t] # <<>> /\ t \notin disturbed /\ t \notin restoring
      /\ TypeInv /\ NestInv /\ registered = AllCallbacks /\ Active(mode)
  BY DEF ParallelEnd, Executes, In, Idle, Sound, CoreInv, Tracing, Active
<1>2. /\ DOMAIN nest[t] = 1 .. n /\ Inner(t) = nest[t][n] /\ n \in 1 .. n
      /\ Inner(t).kind = "parallel"
  BY <1>0, <1>1, Innermost DEF In
<1>3. Stacked(t) /\ DeliveredAt(t, n) /\ LinkAt(t, n)
  BY <1>1, <1>2 DEF CoreInv, StackInv, Regular, Standing, NestInv, DeliveredInv, LinkInv
<1>4. Inner(t).own # NULL /\ Inner(t).pdata = Inner(t).own
  BY <1>1, <1>2, <1>3 DEF DeliveredAt, LinkAt, Delivered, AllCallbacks
<1>5. top[t] # 0
  BY <1>1, <1>3, <1>4, InnerOnTop
<1>6. TopOf(t) # NULL
  BY <1>5, PointersAre DEF TopOf
<1>7. Current(t, n)
  BY <1>2 DEF Current, Inside
<1>8. context[t].par = Inner(t).pdata
  BY <1>1, <1>2, <1>4, <1>7 DEF ContextInv, CurrentInv, ContextAt, AllCallbacks
<1> QED
  BY <1>6, <1>8 DEF ParallelEnd

LEMMA SoundRestore ==
    ASSUME CoreInv, Sound, NEW t \in Threads, ParallelRestore(t)
    PROVE  crashed' = crashed
<1>1. /\ t \in restoring /\ t = Master /\ In(t, {"task"}) /\ nest[t] # <<>>
      /\ t \notin disturbed /\ TypeInv /\ NestInv /\ registered # {}
  BY CodesAre DEF ParallelRestore, In, Idle, Sound, CoreInv, NestInv, PhaseInv, AllCallbacks
<1>2. Stacked(t) /\ Base(t) = 1
  BY <1>1 DEF CoreInv, StackInv, Regular, Standing, Base
<1>3. Inner(t).tdata = Inner(t).own
  BY <1>1, InnerShape DEF In, LinkAt
<1>4. ASSUME Inner(t).tdata # NULL PROVE Parent(Inner(t).tdata) # NULL
  <2>1. Inner(t).tdata = <<t, top[t]>> /\ top[t] \in 1 + 1 .. top[t] /\ top[t] \in Nat
    BY <1>1, <1>2, <1>3, <1>4, InnerOnTop, StackTyped
  <2>2. top[t] # 1
    BY <2>1
  <2>3. Parent(<<t, top[t]>>) = <<t, top[t] - 1>>
    BY <2>2, PointersAre DEF Parent
  <2> QED
    BY <2>1, <2>3, PointersAre
<1> QED
  BY <1>4 DEF ParallelRestore

LEMMA SoundWorkBegin ==
    ASSUME CoreInv, ContextInv, TracedInv, Sound, NEW t \in Threads,
           NEW k, NEW c, WorkBegin(t, k, c)
    PROVE  crashed' = crashed
<1>1. InBody(t) /\ t \notin restoring /\ ~Full(t)
  BY DEF WorkBegin, MayBegin, Executes, Sound
<1>2. Inner(t).pdata # NULL /\ context[t].par # NULL
  BY <1>1, SoundBody
<1> QED
  BY <1>1, <1>2 DEF WorkBegin

LEMMA SoundWorkEnd ==
    ASSUME CoreInv, ContextInv, TracedInv, Sound, NEW t \in Threads, WorkEnd(t)
    PROVE  crashed' = crashed
<1>1. In(t, {"work", "masked", "barrier"}) /\ t \notin restoring
  BY DEF WorkEnd, Executes, In
<1>2. Inner(t).pdata # NULL /\ top[t] # 0
  BY <1>1, SoundInside
<1>3. TopOf(t) # NULL
  BY <1>2, PointersAre DEF TopOf
<1> QED
  BY <1>2, <1>3 DEF WorkEnd

LEMMA SoundBarrierBegin ==
    ASSUME CoreInv, ContextInv, TracedInv, Sound, NEW t \in Threads, NEW join,
           BarrierBegin(t, join)
    PROVE  ~crashed'
<1>1. InBody(t) /\ t \notin restoring
  BY DEF BarrierBegin, Executes
<1>2. Inner(t).pdata # NULL /\ context[t].par # NULL
  BY <1>1, SoundBody
<1> QED
  BY <1>2 DEF BarrierBegin, CrashesInWait

LEMMA SoundBarrierEnd ==
    ASSUME CoreInv, ContextInv, TracedInv, Sound, NEW t \in Threads, BarrierEnd(t)
    PROVE  crashed' = crashed
<1>1. In(t, {"work", "masked", "barrier"}) /\ t \notin restoring
  BY DEF BarrierEnd, Executes, In
<1>2. context[t].par # NULL
  BY <1>1, SoundInside
<1> QED
  BY <1>2 DEF BarrierEnd, CrashesAfterWait

LEMMA SoundMpiBegin ==
    ASSUME Sound, NEW t \in Threads, MpiBegin(t)
    PROVE  crashed' = crashed
BY DEF MpiBegin, Sound

\* A step that crashes leaves everything the condition reads as it was.
LEMMA CrashKeepsSound == ASSUME Crash, Sound' PROVE Sound
BY DEF Crash, Sound, Full, controlVars, stackVars, Tracing

LEMMA SafeStep ==
    ASSUME ~crashed, Crash \/ crashed' = crashed, Sound => crashed' = crashed
    PROVE  CrashInv'
BY CrashKeepsSound DEF CrashInv

LEMMA NextCrash ==
    CoreInv /\ ContextInv /\ TracedInv /\ CrashInv /\ [Next]_vars => CrashInv'
<1> SUFFICES ASSUME CoreInv, ContextInv, TracedInv, CrashInv, [Next]_vars PROVE CrashInv'
  OBVIOUS
<1>1. CASE UNCHANGED vars
  BY <1>1 DEF vars, controlVars, stackVars, CrashInv, Sound, Full, Tracing
<1>2. ASSUME NEW t \in Threads, NEW c \in ParallelCodes, ParallelBegin(t, c)
      PROVE  CrashInv'
  <2>1. ~crashed /\ (Crash \/ crashed' = crashed)
    BY <1>2 DEF ParallelBegin, MayBegin, Executes
  <2> QED
    BY <1>2, <2>1, SafeStep, SoundParallelBegin
<1>3. ASSUME NEW t \in Threads, ImplicitTaskBegin(t) PROVE CrashInv'
  <2>1. ~crashed /\ (Crash \/ crashed' = crashed)
    BY <1>3 DEF ImplicitTaskBegin, Executes
  <2> QED
    BY <1>3, <2>1, SafeStep, SoundTaskBegin
<1>4. ASSUME NEW t \in Threads, ImplicitTaskEnd(t) PROVE CrashInv'
  <2>1. ~crashed /\ (Crash \/ crashed' = crashed)
    BY <1>4 DEF ImplicitTaskEnd, Executes
  <2> QED
    BY <1>4, <2>1, SafeStep, SoundTaskEnd
<1>5. ASSUME NEW t \in Threads, ParallelEnd(t) PROVE CrashInv'
  <2>1. ~crashed /\ (Crash \/ crashed' = crashed)
    BY <1>5 DEF ParallelEnd, Executes
  <2> QED
    BY <1>5, <2>1, SafeStep, SoundParallelEnd
<1>6. ASSUME NEW t \in Threads, ParallelRestore(t) PROVE CrashInv'
  <2>1. ~crashed /\ (Crash \/ crashed' = crashed)
    BY <1>6 DEF ParallelRestore
  <2> QED
    BY <1>6, <2>1, SafeStep, SoundRestore
<1>7. ASSUME NEW t \in Threads, NEW k, NEW c, WorkBegin(t, k, c) PROVE CrashInv'
  <2>1. ~crashed /\ (Crash \/ crashed' = crashed)
    BY <1>7 DEF WorkBegin, MayBegin, Executes
  <2> QED
    BY <1>7, <2>1, SafeStep, SoundWorkBegin
<1>8. ASSUME NEW t \in Threads, WorkEnd(t) PROVE CrashInv'
  <2>1. ~crashed /\ (Crash \/ crashed' = crashed)
    BY <1>8 DEF WorkEnd, Executes
  <2> QED
    BY <1>8, <2>1, SafeStep, SoundWorkEnd
<1>9. ASSUME NEW t \in Threads, NEW join \in BOOLEAN, BarrierBegin(t, join)
      PROVE  CrashInv'
  <2>1. /\ UNCHANGED <<mode, registered, top, restoring>> /\ disturbed' = disturbed
    BY <1>9 DEF BarrierBegin, Enter, controlVars, stackVars
  <2>2. Sound' => Sound
    BY <2>1 DEF Sound, Full, Tracing
  <2> QED
    BY <1>9, <2>2, SoundBarrierBegin DEF CrashInv
<1>10. ASSUME NEW t \in Threads, BarrierEnd(t) PROVE CrashInv'
  <2>1. ~crashed /\ (Crash \/ crashed' = crashed)
    BY <1>10 DEF BarrierEnd, Executes
  <2> QED
    BY <1>10, <2>1, SafeStep, SoundBarrierEnd
<1>11. ASSUME NEW t \in Threads, MpiBegin(t) PROVE CrashInv'
  <2>1. ~crashed /\ (Crash \/ crashed' = crashed)
    BY <1>11 DEF MpiBegin, MayBegin, Executes
  <2> QED
    BY <1>11, <2>1, SafeStep, SoundMpiBegin
<1>12. ASSUME NEW t \in Threads, MpiEnd(t) PROVE CrashInv'
  <2>1. ~crashed /\ crashed' = crashed
    BY <1>12 DEF MpiEnd, Executes
  <2> QED
    BY <2>1, SafeStep
<1>13. CASE ThreadEnd
  BY <1>13, SafeStep DEF ThreadEnd
<1>14. ASSUME NEW m \in Modes, SwitchMode(m) PROVE CrashInv'
  BY <1>14, SafeStep DEF SwitchMode
<1>15. CASE Done
  BY <1>1, <1>15 DEF Done
<1> QED
  BY <1>1, <1>2, <1>3, <1>4, <1>5, <1>6, <1>7, <1>8, <1>9, <1>10, <1>11, <1>12, <1>13,
     <1>14, <1>15 DEF Next

LEMMA TracedHolds == Spec => [](CoreInv /\ ContextInv /\ TracedInv)
<1> QED
  BY CoreHolds, InitContext, NextContext, InitTraced, NextTraced, PTL DEF Spec

\* A program that traces all through follows no NULL pointer and keeps
\* parallel_end's assertion, unless a stack is full or a worker returns from a
\* region nested in the team's.
THEOREM CrashOnlyIfDisturbedAlways == Spec => []CrashOnlyIfDisturbed
<1>1. Init => CrashInv
  BY DEF Init, CrashInv
<1>2. CrashInv => CrashOnlyIfDisturbed
  <2>1. CallbacksOf("TRACING") = AllCallbacks
    BY CallbacksAre DEF CallbacksOf
  <2> QED
    BY <2>1 DEF CrashInv, CrashOnlyIfDisturbed, Sound
<1> QED
  BY <1>1, <1>2, TracedHolds, NextCrash, PTL DEF Spec

-----------------------------------------------------------------------------
(***************************************************************************)
(* The master's events.                                                    *)
(***************************************************************************)
Region(c) == <<Master, "parallel", c>>

\* Whether on_ompt_callback_sync_region takes the barrier for the join barrier,
\* and the lexgion it goes by.
JoinSeen(i) ==
    nest[Master][i].joined /\ context[Master].parcode = nest[Master][i].code
BarrierBy(i) ==
    IF ~JoinSeen(i) /\ context[Master].work # NULL THEN context[Master].work
    ELSE Region(nest[Master][i - 1].code)

\* The begin of an open construct was recorded just if its end, now, would be.
ShownAt(i) ==
    LET c == nest[Master][i] IN
    /\ c.kind = "parallel"
       => (c.shown <=> c.own # NULL /\ Tracing /\ Region(c.code) \in traced)
    /\ c.kind = "task"
       => (c.shown <=> i > 1 /\ c.own # NULL /\ Shows("task", Region(c.code)))
    /\ c.kind \in {"work", "masked"} /\ c.own # NULL
       => (c.shown <=> Shows(c.kind, <<Master, c.kind, c.code>>))
    /\ c.kind = "masked" /\ c.own = NULL
       => (c.shown <=> /\ Delivered("masked")
                       /\ Shows("masked", Region(nest[Master][i - 1].code)))
    /\ c.kind = "barrier"
       => (c.shown <=> /\ Tracing /\ "sync_region" \in registered /\ c.tdata # NULL
                       /\ BarrierBy(i) \in traced
                       /\ JoinSeen(i) \/ "barrier" \in EnabledEvents)
    /\ c.kind = "mpi" => ~c.shown

ShownInv == Master \notin disturbed /\ ~crashed =>
                \A i \in DOMAIN nest[Master] : ShownAt(i)
TracedCodes == \A l \in traced : l[3] \in UserCodes
WorkOwn == \A t \in Threads : context[t].work # NULL => context[t].work[1] = t
EventInv == ShownInv /\ TracedCodes /\ WorkOwn

\* A region or a task whose bit stays.
Enclosing(i) == nest[Master][i].kind \in {"parallel", "task"}

LEMMA ShownStays ==
    ASSUME NEW i, ShownAt(i), Enclosing(i), UNCHANGED <<mode, registered>>,
           Alike(nest'[Master][i], nest[Master][i]),
           Region(nest[Master][i].code) \in traced' <=> Region(nest[Master][i].code) \in traced
    PROVE  ShownAt(i)'
BY DEF ShownAt, Enclosing, Alike, Shows, Tracing

\* All but the innermost construct are regions and tasks.
LEMMA EnclosingBelow ==
    ASSUME CoreInv, NEW n \in Nat, n = Len(nest[Master]), NEW i \in 1 .. n - 1
    PROVE  Enclosing(i)
<1>1. DOMAIN nest[Master] = 1 .. n
  BY Innermost, CodesAre DEF CoreInv
<1>2. PICK j : j = i + 1
  OBVIOUS
<1>3. j \in 1 .. n /\ j > 1 /\ j - 1 = i
  BY <1>2
<1>4. ShapeAt(Master, j)
  BY <1>1, <1>3, CodesAre DEF CoreInv, NestInv, ShapeInv
<1> QED
  BY <1>3, <1>4 DEF ShapeAt, Enclosing

\* Nothing of the master changes.
LEMMA ShownElsewhere ==
    ASSUME ShownInv, UNCHANGED <<mode, registered>>,
           nest'[Master] = nest[Master], context'[Master] = context[Master],
           Master \notin disturbed' => Master \notin disturbed,
           ~crashed' => ~crashed,
           \A k, c : <<Master, k, c>> \in traced' <=> <<Master, k, c>> \in traced,
           context[Master].work # NULL
           => (context[Master].work \in traced' <=> context[Master].work \in traced)
    PROVE  ShownInv'
<1>1. Delivered("masked")' <=> Delivered("masked")
  BY DEF Delivered
<1>2. \A k, c : Shows(k, <<Master, k, c>>)' <=> Shows(k, <<Master, k, c>>)
  BY DEF Shows, Tracing
<1>3. \A k, c : Shows(k, Region(c))' <=> Shows(k, Region(c))
  BY DEF Shows, Tracing, Region
<1>4. \A i : JoinSeen(i)' <=> JoinSeen(i)
  BY DEF JoinSeen
<1>5. \A i : BarrierBy(i)' = BarrierBy(i) /\ (BarrierBy(i) \in traced' <=> BarrierBy(i) \in traced)
  BY <1>4 DEF BarrierBy, Region
<1>6. \A c : Region(c) \in traced' <=> Region(c) \in traced
  BY DEF Region
<1>7. ASSUME NEW i, ShownAt(i) PROVE ShownAt(i)'
  BY <1>1, <1>2, <1>3, <1>4, <1>5, <1>6, <1>7 DEF ShownAt, Tracing
<1> QED
  BY <1>7 DEF ShownInv

\* The master begins a construct.
LEMMA ShownOpens ==
    ASSUME CoreInv, ShownInv, NEW d, NEW code, Begins(Master, d, code), Fits(Master, d),
           ~crashed' => ~crashed,
           \A i \in DOMAIN nest[Master] :
               Region(nest[Master][i].code) \in traced'
               <=> Region(nest[Master][i].code) \in traced,
           NEW n \in Nat, n = Len(nest[Master]),
           Master \notin disturbed /\ ~crashed' => ShownAt(n + 1)'
    PROVE  ShownInv'
<1>1. /\ DOMAIN nest[Master] = 1 .. n /\ DOMAIN (nest'[Master]) = 1 .. n + 1
      /\ \A i \in 1 .. n : nest'[Master][i] = nest[Master][i]
      /\ UNCHANGED <<mode, registered, disturbed>>
  BY Innermost, CodesAre DEF Begins, Opens, CoreInv
<1> SUFFICES ASSUME Master \notin disturbed, ~crashed', NEW i \in 1 .. n + 1
             PROVE  ShownAt(i)'
  BY <1>1 DEF ShownInv
<1>2. CASE i = n + 1
  BY <1>2
<1>3. CASE i # n + 1
  <2>1. i \in 1 .. n
    BY <1>3
  <2>2. Enclosing(i)
    <3>1. CASE i = n
      <4>1. nest[Master] # <<>> /\ Inner(Master) = nest[Master][n]
        BY <2>1, Innermost, CodesAre DEF CoreInv
      <4> QED
        BY <3>1, <4>1 DEF Fits, Idle, Enclosing
    <3>2. CASE i # n
      <4>1. i \in 1 .. n - 1
        BY <2>1, <3>2
      <4> QED
        BY <4>1, EnclosingBelow
    <3> QED
      BY <3>1, <3>2
  <2>3. ShownAt(i)
    BY <1>1, <2>1 DEF ShownInv
  <2>4. Alike(nest'[Master][i], nest[Master][i])
    BY <1>1, <2>1 DEF Alike
  <2> QED
    BY <1>1, <2>1, <2>2, <2>3, <2>4, ShownStays
<1> QED
  BY <1>2, <1>3

\* It ends one.
LEMMA ShownCloses ==
    ASSUME CoreInv, ShownInv, Ends(Master)
    PROVE  ShownInv'
<1>0. PICK n \in Nat : n = Len(nest[Master])
  BY Innermost, CodesAre DEF CoreInv
<1>1. /\ DOMAIN nest[Master] = 1 .. n /\ DOMAIN (nest'[Master]) = 1 .. n - 1
      /\ \A i \in 1 .. n - 1 : Alike(nest'[Master][i], nest[Master][i])
      /\ UNCHANGED <<mode, registered, disturbed, traced, crashed>>
  BY <1>0, Innermost, CodesAre DEF Ends, Closes, CoreInv
<1> SUFFICES ASSUME Master \notin disturbed, ~crashed, NEW i \in 1 .. n - 1
             PROVE  ShownAt(i)'
  BY <1>1 DEF ShownInv
<1>2. Enclosing(i) /\ i \in 1 .. n
  BY <1>0, EnclosingBelow
<1>3. ShownAt(i)
  BY <1>1, <1>2 DEF ShownInv
<1> QED
  BY <1>1, <1>2, <1>3, ShownStays

\* The lexgion of a task's region.
LEMMA MasterRegion ==
    ASSUME CoreInv, Master \notin disturbed, NEW i \in DOMAIN nest[Master], i > 1,
           nest[Master][i].kind = "task", nest[Master][i].pdata # NULL
    PROVE  LexgionOf(nest[Master][i].pdata) = Region(nest[Master][i].code)
<1>0. PICK n \in Nat : n = Len(nest[Master])
  BY Innermost, CodesAre DEF CoreInv
<1>1. DOMAIN nest[Master] = 1 .. n /\ nest[Master] # <<>>
  BY <1>0, Innermost, CodesAre DEF CoreInv
<1>2. PICK j : j = i - 1
  OBVIOUS
<1>3. j \in 1 .. n /\ i \in 1 .. n
  BY <1>1, <1>2
<1>4. ShapeAt(Master, i) /\ LinkAt(Master, i) /\ OwnAt(Master, j)
  BY <1>1, <1>3, CodesAre
     DEF CoreInv, NestInv, ShapeInv, LinkInv, StackInv, Regular, Standing, Stacked
<1>5. /\ nest[Master][j].kind = "parallel"
      /\ nest[Master][i].pdata = nest[Master][j].own
      /\ nest[Master][i].code = nest[Master][j].code
  BY <1>2, <1>4 DEF ShapeAt, LinkAt
<1>6. PICK p : p = nest[Master][i].pdata
  OBVIOUS
<1>7. p = <<Master, p[2]>> /\ slots[Master][p[2]].kind = "parallel"
      /\ slots[Master][p[2]].code = nest[Master][i].code
  BY <1>4, <1>5, <1>6 DEF OwnAt
<1>8. p[1] = Master
  BY <1>7, PointersAre
<1> QED
  BY <1>6, <1>7, <1>8 DEF LexgionOf, Deref, Region

-----------------------------------------------------------------------------
(***************************************************************************)
(* What keeps them.                                                        *)
(***************************************************************************)
\* What a decision changes.
LEMMA DecideEffect ==
    ASSUME NEW t, NEW k, NEW c, Decide(t, k, c)
    PROVE  /\ \A l : l # <<t, k, c>> => (l \in traced' <=> l \in traced)
           /\ traced' \subseteq traced \cup {<<t, k, c>>}
BY DEF Decide

LEMMA DecideCodes ==
    ASSUME TracedCodes, NEW t, NEW k, NEW c \in UserCodes,
           traced' = traced \/ Decide(t, k, c)
    PROVE  TracedCodes'
<1>1. traced' \subseteq traced \cup {<<t, k, c>>}
  BY DecideEffect
<1> QED
  BY <1>1 DEF TracedCodes

\* What the other threads do leaves the master's events.
LEMMA ShownOthers ==
    ASSUME ShownInv, WorkOwn, NEW t \in Threads, t # Master, NEW k, NEW c,
           UNCHANGED <<mode, registered, disturbed>>,
           \A u \in Threads \ {t} : nest'[u] = nest[u] /\ context'[u] = context[u],
           ~crashed' => ~crashed, traced' = traced \/ Decide(t, k, c)
    PROVE  ShownInv'
<1>1. Master \in Threads \ {t}
  BY CodesAre
<1>2. nest'[Master] = nest[Master] /\ context'[Master] = context[Master]
  BY <1>1
<1>3. \A l : l[1] = Master => (l \in traced' <=> l \in traced)
  BY DecideEffect
<1>4. \A j, d : <<Master, j, d>>[1] = Master
  OBVIOUS
<1>5. context[Master].work # NULL => context[Master].work[1] = Master
  BY <1>1 DEF WorkOwn
<1> QED
  BY <1>2, <1>3, <1>4, <1>5, ShownElsewhere

LEMMA WorkOwnKept ==
    ASSUME WorkOwn, NEW t \in Threads,
           \A u \in Threads \ {t} : context'[u] = context[u],
           context'[t].work \in {context[t].work, NULL} \/ context'[t].work[1] = t
    PROVE  WorkOwn'
BY DEF WorkOwn

\* Where the master stands.
LEMMA MasterInner ==
    ASSUME CoreInv, nest[Master] # <<>>, NEW n \in Nat, n = Len(nest[Master])
    PROVE  /\ DOMAIN nest[Master] = 1 .. n /\ n \in 1 .. n /\ n > 0
           /\ Inner(Master) = nest[Master][n] /\ Inner(Master) \in Construct
           /\ Master \in Threads /\ TypeInv /\ NestInv
           /\ ShapeAt(Master, n) /\ LinkAt(Master, n)
           /\ Master \notin disturbed => DeliveredAt(Master, n) /\ Stacked(Master)
BY Innermost, CodesAre DEF CoreInv, NestInv, ShapeInv, LinkInv, DeliveredInv, Regular,
   StackInv, Standing

LEMMA ShownParallelBegun ==
    ASSUME CoreInv, ShownInv, NEW c \in ParallelCodes, NEW d, ParallelBegun(Master, c, d)
    PROVE  ShownInv'
<1>0. PICK n \in Nat : n = Len(nest[Master])
  BY Innermost, CodesAre DEF CoreInv
<1>1. /\ Begins(Master, d, c) /\ Fits(Master, d) /\ d.kind = "parallel" /\ d.code = c
      /\ d.shown = (d.own # NULL /\ Tracing /\ <<Master, "parallel", c>> \in traced')
      /\ crashed' = crashed
  BY ParallelFits, CodesAre DEF CoreInv, ParallelBegun
<1>2. \A i \in DOMAIN nest[Master] :
         Region(nest[Master][i].code) \in traced' <=> Region(nest[Master][i].code) \in traced
  <2>1. traced' = traced \/ Decide(Master, "parallel", c)
    BY DEF ParallelBegun
  <2>2. \A i \in DOMAIN nest[Master] :
           Region(nest[Master][i].code) # <<Master, "parallel", c>>
    BY DEF ParallelBegun, Region
  <2> QED
    BY <2>1, <2>2, DecideEffect
<1>3. nest'[Master][n + 1] = d
  BY <1>0, <1>1 DEF Begins, Opens
<1>4. ShownAt(n + 1)'
  BY <1>1, <1>3 DEF ShownAt, Region, Begins, Tracing
<1> QED
  BY <1>0, <1>1, <1>2, <1>4, ShownOpens

LEMMA ShownTaskBegun ==
    ASSUME CoreInv, ShownInv, NEW d, TaskBegun(Master, d), traced' = traced,
           crashed' = crashed
    PROVE  ShownInv'
<1>0. PICK n \in Nat : n = Len(nest[Master])
  BY Innermost, CodesAre DEF CoreInv
<1>1. PICK code : code = Deref(d.pdata).code
  OBVIOUS
<1>2. /\ Begins(Master, d, code) /\ Fits(Master, d) /\ d.kind = "task"
      /\ d.pdata = RegionFor(Master)
      /\ d.shown = (d.own # NULL /\ Shows("task", LexgionOf(d.pdata)))
      /\ d.own # NULL => d.pdata # NULL
  BY <1>1, TaskFits, CodesAre DEF CoreInv, TaskBegun
<1>3. nest[Master] # <<>> /\ Inner(Master).kind = "parallel" /\ d.pdata = Inner(Master).pdata
      /\ d.code = Inner(Master).code /\ d.pdata = Inner(Master).own
  BY <1>2 DEF Fits, Idle, RegionFor
<1>4. nest'[Master][n + 1] = d
  BY <1>0, <1>2 DEF Begins, Opens
<1>5. ASSUME Master \notin disturbed, d.own # NULL PROVE LexgionOf(d.pdata) = Region(d.code)
  <2>1. /\ d.pdata = <<Master, top[Master]>>
        /\ slots[Master][top[Master]].kind = "parallel"
        /\ slots[Master][top[Master]].code = d.code
    BY <1>0, <1>2, <1>3, <1>5, InnerOnTop, MasterInner
  <2> QED
    BY <2>1, PointersAre DEF LexgionOf, Deref, Region
<1>6. n > 0
  BY <1>0, <1>3, MasterInner
<1>7. n + 1 > 1
  BY <1>6
<1>8. Master \notin disturbed => ShownAt(n + 1)'
  BY <1>2, <1>4, <1>5, <1>7 DEF ShownAt, Shows, Begins, Tracing
<1> QED
  BY <1>0, <1>2, <1>8, ShownOpens

LEMMA ShownWorkBegun ==
    ASSUME CoreInv, ShownInv, NEW k \in {"work", "masked"},
           NEW c \in WorkCodes \cup MaskedCodes, NEW d, WorkBegun(Master, k, c, d)
    PROVE  ShownInv'
<1>0. PICK n \in Nat : n = Len(nest[Master])
  BY Innermost, CodesAre DEF CoreInv
<1>1. /\ Begins(Master, d, c) /\ Fits(Master, d) /\ d.kind = k /\ d.code = c
      /\ d.own # NULL => Delivered(k)
      /\ crashed' = crashed /\ nest[Master] # <<>> /\ Inner(Master).kind = "task"
      /\ ~AtInitialTask(Master)
  BY WorkFits, BodyShape, CodesAre DEF CoreInv, WorkBegun, InBody, Idle
<1>2. /\ d.own # NULL => Decide(Master, k, c)
      /\ d.own = NULL => traced' = traced
  BY DEF WorkBegun
<1>3. \A i \in DOMAIN nest[Master] :
         Region(nest[Master][i].code) \in traced' <=> Region(nest[Master][i].code) \in traced
  <2>1. \A e : Region(e) # <<Master, k, c>>
    BY DEF Region
  <2> QED
    BY <1>2, <2>1, DecideEffect
<1>4. /\ DOMAIN nest[Master] = 1 .. n /\ n \in 1 .. n /\ Inner(Master) = nest[Master][n]
      /\ n > 0
  BY <1>0, <1>1, MasterInner
<1>5. nest'[Master][n + 1] = d /\ nest'[Master][n] = Inner(Master)
  BY <1>0, <1>1, <1>4 DEF Begins, Opens
<1>6. ASSUME d.own # NULL PROVE ShownAt(n + 1)'
  <2>1. d.shown <=> Tracing /\ k \in EnabledEvents /\ <<Master, k, c>> \in traced'
    BY <1>1, <1>6 DEF WorkBegun
  <2> QED
    BY <1>1, <1>5, <1>6, <2>1 DEF ShownAt, Shows, Begins, Tracing
<1>7. ASSUME d.own = NULL, k = "masked", Master \notin disturbed PROVE ShownAt(n + 1)'
  <2>1. d.shown <=> /\ Delivered(k) /\ Tracing /\ k \in EnabledEvents
                    /\ LexgionOf(Inner(Master).pdata) \in traced
    BY <1>7 DEF WorkBegun
  <2>2. Delivered(k) => Inner(Master).pdata # NULL
    BY <1>7 DEF WorkBegun
  <2>3. n > 1
    <3>1. n # 1
      BY <1>0, <1>1 DEF AtInitialTask
    <3> QED
      BY <1>4, <3>1
  <2>4. Delivered(k) => LexgionOf(Inner(Master).pdata) = Region(Inner(Master).code)
    BY <1>1, <1>4, <1>7, <2>2, <2>3, MasterRegion
  <2>5. d.shown <=> Delivered(k) /\ Shows(k, Region(Inner(Master).code))
    BY <2>1, <2>4 DEF Shows
  <2>6. PICK r : r = Region(Inner(Master).code)
    OBVIOUS
  <2>7. PICK m : m = n + 1
    OBVIOUS
  <2>8. nest'[Master][m] = d /\ Region(nest'[Master][m - 1].code) = r
    BY <1>5, <2>6, <2>7 DEF Region
  <2>9. /\ Delivered("masked")' <=> Delivered("masked")
        /\ Shows("masked", r)' <=> Shows("masked", r)
    BY <1>1, <1>2, <1>7 DEF Delivered, Shows, Tracing, Begins
  <2>10. ShownAt(m)'
    BY <1>1, <1>7, <2>5, <2>6, <2>8, <2>9 DEF ShownAt, Region
  <2> QED
    BY <2>7, <2>10
<1>8. ASSUME d.own = NULL, k = "work" PROVE ShownAt(n + 1)'
  BY <1>1, <1>5, <1>8 DEF ShownAt
<1>9. Master \notin disturbed => ShownAt(n + 1)'
  BY <1>6, <1>7, <1>8
<1> QED
  BY <1>0, <1>1, <1>3, <1>9, ShownOpens

LEMMA ShownMpiBegun ==
    ASSUME CoreInv, ShownInv, NEW d, MpiBegun(Master, d)
    PROVE  ShownInv'
<1>0. PICK n \in Nat : n = Len(nest[Master])
  BY Innermost, CodesAre DEF CoreInv
<1>1. /\ Begins(Master, d, MpiCode) /\ Fits(Master, d) /\ d.kind = "mpi" /\ ~d.shown
      /\ crashed' = crashed /\ traced' = traced
  BY MpiFits, CodesAre DEF CoreInv, MpiBegun
<1>2. nest'[Master][n + 1] = d
  BY <1>0, <1>1 DEF Begins, Opens
<1>3. ShownAt(n + 1)'
  BY <1>1, <1>2 DEF ShownAt
<1> QED
  BY <1>0, <1>1, <1>3, ShownOpens

LEMMA ShownBarrierBegun ==
    ASSUME CoreInv, ShownInv, NEW join, NEW d, BarrierBegun(Master, join, d),
           ~crashed' => ~crashed
    PROVE  ShownInv'
<1>0. PICK n \in Nat : n = Len(nest[Master])
  BY Innermost, CodesAre DEF CoreInv
<1>1. /\ Begins(Master, d, NoCode) /\ Fits(Master, d) /\ d.kind = "barrier"
      /\ d.tdata = Inner(Master).tdata /\ d.code = Inner(Master).code /\ d.joined = join
      /\ traced' = traced /\ context' = context
      /\ nest[Master] # <<>> /\ Inner(Master).kind = "task" /\ ~AtInitialTask(Master)
  BY BarrierFits, BodyShape, CodesAre DEF CoreInv, BarrierBegun, InBody, Idle
<1>2. /\ DOMAIN nest[Master] = 1 .. n /\ n \in 1 .. n /\ Inner(Master) = nest[Master][n]
      /\ n > 0 /\ LinkAt(Master, n) /\ (Master \notin disturbed => DeliveredAt(Master, n))
  BY <1>0, <1>1, MasterInner
<1>3. nest'[Master][n + 1] = d /\ nest'[Master][n] = Inner(Master)
  BY <1>0, <1>1, <1>2 DEF Begins, Opens
<1>4. n > 1
  <2>1. n # 1
    BY <1>0, <1>1 DEF AtInitialTask
  <2> QED
    BY <1>2, <2>1
<1>5. ASSUME Master \notin disturbed, ~crashed' PROVE ShownAt(n + 1)'
  <2> DEFINE isJoin == join /\ context[Master].parcode = Inner(Master).code
             byWork == ~isJoin /\ context[Master].work # NULL
             by == IF byWork THEN context[Master].work ELSE LexgionOf(Inner(Master).pdata)
             region == IF byWork THEN context[Master].work ELSE Region(Inner(Master).code)
  <2>1. d.shown <=> /\ Synchronizes(Master, "sync_region") /\ by \in traced
                    /\ isJoin \/ "barrier" \in EnabledEvents
    BY <1>5 DEF BarrierBegun, BarrierShown
  <2>2. Synchronizes(Master, "sync_region") <=>
           Tracing /\ "sync_region" \in registered /\ d.tdata # NULL
    BY <1>1 DEF Synchronizes
  <2>3. Synchronizes(Master, "sync_region") => by = region
    <3> SUFFICES ASSUME Synchronizes(Master, "sync_region")
                 PROVE  LexgionOf(Inner(Master).pdata) = Region(Inner(Master).code)
      OBVIOUS
    <3>1. Inner(Master).own # NULL /\ ~Initially(Master, n)
      BY <1>1, <1>2, <1>4, <2>2 DEF LinkAt, Initially
    <3>2. Inner(Master).pdata # NULL
      BY <1>1, <1>2, <1>5, <3>1, TaskDelivered DEF CoreInv
    <3> QED
      BY <1>1, <1>2, <1>4, <1>5, <3>2, MasterRegion
  <2>4. PICK m : m = n + 1
    OBVIOUS
  <2>5. nest'[Master][m] = d /\ nest'[Master][m - 1] = Inner(Master)
    BY <1>3, <2>4
  <2>6. JoinSeen(m)' <=> isJoin
    BY <1>1, <2>5 DEF JoinSeen
  <2>7. BarrierBy(m)' = region
    BY <1>1, <2>5, <2>6 DEF BarrierBy, Region
  <2>8. Tracing' <=> Tracing
    BY <1>1 DEF Begins, Tracing
  <2> HIDE DEF by, region, isJoin
  <2>9. d.shown <=> /\ Tracing' /\ "sync_region" \in registered' /\ d.tdata # NULL
                    /\ BarrierBy(m)' \in traced'
                    /\ JoinSeen(m)' \/ "barrier" \in EnabledEvents
    <3>1. registered' = registered
      BY <1>1 DEF Begins
    <3> QED
      BY <1>1, <2>1, <2>2, <2>3, <2>6, <2>7, <2>8, <3>1
  <2>10. ShownAt(m)'
    BY <1>1, <2>5, <2>9 DEF ShownAt
  <2> QED
    BY <2>4, <2>10
<1> QED
  BY <1>0, <1>1, <1>5, ShownOpens

-----------------------------------------------------------------------------
(***************************************************************************)
(* The ends pair.                                                          *)
(***************************************************************************)
\* A construct of the master ends as its begin was recorded.
LEMMA PairedStep ==
    ASSUME MasterEventsPair, NEW t, NEW s, Unpairs(t, s),
           t = Master /\ Master \notin disturbed
           => \/ Inner(t).shown <=> s
              \/ Inner(t).kind = "work" /\ Inner(t).own = NULL,
           Inner(t).shown \in BOOLEAN, s \in BOOLEAN
    PROVE  MasterEventsPair'
<1>1. CASE unpaired' = unpaired
  BY <1>1 DEF MasterEventsPair
<1>2. CASE /\ t \notin disturbed /\ Inner(t).shown # s
           /\ unpaired' = unpaired \cup {<<t, Inner(t).kind, Inner(t).own # NULL>>}
  <2> SUFFICES ASSUME NEW u \in unpaired', u[1] = Master PROVE u[2] = "work" /\ ~u[3]
    BY DEF MasterEventsPair
  <2>1. CASE u \in unpaired
    BY <2>1 DEF MasterEventsPair
  <2>2. CASE u = <<t, Inner(t).kind, Inner(t).own # NULL>>
    <3>1. u[1] = t /\ u[2] = Inner(t).kind /\ u[3] = (Inner(t).own # NULL)
      BY <2>2
    <3>2. Inner(t).kind = "work" /\ Inner(t).own = NULL
      BY <1>2, <3>1
    <3> QED
      BY <3>1, <3>2
  <2> QED
    BY <1>2, <2>1, <2>2
<1> QED
  BY <1>1, <1>2 DEF Unpairs

\* What the record on top finds is the ending construct's own.
LEMMA TopLexgion ==
    ASSUME CoreInv, nest[Master] # <<>>, Master \notin disturbed,
           Inner(Master).own # NULL, Inner(Master).kind # "task"
    PROVE  /\ TopOf(Master) # NULL /\ Deref(TopOf(Master)).kind = Inner(Master).kind
           /\ LexgionOf(TopOf(Master)) = <<Master, Inner(Master).kind, Inner(Master).code>>
<1>0. PICK n \in Nat : n = Len(nest[Master])
  BY Innermost, CodesAre DEF CoreInv
<1>1. Stacked(Master) /\ TypeInv /\ Master \in Threads
  BY <1>0, MasterInner
<1>2. /\ top[Master] # 0
      /\ slots[Master][top[Master]].kind = Inner(Master).kind
      /\ slots[Master][top[Master]].code = Inner(Master).code
  BY <1>1, InnerOnTop
<1> QED
  BY <1>2, PointersAre DEF TopOf, LexgionOf, Deref

\* Without a record of its own a construct has a region's or a task's on top.
LEMMA TopEnclosing ==
    ASSUME CoreInv, nest[Master] # <<>>, Master \notin disturbed,
           Inner(Master).own = NULL, registered # {}
    PROVE  Deref(TopOf(Master)).kind \in {"parallel", "task"}
<1>0. PICK n \in Nat : n = Len(nest[Master])
  BY Innermost, CodesAre DEF CoreInv
<1>1. /\ Stacked(Master) /\ TypeInv /\ Master \in Threads /\ Base(Master) = 1
      /\ DOMAIN nest[Master] = 1 .. n /\ Inner(Master) = nest[Master][n]
  BY <1>0, MasterInner DEF Base
<1>2. PICK m \in Nat : m = top[Master]
  BY <1>1, StackTyped
<1>3. 1 <= m /\ slots[Master][1].kind = "parallel"
  BY <1>1, <1>2 DEF Stacked
<1>4. TopOf(Master) = <<Master, m>>
  BY <1>2, <1>3 DEF TopOf
<1>5. CASE m = 1
  BY <1>3, <1>4, <1>5, PointersAre DEF Deref
<1>6. CASE m # 1
  <2>1. m \in 1 + 1 .. m
    BY <1>3, <1>6
  <2>2. PICK i \in 1 .. n : nest[Master][i].own = <<Master, m>>
    BY <1>1, <1>2, <2>1 DEF Stacked
  <2>3. i # n
    BY <1>1, <2>2, PointersAre
  <2>4. i \in 1 .. n - 1
    BY <2>2, <2>3
  <2>5. Enclosing(i)
    BY <1>0, <2>4, EnclosingBelow
  <2>6. nest[Master][i].own # NULL /\ nest[Master][i].own[2] = m /\ OwnAt(Master, i)
    BY <1>1, <2>2, PointersAre DEF Stacked
  <2>7. slots[Master][m].kind = nest[Master][i].kind
    BY <2>6 DEF OwnAt
  <2> QED
    BY <1>4, <2>5, <2>7, PointersAre DEF Enclosing, Deref
<1> QED
  BY <1>5, <1>6

-----------------------------------------------------------------------------
LEMMA PairsTaskEnded ==
    ASSUME CoreInv, ContextInv, ShownInv, TracedCodes, MasterEventsPair,
           NEW t \in Threads, TaskEnded(t), Master \notin restoring \/ t # Master
    PROVE  MasterEventsPair'
<1> DEFINE pops == Delivered("implicit_task") /\ Inner(t).tdata # NULL
           par == context[t].par
           s == pops /\ par # NULL /\ Shows("task", LexgionOf(par))
<1>1. Ends(t) /\ Inner(t).kind = "task" /\ Unpairs(t, s) /\ nest[t] # <<>> /\ ~crashed
  BY DEF TaskEnded, In, Idle, Ends
<1>2. Inner(t).shown \in BOOLEAN /\ s \in BOOLEAN
  BY <1>1, Innermost, Fields DEF CoreInv, Shows
<1>3. ASSUME t = Master, Master \notin disturbed PROVE Inner(t).shown <=> s
  <2>0. PICK n \in Nat : n = Len(nest[Master])
    BY Innermost, CodesAre DEF CoreInv
  <2>1. /\ DOMAIN nest[Master] = 1 .. n /\ n \in 1 .. n /\ n > 0 /\ Master \in Threads
        /\ Inner(Master) = nest[Master][n] /\ LinkAt(Master, n) /\ DeliveredAt(Master, n)
        /\ Stacked(Master) /\ TypeInv
    BY <1>1, <1>3, <2>0, MasterInner
  <2>2. ShownAt(n)
    BY <1>1, <1>3, <2>1 DEF ShownInv
  <2>3. Inner(t).tdata = Inner(t).own
    BY <1>1, <1>3, <2>1 DEF LinkAt
  <2>4. Current(Master, n)
    BY <1>1, <1>3, <2>1 DEF Current, Inside
  <2>5. Inner(t).tdata # NULL => par = Inner(t).pdata
    BY <1>1, <1>3, <2>1, <2>4 DEF ContextInv, CurrentInv, ContextAt, Ends
  <2>6. CASE n = 1
    <3>1. ~Inner(t).shown
      BY <1>1, <1>3, <2>1, <2>2, <2>6 DEF ShownAt
    <3>2. ASSUME Inner(t).tdata # NULL PROVE LexgionOf(par) \notin traced
      <4>1. par = <<Master, 1>> /\ "implicit_task" \in registered
        BY <1>3, <2>1, <2>3, <2>5, <2>6, <3>2 DEF LinkAt, Initially
      <4>2. slots[Master][1].code = Initial
        <5>1. Base(Master) = 1
          BY <4>1 DEF Base
        <5> QED
          BY <2>1, <5>1 DEF Stacked
      <4>3. LexgionOf(par)[3] = Initial
        BY <4>1, <4>2, PointersAre DEF LexgionOf, Deref
      <4> QED
        BY <4>3, CodesAre DEF TracedCodes
    <3> QED
      BY <3>1, <3>2 DEF Shows
  <2>7. CASE n # 1
    <3>1. n > 1 /\ ~Initially(Master, n)
      BY <2>1, <2>7 DEF Initially
    <3>2. Inner(t).shown <=> Inner(t).own # NULL /\ Shows("task", Region(Inner(t).code))
      BY <1>1, <1>3, <2>1, <2>2, <3>1 DEF ShownAt
    <3>3. ASSUME Inner(t).own # NULL
          PROVE  /\ Delivered("implicit_task") /\ par # NULL
                 /\ LexgionOf(par) = Region(Inner(t).code)
      <4>1. Delivered("implicit_task") /\ Inner(t).pdata # NULL
        BY <1>1, <1>3, <2>1, <3>1, <3>3 DEF DeliveredAt
      <4>2. par = Inner(t).pdata
        BY <2>3, <2>5, <3>3
      <4>3. LexgionOf(Inner(t).pdata) = Region(Inner(t).code)
        BY <1>1, <1>3, <2>1, <3>1, <4>1, MasterRegion
      <4> QED
        BY <4>1, <4>2, <4>3
    <3> HIDE DEF par
    <3> QED
      BY <2>3, <3>2, <3>3 DEF s
  <2> QED
    BY <2>6, <2>7
<1> HIDE DEF s
<1> QED
  BY <1>1, <1>2, <1>3, PairedStep

LEMMA PairsParallelEnded ==
    ASSUME CoreInv, ShownInv, MasterEventsPair, NEW t \in Threads, ParallelEnded(t)
    PROVE  MasterEventsPair'
<1> DEFINE s == /\ Delivered("parallel_end") /\ Tracing
                /\ LexgionOf(TopOf(t)) \in traced
<1>1. Ends(t) /\ Inner(t).kind = "parallel" /\ Unpairs(t, s) /\ nest[t] # <<>> /\ ~crashed
  BY DEF ParallelEnded, In, Idle, Ends
<1>2. Inner(t).shown \in BOOLEAN /\ s \in BOOLEAN
  BY <1>1, Innermost, Fields DEF CoreInv, Tracing
<1>3. ASSUME t = Master, Master \notin disturbed PROVE Inner(t).shown <=> s
  <2>0. PICK n \in Nat : n = Len(nest[Master])
    BY Innermost, CodesAre DEF CoreInv
  <2>1. /\ DOMAIN nest[Master] = 1 .. n /\ n \in 1 .. n
        /\ Inner(Master) = nest[Master][n] /\ DeliveredAt(Master, n)
    BY <1>1, <1>3, <2>0, MasterInner
  <2>2. ShownAt(n)
    BY <1>1, <1>3, <2>1 DEF ShownInv
  <2>3. Inner(t).shown <=> Inner(t).own # NULL /\ Tracing /\ Region(Inner(t).code) \in traced
    BY <1>1, <1>3, <2>1, <2>2 DEF ShownAt
  <2>4. Inner(t).own # NULL <=> Delivered("parallel_end")
    <3>1. Delivered("parallel_begin") <=> Delivered("parallel_end")
      BY DEF CoreInv, RegisteredInv, Delivered, AllCallbacks
    <3> QED
      BY <1>1, <1>3, <2>1, <3>1 DEF DeliveredAt
  <2>5. Inner(t).own # NULL => LexgionOf(TopOf(t)) = Region(Inner(t).code)
    BY <1>1, <1>3, TopLexgion DEF Region
  <2> QED
    BY <2>3, <2>4, <2>5
<1> HIDE DEF s
<1> QED
  BY <1>1, <1>2, <1>3, PairedStep

\* The task around a construct on the master.
LEMMA MasterTask ==
    ASSUME CoreInv, nest[Master] # <<>>, Inner(Master).kind \in {"work", "masked", "barrier"},
           NEW n \in Nat, n = Len(nest[Master])
    PROVE  /\ n - 1 \in 1 .. n /\ n - 1 > 1 /\ n - 1 \in DOMAIN nest[Master]
           /\ nest[Master][n - 1].kind = "task"
           /\ Inner(Master).pdata = nest[Master][n - 1].pdata
           /\ Inner(Master).tdata = nest[Master][n - 1].tdata
           /\ Current(Master, n - 1)
<1>1. /\ DOMAIN nest[Master] = 1 .. n /\ n \in 1 .. n /\ n > 0
      /\ Inner(Master) = nest[Master][n] /\ ShapeAt(Master, n) /\ LinkAt(Master, n)
  BY MasterInner
<1>2. n # 1 /\ n # 2
  BY <1>1 DEF ShapeAt
<1>3. n - 1 \in 1 .. n /\ n - 1 > 1 /\ n > 1 /\ \A j \in 1 .. n : j > n - 1 => j = n
  <2>1. \A k \in Nat : k > 0 /\ k # 1 /\ k # 2
            => /\ k - 1 \in 1 .. k /\ k - 1 > 1 /\ k > 1
               /\ \A j \in 1 .. k : j > k - 1 => j = k
    OBVIOUS
  <2> QED
    BY <1>1, <1>2, <2>1
<1>4. nest[Master][n - 1].kind = "task"
  BY <1>1, <1>3 DEF ShapeAt
<1>5. /\ Inner(Master).pdata = nest[Master][n - 1].pdata
      /\ Inner(Master).tdata = nest[Master][n - 1].tdata
  BY <1>1 DEF LinkAt, Inside
<1>6. Current(Master, n - 1)
  BY <1>1, <1>3, <1>4 DEF Current, Inside
<1> QED
  BY <1>1, <1>3, <1>4, <1>5, <1>6

LEMMA PairsWorkEnded ==
    ASSUME CoreInv, ShownInv, MasterEventsPair, NEW t \in Threads, WorkEnded(t)
    PROVE  MasterEventsPair'
<1> DEFINE k == Inner(t).kind
           owns == Deref(TopOf(t)).kind = k
           by == IF owns \/ k = "work" THEN TopOf(t) ELSE Inner(t).pdata
           s == Delivered(k) /\ Shows(k, LexgionOf(by))
<1>1. /\ Ends(t) /\ k \in {"work", "masked"} /\ Unpairs(t, s) /\ nest[t] # <<>> /\ ~crashed
      /\ Delivered(k) => by # NULL
  BY Zenon DEF WorkEnded, In, Idle, Ends
<1>2. Inner(t).shown \in BOOLEAN /\ s \in BOOLEAN
  BY <1>1, Innermost, Fields DEF CoreInv, Shows
<1>3. ASSUME t = Master, Master \notin disturbed, ~(k = "work" /\ Inner(t).own = NULL)
      PROVE  Inner(t).shown <=> s
  <2>0. PICK n \in Nat : n = Len(nest[Master])
    BY Innermost, CodesAre DEF CoreInv
  <2>1. /\ DOMAIN nest[Master] = 1 .. n /\ n \in 1 .. n
        /\ Inner(Master) = nest[Master][n] /\ DeliveredAt(Master, n)
    BY <1>1, <1>3, <2>0, MasterInner
  <2>2. ShownAt(n)
    BY <1>1, <1>3, <2>1 DEF ShownInv
  <2>3. CASE Inner(t).own # NULL
    <3>1. Inner(t).shown <=> Shows(k, <<Master, k, Inner(t).code>>)
      BY <1>1, <1>3, <2>1, <2>2, <2>3 DEF ShownAt
    <3>2. Delivered(k)
      BY <1>1, <1>3, <2>1, <2>3 DEF DeliveredAt
    <3>3. owns /\ LexgionOf(TopOf(t)) = <<Master, k, Inner(t).code>>
      BY <1>1, <1>3, <2>3, TopLexgion
    <3> QED
      BY <3>1, <3>2, <3>3
  <2>4. CASE Inner(t).own = NULL
    <3>1. k = "masked"
      BY <1>1, <1>3, <2>4
    <3>2. Inner(t).shown <=> /\ Delivered("masked")
                             /\ Shows("masked", Region(nest[Master][n - 1].code))
      BY <1>3, <2>1, <2>2, <2>4, <3>1 DEF ShownAt
    <3>3. ASSUME Delivered("masked") PROVE LexgionOf(by) = Region(nest[Master][n - 1].code)
      <4>1. registered # {}
        BY <3>3 DEF Delivered
      <4>2. Deref(TopOf(Master)).kind \in {"parallel", "task"}
        BY <1>1, <1>3, <2>4, <4>1, TopEnclosing
      <4>3. by = Inner(t).pdata
        BY <1>3, <3>1, <4>2
      <4>4. Inner(t).pdata # NULL
        BY <1>1, <3>1, <3>3, <4>3
      <4>5. PICK m : m = n - 1
        OBVIOUS
      <4>6. /\ m \in DOMAIN nest[Master] /\ m > 1 /\ nest[Master][m].kind = "task"
            /\ Inner(t).pdata = nest[Master][m].pdata
        BY <1>1, <1>3, <2>0, <4>5, MasterTask
      <4>7. LexgionOf(nest[Master][m].pdata) = Region(nest[Master][m].code)
        BY <1>3, <4>4, <4>6, MasterRegion
      <4> QED
        BY <4>3, <4>5, <4>6, <4>7
    <3> HIDE DEF by
    <3> QED
      BY <3>1, <3>2, <3>3 DEF s
  <2> QED
    BY <2>3, <2>4
<1> HIDE DEF s
<1> QED
  BY <1>1, <1>2, <1>3, PairedStep

LEMMA PairsBarrierEnded ==
    ASSUME CoreInv, ContextInv, ShownInv, MasterEventsPair, NEW t \in Threads,
           BarrierEnded(t)
    PROVE  MasterEventsPair'
<1> DEFINE sync == Synchronizes(t, "sync_region")
           inTeam == Len(nest[t]) - 1 = IF t = Master THEN 3 ELSE 1
           isJoin == Inner(t).joined /\ \/ t # Master /\ inTeam
                                        \/ context[t].parcode = Inner(t).code
           byWork == ~isJoin /\ context[t].work # NULL
           by == IF byWork THEN context[t].work ELSE LexgionOf(context[t].par)
           s == sync /\ by \in traced /\ (isJoin \/ "barrier" \in EnabledEvents)
<1>1. /\ Ends(t) /\ Inner(t).kind = "barrier" /\ Unpairs(t, s) /\ nest[t] # <<>> /\ ~crashed
      /\ t \notin restoring
  BY Zenon DEF BarrierEnded, In, Idle, Ends
<1>2. Inner(t).shown \in BOOLEAN /\ s \in BOOLEAN
  <2>1. Inner(t).shown \in BOOLEAN
    BY <1>1, Innermost, Fields DEF CoreInv
  <2> QED
    BY <2>1 DEF Synchronizes
<1>3. ASSUME t = Master, Master \notin disturbed PROVE Inner(t).shown <=> s
  <2>0. PICK n \in Nat : n = Len(nest[Master])
    BY Innermost, CodesAre DEF CoreInv
  <2>1. /\ DOMAIN nest[Master] = 1 .. n /\ n \in 1 .. n /\ Master \in Threads
        /\ Inner(Master) = nest[Master][n]
    BY <1>1, <1>3, <2>0, MasterInner
  <2>2. ShownAt(n)
    BY <1>1, <1>3, <2>1 DEF ShownInv
  <2>3. Inner(t).shown <=> /\ Tracing /\ "sync_region" \in registered
                           /\ Inner(t).tdata # NULL /\ BarrierBy(n) \in traced
                           /\ JoinSeen(n) \/ "barrier" \in EnabledEvents
    BY <1>1, <1>3, <2>1, <2>2 DEF ShownAt
  <2>4. sync <=> Tracing /\ "sync_region" \in registered /\ Inner(t).tdata # NULL
    BY DEF Synchronizes
  <2>5. isJoin <=> JoinSeen(n)
    BY <1>3, <2>1 DEF JoinSeen
  <2>6. PICK m : m = n - 1
    OBVIOUS
  <2>7. /\ m \in DOMAIN nest[Master] /\ m > 1 /\ nest[Master][m].kind = "task"
        /\ Inner(t).tdata = nest[Master][m].tdata /\ Current(Master, m)
        /\ ~Initially(Master, m)
    <3>1. Inner(Master).kind \in {"work", "masked", "barrier"} /\ nest[Master] # <<>>
      BY <1>1, <1>3
    <3>2. /\ m \in DOMAIN nest[Master] /\ m > 1 /\ nest[Master][m].kind = "task"
          /\ Inner(Master).tdata = nest[Master][m].tdata /\ Current(Master, m)
      BY <2>0, <2>6, <3>1, MasterTask
    <3>3. ~Initially(Master, m)
      BY <3>2 DEF Initially
    <3> QED
      BY <1>3, <3>2, <3>3
  <2>8. ASSUME sync PROVE LexgionOf(context[t].par) = Region(nest[Master][n - 1].code)
    <3>1. nest[Master][m].tdata # NULL
      BY <2>4, <2>7, <2>8
    <3>2. LinkAt(Master, m) /\ DeliveredAt(Master, m)
      BY <1>3, <2>1, <2>7 DEF CoreInv, NestInv, LinkInv, DeliveredInv, Regular
    <3>3. nest[Master][m].pdata # NULL
      BY <2>7, <3>1, <3>2, TaskDelivered DEF CoreInv, LinkAt
    <3>4. context[Master].par = nest[Master][m].pdata
      BY <1>1, <1>3, <2>1, <2>7, <3>1 DEF ContextInv, CurrentInv, ContextAt
    <3>5. LexgionOf(nest[Master][m].pdata) = Region(nest[Master][m].code)
      BY <1>3, <2>7, <3>3, MasterRegion
    <3> QED
      BY <1>3, <2>6, <3>4, <3>5
  <2>9. sync => by = BarrierBy(n)
    BY <1>3, <2>5, <2>8 DEF BarrierBy
  <2> HIDE DEF sync, by, isJoin
  <2> QED
    BY <2>3, <2>4, <2>5, <2>9
<1> HIDE DEF s
<1> QED
  BY <1>1, <1>2, <1>3, PairedStep

LEMMA PairsMpiEnded ==
    ASSUME CoreInv, ShownInv, MasterEventsPair, NEW t \in Threads, MpiEnded(t)
    PROVE  MasterEventsPair'
<1>1. Ends(t) /\ Inner(t).kind = "mpi" /\ Unpairs(t, FALSE) /\ nest[t] # <<>> /\ ~crashed
  BY DEF MpiEnded, In, Idle, Ends
<1>2. Inner(t).shown \in BOOLEAN
  BY <1>1, Innermost, Fields DEF CoreInv
<1>3. ASSUME t = Master, Master \notin disturbed PROVE ~Inner(t).shown
  <2>0. PICK n \in Nat : n = Len(nest[Master])
    BY Innermost, CodesAre DEF CoreInv
  <2>1. DOMAIN nest[Master] = 1 .. n /\ n \in 1 .. n /\ Inner(Master) = nest[Master][n]
    BY <1>1, <1>3, <2>0, MasterInner
  <2>2. ShownAt(n)
    BY <1>1, <1>3, <2>1 DEF ShownInv
  <2> QED
    BY <1>1, <1>3, <2>1, <2>2 DEF ShownAt
<1> QED
  BY <1>1, <1>2, <1>3, PairedStep

LEMMA EventParallelBegun ==
    ASSUME CoreInv, EventInv, NEW t \in Threads, NEW c \in ParallelCodes, NEW d,
           ParallelBegun(t, c, d)
    PROVE  EventInv'
<1> DEFINE v == [context[t] EXCEPT !.par = d.own, !.parcode = c]
<1>1. /\ ContextSet(t, v) \/ context' = context
      /\ traced' = traced \/ Decide(t, "parallel", c)
      /\ UNCHANGED <<mode, registered, disturbed>> /\ crashed' = crashed
      /\ \A u \in Threads \ {t} : nest'[u] = nest[u]
      /\ TypeInv /\ ShownInv /\ TracedCodes /\ WorkOwn
  BY DEF ParallelBegun, Begins, Opens, CoreInv, EventInv
<1>2. context[t] \in Context /\ v.work = context[t].work
  BY <1>1 DEF TypeInv, Context
<1> HIDE DEF v
<1>3. \A u \in Threads \ {t} : context'[u] = context[u]
  BY <1>1, ContextOthers
<1>4. context'[t].work = context[t].work
  BY <1>1, <1>2, ContextIs
<1>5. ShownInv'
  <2>1. CASE t = Master
    BY <1>1, <2>1, ShownParallelBegun
  <2>2. CASE t # Master
    BY <1>1, <1>3, <2>2, ShownOthers
  <2> QED
    BY <2>1, <2>2
<1>6. TracedCodes'
  BY <1>1, DecideCodes, CodesAre
<1>7. WorkOwn'
  BY <1>1, <1>3, <1>4, WorkOwnKept
<1> QED
  BY <1>5, <1>6, <1>7 DEF EventInv

LEMMA EventTaskBegun ==
    ASSUME CoreInv, EventInv, NEW t \in Threads, NEW d, TaskBegun(t, d)
    PROVE  EventInv'
<1> DEFINE c == Deref(d.pdata).code
           v == [par |-> d.pdata, task |-> d.own, parcode |-> c, taskcode |-> c,
                 work |-> context[t].work]
           w == [context[t] EXCEPT !.par = NULL]
<1>1. /\ ContextSet(t, v) \/ ContextSet(t, w) \/ context' = context
      /\ traced' = traced /\ crashed' = crashed
      /\ UNCHANGED <<mode, registered, disturbed>>
      /\ \A u \in Threads \ {t} : nest'[u] = nest[u]
      /\ TypeInv /\ ShownInv /\ TracedCodes /\ WorkOwn
  BY DEF TaskBegun, Begins, Opens, CoreInv, EventInv
<1>2. context[t] \in Context /\ v.work = context[t].work /\ w.work = context[t].work
  BY <1>1 DEF TypeInv, Context
<1> HIDE DEF v, w
<1>3. \A u \in Threads \ {t} : context'[u] = context[u]
  BY <1>1, ContextOthers
<1>4. context'[t].work = context[t].work
  BY <1>1, <1>2, ContextIs
<1>5. ShownInv'
  <2>1. CASE t = Master
    BY <1>1, <2>1, ShownTaskBegun
  <2>2. CASE t # Master
    BY <1>1, <1>3, <2>2, ShownOthers
  <2> QED
    BY <2>1, <2>2
<1>6. TracedCodes'
  BY <1>1 DEF TracedCodes
<1>7. WorkOwn'
  BY <1>1, <1>3, <1>4, WorkOwnKept
<1> QED
  BY <1>5, <1>6, <1>7 DEF EventInv

LEMMA EventWorkBegun ==
    ASSUME CoreInv, EventInv, NEW t \in Threads, NEW k \in {"work", "masked"},
           NEW c \in WorkCodes \cup MaskedCodes, NEW d, WorkBegun(t, k, c, d)
    PROVE  EventInv'
<1> DEFINE lexgion == IF d.own # NULL THEN <<t, k, c>> ELSE NULL
           v == [context[t] EXCEPT !.work = lexgion]
<1>1. /\ ContextSet(t, v) \/ context' = context
      /\ traced' = traced \/ Decide(t, k, c)
      /\ UNCHANGED <<mode, registered, disturbed>> /\ crashed' = crashed
      /\ \A u \in Threads \ {t} : nest'[u] = nest[u]
      /\ TypeInv /\ ShownInv /\ TracedCodes /\ WorkOwn
  BY DEF WorkBegun, Begins, Opens, CoreInv, EventInv
<1>2. context[t] \in Context /\ v.work = lexgion
  BY <1>1 DEF TypeInv, Context
<1>3. lexgion = NULL \/ lexgion[1] = t
  BY PointersAre
<1> HIDE DEF v, lexgion
<1>4. \A u \in Threads \ {t} : context'[u] = context[u]
  BY <1>1, ContextOthers
<1>5. context'[t].work \in {context[t].work, NULL} \/ context'[t].work[1] = t
  BY <1>1, <1>2, <1>3, ContextIs
<1>6. ShownInv'
  <2>1. CASE t = Master
    BY <1>1, <2>1, ShownWorkBegun
  <2>2. CASE t # Master
    BY <1>1, <1>4, <2>2, ShownOthers
  <2> QED
    BY <2>1, <2>2
<1>7. TracedCodes'
  BY <1>1, DecideCodes, CodesAre
<1>8. WorkOwn'
  BY <1>1, <1>4, <1>5, WorkOwnKept
<1> QED
  BY <1>6, <1>7, <1>8 DEF EventInv

LEMMA EventBarrierBegun ==
    ASSUME CoreInv, EventInv, NEW t \in Threads, NEW join, NEW d, BarrierBegun(t, join, d),
           ~crashed
    PROVE  EventInv'
<1>1. /\ UNCHANGED <<mode, registered, disturbed, context, traced>>
      /\ \A u \in Threads \ {t} : nest'[u] = nest[u]
      /\ ShownInv /\ TracedCodes /\ WorkOwn
  BY DEF BarrierBegun, Begins, Opens, EventInv
<1>2. ShownInv'
  <2>1. CASE t = Master
    BY <1>1, <2>1, ShownBarrierBegun
  <2>2. CASE t # Master
    BY <1>1, <2>2, ShownOthers
  <2> QED
    BY <2>1, <2>2
<1> QED
  BY <1>1, <1>2 DEF EventInv, TracedCodes, WorkOwn

LEMMA EventMpiBegun ==
    ASSUME CoreInv, EventInv, NEW t \in Threads, NEW d, MpiBegun(t, d)
    PROVE  EventInv'
<1>1. UNCHANGED <<context, traced>> /\ t = Master /\ ShownInv
  BY DEF MpiBegun, EventInv
<1>2. ShownInv'
  BY <1>1, ShownMpiBegun
<1> QED
  BY <1>1, <1>2 DEF EventInv, TracedCodes, WorkOwn

LEMMA EventEnds ==
    ASSUME CoreInv, EventInv, NEW t \in Threads, Ends(t),
           \A u \in Threads \ {t} : context'[u] = context[u],
           context'[t].work \in {context[t].work, NULL}
    PROVE  EventInv'
<1>1. /\ UNCHANGED <<mode, registered, disturbed, traced, crashed>>
      /\ \A u \in Threads \ {t} : nest'[u] = nest[u]
      /\ ShownInv /\ TracedCodes /\ WorkOwn
  BY DEF Ends, Closes, EventInv
<1>2. ShownInv'
  <2>1. CASE t = Master
    BY <1>1, <2>1, ShownCloses
  <2>2. CASE t # Master
    BY <1>1, <2>2, ShownOthers
  <2> QED
    BY <2>1, <2>2
<1>3. WorkOwn'
  BY <1>1, WorkOwnKept
<1> QED
  BY <1>1, <1>2, <1>3 DEF EventInv, TracedCodes

\* Both: what the master's events rest on, and that they pair.
EventsHold == EventInv /\ MasterEventsPair

LEMMA EventSame ==
    ASSUME EventsHold, UNCHANGED <<mode, registered, disturbed, nest, context, traced, unpaired>>,
           ~crashed' => ~crashed
    PROVE  EventsHold'
<1>1. EventInv /\ MasterEventsPair
  BY DEF EventsHold
<1>2. ShownInv'
  BY <1>1, ShownElsewhere DEF EventInv
<1> QED
  BY <1>1, <1>2 DEF EventsHold, EventInv, TracedCodes, WorkOwn, MasterEventsPair

LEMMA EventRestored ==
    ASSUME CoreInv, EventInv, NEW t \in Threads, ParallelRestored(t)
    PROVE  EventInv'
<1> DEFINE task == Inner(t).tdata
           v == Restored(t, task)
<1>1. /\ UNCHANGED <<mode, registered, disturbed, nest, traced, crashed>>
      /\ ContextSet(t, v) \/ context' = context
      /\ t \in restoring /\ TypeInv /\ PhaseInv
      /\ ShownInv /\ TracedCodes /\ WorkOwn
  BY DEF ParallelRestored, CoreInv, NestInv, EventInv, controlVars
<1>2. v.work = context[t].work
  <2>1. context[t] \in Context
    BY <1>1 DEF TypeInv
  <2> HIDE DEF task
  <2> QED
    BY <2>1 DEF Restored, Context
<1> HIDE DEF v, task
<1>3. \A u \in Threads \ {t} : context'[u] = context[u]
  BY <1>1, ContextOthers
<1>4. context'[t].work = context[t].work
  BY <1>1, <1>2, ContextIs
<1>5. ShownInv'
  <2>1. ASSUME t = Master, NEW i \in DOMAIN nest[Master], Master \notin disturbed, ~crashed
        PROVE  ShownAt(i)'
    <3>0. PICK n \in Nat : n = Len(nest[Master])
      BY <1>1, Innermost, CodesAre
    <3>1. /\ In(Master, {"task"}) /\ nest[Master] # <<>>
          /\ DOMAIN nest[Master] = 1 .. n /\ Inner(Master) = nest[Master][n]
      BY <1>1, <2>1, <3>0, Innermost, CodesAre DEF PhaseInv, In, Idle
    <3>2. Enclosing(i)
      <4>1. CASE i = n
        BY <3>1, <4>1 DEF In, Enclosing
      <4>2. CASE i # n
        <5>1. i \in 1 .. n - 1
          BY <2>1, <3>0, <3>1, <4>2
        <5> QED
          BY <3>0, <5>1, EnclosingBelow
      <4> QED
        BY <4>1, <4>2
    <3>3. ShownAt(i)
      BY <1>1, <2>1 DEF ShownInv
    <3>4. Alike(nest'[Master][i], nest[Master][i])
      BY <1>1 DEF Alike
    <3> QED
      BY <1>1, <3>2, <3>3, <3>4, ShownStays
  <2>2. CASE t = Master
    BY <1>1, <2>1, <2>2 DEF ShownInv
  <2>3. CASE t # Master
    BY <1>1, <1>3, <2>3, ShownOthers
  <2> QED
    BY <2>2, <2>3
<1>6. WorkOwn'
  BY <1>1, <1>3, <1>4, WorkOwnKept
<1> QED
  BY <1>1, <1>5, <1>6 DEF EventInv, TracedCodes

LEMMA EventSwitched ==
    ASSUME CoreInv, EventInv, NEW m \in Modes, SwitchMode(m)
    PROVE  EventInv'
<1>1. /\ UNCHANGED <<nest, context, traced, crashed>> /\ ~crashed
      /\ disturbed' = disturbed \cup
                        {t \in Threads : t \in restoring \/ ~(Idle(t) \/ AtInitialTask(t))}
      /\ ShownInv /\ TracedCodes /\ WorkOwn
  BY DEF SwitchMode, Disturb, EventInv
<1>2. ShownInv'
  <2> SUFFICES ASSUME Master \notin disturbed', NEW i \in DOMAIN (nest'[Master])
               PROVE  ShownAt(i)'
    BY DEF ShownInv
  <2>0. PICK n \in Nat : n = Len(nest[Master])
    BY Innermost, CodesAre DEF CoreInv
  <2>1. /\ Master \notin disturbed /\ i \in DOMAIN nest[Master]
        /\ Idle(Master) \/ AtInitialTask(Master)
    BY <1>1, CodesAre
  <2>2. DOMAIN nest[Master] = 1 .. n /\ (nest[Master] # <<>> <=> n > 0)
    BY <2>0, Innermost, CodesAre DEF CoreInv
  <2>3. n = 1
    BY <2>0, <2>1, <2>2 DEF Idle, AtInitialTask
  <2>4. i = 1 /\ 1 \in 1 .. n
    BY <2>1, <2>2, <2>3
  <2>5. ShapeAt(Master, 1)
    BY <2>2, <2>4, CodesAre DEF CoreInv, NestInv, ShapeInv
  <2>6. nest[Master][1].kind = "task"
    BY <2>5 DEF ShapeAt
  <2>7. ShownAt(1)
    BY <1>1, <2>1, <2>4 DEF ShownInv
  <2>8. ~nest[Master][1].shown
    BY <2>6, <2>7 DEF ShownAt
  <2>9. nest[Master][1].shown = FALSE
    <3>1. nest[Master][1] \in Construct
      BY <2>2, <2>4, Innermost, CodesAre DEF CoreInv
    <3> QED
      BY <2>8, <3>1, Fields
  <2> QED
    BY <1>1, <2>4, <2>6, <2>9 DEF ShownAt
<1> QED
  BY <1>1, <1>2 DEF EventInv, TracedCodes, WorkOwn

LEMMA InitEvents == Init => EventsHold
<1> SUFFICES ASSUME Init PROVE EventsHold
  OBVIOUS
<1>1. unpaired = {} /\ traced = {} /\ ~crashed
  BY DEF Init
<1>2. \A t \in Threads : context[t].work = NULL
  <2> SUFFICES ASSUME NEW t \in Threads PROVE context[t].work = NULL
    OBVIOUS
  <2>1. CASE t = Master
    <3>1. context[Master] = [par |-> InitialRegion, task |-> InitialTask,
                             parcode |-> IF Active(mode) THEN Initial ELSE NoCode,
                             taskcode |-> IF Tracing THEN Initial ELSE NoCode,
                             work |-> NULL]
      BY CodesAre DEF Init, InitialRegion, InitialTask
    <3> QED
      BY <2>1, <3>1
  <2>2. CASE t # Master
    <3>1. context[t] = [par |-> NULL, task |-> NULL, parcode |-> NoCode,
                        taskcode |-> NoCode, work |-> NULL]
      BY <2>2 DEF Init
    <3> QED
      BY <3>1
  <2> QED
    BY <2>1, <2>2
<1>3. ShownInv
  <2> SUFFICES ASSUME NEW i \in DOMAIN nest[Master] PROVE ShownAt(i)
    BY DEF ShownInv
  <2>1. i = 1 /\ nest[Master][1].kind = "task" /\ nest[Master][1].shown = FALSE
    BY InitialNest
  <2> QED
    BY <2>1 DEF ShownAt
<1> QED
  BY <1>1, <1>2, <1>3 DEF EventsHold, EventInv, TracedCodes, WorkOwn, MasterEventsPair

\* A begin leaves what is unpaired.
LEMMA PairedBegun ==
    ASSUME MasterEventsPair, unpaired' = unpaired, EventInv'
    PROVE  EventsHold'
BY DEF EventsHold, MasterEventsPair

LEMMA NextEvents == CoreInv /\ ContextInv /\ EventsHold /\ [Next]_vars => EventsHold'
<1> SUFFICES ASSUME CoreInv, ContextInv, EventsHold, [Next]_vars PROVE EventsHold'
  OBVIOUS
<1>0. /\ TypeInv /\ NestInv /\ EventInv /\ MasterEventsPair /\ ShownInv /\ TracedCodes
  BY DEF CoreInv, EventsHold, EventInv
<1>1. CASE UNCHANGED vars
  BY <1>1, EventSame DEF vars, controlVars, ghostVars
<1>2. ASSUME Crash PROVE EventsHold'
  BY <1>2, EventSame DEF Crash, controlVars, ghostVars
<1>3. ASSUME NEW t \in Threads, NEW c \in ParallelCodes, ParallelBegin(t, c)
      PROVE  EventsHold'
  <2>1. ASSUME NEW d, ParallelBegun(t, c, d) PROVE EventsHold'
    <3>1. unpaired' = unpaired
      BY <2>1 DEF ParallelBegun, Begins
    <3> QED
      BY <1>0, <2>1, <3>1, EventParallelBegun, PairedBegun
  <2> QED
    BY <1>0, <1>2, <1>3, <2>1, ParallelBeginEffect
<1>4. ASSUME NEW t \in Threads, ImplicitTaskBegin(t) PROVE EventsHold'
  <2>1. ASSUME NEW d, TaskBegun(t, d) PROVE EventsHold'
    <3>1. unpaired' = unpaired
      BY <2>1 DEF TaskBegun, Begins
    <3> QED
      BY <1>0, <2>1, <3>1, EventTaskBegun, PairedBegun
  <2> QED
    BY <1>0, <1>2, <1>4, <2>1, ImplicitTaskBeginEffect
<1>5. ASSUME NEW t \in Threads, ImplicitTaskEnd(t) PROVE EventsHold'
  <2> SUFFICES ASSUME ~Crash PROVE EventsHold'
    BY <1>2
  <2>1. TaskEnded(t)
    BY <1>0, <1>5, ImplicitTaskEndEffect, Zenon DEF TaskEnded
  <2>2. Ends(t) /\ context' = context /\ t \notin restoring
    BY <2>1 DEF TaskEnded, Ends
  <2>3. EventInv'
    BY <1>0, <2>2, EventEnds
  <2>4. MasterEventsPair'
    BY <1>0, <2>1, <2>2, PairsTaskEnded
  <2> QED
    BY <2>3, <2>4 DEF EventsHold
<1>6. ASSUME NEW t \in Threads, ParallelEnd(t) PROVE EventsHold'
  <2>1. ASSUME ParallelEnded(t) PROVE EventsHold'
    <3>1. Ends(t) /\ context' = context
      BY <2>1 DEF ParallelEnded
    <3> QED
      BY <1>0, <2>1, <3>1, EventEnds, PairsParallelEnded DEF EventsHold
  <2> QED
    BY <1>0, <1>2, <1>6, <2>1, ParallelEndEffect
<1>7. ASSUME NEW t \in Threads, ParallelRestore(t) PROVE EventsHold'
  <2>1. In(t, {"task"})
    BY <1>0, <1>7 DEF ParallelRestore, NestInv, PhaseInv
  <2>2. ASSUME ParallelRestored(t) PROVE EventsHold'
    <3>1. unpaired' = unpaired
      BY <2>2 DEF ParallelRestored, ghostVars
    <3> QED
      BY <1>0, <2>2, <3>1, EventRestored, PairedBegun
  <2> QED
    BY <1>0, <1>2, <1>7, <2>1, <2>2, ParallelRestoreEffect
<1>8. ASSUME NEW t \in Threads, NEW k \in {"work", "masked"},
             NEW c \in WorkCodes \cup MaskedCodes, WorkBegin(t, k, c)
      PROVE  EventsHold'
  <2>1. ASSUME NEW d, WorkBegun(t, k, c, d) PROVE EventsHold'
    <3>1. unpaired' = unpaired
      BY <2>1 DEF WorkBegun, Begins
    <3> QED
      BY <1>0, <2>1, <3>1, EventWorkBegun, PairedBegun
  <2> QED
    BY <1>0, <1>2, <1>8, <2>1, WorkBeginEffect
<1>9. ASSUME NEW t \in Threads, WorkEnd(t) PROVE EventsHold'
  <2>1. ASSUME WorkEnded(t) PROVE EventsHold'
    <3>1. Ends(t) /\ context' = context
      BY <2>1 DEF WorkEnded
    <3> QED
      BY <1>0, <2>1, <3>1, EventEnds, PairsWorkEnded DEF EventsHold
  <2> QED
    BY <1>0, <1>2, <1>9, <2>1, WorkEndEffect
<1>10. ASSUME NEW t \in Threads, NEW join \in BOOLEAN, BarrierBegin(t, join)
       PROVE  EventsHold'
  <2>1. PICK d : BarrierBegun(t, join, d)
    BY <1>0, <1>10, BarrierBeginEffect
  <2>2. ~crashed /\ unpaired' = unpaired
    BY <2>1 DEF BarrierBegun, Begins
  <2> QED
    BY <1>0, <2>1, <2>2, EventBarrierBegun, PairedBegun
<1>11. ASSUME NEW t \in Threads, BarrierEnd(t) PROVE EventsHold'
  <2>1. ASSUME BarrierEnded(t) PROVE EventsHold'
    <3> DEFINE v == [context[t] EXCEPT !.work = NULL]
    <3>1. Ends(t) /\ (ContextSet(t, v) \/ context' = context)
      BY <2>1, Zenon DEF BarrierEnded
    <3>2. v.work = NULL
      BY <1>0 DEF TypeInv, Context
    <3> HIDE DEF v
    <3>3. /\ \A u \in Threads \ {t} : context'[u] = context[u]
          /\ context'[t].work \in {context[t].work, NULL}
      BY <1>0, <3>1, <3>2, ContextIs
    <3> QED
      BY <1>0, <2>1, <3>1, <3>3, EventEnds, PairsBarrierEnded DEF EventsHold
  <2> QED
    BY <1>0, <1>2, <1>11, <2>1, BarrierEndEffect
<1>12. ASSUME NEW t \in Threads, MpiBegin(t) PROVE EventsHold'
  <2>1. ASSUME NEW d, MpiBegun(t, d) PROVE EventsHold'
    <3>1. unpaired' = unpaired
      BY <2>1 DEF MpiBegun, Begins
    <3> QED
      BY <1>0, <2>1, <3>1, EventMpiBegun, PairedBegun
  <2> QED
    BY <1>0, <1>2, <1>12, <2>1, MpiBeginEffect
<1>13. ASSUME NEW t \in Threads, MpiEnd(t) PROVE EventsHold'
  <2>1. MpiEnded(t)
    BY <1>0, <1>13, MpiEndEffect
  <2>2. Ends(t) /\ context' = context
    BY <2>1 DEF MpiEnded
  <2> QED
    BY <1>0, <2>1, <2>2, EventEnds, PairsMpiEnded DEF EventsHold
<1>14. CASE ThreadEnd
  BY <1>14, EventSame DEF ThreadEnd, controlVars, ghostVars
<1>15. ASSUME NEW m \in Modes, SwitchMode(m) PROVE EventsHold'
  <2>1. unpaired' = unpaired
    BY <1>15 DEF SwitchMode, ghostVars
  <2> QED
    BY <1>0, <1>15, <2>1, EventSwitched, PairedBegun
<1>16. CASE Done
  BY <1>1, <1>16 DEF Done
<1>17. ASSUME NEW t \in Threads, NEW c \in WorkCodes, WorkBegin(t, "work", c)
       PROVE  EventsHold'
  BY <1>8, <1>17
<1>18. ASSUME NEW t \in Threads, NEW c \in MaskedCodes, WorkBegin(t, "masked", c)
       PROVE  EventsHold'
  BY <1>8, <1>18
<1> QED
  BY <1>1, <1>3, <1>4, <1>5, <1>6, <1>7, <1>9, <1>10, <1>11, <1>12, <1>13, <1>14, <1>15,
     <1>16, <1>17, <1>18 DEF Next

\* On the master every construct has both its events or neither, as long as no change
\* of mode cut through it: by the bit its begin went by, its end goes too.
THEOREM MasterEventsPairAlways == Spec => []MasterEventsPair
<1>1. EventsHold => MasterEventsPair
  BY DEF EventsHold
<1> QED
  BY <1>1, CoreHolds, InitContext, NextContext, InitEvents, NextEvents, PTL DEF Spec
=============================================================================
