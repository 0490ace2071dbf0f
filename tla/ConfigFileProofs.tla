--------------------------- MODULE ConfigFileProofs ---------------------------
(***************************************************************************)
(* A fresh start with a proper file puts in effect what the file says, and *)
(* what a thread caches is what governs its region: for every set of       *)
(* domains, regions, files and environments.                               *)
(*                                                                         *)
(* The invariant of the first: when the parser has read n lines of the     *)
(* file, the tables hold what those n lines say (ParseInv).  One line is   *)
(* one step of it, and the entries a header selects, a fold over its       *)
(* names, are an induction of their own.                                   *)
(***************************************************************************)
EXTENDS ConfigFile, SequenceTheorems, WellFoundedInduction, TLAPS

-----------------------------------------------------------------------------
\* Induction over a set of numbers, which needs no operator as a parameter.
LEMMA Inductive ==
    ASSUME NEW S, 0 \in S, \A k \in Nat : k \in S => k + 1 \in S
    PROVE  Nat \subseteq S
<1> DEFINE R == {ss \in Nat \X Nat : ss[1] < ss[2]}
           T == Nat \ S
<1>1. IsWellFoundedOn(R, Nat)
  BY NatLessThanWellFounded DEF OpToRel
<1>2. SUFFICES ASSUME T # {} PROVE FALSE
  OBVIOUS
<1>3. PICK x \in T : \A y \in T : ~(<<y, x>> \in R)
  <2>1. T \subseteq Nat
    OBVIOUS
  <2> HIDE DEF R, T
  <2> QED
    BY <1>1, <1>2, <2>1, WFMin
<1>4. x \in Nat /\ x # 0 /\ x - 1 \in Nat
  BY <1>3
<1>5. x - 1 \notin S
  BY <1>3, <1>4
<1>6. x - 1 \in T /\ x - 1 < x
  BY <1>4, <1>5
<1>7. <<x - 1, x>> \in R
  BY <1>4, <1>6
<1> QED
  BY <1>3, <1>6, <1>7

\* The smallest and the largest of a set of numbers.
LEMMA MinOf ==
    ASSUME NEW S \in SUBSET Nat, S # {}
    PROVE  Min(S) \in S /\ \A y \in S : Min(S) <= y
<1> DEFINE R == {ss \in Nat \X Nat : ss[1] < ss[2]}
<1>1. IsWellFoundedOn(R, Nat)
  BY NatLessThanWellFounded DEF OpToRel
<1>2. PICK x \in S : \A y \in S : ~(<<y, x>> \in R)
  <2> HIDE DEF R
  <2> QED
    BY <1>1, WFMin
<1>3. ASSUME NEW y \in S PROVE x <= y
  <2>1. x \in Nat /\ y \in Nat /\ ~(<<y, x>> \in R)
    BY <1>2
  <2>2. ~(y < x)
    BY <2>1
  <2> QED
    BY <2>1, <2>2
<1> QED
  BY <1>3 DEF Min

LEMMA MaxOf ==
    ASSUME NEW n \in Nat, NEW S \in SUBSET (0 .. n), S # {}
    PROVE  Max(S) \in S /\ \A y \in S : Max(S) >= y
<1> DEFINE T == {n - y : y \in S}
<1>1. T \in SUBSET Nat /\ T # {}
  <2>1. \A y \in S : n - y \in Nat
    OBVIOUS
  <2> QED
    BY <2>1
<1>2. Min(T) \in T /\ \A z \in T : Min(T) <= z
  BY <1>1, MinOf
<1>3. PICK x \in S : Min(T) = n - x
  BY <1>2
<1>4. ASSUME NEW y \in S PROVE x >= y
  <2>1. n - y \in T
    OBVIOUS
  <2>2. n - x <= n - y
    BY <1>2, <1>3, <2>1
  <2> QED
    BY <2>2
<1> HIDE DEF T
<1> QED
  BY <1>4 DEF Max

\* The names of a header one after the other, which is what the fold does.
LEMMA SelectAllSteps ==
    ASSUME NEW h, h.who \in Seq(Range(h.who))
    PROVE  \E acc :
              /\ acc[0] = [table |-> table, at |-> <<>>, crashed |-> FALSE]
              /\ \A k \in 1 .. Len(h.who) : acc[k] = Select(h.action, acc[k - 1], h.who[k])
              /\ SelectAll(h) = acc[Len(h.who)]
<1> DEFINE who == h.who
           base == [table |-> table, at |-> <<>>, crashed |-> FALSE]
           Op(a, k) == Select(h.action, a, who[k])
           Body(f, s) == IF s = {} THEN base ELSE Op(f[s \ {Max(s)}], Max(s))
           Folds(f, k) == f = [s \in SUBSET (1 .. k) |-> Body(f, s)]
           S == {k \in Nat : \E f : Folds(f, k)}
<1>1. PICK n \in Nat : n = Len(who) /\ DOMAIN who = 1 .. n
  OBVIOUS
<1>2. SelectAll(h) = (CHOOSE f : Folds(f, n))[1 .. n]
  BY <1>1 DEF SelectAll, FoldLeft, MapThenFoldSet
<1>3. ASSUME NEW k \in Nat PROVE /\ k + 1 \in Nat
                                 /\ Max(1 .. k + 1) = k + 1
                                 /\ \A s \in SUBSET (1 .. k + 1) :
                                       k + 1 \in s => Max(s) = k + 1
  <2>1. ASSUME NEW s \in SUBSET (1 .. k + 1), k + 1 \in s PROVE Max(s) = k + 1
    <3>1. k + 1 \in Nat /\ s \in SUBSET (0 .. k + 1) /\ s # {}
      BY <2>1
    <3>2. PICK m \in s : m = Max(s) /\ \A y \in s : m >= y
      BY <3>1, MaxOf
    <3>3. m >= k + 1 /\ m \in 1 .. k + 1
      BY <2>1, <3>2
    <3> QED
      BY <3>2, <3>3
  <2> QED
    BY <2>1
<1>4. ASSUME NEW k \in Nat, NEW s \in SUBSET (1 .. k), s # {}
      PROVE  Max(s) \in s
  <2>1. s \in SUBSET (0 .. k)
    OBVIOUS
  <2> QED
    BY <1>4, <2>1, MaxOf
<1>5. 0 \in S
  <2>1. SUBSET (1 .. 0) = {{}}
    OBVIOUS
  <2> DEFINE f == [s \in SUBSET (1 .. 0) |-> base]
  <2>2. Folds(f, 0)
    BY <2>1
  <2> QED
    BY <2>2
<1>6. ASSUME NEW k \in Nat, k \in S PROVE k + 1 \in S
  <2>1. PICK f : Folds(f, k)
    BY <1>6
  <2> DEFINE g == [s \in SUBSET (1 .. k + 1) |->
                      IF k + 1 \in s THEN Op(f[s \ {k + 1}], k + 1) ELSE f[s]]
  <2>2. ASSUME NEW s \in SUBSET (1 .. k + 1) PROVE g[s] = Body(g, s)
    <3>1. CASE k + 1 \in s
      <4>1. s \ {k + 1} \in SUBSET (1 .. k + 1) /\ k + 1 \notin s \ {k + 1}
        BY <1>3
      <4>2. g[s] = Op(f[s \ {k + 1}], k + 1)
        BY <3>1
      <4>3. g[s \ {k + 1}] = f[s \ {k + 1}]
        BY <4>1
      <4>4. Max(s) = k + 1 /\ s # {}
        BY <1>3, <3>1
      <4> HIDE DEF g, Op
      <4> QED
        BY <4>2, <4>3, <4>4
    <3>2. CASE k + 1 \notin s
      <4>1. s \in SUBSET (1 .. k)
        BY <3>2
      <4>2. g[s] = f[s] /\ f[s] = Body(f, s)
        BY <2>1, <3>2, <4>1
      <4>3. ASSUME s # {} PROVE g[s \ {Max(s)}] = f[s \ {Max(s)}]
        <5>1. s \ {Max(s)} \in SUBSET (1 .. k + 1) /\ k + 1 \notin s \ {Max(s)}
          BY <3>2
        <5> QED
          BY <5>1
      <4> HIDE DEF g, Op
      <4> QED
        BY <4>2, <4>3
    <3> QED
      BY <3>1, <3>2
  <2>3. Folds(g, k + 1)
    <3>1. g = [s \in SUBSET (1 .. k + 1) |-> g[s]]
      OBVIOUS
    <3> HIDE DEF g, Body
    <3> QED
      BY <2>2, <3>1
  <2> QED
    BY <1>3, <2>3
<1>7. n \in S
  <2> HIDE DEF S
  <2> QED
    BY <1>1, <1>5, <1>6, Inductive
<1>8. PICK f : Folds(f, n) /\ SelectAll(h) = f[1 .. n]
  <2> HIDE DEF Body
  <2> QED
    BY <1>2, <1>7, Zenon
<1> DEFINE acc == [k \in 0 .. n |-> f[1 .. k]]
<1>9. acc[0] = base
  <2>1. 1 .. 0 = {} /\ {} \in SUBSET (1 .. n) /\ 0 \in 0 .. n
    BY <1>1
  <2>2. acc[0] = f[{}]
    BY <2>1
  <2> QED
    BY <1>8, <2>1, <2>2
<1>10. ASSUME NEW k \in 1 .. n PROVE acc[k] = Op(acc[k - 1], k)
  <2>1. PICK j \in Nat : j + 1 = k /\ k - 1 = j
    BY <1>1
  <2>2. /\ 1 .. k \in SUBSET (1 .. n) /\ 1 .. k # {} /\ k \in 0 .. n /\ j \in 0 .. n
        /\ (1 .. k) \ {k} = 1 .. j
    <3>1. k <= n /\ 0 <= j /\ j <= n /\ n \in Nat
      BY <1>1, <2>1
    <3>2. 1 .. k \in SUBSET (1 .. n) /\ k \in 1 .. k
      BY <2>1, <3>1
    <3>3. \A x : x \in (1 .. k) \ {k} <=> x \in 1 .. j
      BY <2>1, <3>1
    <3> QED
      BY <3>1, <3>2, <3>3
  <2>3. Max(1 .. k) = k
    BY <1>3, <2>1
  <2>4. acc[k] = f[1 .. k] /\ acc[j] = f[1 .. j]
    BY <2>2
  <2>5. f[1 .. k] = Body(f, 1 .. k)
    <3> HIDE DEF Body
    <3> QED
      BY <1>8, <2>2
  <2> HIDE DEF acc, Op
  <2> QED
    BY <2>1, <2>2, <2>3, <2>4, <2>5
<1>11. acc[n] = SelectAll(h)
  BY <1>1, <1>8
<1> HIDE DEF acc
<1> QED
  BY <1>1, <1>9, <1>10, <1>11

-----------------------------------------------------------------------------
(***************************************************************************)
(* What the first n lines of a file say.                                   *)
(***************************************************************************)
Given(f, n, hs, field) == {j \in Giving(f, hs, field) : j <= n}
ValueAt(f, n, hs, field, base) ==
    IF Given(f, n, hs, field) = {} THEN base ELSE f[Max(Given(f, n, hs, field))].value
StandingAt(f, n, own) ==
    {i \in own : f[i].action = "SET"
                 /\ \A j \in own : f[j].action = "RESET" /\ j <= n => j < i}

Defaults(f) == {i \in Headers(f) : f[i].target = "Lexgion.default"}
DefaultsOf(f, d) ==
    {i \in Headers(f) : f[i].target = "Lexgion(D).default" /\ f[i].dom = d}
Sections(f) == {i \in Headers(f) : f[i].target = "Lexgion"}

DefaultAt(f, n, field) ==
    ValueAt(f, n, StandingAt(f, n, Defaults(f)), field, SystemDefault.num[field])
DomainAt(f, n, d, field) ==
    ValueAt(f, n, StandingAt(f, n, DefaultsOf(f, d)), field, DefaultAt(f, n, field))

\* A name that a header lists, and the entry it stands for.
Same(s, e) == s.code = e.code /\ (s.code = Null => s.dom = e.dom /\ s.name = e.name)
Counts(action, s) ==
    s.code # Null \/ (action # "REMOVE" /\ s.name # "" /\ s.dom \in Domains \cup {AnyDomain})
Lists(f, i, e) == \E k \in DOMAIN f[i].who : Same(f[i].who[k], e)
SetSections(f, e) == {i \in Sections(f) : f[i].action = "SET" /\ Lists(f, i, e)}

\* The header whose section line n + 1 is in, if it is a key.
Current(f, i, n) == i \in Headers(f) /\ i <= n /\ \A k \in Headers(f) : k <= i \/ k > n

IsFile(f) ==
    /\ f \in Seq(Range(f))
    /\ \A i \in Headers(f) : /\ f[i].action \in {"SET", "RESET", "REMOVE"}
                             /\ f[i].who \in Seq(Range(f[i].who))

\* A file is a sequence.
LEMMA FileDomain ==
    ASSUME NEW f, IsFile(f)
    PROVE  Len(f) \in Nat /\ DOMAIN f = 1 .. Len(f)
BY DEF IsFile

\* What gives a field is among the lines read.
LEMMA GivenIn ==
    ASSUME NEW f, IsFile(f), NEW n \in Nat, NEW hs, NEW field
    PROVE  Given(f, n, hs, field) \in SUBSET (0 .. n)
BY FileDomain DEF Given, Giving

\* At most one header is current.
LEMMA CurrentOnly ==
    ASSUME NEW f, IsFile(f), NEW n \in Nat, NEW i, NEW j, Current(f, i, n), Current(f, j, n)
    PROVE  i = j
<1>1. i \in Nat /\ j \in Nat
  BY FileDomain DEF Current, Headers
<1> QED
  BY <1>1 DEF Current

\* The next line gives a value just if it is one for the current header.
LEMMA GivenNext ==
    ASSUME NEW f, IsFile(f), NEW n \in Nat, n + 1 \in DOMAIN f,
           NEW hs \in SUBSET Headers(f), NEW field
    PROVE  Given(f, n + 1, hs, field) =
             Given(f, n, hs, field) \cup
               {j \in {n + 1} : /\ ~IsHeader(f[j]) /\ f[j].key = "num" /\ f[j].field = field
                                /\ \E i \in hs : Current(f, i, n)}
<1> DEFINE new == {j \in {n + 1} : /\ ~IsHeader(f[j]) /\ f[j].key = "num" /\ f[j].field = field
                                   /\ \E i \in hs : Current(f, i, n)}
<1>1. PICK z \in Nat : z = n + 1
  OBVIOUS
<1>2. DOMAIN f = 1 .. Len(f) /\ Len(f) \in Nat /\ Headers(f) \subseteq DOMAIN f
  BY FileDomain DEF Headers
<1>3. ~IsHeader(f[z]) => z \notin Headers(f)
  BY DEF Headers
<1>4. ASSUME z \notin Headers(f), NEW i \in hs
      PROVE  (i < z /\ \A k \in Headers(f) : k <= i \/ k > z) <=> Current(f, i, n)
  <2>1. i \in Nat /\ i # z /\ \A k \in Headers(f) : k \in Nat /\ k # z
    BY <1>2, <1>4
  <2>2. i < z <=> i <= n
    BY <1>1, <2>1
  <2>3. \A k \in Headers(f) : k > z <=> k > n
    BY <1>1, <2>1
  <2> QED
    BY <2>2, <2>3 DEF Current
<1>5. z \in Giving(f, hs, field) <=> z \in new
  <2>1. z \in Giving(f, hs, field) <=>
          /\ ~IsHeader(f[z]) /\ f[z].key = "num" /\ f[z].field = field
          /\ \E i \in hs : i < z /\ \A k \in Headers(f) : k <= i \/ k > z
    BY <1>1 DEF Giving
  <2> QED
    BY <1>1, <1>3, <1>4, <2>1
<1>6. \A j \in Giving(f, hs, field) : j \in Nat
  BY <1>2 DEF Giving
<1>7. \A j \in Giving(f, hs, field) : j <= n + 1 <=> j <= n \/ j = z
  BY <1>1, <1>6
<1> HIDE DEF new
<1>8. new \subseteq {z}
  BY <1>1 DEF new
<1> QED
  BY <1>1, <1>5, <1>7, <1>8 DEF Given, new

\* Of a header nothing is given.
LEMMA ValueHeader ==
    ASSUME NEW f, IsFile(f), NEW n \in Nat, n + 1 \in DOMAIN f, IsHeader(f[n + 1]),
           NEW hs \in SUBSET Headers(f), NEW field, NEW base
    PROVE  ValueAt(f, n + 1, hs, field, base) = ValueAt(f, n, hs, field, base)
<1> DEFINE g == {j \in {n + 1} : /\ ~IsHeader(f[j]) /\ f[j].key = "num" /\ f[j].field = field
                       /\ \E i \in hs : Current(f, i, n)}
<1>1. Given(f, n + 1, hs, field) = Given(f, n, hs, field)
  <2>1. g = {}
    <3> SUFFICES ASSUME NEW j \in g PROVE FALSE
      OBVIOUS
    <3>1. j = n + 1 /\ ~IsHeader(f[j]) /\ f[j].key = "num" /\ f[j].field = field
          /\ \E i \in hs : Current(f, i, n)
      OBVIOUS
    <3> QED
      BY <3>1
  <2>2. Given(f, n + 1, hs, field) = Given(f, n, hs, field) \cup g
    BY GivenNext
  <2> HIDE DEF g
  <2> QED
    BY <2>1, <2>2
<1> QED
  BY <1>1 DEF ValueAt

\* Nor of a key that is not of the sections in question.
LEMMA ValueOther ==
    ASSUME NEW f, IsFile(f), NEW n \in Nat, n + 1 \in DOMAIN f,
           NEW hs \in SUBSET Headers(f), NEW field, NEW base,
           \/ f[n + 1].key # "num" \/ f[n + 1].field # field
           \/ \A i \in hs : ~Current(f, i, n)
    PROVE  ValueAt(f, n + 1, hs, field, base) = ValueAt(f, n, hs, field, base)
<1> DEFINE g == {j \in {n + 1} : /\ ~IsHeader(f[j]) /\ f[j].key = "num" /\ f[j].field = field
                       /\ \E i \in hs : Current(f, i, n)}
<1>1. Given(f, n + 1, hs, field) = Given(f, n, hs, field)
  <2>1. g = {}
    <3> SUFFICES ASSUME NEW j \in g PROVE FALSE
      OBVIOUS
    <3>1. j = n + 1 /\ ~IsHeader(f[j]) /\ f[j].key = "num" /\ f[j].field = field
          /\ \E i \in hs : Current(f, i, n)
      OBVIOUS
    <3> QED
      BY <3>1
  <2>2. Given(f, n + 1, hs, field) = Given(f, n, hs, field) \cup g
    BY GivenNext
  <2> HIDE DEF g
  <2> QED
    BY <2>1, <2>2
<1> QED
  BY <1>1 DEF ValueAt

\* A key in the body of one of the sections gives the value.
LEMMA ValueKey ==
    ASSUME NEW f, IsFile(f), NEW n \in Nat, n + 1 \in DOMAIN f, ~IsHeader(f[n + 1]),
           NEW hs \in SUBSET Headers(f), NEW base, f[n + 1].key = "num",
           NEW i \in hs, Current(f, i, n)
    PROVE  ValueAt(f, n + 1, hs, f[n + 1].field, base) = f[n + 1].value
<1> DEFINE g == Given(f, n + 1, hs, f[n + 1].field)
<1>1. g = Given(f, n, hs, f[n + 1].field) \cup {n + 1}
  BY GivenNext
<1>2. g \in SUBSET (0 .. n + 1) /\ g # {}
  BY <1>1, GivenIn
<1>3. Given(f, n, hs, f[n + 1].field) \in SUBSET (0 .. n)
  BY GivenIn
<1>4. Max(g) \in g /\ \A y \in g : Max(g) >= y
  <2> HIDE DEF g
  <2>1. n + 1 \in Nat
    OBVIOUS
  <2> QED
    BY <1>2, <2>1, MaxOf
<1>5. Max(g) = n + 1
  <2>1. PICK m \in g : m = Max(g)
    BY <1>4
  <2>2. m >= n + 1 /\ m \in 0 .. n + 1
    BY <1>1, <1>2, <1>4, <2>1
  <2> QED
    BY <2>1, <2>2
<1> HIDE DEF g
<1> QED
  BY <1>2, <1>5 DEF ValueAt, g

\* A section is read after its header.
LEMMA ValueNone ==
    ASSUME NEW f, IsFile(f), NEW n \in Nat, NEW hs \in SUBSET Headers(f), NEW field, NEW base,
           \A i \in hs : i >= n
    PROVE  ValueAt(f, n, hs, field, base) = base
<1>1. Headers(f) \subseteq Nat
  BY FileDomain DEF Headers
<1>2. Given(f, n, hs, field) = {}
  <2> SUFFICES ASSUME NEW j \in Given(f, n, hs, field) PROVE FALSE
    OBVIOUS
  <2>1. j \in DOMAIN f /\ j <= n /\ \E i \in hs : i < j
    BY DEF Given, Giving
  <2>2. j \in Nat
    BY <2>1, FileDomain
  <2> QED
    BY <1>1, <2>1, <2>2
<1> QED
  BY <1>2 DEF ValueAt

\* Headers are lines.
LEMMA HeadersIn ==
    ASSUME NEW f, IsFile(f)
    PROVE  Headers(f) \subseteq Nat \ {0} /\ \A i \in Headers(f) : i <= Len(f) /\ i \in DOMAIN f
BY FileDomain DEF Headers

\* A line that is no header of the target leaves the standing sections alone.
LEMMA StandingSame ==
    ASSUME NEW f, IsFile(f), NEW n \in Nat, NEW own \in SUBSET Headers(f),
           n + 1 \notin own \/ f[n + 1].action # "RESET"
    PROVE  StandingAt(f, n + 1, own) = StandingAt(f, n, own)
<1>1. \A j \in own : j \in Nat
  BY HeadersIn
<1>2. ASSUME NEW j \in own, f[j].action = "RESET" PROVE j <= n + 1 <=> j <= n
  <2>1. j # n + 1
    BY <1>2
  <2> QED
    BY <1>1, <2>1
<1> QED
  BY <1>2 DEF StandingAt

\* A RESET leaves none standing.
LEMMA StandingReset ==
    ASSUME NEW f, IsFile(f), NEW n \in Nat, NEW own \in SUBSET Headers(f),
           n + 1 \in own, f[n + 1].action = "RESET"
    PROVE  \A i \in StandingAt(f, n + 1, own) : i >= n + 1
<1>1. \A j \in own : j \in Nat
  BY HeadersIn
<1> QED
  BY <1>1 DEF StandingAt

\* The current header stands, if it is a SET.
LEMMA StandingCurrent ==
    ASSUME NEW f, IsFile(f), NEW n \in Nat, NEW own \in SUBSET Headers(f), NEW i \in own,
           f[i].action = "SET", Current(f, i, n)
    PROVE  i \in StandingAt(f, n, own)
<1>1. ASSUME NEW j \in own, f[j].action = "RESET", j <= n PROVE j < i
  <2>1. i \in Nat /\ j \in Nat /\ j # i
    BY <1>1, HeadersIn
  <2>2. j <= i \/ j > n
    BY DEF Current
  <2> QED
    BY <1>1, <2>1, <2>2
<1> QED
  BY <1>1 DEF StandingAt

\* Standing sections are headers of the target.
LEMMA StandingIn ==
    ASSUME NEW f, NEW n, NEW own \in SUBSET Headers(f)
    PROVE  StandingAt(f, n, own) \in SUBSET Headers(f)
BY DEF StandingAt

\* The headers of each target are headers.
LEMMA OwnHeaders ==
    ASSUME NEW f, NEW d, NEW e
    PROVE  /\ Defaults(f) \in SUBSET Headers(f) /\ DefaultsOf(f, d) \in SUBSET Headers(f)
           /\ Sections(f) \in SUBSET Headers(f) /\ SetSections(f, e) \in SUBSET Headers(f)
BY DEF Defaults, DefaultsOf, Sections, SetSections

-----------------------------------------------------------------------------
\* What a line makes of the values of the default.
LEMMA DefaultOtherHeader ==
    ASSUME NEW f, IsFile(f), NEW n \in Nat, n + 1 \in DOMAIN f, IsHeader(f[n + 1]),
           f[n + 1].target # "Lexgion.default" \/ f[n + 1].action # "RESET", NEW field
    PROVE  DefaultAt(f, n + 1, field) = DefaultAt(f, n, field)
<1>1. n + 1 \notin Defaults(f) \/ f[n + 1].action # "RESET"
  BY DEF Defaults
<1>2. Defaults(f) \in SUBSET Headers(f)
  BY OwnHeaders
<1>3. StandingAt(f, n + 1, Defaults(f)) = StandingAt(f, n, Defaults(f))
  BY <1>1, <1>2, StandingSame
<1>4. StandingAt(f, n, Defaults(f)) \in SUBSET Headers(f)
  BY <1>2, StandingIn
<1> QED
  BY <1>3, <1>4, ValueHeader DEF DefaultAt

\* A RESET of the default gives back the built-in values.
LEMMA DefaultReset ==
    ASSUME NEW f, IsFile(f), NEW n \in Nat, n + 1 \in DOMAIN f, IsHeader(f[n + 1]),
           f[n + 1].target = "Lexgion.default", f[n + 1].action = "RESET", NEW field
    PROVE  DefaultAt(f, n + 1, field) = SystemDefault.num[field]
<1>1. n + 1 \in Defaults(f)
  BY DEF Defaults, Headers
<1>2. Defaults(f) \in SUBSET Headers(f)
  BY OwnHeaders
<1>3. \A i \in StandingAt(f, n + 1, Defaults(f)) : i >= n + 1
  BY <1>1, <1>2, StandingReset
<1>4. StandingAt(f, n + 1, Defaults(f)) \in SUBSET Headers(f) /\ n + 1 \in Nat
  BY <1>2, StandingIn
<1> QED
  BY <1>3, <1>4, ValueNone DEF DefaultAt

\* A key outside the bodies of the default says nothing of it.
LEMMA DefaultOtherKey ==
    ASSUME NEW f, IsFile(f), NEW n \in Nat, n + 1 \in DOMAIN f, ~IsHeader(f[n + 1]), NEW field,
           \/ f[n + 1].key # "num" \/ f[n + 1].field # field
           \/ \A i \in Defaults(f) : f[i].action = "SET" => ~Current(f, i, n)
    PROVE  DefaultAt(f, n + 1, field) = DefaultAt(f, n, field)
<1>1. n + 1 \notin Defaults(f)
  BY DEF Defaults, Headers
<1>2. Defaults(f) \in SUBSET Headers(f)
  BY OwnHeaders
<1>3. StandingAt(f, n + 1, Defaults(f)) = StandingAt(f, n, Defaults(f))
  BY <1>1, <1>2, StandingSame
<1>4. StandingAt(f, n, Defaults(f)) \in SUBSET Headers(f)
  BY <1>2, StandingIn
<1>5. \A i \in StandingAt(f, n, Defaults(f)) : i \in Defaults(f) /\ f[i].action = "SET"
  BY DEF StandingAt
<1>6. \/ f[n + 1].key # "num" \/ f[n + 1].field # field
      \/ \A i \in StandingAt(f, n, Defaults(f)) : ~Current(f, i, n)
  BY <1>5
<1> QED
  BY <1>3, <1>4, <1>6, ValueOther DEF DefaultAt

\* A key in the body of the default does.
LEMMA DefaultKey ==
    ASSUME NEW f, IsFile(f), NEW n \in Nat, n + 1 \in DOMAIN f, ~IsHeader(f[n + 1]),
           f[n + 1].key = "num",
           NEW i \in Defaults(f), f[i].action = "SET", Current(f, i, n)
    PROVE  DefaultAt(f, n + 1, f[n + 1].field) = f[n + 1].value
<1>1. n + 1 \notin Defaults(f)
  BY DEF Defaults, Headers
<1>2. Defaults(f) \in SUBSET Headers(f)
  BY OwnHeaders
<1>3. StandingAt(f, n + 1, Defaults(f)) = StandingAt(f, n, Defaults(f))
  BY <1>1, <1>2, StandingSame
<1>4. StandingAt(f, n, Defaults(f)) \in SUBSET Headers(f)
  BY <1>2, StandingIn
<1>5. i \in StandingAt(f, n, Defaults(f))
  BY <1>2, StandingCurrent
<1> QED
  BY <1>3, <1>4, <1>5, ValueKey DEF DefaultAt

-----------------------------------------------------------------------------
\* And of those of a domain's default, while the default stands.
LEMMA DomainOtherHeader ==
    ASSUME NEW f, IsFile(f), NEW n \in Nat, n + 1 \in DOMAIN f, IsHeader(f[n + 1]), NEW d,
           f[n + 1].target # "Lexgion(D).default" \/ f[n + 1].dom # d, NEW field,
           DefaultAt(f, n + 1, field) = DefaultAt(f, n, field)
    PROVE  DomainAt(f, n + 1, d, field) = DomainAt(f, n, d, field)
<1>1. n + 1 \notin DefaultsOf(f, d)
  BY DEF DefaultsOf
<1>2. DefaultsOf(f, d) \in SUBSET Headers(f)
  BY OwnHeaders
<1>3. StandingAt(f, n + 1, DefaultsOf(f, d)) = StandingAt(f, n, DefaultsOf(f, d))
  BY <1>1, <1>2, StandingSame
<1>4. StandingAt(f, n, DefaultsOf(f, d)) \in SUBSET Headers(f)
  BY <1>2, StandingIn
<1> QED
  BY <1>3, <1>4, ValueHeader DEF DomainAt

\* Its header starts it afresh: a file sets a domain's default once.
LEMMA DomainHeader ==
    ASSUME NEW f, IsFile(f), Proper(f), NEW n \in Nat, n + 1 \in DOMAIN f, IsHeader(f[n + 1]),
           f[n + 1].target = "Lexgion(D).default", NEW field
    PROVE  DomainAt(f, n + 1, f[n + 1].dom, field) = DefaultAt(f, n + 1, field)
<1> DEFINE own == DefaultsOf(f, f[n + 1].dom)
<1>1. n + 1 \in own
  BY DEF DefaultsOf, Headers
<1>2. own \in SUBSET Headers(f)
  BY OwnHeaders
<1>3. \A i \in StandingAt(f, n + 1, own) : i >= n + 1
  <2>1. CASE f[n + 1].action = "RESET"
    <3> HIDE DEF own
    <3> QED
      BY <1>1, <1>2, <2>1, StandingReset
  <2>2. CASE f[n + 1].action = "SET"
    <3> SUFFICES ASSUME NEW i \in StandingAt(f, n + 1, own) PROVE i >= n + 1
      OBVIOUS
    <3>1. i \in own /\ f[i].action = "SET"
      BY DEF StandingAt
    <3>2. i = n + 1
      BY <1>1, <1>2, <2>2, <3>1 DEF Proper, DefaultsOf
    <3> QED
      BY <3>2
  <2>3. f[n + 1].action \in {"SET", "RESET", "REMOVE"} /\ f[n + 1].action # "REMOVE"
    BY <1>1, <1>2 DEF IsFile, Proper
  <2> QED
    BY <2>1, <2>2, <2>3
<1>4. StandingAt(f, n + 1, own) \in SUBSET Headers(f) /\ n + 1 \in Nat
  BY <1>2, StandingIn
<1> HIDE DEF own
<1>5. ValueAt(f, n + 1, StandingAt(f, n + 1, own), field, DefaultAt(f, n + 1, field))
        = DefaultAt(f, n + 1, field)
  BY <1>3, <1>4, ValueNone
<1> QED
  BY <1>5 DEF DomainAt, own

\* A key outside the bodies of a domain's default says nothing of it.
LEMMA DomainOtherKey ==
    ASSUME NEW f, IsFile(f), NEW n \in Nat, n + 1 \in DOMAIN f, ~IsHeader(f[n + 1]), NEW d,
           NEW field, DefaultAt(f, n + 1, field) = DefaultAt(f, n, field),
           \/ f[n + 1].key # "num" \/ f[n + 1].field # field
           \/ \A i \in DefaultsOf(f, d) : f[i].action = "SET" => ~Current(f, i, n)
    PROVE  DomainAt(f, n + 1, d, field) = DomainAt(f, n, d, field)
<1>1. n + 1 \notin DefaultsOf(f, d)
  BY DEF DefaultsOf, Headers
<1>2. DefaultsOf(f, d) \in SUBSET Headers(f)
  BY OwnHeaders
<1>3. StandingAt(f, n + 1, DefaultsOf(f, d)) = StandingAt(f, n, DefaultsOf(f, d))
  BY <1>1, <1>2, StandingSame
<1>4. StandingAt(f, n, DefaultsOf(f, d)) \in SUBSET Headers(f)
  BY <1>2, StandingIn
<1>5. \A i \in StandingAt(f, n, DefaultsOf(f, d)) :
         i \in DefaultsOf(f, d) /\ f[i].action = "SET"
  BY DEF StandingAt
<1>6. \/ f[n + 1].key # "num" \/ f[n + 1].field # field
      \/ \A i \in StandingAt(f, n, DefaultsOf(f, d)) : ~Current(f, i, n)
  BY <1>5
<1> QED
  BY <1>3, <1>4, <1>6, ValueOther DEF DomainAt

\* A key in the body of a domain's default does.
LEMMA DomainKey ==
    ASSUME NEW f, IsFile(f), NEW n \in Nat, n + 1 \in DOMAIN f, ~IsHeader(f[n + 1]),
           f[n + 1].key = "num", NEW d,
           NEW i \in DefaultsOf(f, d), f[i].action = "SET", Current(f, i, n)
    PROVE  DomainAt(f, n + 1, d, f[n + 1].field) = f[n + 1].value
<1>1. n + 1 \notin DefaultsOf(f, d)
  BY DEF DefaultsOf, Headers
<1>2. DefaultsOf(f, d) \in SUBSET Headers(f)
  BY OwnHeaders
<1>3. StandingAt(f, n + 1, DefaultsOf(f, d)) = StandingAt(f, n, DefaultsOf(f, d))
  BY <1>1, <1>2, StandingSame
<1>4. StandingAt(f, n, DefaultsOf(f, d)) \in SUBSET Headers(f)
  BY <1>2, StandingIn
<1>5. i \in StandingAt(f, n, DefaultsOf(f, d))
  BY <1>2, StandingCurrent
<1> QED
  BY <1>3, <1>4, <1>5, ValueKey DEF DomainAt

-----------------------------------------------------------------------------
(***************************************************************************)
(* The table.                                                              *)
(***************************************************************************)
IsSeq(T) == \E S : T \in Seq(S)

EntryFields == {"code", "name", "dom", "hint", "removed", "num", "end", "timeout", "trigger",
                "events", "limited", "units"}
IsEntry(e) == DOMAIN e = EntryFields /\ DOMAIN e.num = Fields

\* What a header does not change of an entry.
Alike(e, g) ==
    e.code = g.code /\ e.name = g.name /\ e.dom = g.dom /\ e.hint = g.hint /\ e.num = g.num

\* The names that a table accounts for: those of the first n lines, and the
\* first m of the header that is line n + 1.
Seen(f, i, k, n, m) ==
    /\ i \in Sections(f) /\ k \in DOMAIN f[i].who
    /\ i <= n \/ (i = n + 1 /\ k <= m)
    /\ Counts(f[i].action, f[i].who[k])

\* Every name has its entry, every entry is of a name and has its file, no two
\* entries are of one name, and they come in the order of the names.
Structure(f, T, n, m) ==
    /\ IsSeq(T)
    /\ \A i, k : Seen(f, i, k, n, m) => \E e \in DOMAIN T : Same(f[i].who[k], T[e])
    /\ \A e \in DOMAIN T : \E i, k :
          /\ Seen(f, i, k, n, m) /\ Same(f[i].who[k], T[e])
          /\ T[e].code = Null => f[i].who[k].hint = T[e].hint
    /\ \A e, g \in DOMAIN T : Same(T[e], T[g]) => e = g
    /\ \A e, g \in DOMAIN T : e < g => \E i, k :
          /\ Seen(f, i, k, n, m) /\ Same(f[i].who[k], T[e])
          /\ \A j, l : Seen(f, j, l, n, m) /\ Same(f[j].who[l], T[g])
                       => i < j \/ (i = j /\ k < l)

\* Facts on sequences of anything.
LEMMA SeqFacts ==
    ASSUME NEW T, IsSeq(T)
    PROVE  Len(T) \in Nat /\ DOMAIN T = 1 .. Len(T)
BY DEF IsSeq

\* An appended sequence.
LEMMA Longer ==
    ASSUME NEW T, IsSeq(T), NEW x
    PROVE  /\ IsSeq(Append(T, x)) /\ Len(Append(T, x)) = Len(T) + 1
           /\ DOMAIN Append(T, x) = DOMAIN T \cup {Len(T) + 1} /\ Len(T) + 1 \notin DOMAIN T
           /\ Append(T, x)[Len(T) + 1] = x
           /\ \A i \in DOMAIN T : Append(T, x)[i] = T[i]
<1>1. PICK S : T \in Seq(S)
  BY DEF IsSeq
<1>2. T \in Seq(S \cup {x}) /\ x \in S \cup {x}
  BY <1>1
<1>3. PICK n \in Nat : n = Len(T) /\ DOMAIN T = 1 .. n
  BY <1>1
<1>4. /\ Append(T, x) \in Seq(S \cup {x}) /\ Len(Append(T, x)) = n + 1
      /\ Append(T, x)[n + 1] = x /\ \A i \in 1 .. n : Append(T, x)[i] = T[i]
  BY <1>2, <1>3
<1>5. DOMAIN Append(T, x) = 1 .. n + 1
  BY <1>4
<1>6. 1 .. n + 1 = (1 .. n) \cup {n + 1} /\ n + 1 \notin 1 .. n
  OBVIOUS
<1> QED
  BY <1>3, <1>4, <1>5, <1>6 DEF IsSeq

\* A sequence with one element changed.
LEMMA Changed ==
    ASSUME NEW T, IsSeq(T), NEW i \in DOMAIN T, NEW x
    PROVE  /\ IsSeq([T EXCEPT ![i] = x]) /\ Len([T EXCEPT ![i] = x]) = Len(T)
           /\ DOMAIN [T EXCEPT ![i] = x] = DOMAIN T
<1>1. PICK S : T \in Seq(S)
  BY DEF IsSeq
<1>2. [T EXCEPT ![i] = x] \in Seq(S \cup {x}) /\ Len([T EXCEPT ![i] = x]) = Len(T)
  BY <1>1
<1> QED
  BY <1>1, <1>2 DEF IsSeq

\* To name the same entry is symmetric and transitive.
LEMMA SameSame ==
    ASSUME NEW a, NEW b, NEW c
    PROVE  /\ Same(a, b) => Same(b, a)
           /\ Same(a, b) /\ Same(b, c) => Same(a, c)
BY DEF Same

\* The entries a name names.
Entries(T, s) == {i \in DOMAIN T : Same(s, T[i])}

\* The three cases of a name, while the table has room.
LEMMA SelectIs ==
    ASSUME NEW acc, NEW s, NEW action, acc.crashed = FALSE, Len(acc.table) < TableSize
    PROVE  Select(action, acc, s) =
             IF ~Counts(action, s) THEN acc
             ELSE IF Entries(acc.table, s) # {} THEN Selected(acc, Min(Entries(acc.table, s)))
             ELSE Alloc(acc, s)
<1>1. CASE s.code # Null
  <2>1. Entries(acc.table, s) = {i \in DOMAIN acc.table : acc.table[i].code = s.code}
    BY <1>1 DEF Entries, Same
  <2>2. Select(action, acc, s) = SelectAddress(acc, s) /\ Counts(action, s)
    BY <1>1 DEF Select, Counts
  <2> QED
    BY <2>1, <2>2 DEF SelectAddress
<1>2. CASE s.code = Null
  <2>1. Entries(acc.table, s) =
          {i \in DOMAIN acc.table : /\ acc.table[i].code = Null
                                    /\ acc.table[i].dom = s.dom /\ acc.table[i].name = s.name}
    BY <1>2 DEF Entries, Same
  <2>2. Select(action, acc, s) = IF Counts(action, s) THEN SelectNamed(acc, s) ELSE acc
    BY <1>2 DEF Select, Counts
  <2> QED
    BY <2>1, <2>2 DEF SelectNamed
<1> QED
  BY <1>1, <1>2

IsAcc(acc) ==
    DOMAIN acc = {"table", "at", "crashed"} /\ IsSeq(acc.table) /\ IsSeq(acc.at)

\* An entry that is found.
LEMMA SelectedIs ==
    ASSUME NEW acc, IsAcc(acc), NEW i \in DOMAIN acc.table
    PROVE  /\ IsAcc(Selected(acc, i))
           /\ Selected(acc, i).table = [acc.table EXCEPT ![i].removed = FALSE]
           /\ Selected(acc, i).at = Append(acc.at, i)
           /\ Selected(acc, i).crashed = acc.crashed
<1> DEFINE T == [acc.table EXCEPT ![i] = [acc.table[i] EXCEPT !.removed = FALSE]]
<1>1. T = [acc.table EXCEPT ![i].removed = FALSE]
  OBVIOUS
<1>2. IsSeq(T)
  BY Changed DEF IsAcc
<1>3. IsSeq(Append(acc.at, i))
  BY Longer DEF IsAcc
<1>4. /\ Selected(acc, i).table = [acc.table EXCEPT ![i].removed = FALSE]
      /\ Selected(acc, i).at = Append(acc.at, i)
      /\ Selected(acc, i).crashed = acc.crashed
      /\ DOMAIN Selected(acc, i) = DOMAIN acc
  BY DEF Selected, IsAcc
<1> HIDE DEF T
<1> QED
  BY <1>1, <1>2, <1>3, <1>4 DEF IsAcc

\* A fresh entry, of the default's values and a name.
Fresh(s) == [default EXCEPT !.code = s.code, !.name = s.name, !.dom = s.dom, !.hint = s.hint,
                            !.removed = FALSE]

\* An entry that is created.
LEMMA FreshIs ==
    ASSUME IsEntry(default), NEW s
    PROVE  /\ IsEntry(Fresh(s)) /\ Fresh(s).removed = FALSE /\ Fresh(s).num = default.num
           /\ Fresh(s).code = s.code /\ Fresh(s).name = s.name /\ Fresh(s).dom = s.dom
           /\ Fresh(s).hint = s.hint /\ Same(s, Fresh(s))
<1>1. DOMAIN Fresh(s) = EntryFields
  BY DEF Fresh, IsEntry
<1>2. /\ Fresh(s).removed = FALSE /\ Fresh(s).num = default.num
      /\ Fresh(s).code = s.code /\ Fresh(s).name = s.name /\ Fresh(s).dom = s.dom
      /\ Fresh(s).hint = s.hint
  BY DEF Fresh, IsEntry, EntryFields
<1> QED
  BY <1>1, <1>2 DEF IsEntry, Same

\* And the table it is created in.
LEMMA AllocIs ==
    ASSUME NEW acc, IsAcc(acc), NEW s
    PROVE  /\ IsAcc(Alloc(acc, s))
           /\ Alloc(acc, s).table = Append(acc.table, Fresh(s))
           /\ Alloc(acc, s).at = Append(acc.at, Len(acc.table) + 1)
           /\ Alloc(acc, s).crashed = acc.crashed
<1>1. IsSeq(Append(acc.table, Fresh(s))) /\ IsSeq(Append(acc.at, Len(acc.table) + 1))
  BY Longer DEF IsAcc
<1>2. /\ Alloc(acc, s).table = Append(acc.table, Fresh(s))
      /\ Alloc(acc, s).at = Append(acc.at, Len(acc.table) + 1)
      /\ Alloc(acc, s).crashed = acc.crashed
      /\ DOMAIN Alloc(acc, s) = DOMAIN acc
  BY DEF Alloc, IsAcc, Fresh
<1> QED
  BY <1>1, <1>2 DEF IsAcc

\* However full the table is, a name never shortens it.
LEMMA SelectGrows ==
    ASSUME NEW acc, IsAcc(acc), NEW action, NEW s
    PROVE  /\ IsAcc(Select(action, acc, s))
           /\ Len(acc.table) <= Len(Select(action, acc, s).table)
<1>1. PICK len \in Nat : len = Len(acc.table) /\ DOMAIN acc.table = 1 .. len
  BY SeqFacts DEF IsAcc
<1>2. ASSUME NEW S \in SUBSET (DOMAIN acc.table), S # {}
      PROVE  /\ IsAcc(Selected(acc, Min(S))) /\ Len(acc.table) <= Len(Selected(acc, Min(S)).table)
  <2>1. S \in SUBSET Nat
    BY <1>1
  <2>2. PICK i \in S : i = Min(S)
    BY <1>2, <2>1, MinOf
  <2>3. Selected(acc, i).table = [acc.table EXCEPT ![i] = [acc.table[i] EXCEPT !.removed = FALSE]]
    BY SelectedIs
  <2>4. Len(Selected(acc, i).table) = len
    BY <1>1, <2>3, Changed DEF IsAcc
  <2>5. i \in DOMAIN acc.table /\ IsAcc(Selected(acc, i))
    BY SelectedIs
  <2>6. IsAcc(Selected(acc, i)) /\ Len(acc.table) <= Len(Selected(acc, i).table)
    BY <1>1, <2>4, <2>5
  <2> QED
    BY <2>2, <2>6
<1>3. IsAcc(Alloc(acc, s)) /\ Len(acc.table) <= Len(Alloc(acc, s).table)
  BY <1>1, AllocIs, Longer DEF IsAcc
<1>4. IsAcc([acc EXCEPT !.crashed = TRUE]) /\ [acc EXCEPT !.crashed = TRUE].table = acc.table
  BY DEF IsAcc
<1>5. CASE Select(action, acc, s) = acc
  BY <1>1, <1>5
<1>6. CASE Select(action, acc, s) = SelectAddress(acc, s)
  <2> DEFINE S == {i \in DOMAIN acc.table : acc.table[i].code = s.code}
  <2>1. S \in SUBSET (DOMAIN acc.table)
    OBVIOUS
  <2>2. SelectAddress(acc, s) = IF S # {} THEN Selected(acc, Min(S))
                                ELSE IF Len(acc.table) < TableSize THEN Alloc(acc, s)
                                ELSE [acc EXCEPT !.crashed = TRUE]
    BY DEF SelectAddress
  <2> HIDE DEF S
  <2> QED
    BY <1>1, <1>2, <1>3, <1>4, <1>6, <2>1, <2>2
<1>7. CASE Select(action, acc, s) = SelectNamed(acc, s)
  <2> DEFINE S == {i \in DOMAIN acc.table : /\ acc.table[i].code = Null
                                            /\ acc.table[i].dom = s.dom
                                            /\ acc.table[i].name = s.name}
  <2>1. S \in SUBSET (DOMAIN acc.table)
    OBVIOUS
  <2>2. SelectNamed(acc, s) = IF S # {} THEN Selected(acc, Min(S))
                              ELSE IF Len(acc.table) < TableSize THEN Alloc(acc, s) ELSE acc
    BY DEF SelectNamed
  <2> HIDE DEF S
  <2> QED
    BY <1>1, <1>2, <1>3, <1>7, <2>1, <2>2
<1> QED
  BY <1>5, <1>6, <1>7 DEF Select

-----------------------------------------------------------------------------
\* What becomes of a table's structure.
LEMMA StructureSeen ==
    ASSUME NEW f, NEW T, NEW n, NEW m, NEW n2, NEW m2, Structure(f, T, n, m),
           \A i, k : Seen(f, i, k, n, m) <=> Seen(f, i, k, n2, m2)
    PROVE  Structure(f, T, n2, m2)
<1> USE DEF Structure
<1>1. IsSeq(T) /\ (\A e, g \in DOMAIN T : Same(T[e], T[g]) => e = g)
  OBVIOUS
<1>2. \A i, k : Seen(f, i, k, n2, m2) => \E e \in DOMAIN T : Same(f[i].who[k], T[e])
  OBVIOUS
<1>3. \A e \in DOMAIN T : \E i, k :
         /\ Seen(f, i, k, n2, m2) /\ Same(f[i].who[k], T[e])
         /\ T[e].code = Null => f[i].who[k].hint = T[e].hint
  OBVIOUS
<1>4. \A e, g \in DOMAIN T : e < g => \E i, k :
         /\ Seen(f, i, k, n2, m2) /\ Same(f[i].who[k], T[e])
         /\ \A j, l : Seen(f, j, l, n2, m2) /\ Same(f[j].who[l], T[g])
                      => i < j \/ (i = j /\ k < l)
  <2> SUFFICES ASSUME NEW e \in DOMAIN T, NEW g \in DOMAIN T, e < g
               PROVE  \E i, k :
                        /\ Seen(f, i, k, n2, m2) /\ Same(f[i].who[k], T[e])
                        /\ \A j, l : Seen(f, j, l, n2, m2) /\ Same(f[j].who[l], T[g])
                                     => i < j \/ (i = j /\ k < l)
    OBVIOUS
  <2>1. PICK i, k : /\ Seen(f, i, k, n, m) /\ Same(f[i].who[k], T[e])
                    /\ \A j, l : Seen(f, j, l, n, m) /\ Same(f[j].who[l], T[g])
                                 => i < j \/ (i = j /\ k < l)
    OBVIOUS
  <2> QED
    BY <2>1
<1> QED
  BY <1>1, <1>2, <1>3, <1>4

\* Entries that only change their values keep the structure.
LEMMA StructureAlike ==
    ASSUME NEW f, NEW T, NEW n, NEW m, NEW U, Structure(f, T, n, m), IsSeq(U),
           DOMAIN U = DOMAIN T, \A e \in DOMAIN T : Alike(U[e], T[e])
    PROVE  Structure(f, U, n, m)
<1> USE DEF Structure
<1>1. \A s, e : e \in DOMAIN T => (Same(s, U[e]) <=> Same(s, T[e]))
  BY DEF Same, Alike
<1>2. \A e, g \in DOMAIN U : Same(U[e], U[g]) => e = g
  <2>1. \A e, g \in DOMAIN T : Same(U[e], U[g]) <=> Same(T[e], T[g])
    BY DEF Same, Alike
  <2> QED
    BY <2>1
<1>3. \A i, k : Seen(f, i, k, n, m) => \E e \in DOMAIN U : Same(f[i].who[k], U[e])
  BY <1>1
<1>4. ASSUME NEW e \in DOMAIN U
      PROVE  \E i, k : /\ Seen(f, i, k, n, m) /\ Same(f[i].who[k], U[e])
                       /\ U[e].code = Null => f[i].who[k].hint = U[e].hint
  <2>1. PICK i, k : /\ Seen(f, i, k, n, m) /\ Same(f[i].who[k], T[e])
                    /\ T[e].code = Null => f[i].who[k].hint = T[e].hint
    OBVIOUS
  <2>2. U[e].code = T[e].code /\ U[e].hint = T[e].hint
    BY DEF Alike
  <2> QED
    BY <1>1, <2>1, <2>2
<1>5. ASSUME NEW e \in DOMAIN U, NEW g \in DOMAIN U, e < g
      PROVE  \E i, k : /\ Seen(f, i, k, n, m) /\ Same(f[i].who[k], U[e])
                       /\ \A j, l : Seen(f, j, l, n, m) /\ Same(f[j].who[l], U[g])
                                    => i < j \/ (i = j /\ k < l)
  <2>1. PICK i, k : /\ Seen(f, i, k, n, m) /\ Same(f[i].who[k], T[e])
                    /\ \A j, l : Seen(f, j, l, n, m) /\ Same(f[j].who[l], T[g])
                                 => i < j \/ (i = j /\ k < l)
    BY <1>5
  <2> QED
    BY <1>1, <2>1
<1> QED
  BY <1>2, <1>3, <1>4, <1>5

\* The names of line n + 1, one by one.
LEMMA SeenNext ==
    ASSUME NEW f, IsFile(f), NEW n \in Nat, NEW m \in Nat, n + 1 \in Sections(f),
           m + 1 \in DOMAIN f[n + 1].who, NEW i, NEW k
    PROVE  Seen(f, i, k, n, m + 1) <=>
             \/ Seen(f, i, k, n, m)
             \/ /\ i = n + 1 /\ k = m + 1
                /\ Counts(f[n + 1].action, f[n + 1].who[m + 1])
<1>1. ASSUME i \in Sections(f), k \in DOMAIN f[i].who PROVE k \in Nat
  <2>1. i \in Headers(f)
    BY <1>1 DEF Sections
  <2>2. f[i].who \in Seq(Range(f[i].who))
    BY <2>1 DEF IsFile
  <2> QED
    BY <1>1, <2>2
<1>2. k \in Nat => (k <= m + 1 <=> k <= m \/ k = m + 1)
  OBVIOUS
<1> QED
  BY <1>1, <1>2 DEF Seen

\* A name seen now comes after those seen before.
LEMMA SeenBefore ==
    ASSUME NEW f, IsFile(f), NEW n \in Nat, NEW m \in Nat, NEW i, NEW k, Seen(f, i, k, n, m)
    PROVE  i < n + 1 \/ (i = n + 1 /\ k < m + 1)
<1>1. i \in Headers(f) /\ i \in Nat
  BY HeadersIn DEF Seen, Sections
<1>2. f[i].who \in Seq(Range(f[i].who))
  BY <1>1 DEF IsFile
<1>3. k \in Nat
  BY <1>2 DEF Seen
<1>4. i <= n \/ (i = n + 1 /\ k <= m)
  BY DEF Seen
<1> QED
  BY <1>1, <1>3, <1>4

\* So does a name that is found.
LEMMA StructureFound ==
    ASSUME NEW f, IsFile(f), NEW n \in Nat, NEW m \in Nat, n + 1 \in Sections(f),
           m + 1 \in DOMAIN f[n + 1].who, NEW T, Structure(f, T, n, m),
           Entries(T, f[n + 1].who[m + 1]) # {}
    PROVE  Structure(f, T, n, m + 1)
<1> DEFINE s == f[n + 1].who[m + 1]
<1>1. PICK x \in DOMAIN T : Same(s, T[x])
  BY DEF Entries
<1>2. \A i, k : Seen(f, i, k, n, m + 1) => Seen(f, i, k, n, m) \/ (i = n + 1 /\ k = m + 1)
  BY SeenNext
<1>3. \A i, k : Seen(f, i, k, n, m) => Seen(f, i, k, n, m + 1)
  BY SeenNext
<1>4. \A i, k : Seen(f, i, k, n, m) => i < n + 1 \/ (i = n + 1 /\ k < m + 1)
  BY SeenBefore
<1>5. \A i, k : Seen(f, i, k, n, m + 1) => \E e \in DOMAIN T : Same(f[i].who[k], T[e])
  <2> SUFFICES ASSUME NEW i, NEW k, Seen(f, i, k, n, m + 1)
               PROVE  \E e \in DOMAIN T : Same(f[i].who[k], T[e])
    OBVIOUS
  <2>1. CASE Seen(f, i, k, n, m)
    BY <2>1 DEF Structure
  <2>2. CASE i = n + 1 /\ k = m + 1
    BY <1>1, <2>2
  <2> QED
    BY <1>2, <2>1, <2>2
<1>6. ASSUME NEW e \in DOMAIN T
      PROVE  \E i, k : /\ Seen(f, i, k, n, m + 1) /\ Same(f[i].who[k], T[e])
                       /\ T[e].code = Null => f[i].who[k].hint = T[e].hint
  <2>1. PICK i, k : /\ Seen(f, i, k, n, m) /\ Same(f[i].who[k], T[e])
                    /\ T[e].code = Null => f[i].who[k].hint = T[e].hint
    BY DEF Structure
  <2> QED
    BY <1>3, <2>1
<1>7. ASSUME NEW e \in DOMAIN T, NEW g \in DOMAIN T, e < g
      PROVE  \E i, k : /\ Seen(f, i, k, n, m + 1) /\ Same(f[i].who[k], T[e])
                       /\ \A j, l : Seen(f, j, l, n, m + 1) /\ Same(f[j].who[l], T[g])
                                    => i < j \/ (i = j /\ k < l)
  <2>1. PICK i, k : /\ Seen(f, i, k, n, m) /\ Same(f[i].who[k], T[e])
                    /\ \A j, l : Seen(f, j, l, n, m) /\ Same(f[j].who[l], T[g])
                                 => i < j \/ (i = j /\ k < l)
    BY <1>7 DEF Structure
  <2>2. Seen(f, i, k, n, m + 1)
    BY <1>3, <2>1
  <2>3. ASSUME NEW j, NEW l, Seen(f, j, l, n, m + 1), Same(f[j].who[l], T[g])
        PROVE  i < j \/ (i = j /\ k < l)
    <3>1. CASE Seen(f, j, l, n, m)
      BY <2>1, <2>3, <3>1
    <3>2. CASE j = n + 1 /\ l = m + 1
      BY <1>4, <2>1, <3>2
    <3> QED
      BY <1>2, <2>3, <3>1, <3>2
  <2> QED
    BY <2>1, <2>2, <2>3
<1>8. IsSeq(T) /\ (\A e, g \in DOMAIN T : Same(T[e], T[g]) => e = g)
  BY DEF Structure
<1> HIDE DEF s
<1> QED
  BY <1>5, <1>6, <1>7, <1>8 DEF Structure

\* A name that is new adds the entry the structure asks for.
LEMMA StructureNew ==
    ASSUME NEW f, IsFile(f), NEW n \in Nat, NEW m \in Nat, n + 1 \in Sections(f),
           m + 1 \in DOMAIN f[n + 1].who, NEW T, Structure(f, T, n, m),
           IsEntry(default), Counts(f[n + 1].action, f[n + 1].who[m + 1]),
           Entries(T, f[n + 1].who[m + 1]) = {}
    PROVE  Structure(f, Append(T, Fresh(f[n + 1].who[m + 1])), n, m + 1)
<1> DEFINE s == f[n + 1].who[m + 1]
           U == Append(T, Fresh(s))
<1>1. PICK z \in Nat : z = Len(T) + 1 /\ DOMAIN T = 1 .. Len(T) /\ Len(T) \in Nat
  BY SeqFacts DEF Structure
<1>2. /\ IsSeq(U) /\ DOMAIN U = DOMAIN T \cup {z} /\ z \notin DOMAIN T
      /\ U[z] = Fresh(s) /\ \A i \in DOMAIN T : U[i] = T[i]
  BY <1>1, Longer DEF Structure
<1>3. Same(s, U[z]) /\ U[z].hint = s.hint
  BY <1>2, FreshIs
<1>4. \A e \in DOMAIN T : ~Same(s, T[e])
  BY DEF Entries
<1>5. \A i, k : Seen(f, i, k, n, m + 1) => Seen(f, i, k, n, m) \/ (i = n + 1 /\ k = m + 1)
  BY SeenNext
<1>6. \A i, k : Seen(f, i, k, n, m) => Seen(f, i, k, n, m + 1)
  BY SeenNext
<1>7. \A i, k : Seen(f, i, k, n, m) => i < n + 1 \/ (i = n + 1 /\ k < m + 1)
  BY SeenBefore
<1>8. Seen(f, n + 1, m + 1, n, m + 1)
  BY SeenNext
<1>9. \A i, k : Seen(f, i, k, n, m) => ~Same(f[i].who[k], U[z])
  <2> SUFFICES ASSUME NEW i, NEW k, Seen(f, i, k, n, m), Same(f[i].who[k], U[z])
               PROVE  FALSE
    OBVIOUS
  <2>1. PICK e \in DOMAIN T : Same(f[i].who[k], T[e])
    BY DEF Structure
  <2>2. Same(s, f[i].who[k])
    BY <1>3, SameSame
  <2> QED
    BY <1>4, <2>1, <2>2, SameSame
<1> HIDE DEF U
<1>10. \A i, k : Seen(f, i, k, n, m + 1) => \E e \in DOMAIN U : Same(f[i].who[k], U[e])
  <2> SUFFICES ASSUME NEW i, NEW k, Seen(f, i, k, n, m + 1)
               PROVE  \E e \in DOMAIN U : Same(f[i].who[k], U[e])
    OBVIOUS
  <2>1. CASE Seen(f, i, k, n, m)
    BY <1>2, <2>1 DEF Structure
  <2>2. CASE i = n + 1 /\ k = m + 1
    BY <1>2, <1>3, <2>2
  <2> QED
    BY <1>5, <2>1, <2>2
<1>11. ASSUME NEW e \in DOMAIN U
       PROVE  \E i, k : /\ Seen(f, i, k, n, m + 1) /\ Same(f[i].who[k], U[e])
                        /\ U[e].code = Null => f[i].who[k].hint = U[e].hint
  <2>1. CASE e \in DOMAIN T
    <3>1. PICK i, k : /\ Seen(f, i, k, n, m) /\ Same(f[i].who[k], T[e])
                      /\ T[e].code = Null => f[i].who[k].hint = T[e].hint
      BY <2>1 DEF Structure
    <3> QED
      BY <1>2, <1>6, <2>1, <3>1
  <2>2. CASE e = z
    BY <1>3, <1>8, <2>2
  <2> QED
    BY <1>2, <2>1, <2>2
<1>12. ASSUME NEW e \in DOMAIN U, NEW g \in DOMAIN U, Same(U[e], U[g]) PROVE e = g
  <2>1. CASE e \in DOMAIN T /\ g \in DOMAIN T
    BY <1>2, <1>12, <2>1 DEF Structure
  <2>2. CASE e = z /\ g \in DOMAIN T
    BY <1>2, <1>3, <1>4, <1>12, <2>2, SameSame
  <2>3. CASE g = z /\ e \in DOMAIN T
    BY <1>2, <1>3, <1>4, <1>12, <2>3, SameSame
  <2> QED
    BY <1>2, <2>1, <2>2, <2>3
<1>13. ASSUME NEW e \in DOMAIN U, NEW g \in DOMAIN U, e < g
       PROVE  \E i, k : /\ Seen(f, i, k, n, m + 1) /\ Same(f[i].who[k], U[e])
                        /\ \A j, l : Seen(f, j, l, n, m + 1) /\ Same(f[j].who[l], U[g])
                                     => i < j \/ (i = j /\ k < l)
  <2>1. e \in DOMAIN T
    BY <1>1, <1>2, <1>13
  <2>2. CASE g \in DOMAIN T
    <3>1. PICK i, k : /\ Seen(f, i, k, n, m) /\ Same(f[i].who[k], T[e])
                      /\ \A j, l : Seen(f, j, l, n, m) /\ Same(f[j].who[l], T[g])
                                   => i < j \/ (i = j /\ k < l)
      BY <1>13, <2>1, <2>2 DEF Structure
    <3>2. Seen(f, i, k, n, m + 1) /\ Same(f[i].who[k], U[e])
      BY <1>2, <1>6, <2>1, <3>1
    <3>3. ASSUME NEW j, NEW l, Seen(f, j, l, n, m + 1), Same(f[j].who[l], U[g])
          PROVE  i < j \/ (i = j /\ k < l)
      <4>1. CASE Seen(f, j, l, n, m)
        BY <1>2, <2>2, <3>1, <3>3, <4>1
      <4>2. CASE j = n + 1 /\ l = m + 1
        BY <1>7, <3>1, <4>2
      <4> QED
        BY <1>5, <3>3, <4>1, <4>2
    <3> QED
      BY <3>2, <3>3
  <2>3. CASE g = z
    <3>1. PICK i, k : Seen(f, i, k, n, m) /\ Same(f[i].who[k], T[e])
      BY <2>1 DEF Structure
    <3>2. Seen(f, i, k, n, m + 1) /\ Same(f[i].who[k], U[e])
      BY <1>2, <1>6, <2>1, <3>1
    <3>3. ASSUME NEW j, NEW l, Seen(f, j, l, n, m + 1), Same(f[j].who[l], U[g])
          PROVE  i < j \/ (i = j /\ k < l)
      <4>1. j = n + 1 /\ l = m + 1
        BY <1>5, <1>9, <2>3, <3>3
      <4> QED
        BY <1>7, <3>1, <4>1
    <3> QED
      BY <3>2, <3>3
  <2> QED
    BY <1>2, <2>2, <2>3
<1> HIDE DEF s
<1>14. Structure(f, U, n, m + 1)
  BY <1>2, <1>10, <1>11, <1>12, <1>13 DEF Structure
<1> QED
  BY <1>14 DEF U, s

-----------------------------------------------------------------------------
(***************************************************************************)
(* A header's names, one after the other.                                  *)
(***************************************************************************)
Taken(acc, e) == \E x \in DOMAIN acc.at : acc.at[x] = e

\* The first m names of line n + 1 are read and T was the table.
GoodTable(f, acc, T, n, m) ==
    /\ IsAcc(acc) /\ acc.crashed = FALSE
    /\ Structure(f, acc.table, n, m)
    /\ \A e \in DOMAIN acc.table : IsEntry(acc.table[e])
GoodEntries(acc, T) ==
    /\ DOMAIN T \subseteq DOMAIN acc.table
    /\ \A e \in DOMAIN T :
          /\ Alike(acc.table[e], T[e])
          /\ acc.table[e].removed = IF Taken(acc, e) THEN FALSE ELSE T[e].removed
    /\ \A e \in DOMAIN acc.table \ DOMAIN T :
          acc.table[e].num = default.num /\ acc.table[e].removed = FALSE
GoodTaken(f, acc, n, m) ==
    \A e \in DOMAIN acc.table : Taken(acc, e) <=>
        \E k \in DOMAIN f[n + 1].who :
            /\ k <= m /\ Counts(f[n + 1].action, f[n + 1].who[k])
            /\ Same(f[n + 1].who[k], acc.table[e])
Good(f, acc, T, n, m) ==
    GoodTable(f, acc, T, n, m) /\ GoodEntries(acc, T) /\ GoodTaken(f, acc, n, m)

\* What is selected with one more name.
LEMMA TakenAppend ==
    ASSUME NEW acc, IsAcc(acc), NEW b, NEW x, b.at = Append(acc.at, x), NEW e
    PROVE  Taken(b, e) <=> Taken(acc, e) \/ e = x
<1>1. PICK z : /\ DOMAIN b.at = DOMAIN acc.at \cup {z} /\ z \notin DOMAIN acc.at
               /\ b.at[z] = x /\ \A i \in DOMAIN acc.at : b.at[i] = acc.at[i]
  BY Longer DEF IsAcc
<1> QED
  BY <1>1 DEF Taken

\* Which names are among the first.
LEMMA NamesNext ==
    ASSUME NEW f, IsFile(f), NEW n \in Nat, NEW m \in Nat, n + 1 \in Sections(f),
           m + 1 \in DOMAIN f[n + 1].who, NEW k \in DOMAIN f[n + 1].who
    PROVE  k <= m + 1 <=> k <= m \/ k = m + 1
<1>1. f[n + 1].who \in Seq(Range(f[n + 1].who))
  BY DEF IsFile, Sections
<1>2. k \in Nat
  BY <1>1
<1> QED
  BY <1>2

\* A name that selects nothing.
LEMMA GoodSkip ==
    ASSUME NEW f, IsFile(f), NEW n \in Nat, NEW m \in Nat, n + 1 \in Sections(f),
           m + 1 \in DOMAIN f[n + 1].who, NEW acc, NEW T, Good(f, acc, T, n, m),
           ~Counts(f[n + 1].action, f[n + 1].who[m + 1])
    PROVE  Good(f, acc, T, n, m + 1)
<1>1. \A i, k : Seen(f, i, k, n, m) <=> Seen(f, i, k, n, m + 1)
  BY SeenNext
<1>2. GoodTable(f, acc, T, n, m + 1)
  BY <1>1, StructureSeen DEF Good, GoodTable
<1>3. GoodTaken(f, acc, n, m + 1)
  BY NamesNext DEF Good, GoodTaken
<1> QED
  BY <1>2, <1>3 DEF Good

\* A name that finds an entry.
LEMMA GoodFound ==
    ASSUME NEW f, IsFile(f), NEW n \in Nat, NEW m \in Nat, n + 1 \in Sections(f),
           m + 1 \in DOMAIN f[n + 1].who, NEW acc, NEW T, Good(f, acc, T, n, m),
           Counts(f[n + 1].action, f[n + 1].who[m + 1]),
           Entries(acc.table, f[n + 1].who[m + 1]) # {}
    PROVE  Good(f, Selected(acc, Min(Entries(acc.table, f[n + 1].who[m + 1]))), T, n, m + 1)
<1> DEFINE s == f[n + 1].who[m + 1]
           E == Entries(acc.table, s)
<1>1. IsAcc(acc) /\ Structure(f, acc.table, n, m) /\ acc.crashed = FALSE
      /\ \A e \in DOMAIN acc.table : IsEntry(acc.table[e])
  BY DEF Good, GoodTable
<1>2. DOMAIN acc.table = 1 .. Len(acc.table) /\ Len(acc.table) \in Nat
  BY <1>1, SeqFacts DEF IsAcc
<1>3. PICK x \in DOMAIN acc.table : x = Min(E) /\ Same(s, acc.table[x])
  <2>1. E \in SUBSET Nat
    BY <1>2 DEF Entries
  <2>2. E # {}
    OBVIOUS
  <2>3. Min(E) \in E
    <3> HIDE DEF E
    <3> QED
      BY <2>1, <2>2, MinOf
  <2> QED
    BY <2>3 DEF Entries
<1> DEFINE b == Selected(acc, x)
           U == [acc.table EXCEPT ![x] = [acc.table[x] EXCEPT !.removed = FALSE]]
<1>4. IsAcc(b) /\ b.table = U /\ b.at = Append(acc.at, x) /\ b.crashed = FALSE
  BY <1>1, SelectedIs
<1>5. IsSeq(U) /\ DOMAIN U = DOMAIN acc.table
  BY <1>1, Changed DEF IsAcc
<1>6. /\ \A e \in DOMAIN acc.table : e # x => U[e] = acc.table[e]
      /\ U[x] = [acc.table[x] EXCEPT !.removed = FALSE]
  BY <1>5
<1>7. /\ Alike(U[x], acc.table[x]) /\ U[x].removed = FALSE /\ IsEntry(U[x])
  <2>1. IsEntry(acc.table[x])
    BY <1>1
  <2> QED
    BY <1>6, <2>1 DEF Alike, IsEntry, EntryFields
<1> HIDE DEF U, b, s
<1>8. \A e \in DOMAIN acc.table : Alike(U[e], acc.table[e]) /\ IsEntry(U[e])
  BY <1>1, <1>6, <1>7 DEF Alike
<1>9. GoodTable(f, b, T, n, m + 1)
  <2>1. Structure(f, acc.table, n, m + 1)
    BY <1>1, StructureFound DEF s
  <2>2. Structure(f, U, n, m + 1)
    BY <1>5, <1>8, <2>1, StructureAlike
  <2> QED
    BY <1>4, <1>5, <1>8, <2>2 DEF GoodTable
<1>10. \A e : Taken(b, e) <=> Taken(acc, e) \/ e = x
  BY <1>1, <1>4, TakenAppend
<1>11. GoodEntries(b, T)
  <2>1. GoodEntries(acc, T)
    BY DEF Good
  <2>2. DOMAIN T \subseteq DOMAIN b.table
    BY <1>4, <1>5, <2>1 DEF GoodEntries
  <2>3. ASSUME NEW e \in DOMAIN T
        PROVE  /\ Alike(b.table[e], T[e])
               /\ b.table[e].removed = IF Taken(b, e) THEN FALSE ELSE T[e].removed
    <3>1. e \in DOMAIN acc.table /\ Alike(acc.table[e], T[e])
          /\ acc.table[e].removed = IF Taken(acc, e) THEN FALSE ELSE T[e].removed
      BY <2>1 DEF GoodEntries
    <3>2. Alike(b.table[e], T[e])
      BY <1>4, <1>8, <3>1 DEF Alike
    <3>3. b.table[e].removed = IF Taken(b, e) THEN FALSE ELSE T[e].removed
      BY <1>4, <1>6, <1>7, <1>10, <3>1
    <3> QED
      BY <3>2, <3>3
  <2>4. ASSUME NEW e \in DOMAIN b.table \ DOMAIN T
        PROVE  b.table[e].num = default.num /\ b.table[e].removed = FALSE
    <3>1. e \in DOMAIN acc.table /\ acc.table[e].num = default.num
          /\ acc.table[e].removed = FALSE
      BY <1>4, <1>5, <2>1 DEF GoodEntries
    <3> QED
      BY <1>4, <1>6, <1>7, <1>8, <3>1 DEF Alike
  <2> QED
    BY <2>2, <2>3, <2>4 DEF GoodEntries
<1>12. GoodTaken(f, b, n, m + 1)
  <2> SUFFICES ASSUME NEW e \in DOMAIN acc.table
               PROVE  Taken(b, e) <=>
                        \E k \in DOMAIN f[n + 1].who :
                            /\ k <= m + 1 /\ Counts(f[n + 1].action, f[n + 1].who[k])
                            /\ Same(f[n + 1].who[k], b.table[e])
    BY <1>4, <1>5 DEF GoodTaken
  <2>1. Taken(acc, e) <=>
          \E k \in DOMAIN f[n + 1].who :
              /\ k <= m /\ Counts(f[n + 1].action, f[n + 1].who[k])
              /\ Same(f[n + 1].who[k], acc.table[e])
    BY DEF Good, GoodTaken
  <2>2. \A t : Same(t, b.table[e]) <=> Same(t, acc.table[e])
    BY <1>4, <1>8 DEF Same, Alike
  <2>3. Same(s, acc.table[e]) <=> e = x
    <3>1. Same(s, acc.table[e]) => Same(acc.table[e], acc.table[x])
      BY <1>3, SameSame
    <3>2. Same(acc.table[e], acc.table[x]) => e = x
      BY <1>1 DEF Structure
    <3> QED
      BY <1>3, <3>1, <3>2
  <2>4. (\E k \in DOMAIN f[n + 1].who :
            /\ k <= m + 1 /\ Counts(f[n + 1].action, f[n + 1].who[k])
            /\ Same(f[n + 1].who[k], acc.table[e]))
        <=> \/ \E k \in DOMAIN f[n + 1].who :
                  /\ k <= m /\ Counts(f[n + 1].action, f[n + 1].who[k])
                  /\ Same(f[n + 1].who[k], acc.table[e])
            \/ Same(s, acc.table[e])
    BY NamesNext DEF s
  <2> QED
    BY <1>10, <2>1, <2>2, <2>3, <2>4
<1> QED
  BY <1>3, <1>9, <1>11, <1>12 DEF Good, b, s

\* A name that creates one.
LEMMA GoodNew ==
    ASSUME NEW f, IsFile(f), NEW n \in Nat, NEW m \in Nat, n + 1 \in Sections(f),
           m + 1 \in DOMAIN f[n + 1].who, NEW acc, NEW T, Good(f, acc, T, n, m),
           Counts(f[n + 1].action, f[n + 1].who[m + 1]), IsEntry(default),
           Entries(acc.table, f[n + 1].who[m + 1]) = {}
    PROVE  Good(f, Alloc(acc, f[n + 1].who[m + 1]), T, n, m + 1)
<1> DEFINE s == f[n + 1].who[m + 1]
           b == Alloc(acc, s)
<1>1. IsAcc(acc) /\ Structure(f, acc.table, n, m) /\ acc.crashed = FALSE
      /\ \A e \in DOMAIN acc.table : IsEntry(acc.table[e])
  BY DEF Good, GoodTable
<1>2. PICK z : z = Len(acc.table) + 1 /\ z \notin DOMAIN acc.table
               /\ b.table = Append(acc.table, Fresh(s)) /\ IsSeq(b.table)
               /\ DOMAIN b.table = DOMAIN acc.table \cup {z} /\ b.table[z] = Fresh(s)
               /\ \A e \in DOMAIN acc.table : b.table[e] = acc.table[e]
  <2>1. b.table = Append(acc.table, Fresh(s))
    BY <1>1, AllocIs
  <2>2. IsSeq(acc.table)
    BY <1>1 DEF IsAcc
  <2> DEFINE U == Append(acc.table, Fresh(s))
  <2>3. /\ IsSeq(U) /\ DOMAIN U = DOMAIN acc.table \cup {Len(acc.table) + 1}
        /\ Len(acc.table) + 1 \notin DOMAIN acc.table
        /\ U[Len(acc.table) + 1] = Fresh(s) /\ \A i \in DOMAIN acc.table : U[i] = acc.table[i]
    BY <2>2, Longer
  <2> HIDE DEF U, b
  <2>4. b.table = U
    BY <2>1 DEF U
  <2> QED
    BY <2>1, <2>3, <2>4
<1>3. IsAcc(b) /\ b.at = Append(acc.at, z) /\ b.crashed = FALSE
  BY <1>1, <1>2, AllocIs
<1>4. /\ IsEntry(Fresh(s)) /\ Fresh(s).removed = FALSE /\ Fresh(s).num = default.num
      /\ Same(s, Fresh(s))
  BY FreshIs
<1>5. Structure(f, b.table, n, m + 1)
  BY <1>1, <1>2, StructureNew
<1> HIDE DEF b, s
<1>6. GoodTable(f, b, T, n, m + 1)
  BY <1>1, <1>2, <1>3, <1>4, <1>5 DEF GoodTable
<1>7. \A e : Taken(b, e) <=> Taken(acc, e) \/ e = z
  BY <1>1, <1>3, TakenAppend
<1>8. GoodEntries(b, T)
  <2>1. GoodEntries(acc, T)
    BY DEF Good
  <2>2. \A e \in DOMAIN T : e \in DOMAIN acc.table /\ e # z
    BY <1>2, <2>1 DEF GoodEntries
  <2> QED
    BY <1>2, <1>4, <1>7, <2>1, <2>2 DEF GoodEntries
<1>9. GoodTaken(f, b, n, m + 1)
  <2> SUFFICES ASSUME NEW e \in DOMAIN b.table
               PROVE  Taken(b, e) <=>
                        \E k \in DOMAIN f[n + 1].who :
                            /\ k <= m + 1 /\ Counts(f[n + 1].action, f[n + 1].who[k])
                            /\ Same(f[n + 1].who[k], b.table[e])
    BY DEF GoodTaken
  <2>1. (\E k \in DOMAIN f[n + 1].who :
            /\ k <= m + 1 /\ Counts(f[n + 1].action, f[n + 1].who[k])
            /\ Same(f[n + 1].who[k], b.table[e]))
        <=> \/ \E k \in DOMAIN f[n + 1].who :
                  /\ k <= m /\ Counts(f[n + 1].action, f[n + 1].who[k])
                  /\ Same(f[n + 1].who[k], b.table[e])
            \/ Same(s, b.table[e])
    BY NamesNext DEF s
  <2>2. CASE e = z
    BY <1>2, <1>4, <1>7, <2>1, <2>2
  <2>3. CASE e \in DOMAIN acc.table
    <3>1. ~Same(s, acc.table[e])
      BY <2>3 DEF Entries, s
    <3>2. Taken(acc, e) <=>
          \E k \in DOMAIN f[n + 1].who :
              /\ k <= m /\ Counts(f[n + 1].action, f[n + 1].who[k])
              /\ Same(f[n + 1].who[k], acc.table[e])
      BY <2>3 DEF Good, GoodTaken
    <3> QED
      BY <1>2, <1>7, <2>1, <2>3, <3>1, <3>2
  <2> QED
    BY <1>2, <2>2, <2>3
<1> QED
  BY <1>6, <1>8, <1>9 DEF Good, b, s

\* Before the first name.
LEMMA GoodStart ==
    ASSUME NEW f, IsFile(f), NEW n \in Nat, n + 1 \in Sections(f), Structure(f, table, n, 0),
           \A e \in DOMAIN table : IsEntry(table[e])
    PROVE  LET acc == [table |-> table, at |-> <<>>, crashed |-> FALSE]
           IN IsAcc(acc) /\ Good(f, acc, table, n, 0)
<1> DEFINE acc == [table |-> table, at |-> <<>>, crashed |-> FALSE]
<1>1. acc.table = table /\ acc.at = <<>> /\ acc.crashed = FALSE
      /\ DOMAIN acc = {"table", "at", "crashed"}
  OBVIOUS
<1> HIDE DEF acc
<1>2. <<>> \in Seq({}) /\ DOMAIN <<>> = {}
  OBVIOUS
<1>3. IsAcc(acc)
  BY <1>1, <1>2 DEF IsAcc, IsSeq, Structure
<1>4. \A e : ~Taken(acc, e)
  BY <1>1, <1>2 DEF Taken
<1>5. \A k \in DOMAIN f[n + 1].who : ~(k <= 0)
  <2>1. f[n + 1].who \in Seq(Range(f[n + 1].who))
    BY DEF IsFile, Sections
  <2> QED
    BY <2>1
<1>6. GoodTable(f, acc, table, n, 0)
  BY <1>1, <1>3 DEF GoodTable
<1>7. GoodEntries(acc, table)
  BY <1>1, <1>4 DEF GoodEntries, Alike
<1>8. GoodTaken(f, acc, n, 0)
  BY <1>1, <1>4, <1>5 DEF GoodTaken
<1>9. Good(f, acc, table, n, 0)
  BY <1>6, <1>7, <1>8 DEF Good
<1> QED
  BY <1>3, <1>9 DEF acc

\* One name.
LEMMA GoodNext ==
    ASSUME NEW f, IsFile(f), NEW n \in Nat, NEW m \in Nat, n + 1 \in Sections(f),
           m + 1 \in DOMAIN f[n + 1].who, NEW acc, NEW T, Good(f, acc, T, n, m),
           IsEntry(default), Len(acc.table) < TableSize
    PROVE  Good(f, Select(f[n + 1].action, acc, f[n + 1].who[m + 1]), T, n, m + 1)
<1> DEFINE s == f[n + 1].who[m + 1]
           action == f[n + 1].action
<1>1. acc.crashed = FALSE
  BY DEF Good, GoodTable
<1>2. Select(action, acc, s) =
        IF ~Counts(action, s) THEN acc
        ELSE IF Entries(acc.table, s) # {} THEN Selected(acc, Min(Entries(acc.table, s)))
        ELSE Alloc(acc, s)
  <2> HIDE DEF s, action
  <2> QED
    BY <1>1, SelectIs
<1>3. CASE ~Counts(action, s)
  BY <1>2, <1>3, GoodSkip
<1>4. CASE Counts(action, s) /\ Entries(acc.table, s) # {}
  BY <1>2, <1>4, GoodFound
<1>5. CASE Counts(action, s) /\ Entries(acc.table, s) = {}
  BY <1>2, <1>5, GoodNew
<1> QED
  BY <1>3, <1>4, <1>5

\* What a header makes of the table, if it leaves room in it.
LEMMA HeaderGood ==
    ASSUME NEW f, IsFile(f), NEW n \in Nat, n + 1 \in Sections(f), Structure(f, table, n, 0),
           \A e \in DOMAIN table : IsEntry(table[e]), IsEntry(default),
           Len(SelectAll(f[n + 1]).table) < TableSize
    PROVE  Good(f, SelectAll(f[n + 1]), table, n, Len(f[n + 1].who))
<1> DEFINE h == f[n + 1]
<1>1. h.who \in Seq(Range(h.who))
  BY DEF IsFile, Sections
<1>2. PICK len \in Nat : len = Len(h.who) /\ DOMAIN h.who = 1 .. len
  BY <1>1
<1>3. PICK acc :
        /\ acc[0] = [table |-> table, at |-> <<>>, crashed |-> FALSE]
        /\ \A k \in 1 .. len : acc[k] = Select(h.action, acc[k - 1], h.who[k])
        /\ SelectAll(h) = acc[len]
  <2> HIDE DEF h
  <2> QED
    BY <1>1, <1>2, SelectAllSteps
<1> DEFINE S == {k \in Nat : k <= len =>
                    /\ IsAcc(acc[k])
                    /\ Len(acc[k].table) < TableSize => Good(f, acc[k], table, n, k)}
<1>4. 0 \in S
  BY <1>3, GoodStart
<1>5. ASSUME NEW k \in Nat, k \in S PROVE k + 1 \in S
  <2> SUFFICES ASSUME k + 1 <= len
               PROVE  /\ IsAcc(acc[k + 1])
                      /\ Len(acc[k + 1].table) < TableSize => Good(f, acc[k + 1], table, n, k + 1)
    OBVIOUS
  <2>1. k <= len /\ k + 1 \in 1 .. len /\ (k + 1) - 1 = k
    BY <1>2
  <2>2. acc[k + 1] = Select(h.action, acc[k], h.who[k + 1])
    BY <1>3, <2>1
  <2>3. IsAcc(acc[k]) /\ (Len(acc[k].table) < TableSize => Good(f, acc[k], table, n, k))
    BY <1>5, <2>1
  <2>4. IsAcc(acc[k + 1]) /\ Len(acc[k].table) <= Len(acc[k + 1].table)
    <3> HIDE DEF h, S
    <3> QED
      BY <2>2, <2>3, SelectGrows
  <2>5. ASSUME Len(acc[k + 1].table) < TableSize PROVE Good(f, acc[k + 1], table, n, k + 1)
    <3>1. Len(acc[k].table) \in Nat /\ Len(acc[k + 1].table) \in Nat /\ TableSize \in Nat
      BY <2>3, <2>4, SeqFacts, ConfigAssumption DEF IsAcc
    <3>2. Len(acc[k].table) < TableSize
      BY <2>4, <2>5, <3>1
    <3>3. Good(f, acc[k], table, n, k)
      BY <2>3, <3>2
    <3>4. k + 1 \in DOMAIN f[n + 1].who
      BY <1>2, <2>1
    <3> HIDE DEF h, S
    <3>5. Good(f, Select(f[n + 1].action, acc[k], f[n + 1].who[k + 1]), table, n, k + 1)
      BY <3>2, <3>3, <3>4, GoodNext
    <3> QED
      BY <2>2, <3>5 DEF h
  <2> QED
    BY <2>4, <2>5
<1>6. len \in S
  <2> HIDE DEF S
  <2> QED
    BY <1>2, <1>4, <1>5, Inductive
<1> QED
  BY <1>2, <1>3, <1>6

\* At the end of a header's names, and past any other line.
LEMMA HeaderRead ==
    ASSUME NEW f, IsFile(f), NEW n \in Nat, n + 1 \in Sections(f), NEW T,
           Structure(f, T, n, Len(f[n + 1].who))
    PROVE  Structure(f, T, n + 1, 0)
<1>1. ASSUME NEW i \in Sections(f), NEW k \in DOMAIN f[i].who
      PROVE  /\ i \in Nat /\ k \in Nat /\ ~(k <= 0) /\ (i = n + 1 => k <= Len(f[n + 1].who))
  <2>1. i \in Headers(f) /\ i \in Nat
    BY HeadersIn DEF Sections
  <2>2. f[i].who \in Seq(Range(f[i].who))
    BY <2>1 DEF IsFile
  <2> QED
    BY <2>1, <2>2
<1>2. \A i, k : Seen(f, i, k, n, Len(f[n + 1].who)) <=> Seen(f, i, k, n + 1, 0)
  <2> SUFFICES ASSUME NEW i \in Sections(f), NEW k \in DOMAIN f[i].who
               PROVE  (i <= n \/ (i = n + 1 /\ k <= Len(f[n + 1].who)))
                      <=> (i <= n + 1 \/ (i = (n + 1) + 1 /\ k <= 0))
    BY DEF Seen
  <2>1. i <= n + 1 <=> i <= n \/ i = n + 1
    BY <1>1
  <2> QED
    BY <1>1, <2>1
<1> QED
  BY <1>2, StructureSeen

\* A line that lists no names.
LEMMA OtherRead ==
    ASSUME NEW f, IsFile(f), NEW n \in Nat, n + 1 \notin Sections(f), NEW T,
           Structure(f, T, n, 0)
    PROVE  Structure(f, T, n + 1, 0)
<1>1. ASSUME NEW i \in Sections(f), NEW k \in DOMAIN f[i].who
      PROVE  i \in Nat /\ i # n + 1 /\ k \in Nat /\ ~(k <= 0)
  <2>1. i \in Headers(f) /\ i \in Nat
    BY HeadersIn DEF Sections
  <2>2. f[i].who \in Seq(Range(f[i].who))
    BY <2>1 DEF IsFile
  <2> QED
    BY <2>1, <2>2
<1>2. \A i, k : Seen(f, i, k, n, 0) <=> Seen(f, i, k, n + 1, 0)
  <2> SUFFICES ASSUME NEW i \in Sections(f), NEW k \in DOMAIN f[i].who
               PROVE  (i <= n \/ (i = n + 1 /\ k <= 0))
                      <=> (i <= n + 1 \/ (i = (n + 1) + 1 /\ k <= 0))
    BY DEF Seen
  <2>1. i <= n + 1 <=> i <= n
    BY <1>1
  <2> QED
    BY <1>1, <2>1
<1> QED
  BY <1>2, StructureSeen

-----------------------------------------------------------------------------
(***************************************************************************)
(* What the tables hold when n lines are read.                             *)
(***************************************************************************)
SectionInv(f, n) ==
    /\ \A i : Current(f, i, n) /\ f[i].action = "SET" =>
          /\ i \in Defaults(f) => section.kind = "default"
          /\ \A d \in Domains : i \in DefaultsOf(f, d) =>
                section.kind = "domDefault" /\ section.dom = d
          /\ i \in Sections(f) => section.kind = "lexgions"
    /\ section.kind = "default" =>
          \E i \in Defaults(f) : f[i].action = "SET" /\ Current(f, i, n)
    /\ section.kind = "domDefault" =>
          /\ section.dom \in Domains
          /\ \E i \in DefaultsOf(f, section.dom) : f[i].action = "SET" /\ Current(f, i, n)
    /\ \A t \in DOMAIN table :
          t \in Targets <=> \E i \in SetSections(f, table[t]) : Current(f, i, n)

DefaultInv(f, n) ==
    IsEntry(default) /\ \A field \in Fields : default.num[field] = DefaultAt(f, n, field)

DomainInv(f, n) ==
    /\ DOMAIN domDefault = Domains
    /\ \A d \in Domains :
          /\ IsEntry(domDefault[d])
          /\ domDefault[d].code # Null <=> \E i \in DefaultsOf(f, d) : i <= n
          /\ domDefault[d].code # Null =>
                \A field \in Fields : domDefault[d].num[field] = DomainAt(f, n, d, field)

TableInv(f, n) ==
    /\ Structure(f, table, n, 0)
    /\ \A e \in DOMAIN table :
          /\ IsEntry(table[e])
          /\ \A field \in Fields :
                table[e].num[field] =
                    ValueAt(f, n, SetSections(f, table[e]), field, DefaultAt(f, n, field))

\* The last of the first n lines that lists the entry takes it out.
LastRemoves(f, n, e) ==
    \E i \in Sections(f) :
        /\ i <= n /\ f[i].action = "REMOVE" /\ Lists(f, i, e)
        /\ \A j \in Sections(f) : j <= n /\ Lists(f, j, e) => j <= i

RemovedInv(f, n) ==
    \A e \in DOMAIN table :
        /\ table[e].code = Null => table[e].removed = FALSE
        /\ table[e].code # Null =>
              /\ LastRemoves(f, n, table[e]) => table[e].removed = TRUE
              /\ ~LastRemoves(f, n, table[e]) => table[e].removed = FALSE

ParseInv(f, n) ==
    /\ SectionInv(f, n) /\ DefaultInv(f, n) /\ DomainInv(f, n)
    /\ TableInv(f, n) /\ RemovedInv(f, n)

-----------------------------------------------------------------------------
\* A table rewritten entry by entry keeps its length.
LEMMA MapSeq ==
    ASSUME NEW T, IsSeq(T), NEW U, U = [i \in DOMAIN T |-> U[i]]
    PROVE  IsSeq(U) /\ Len(U) = Len(T) /\ DOMAIN U = DOMAIN T
<1>1. PICK n \in Nat : n = Len(T) /\ DOMAIN T = 1 .. n
  BY SeqFacts
<1>2. \A i \in 1 .. n : U[i] \in {U[j] : j \in 1 .. n}
  OBVIOUS
<1>3. DOMAIN U = 1 .. n /\ U \in [1 .. n -> {U[j] : j \in 1 .. n}]
  BY <1>1, <1>2
<1>4. U \in Seq({U[j] : j \in 1 .. n}) /\ Len(U) = n
  BY <1>3
<1> QED
  BY <1>1, <1>3, <1>4 DEF IsSeq

\* However full the table is, a header never shortens it.
LEMMA HeaderGrows ==
    ASSUME NEW h, h.who \in Seq(Range(h.who)), IsSeq(table)
    PROVE  IsAcc(SelectAll(h)) /\ Len(table) <= Len(SelectAll(h).table)
<1>1. PICK len \in Nat : len = Len(h.who)
  OBVIOUS
<1>2. PICK acc :
        /\ acc[0] = [table |-> table, at |-> <<>>, crashed |-> FALSE]
        /\ \A k \in 1 .. len : acc[k] = Select(h.action, acc[k - 1], h.who[k])
        /\ SelectAll(h) = acc[len]
  BY <1>1, SelectAllSteps
<1> DEFINE S == {k \in Nat : k <= len => IsAcc(acc[k]) /\ Len(table) <= Len(acc[k].table)}
<1>3. 0 \in S
  <2>1. <<>> \in Seq({})
    OBVIOUS
  <2>2. IsAcc(acc[0]) /\ acc[0].table = table
    BY <1>2, <2>1 DEF IsAcc, IsSeq
  <2>3. Len(table) \in Nat
    BY SeqFacts
  <2> QED
    BY <2>2, <2>3
<1>4. ASSUME NEW k \in Nat, k \in S PROVE k + 1 \in S
  <2> SUFFICES ASSUME k + 1 <= len
               PROVE  IsAcc(acc[k + 1]) /\ Len(table) <= Len(acc[k + 1].table)
    OBVIOUS
  <2>1. k <= len /\ k + 1 \in 1 .. len /\ (k + 1) - 1 = k
    BY <1>1
  <2>2. acc[k + 1] = Select(h.action, acc[k], h.who[k + 1])
    BY <1>2, <2>1
  <2>3. IsAcc(acc[k]) /\ Len(table) <= Len(acc[k].table)
    BY <1>4, <2>1
  <2> HIDE DEF S
  <2>4. IsAcc(acc[k + 1]) /\ Len(acc[k].table) <= Len(acc[k + 1].table)
    BY <2>2, <2>3, SelectGrows
  <2>5. Len(acc[k].table) \in Nat /\ Len(acc[k + 1].table) \in Nat /\ Len(table) \in Nat
    BY <2>3, <2>4, SeqFacts DEF IsAcc
  <2> QED
    BY <2>3, <2>4, <2>5
<1>5. len \in S
  <2> HIDE DEF S
  <2> QED
    BY <1>3, <1>4, Inductive
<1> QED
  BY <1>2, <1>5

-----------------------------------------------------------------------------
\* A header is current at once, and remains so while keys are read.
LEMMA CurrentHeader ==
    ASSUME NEW f, IsFile(f), NEW n \in Nat, n + 1 \in DOMAIN f, IsHeader(f[n + 1]), NEW i
    PROVE  Current(f, i, n + 1) <=> i = n + 1
<1>1. n + 1 \in Headers(f) /\ Headers(f) \subseteq Nat
  BY HeadersIn DEF Headers
<1>2. ASSUME Current(f, i, n + 1) PROVE i = n + 1
  <2>1. i \in Nat /\ i <= n + 1 /\ (n + 1 <= i \/ n + 1 > n + 1)
    BY <1>1, <1>2 DEF Current
  <2> QED
    BY <2>1
<1>3. Current(f, n + 1, n + 1)
  <2>1. \A k \in Headers(f) : k <= n + 1 \/ k > n + 1
    BY <1>1
  <2> QED
    BY <1>1, <2>1 DEF Current
<1> QED
  BY <1>2, <1>3

\* A key leaves the current header current.
LEMMA CurrentKey ==
    ASSUME NEW f, IsFile(f), NEW n \in Nat, ~IsHeader(f[n + 1]), NEW i
    PROVE  Current(f, i, n + 1) <=> Current(f, i, n)
<1>1. \A k \in Headers(f) : k \in Nat /\ k # n + 1
  BY HeadersIn DEF Headers
<1>2. \A k \in Headers(f) : (k <= n + 1 <=> k <= n) /\ (k > n + 1 <=> k > n)
  BY <1>1
<1> QED
  BY <1>2 DEF Current

\* When the default is set or its section is read nothing that is built from
\* it is there yet.
LEMMA NoneYet ==
    ASSUME NEW f, IsFile(f), Proper(f), NEW n \in Nat, NEW j \in Defaults(f),
           \A i \in Headers(f) : i <= n => i <= j
    PROVE  \A i \in Headers(f) : i <= n =>
              f[i].target # "Lexgion(D).default" /\ f[i].target # "Lexgion"
<1> SUFFICES ASSUME NEW i \in Headers(f), i <= n
             PROVE  f[i].target # "Lexgion(D).default" /\ f[i].target # "Lexgion"
  OBVIOUS
<1>1. j \in Headers(f) /\ f[j].target = "Lexgion.default" /\ i <= j
  BY DEF Defaults
<1>2. CASE i = j
  BY <1>1, <1>2
<1>3. CASE i < j
  <2>1. OrderOf(f[i]) <= OrderOf(f[j])
    BY <1>1, <1>3 DEF Proper, InOrder
  <2>2. OrderOf(f[j]) = 4
    BY <1>1 DEF OrderOf
  <2>3. f[i].target = "Lexgion(D).default" => OrderOf(f[i]) = 5
    BY DEF OrderOf
  <2>4. f[i].target = "Lexgion" => OrderOf(f[i]) = 6
    BY DEF OrderOf
  <2> QED
    BY <2>1, <2>2, <2>3, <2>4
<1> QED
  BY <1>1, <1>2, <1>3, HeadersIn

\* No section of a table of entries before its kind is reached.
LEMMA NoneYetTables ==
    ASSUME NEW f, IsFile(f), NEW n \in Nat, DomainInv(f, n), TableInv(f, n),
           \A i \in Headers(f) : i <= n =>
              f[i].target # "Lexgion(D).default" /\ f[i].target # "Lexgion"
    PROVE  DOMAIN table = {} /\ \A d \in Domains : domDefault[d].code = Null
<1>1. \A d \in Domains : domDefault[d].code = Null
  BY DEF DomainInv, DefaultsOf
<1>2. ASSUME NEW e \in DOMAIN table PROVE FALSE
  <2>1. PICK i, k : Seen(f, i, k, n, 0)
    BY DEF TableInv, Structure
  <2>2. i \in Sections(f) /\ k \in DOMAIN f[i].who /\ (i <= n \/ k <= 0)
    BY <2>1 DEF Seen
  <2>3. i \in Headers(f) /\ f[i].target = "Lexgion"
    BY <2>2 DEF Sections
  <2>4. f[i].who \in Seq(Range(f[i].who))
    BY <2>3 DEF IsFile
  <2>5. ~(k <= 0)
    BY <2>2, <2>4
  <2> QED
    BY <2>2, <2>3, <2>5
<1> QED
  BY <1>1, <1>2

-----------------------------------------------------------------------------
(***************************************************************************)
(* Lines that leave a table alone.                                         *)
(***************************************************************************)
LEMMA QuietDefault ==
    ASSUME NEW f, IsFile(f), NEW n \in Nat, n + 1 \in DOMAIN f, DefaultInv(f, n),
           UNCHANGED default,
           \/ /\ IsHeader(f[n + 1])
              /\ f[n + 1].target # "Lexgion.default" \/ f[n + 1].action # "RESET"
           \/ /\ ~IsHeader(f[n + 1])
              /\ \/ f[n + 1].key # "num"
                 \/ \A i \in Defaults(f) : f[i].action = "SET" => ~Current(f, i, n)
    PROVE  /\ \A field \in Fields : DefaultAt(f, n + 1, field) = DefaultAt(f, n, field)
           /\ DefaultInv(f, n + 1)'
<1>1. ASSUME NEW field \in Fields PROVE DefaultAt(f, n + 1, field) = DefaultAt(f, n, field)
  <2>1. CASE IsHeader(f[n + 1])
    BY <2>1, DefaultOtherHeader
  <2>2. CASE ~IsHeader(f[n + 1])
    BY <2>2, DefaultOtherKey
  <2> QED
    BY <2>1, <2>2
<1> QED
  BY <1>1 DEF DefaultInv

\* The domains' defaults.
LEMMA QuietDomain ==
    ASSUME NEW f, IsFile(f), NEW n \in Nat, n + 1 \in DOMAIN f, DomainInv(f, n),
           UNCHANGED domDefault, \A d \in Domains : n + 1 \notin DefaultsOf(f, d),
           \A field \in Fields : DefaultAt(f, n + 1, field) = DefaultAt(f, n, field),
           \/ IsHeader(f[n + 1])
           \/ f[n + 1].key # "num"
           \/ \A d \in Domains : \A i \in DefaultsOf(f, d) :
                 f[i].action = "SET" => ~Current(f, i, n)
    PROVE  DomainInv(f, n + 1)'
<1>1. ASSUME NEW d \in Domains, NEW field \in Fields
      PROVE  DomainAt(f, n + 1, d, field) = DomainAt(f, n, d, field)
  <2>1. CASE IsHeader(f[n + 1])
    <3>1. f[n + 1].target # "Lexgion(D).default" \/ f[n + 1].dom # d
      BY <2>1 DEF DefaultsOf, Headers
    <3> QED
      BY <2>1, <3>1, DomainOtherHeader
  <2>2. CASE ~IsHeader(f[n + 1])
    BY <2>2, DomainOtherKey
  <2> QED
    BY <2>1, <2>2
<1>2. ASSUME NEW d \in Domains
      PROVE  (\E i \in DefaultsOf(f, d) : i <= n + 1) <=> \E i \in DefaultsOf(f, d) : i <= n
  <2>1. \A i \in DefaultsOf(f, d) : i \in Nat /\ i # n + 1
    BY HeadersIn, OwnHeaders
  <2>2. \A i \in DefaultsOf(f, d) : i <= n + 1 <=> i <= n
    BY <2>1
  <2> QED
    BY <2>2
<1> QED
  BY <1>1, <1>2 DEF DomainInv

\* The table.
LEMMA QuietTable ==
    ASSUME NEW f, IsFile(f), NEW n \in Nat, n + 1 \in DOMAIN f, TableInv(f, n),
           UNCHANGED table, n + 1 \notin Sections(f),
           \A field \in Fields : DefaultAt(f, n + 1, field) = DefaultAt(f, n, field),
           \/ IsHeader(f[n + 1])
           \/ f[n + 1].key # "num"
           \/ \A e \in DOMAIN table : \A i \in SetSections(f, table[e]) : ~Current(f, i, n)
    PROVE  TableInv(f, n + 1)'
<1>1. Structure(f, table, n + 1, 0)
  BY OtherRead DEF TableInv
<1>2. ASSUME NEW e \in DOMAIN table, NEW field \in Fields
      PROVE  ValueAt(f, n + 1, SetSections(f, table[e]), field, DefaultAt(f, n + 1, field))
               = ValueAt(f, n, SetSections(f, table[e]), field, DefaultAt(f, n, field))
  <2> DEFINE hs == SetSections(f, table[e])
             base == DefaultAt(f, n, field)
  <2>1. hs \in SUBSET Headers(f)
    BY OwnHeaders
  <2>2. DefaultAt(f, n + 1, field) = base
    OBVIOUS
  <2>3. \/ IsHeader(f[n + 1])
        \/ ~IsHeader(f[n + 1]) /\ (f[n + 1].key # "num" \/ \A i \in hs : ~Current(f, i, n))
    OBVIOUS
  <2> HIDE DEF hs, base
  <2>4. ValueAt(f, n + 1, hs, field, base) = ValueAt(f, n, hs, field, base)
    BY <2>1, <2>3, ValueHeader, ValueOther
  <2> QED
    BY <2>2, <2>4 DEF hs, base
<1> QED
  BY <1>1, <1>2 DEF TableInv

\* Which entries are removed.
LEMMA QuietRemoved ==
    ASSUME NEW f, IsFile(f), NEW n \in Nat, RemovedInv(f, n), UNCHANGED table,
           n + 1 \notin Sections(f)
    PROVE  RemovedInv(f, n + 1)'
<1>1. \A i \in Sections(f) : i \in Nat /\ i # n + 1
  BY HeadersIn, OwnHeaders
<1>2. \A i \in Sections(f) : i <= n + 1 <=> i <= n
  BY <1>1
<1>3. \A e : LastRemoves(f, n + 1, e) <=> LastRemoves(f, n, e)
  BY <1>2 DEF LastRemoves
<1> QED
  BY <1>3 DEF RemovedInv

\* The context.
LEMMA QuietSection ==
    ASSUME NEW f, IsFile(f), NEW n \in Nat, ~IsHeader(f[n + 1]), SectionInv(f, n),
           UNCHANGED section, DOMAIN (table') = DOMAIN table,
           \A e \in DOMAIN table : Alike(table'[e], table[e])
    PROVE  SectionInv(f, n + 1)'
<1>1. \A i : Current(f, i, n + 1) <=> Current(f, i, n)
  BY CurrentKey
<1>2. Targets' = Targets
  BY DEF Targets
<1>3. \A e \in DOMAIN table : SetSections(f, table'[e]) = SetSections(f, table[e])
  BY DEF SetSections, Lists, Same, Alike
<1>4. \A t \in DOMAIN (table') :
         t \in Targets' <=> \E i \in SetSections(f, table'[t]) : Current(f, i, n + 1)
  BY <1>1, <1>2, <1>3 DEF SectionInv
<1> QED
  BY <1>1, <1>4 DEF SectionInv

-----------------------------------------------------------------------------
\* A header of another kind of section.
LEMMA OtherHeader ==
    ASSUME NEW f, IsFile(f), NEW n \in Nat, n + 1 \in DOMAIN f, IsHeader(f[n + 1]),
           ParseInv(f, n), UNCHANGED lexgionTables,
           f[n + 1].target \notin {"Lexgion.default", "Lexgion(D).default", "Lexgion"},
           section'.kind \notin LexgionSections, section'.at = <<>>
    PROVE  ParseInv(f, n + 1)'
<1>1. UNCHANGED <<default, domDefault, table>>
  BY DEF lexgionTables
<1>2. n + 1 \notin Sections(f) /\ n + 1 \notin Defaults(f) /\ \A d : n + 1 \notin DefaultsOf(f, d)
  BY DEF Sections, Defaults, DefaultsOf
<1>3. DefaultInv(f, n + 1)' /\ \A field \in Fields :
         DefaultAt(f, n + 1, field) = DefaultAt(f, n, field)
  BY <1>1, QuietDefault DEF ParseInv
<1>4. DomainInv(f, n + 1)'
  BY <1>1, <1>2, <1>3, QuietDomain DEF ParseInv
<1>5. TableInv(f, n + 1)'
  BY <1>1, <1>2, <1>3, QuietTable DEF ParseInv
<1>6. RemovedInv(f, n + 1)'
  BY <1>1, <1>2, QuietRemoved DEF ParseInv
<1>7. SectionInv(f, n + 1)'
  <2>1. \A i : Current(f, i, n + 1) <=> i = n + 1
    BY CurrentHeader
  <2>2. Targets' = {}
    BY DEF Targets
  <2>3. \A e : n + 1 \notin SetSections(f, e)
    BY <1>2 DEF SetSections
  <2>4. section'.kind # "default" /\ section'.kind # "domDefault"
    BY DEF LexgionSections
  <2> QED
    BY <1>2, <2>1, <2>2, <2>3, <2>4 DEF SectionInv
<1> QED
  BY <1>3, <1>4, <1>5, <1>6, <1>7 DEF ParseInv

\* A key that is no rate, or that no section reads.
LEMMA OtherKey ==
    ASSUME NEW f, IsFile(f), NEW n \in Nat, n + 1 \in DOMAIN f, ~IsHeader(f[n + 1]),
           ParseInv(f, n), UNCHANGED <<lexgionTables, section>>,
           f[n + 1].key # "num" \/ section.kind \notin LexgionSections
    PROVE  ParseInv(f, n + 1)'
<1>1. UNCHANGED <<default, domDefault, table, section>>
  BY DEF lexgionTables
<1>2. n + 1 \notin Sections(f) /\ n + 1 \notin Defaults(f) /\ \A d : n + 1 \notin DefaultsOf(f, d)
  BY DEF Sections, Defaults, DefaultsOf, Headers
<1>3. SectionInv(f, n)
  BY DEF ParseInv
<1>4. ASSUME section.kind \notin LexgionSections, NEW i, Current(f, i, n), f[i].action = "SET"
      PROVE  i \notin Defaults(f) /\ i \notin Sections(f)
             /\ \A d \in Domains : i \notin DefaultsOf(f, d)
  BY <1>3, <1>4 DEF SectionInv, LexgionSections
<1>5. \A e : \A i \in SetSections(f, e) : i \in Sections(f) /\ f[i].action = "SET"
  BY DEF SetSections
<1>6. DefaultInv(f, n + 1)' /\ \A field \in Fields :
         DefaultAt(f, n + 1, field) = DefaultAt(f, n, field)
  BY <1>1, <1>4, QuietDefault DEF ParseInv
<1>7. DomainInv(f, n + 1)'
  BY <1>1, <1>2, <1>4, <1>6, QuietDomain DEF ParseInv
<1>8. TableInv(f, n + 1)'
  BY <1>1, <1>2, <1>4, <1>5, <1>6, QuietTable DEF ParseInv
<1>9. RemovedInv(f, n + 1)'
  BY <1>1, <1>2, QuietRemoved DEF ParseInv
<1>10. SectionInv(f, n + 1)'
  BY <1>1, <1>3, QuietSection DEF Alike
<1> QED
  BY <1>6, <1>7, <1>8, <1>9, <1>10 DEF ParseInv

-----------------------------------------------------------------------------
\* What the entries are made of.
LEMMA SystemIs == IsEntry(SystemDefault)
BY DEF SystemDefault, IsEntry, EntryFields

\* Inheritance writes no value,
LEMMA InheritIs ==
    ASSUME NEW e, IsEntry(e), NEW doms
    PROVE  /\ IsEntry(Inherit(e, doms)) /\ Inherit(e, doms).num = e.num
           /\ Inherit(e, doms).code = e.code /\ Inherit(e, doms).name = e.name
           /\ Inherit(e, doms).dom = e.dom /\ Inherit(e, doms).hint = e.hint
           /\ Inherit(e, doms).removed = e.removed
BY DEF Inherit, IsEntry, EntryFields

\* no more does the list of units,
LEMMA LimitIs ==
    ASSUME NEW e, IsEntry(e), NEW items
    PROVE  /\ IsEntry(Limit(e, items)) /\ Limit(e, items).num = e.num
           /\ Limit(e, items).code = e.code /\ Limit(e, items).name = e.name
           /\ Limit(e, items).dom = e.dom /\ Limit(e, items).hint = e.hint
           /\ Limit(e, items).removed = e.removed
BY DEF Limit, IsEntry, EntryFields

\* and a domain's default starts with those of the default.
LEMMA CombinedIs ==
    ASSUME IsEntry(default), NEW d, NEW code
    PROVE  /\ IsEntry(Combined(d, code)) /\ Combined(d, code).num = default.num
           /\ Combined(d, code).code = code
BY DEF Combined, IsEntry, EntryFields

\* A key writes one.
LEMMA KeyedIs ==
    ASSUME NEW e, IsEntry(e), NEW l
    PROVE  /\ IsEntry(Keyed(e, l))
           /\ Keyed(e, l).num = IF l.key = "num" THEN [e.num EXCEPT ![l.field] = l.value]
                                ELSE e.num
           /\ Keyed(e, l).code = e.code /\ Keyed(e, l).name = e.name
           /\ Keyed(e, l).dom = e.dom /\ Keyed(e, l).hint = e.hint
           /\ Keyed(e, l).removed = e.removed
<1>1. CASE l.key = "num"
  <2>1. Keyed(e, l) = [e EXCEPT !.num[l.field] = l.value]
    BY <1>1 DEF Keyed
  <2> QED
    BY <1>1, <2>1 DEF IsEntry, EntryFields
<1>2. CASE l.key = "window_end_action"
  <2>1. Keyed(e, l) = [e EXCEPT !.end = EndAction(NoEnd, l.clauses)]
    BY <1>2 DEF Keyed
  <2> QED
    BY <1>2, <2>1 DEF IsEntry, EntryFields
<1>3. CASE l.key = "window_timeout"
  <2>1. Keyed(e, l) = [e EXCEPT !.timeout = l.value]
    BY <1>3 DEF Keyed
  <2> QED
    BY <1>3, <2>1 DEF IsEntry, EntryFields
<1>4. CASE l.key = "window_end_trigger"
  <2>1. Keyed(e, l) = [e EXCEPT !.trigger = IF l.value = "all" THEN "all" ELSE "first"]
    BY <1>4 DEF Keyed
  <2> QED
    BY <1>4, <2>1 DEF IsEntry, EntryFields
<1>5. CASE l.key = "Domain.Event" /\ l.dom \in Domains
  <2>1. Keyed(e, l) = [e EXCEPT !.events[l.dom] =
                         [set |-> TRUE, on |-> Switched(l.dom, e.events[l.dom].on, l)]]
    BY <1>5 DEF Keyed
  <2> QED
    BY <1>5, <2>1 DEF IsEntry, EntryFields
<1>6. CASE /\ l.key \notin {"num", "window_end_action", "window_timeout", "window_end_trigger"}
           /\ ~(l.key = "Domain.Event" /\ l.dom \in Domains)
  <2>1. Keyed(e, l) = e
    BY <1>6 DEF Keyed
  <2> QED
    BY <1>6, <2>1
<1> QED
  BY <1>1, <1>2, <1>3, <1>4, <1>5, <1>6

-----------------------------------------------------------------------------
\* [Lexgion.default].
LEMMA DefaultHeaderRead ==
    ASSUME NEW f, IsFile(f), Proper(f), NEW n \in Nat, n + 1 \in DOMAIN f, IsHeader(f[n + 1]),
           ParseInv(f, n), f[n + 1].target = "Lexgion.default",
           default' = CASE f[n + 1].action = "SET" -> Inherit(default, f[n + 1].inherit)
                        [] f[n + 1].action = "RESET" -> SystemDefault
                        [] OTHER -> default,
           section' = IF f[n + 1].action = "SET" THEN Section("default") ELSE NoSection,
           UNCHANGED <<domDefault, table>>
    PROVE  ParseInv(f, n + 1)'
<1>1. n + 1 \in Headers(f) /\ n + 1 \in Defaults(f)
      /\ n + 1 \notin Sections(f) /\ \A d : n + 1 \notin DefaultsOf(f, d)
  BY DEF Headers, Defaults, Sections, DefaultsOf
<1>2. f[n + 1].action = "SET" \/ f[n + 1].action = "RESET"
  BY <1>1 DEF IsFile, Proper
<1>3. DOMAIN table = {} /\ (\A d \in Domains : domDefault[d].code = Null)
      /\ \A i \in Headers(f) : i <= n =>
            f[i].target # "Lexgion(D).default" /\ f[i].target # "Lexgion"
  <2>1. \A i \in Headers(f) : i <= n => i <= n + 1
    BY HeadersIn
  <2>2. \A i \in Headers(f) : i <= n =>
            f[i].target # "Lexgion(D).default" /\ f[i].target # "Lexgion"
    BY <1>1, <2>1, NoneYet
  <2> QED
    BY <2>2, NoneYetTables DEF ParseInv
<1>4. DefaultInv(f, n + 1)'
  <2>1. CASE f[n + 1].action = "SET"
    <3>1. default' = Inherit(default, f[n + 1].inherit)
      BY <2>1
    <3>2. IsEntry(default') /\ default'.num = default.num
      BY <3>1, InheritIs DEF ParseInv, DefaultInv
    <3>3. \A field \in Fields : DefaultAt(f, n + 1, field) = DefaultAt(f, n, field)
      BY <2>1, DefaultOtherHeader
    <3> QED
      BY <3>2, <3>3 DEF ParseInv, DefaultInv
  <2>2. CASE f[n + 1].action = "RESET"
    BY <2>2, DefaultReset, SystemIs DEF DefaultInv
  <2> QED
    BY <1>2, <2>1, <2>2
<1>5. DomainInv(f, n + 1)'
  <2>1. ASSUME NEW d \in Domains, NEW i \in DefaultsOf(f, d), i <= n + 1 PROVE FALSE
    <3>1. i \in Headers(f) /\ i \in Nat /\ i # n + 1 /\ f[i].target = "Lexgion(D).default"
      BY <1>1, HeadersIn DEF DefaultsOf
    <3>2. i <= n
      BY <2>1, <3>1
    <3> QED
      BY <1>3, <3>1, <3>2
  <2> QED
    BY <1>3, <2>1 DEF ParseInv, DomainInv
<1>6. TableInv(f, n + 1)'
  BY <1>1, <1>3, OtherRead DEF ParseInv, TableInv
<1>7. RemovedInv(f, n + 1)'
  BY <1>1, QuietRemoved DEF ParseInv
<1>8. SectionInv(f, n + 1)'
  <2>1. \A i : Current(f, i, n + 1) <=> i = n + 1
    BY CurrentHeader
  <2>2. CASE f[n + 1].action = "SET"
    BY <1>1, <1>3, <2>1, <2>2 DEF SectionInv, Section, NoSection
  <2>3. CASE f[n + 1].action = "RESET"
    BY <1>1, <1>3, <2>1, <2>3 DEF SectionInv, Section, NoSection
  <2> QED
    BY <1>2, <2>2, <2>3
<1> QED
  BY <1>4, <1>5, <1>6, <1>7, <1>8 DEF ParseInv

\* [Lexgion(D).default].
LEMMA DomainHeaderRead ==
    ASSUME NEW f, IsFile(f), Proper(f), NEW n \in Nat, n + 1 \in DOMAIN f, IsHeader(f[n + 1]),
           ParseInv(f, n), f[n + 1].target = "Lexgion(D).default",
           IF f[n + 1].dom \in Domains
           THEN LET e == Combined(f[n + 1].dom, "user") IN
                /\ domDefault' = [domDefault EXCEPT ![f[n + 1].dom] =
                       IF f[n + 1].action = "SET" THEN Inherit(e, f[n + 1].inherit) ELSE e]
                /\ section' = IF f[n + 1].action = "SET"
                              THEN DomainSection("domDefault", f[n + 1].dom) ELSE NoSection
           ELSE section' = NoSection /\ UNCHANGED domDefault,
           UNCHANGED <<default, table>>
    PROVE  ParseInv(f, n + 1)'
<1> DEFINE h == f[n + 1]
<1>1. n + 1 \in Headers(f) /\ n + 1 \in DefaultsOf(f, h.dom)
      /\ n + 1 \notin Sections(f) /\ n + 1 \notin Defaults(f)
      /\ \A d : d # h.dom => n + 1 \notin DefaultsOf(f, d)
  BY DEF Headers, Defaults, Sections, DefaultsOf
<1>2. DefaultInv(f, n + 1)' /\ \A field \in Fields :
         DefaultAt(f, n + 1, field) = DefaultAt(f, n, field)
  BY QuietDefault DEF ParseInv
<1>3. TableInv(f, n + 1)'
  BY <1>1, <1>2, QuietTable DEF ParseInv
<1>4. RemovedInv(f, n + 1)'
  BY <1>1, QuietRemoved DEF ParseInv
<1>5. \A i : Current(f, i, n + 1) <=> i = n + 1
  BY CurrentHeader
<1>6. \A e : n + 1 \notin SetSections(f, e)
  BY <1>1 DEF SetSections
<1>7. CASE h.dom \notin Domains
  <2>1. section' = NoSection /\ UNCHANGED domDefault
    BY <1>7
  <2>2. DomainInv(f, n + 1)'
    BY <1>1, <1>2, <1>7, <2>1, QuietDomain DEF ParseInv
  <2>3. Targets' = {}
    BY <2>1 DEF NoSection, Targets
  <2>4. SectionInv(f, n + 1)'
    BY <1>1, <1>5, <1>6, <1>7, <2>1, <2>3 DEF SectionInv, NoSection
  <2> QED
    BY <1>2, <1>3, <1>4, <2>2, <2>4 DEF ParseInv
<1>8. CASE h.dom \in Domains
  <2> DEFINE e == IF h.action = "SET" THEN Inherit(Combined(h.dom, "user"), h.inherit)
                  ELSE Combined(h.dom, "user")
  <2>1. domDefault' = [domDefault EXCEPT ![h.dom] = e]
        /\ section' = IF h.action = "SET" THEN DomainSection("domDefault", h.dom) ELSE NoSection
    BY <1>8
  <2>2. IsEntry(e) /\ e.num = default.num /\ e.code = "user"
    <3>1. IsEntry(default)
      BY DEF ParseInv, DefaultInv
    <3>2. IsEntry(Combined(h.dom, "user")) /\ Combined(h.dom, "user").num = default.num
          /\ Combined(h.dom, "user").code = "user"
      BY <3>1, CombinedIs
    <3> QED
      BY <3>2, InheritIs
  <2>3. DomainInv(f, n)
    BY DEF ParseInv
  <2> HIDE DEF e
  <2>4. DOMAIN (domDefault') = Domains /\ domDefault'[h.dom] = e
        /\ \A d \in Domains : d # h.dom => domDefault'[d] = domDefault[d]
    BY <1>8, <2>1, <2>3 DEF DomainInv
  <2>5. ASSUME NEW d \in Domains
        PROVE  /\ IsEntry(domDefault'[d])
               /\ domDefault'[d].code # Null <=> \E i \in DefaultsOf(f, d) : i <= n + 1
               /\ domDefault'[d].code # Null => \A field \in Fields :
                     domDefault'[d].num[field] = DomainAt(f, n + 1, d, field)
    <3>1. CASE d = h.dom
      <4>1. \A field \in Fields : DomainAt(f, n + 1, h.dom, field) = DefaultAt(f, n + 1, field)
        BY DomainHeader
      <4>2. \A field \in Fields : e.num[field] = DefaultAt(f, n, field)
        BY <2>2 DEF ParseInv, DefaultInv
      <4>3. "user" # Null /\ n + 1 <= n + 1
        BY DEF Null
      <4>4. domDefault'[d] = e /\ IsEntry(e) /\ e.code # Null
        BY <2>2, <2>4, <3>1, <4>3
      <4>5. \E i \in DefaultsOf(f, d) : i <= n + 1
        BY <1>1, <3>1, <4>3
      <4> QED
        BY <1>2, <3>1, <4>1, <4>2, <4>4, <4>5
    <3>2. CASE d # h.dom
      <4>1. \A field \in Fields : DomainAt(f, n + 1, d, field) = DomainAt(f, n, d, field)
        BY <1>2, <3>2, DomainOtherHeader
      <4>2. \A i \in DefaultsOf(f, d) : i \in Nat /\ i # n + 1
        BY <1>1, <3>2, HeadersIn DEF DefaultsOf
      <4>3. \A i \in DefaultsOf(f, d) : i <= n + 1 <=> i <= n
        BY <4>2
      <4> QED
        BY <2>3, <2>4, <3>2, <4>1, <4>3 DEF DomainInv
    <3> QED
      BY <3>1, <3>2
  <2>6. DomainInv(f, n + 1)'
    BY <2>4, <2>5 DEF DomainInv
  <2>7. Targets' = {} /\ section'.at = <<>>
        /\ section'.kind = (IF h.action = "SET" THEN "domDefault" ELSE "none")
        /\ (h.action = "SET" => section'.dom = h.dom)
    BY <2>1 DEF NoSection, DomainSection, Targets
  <2>8. SectionInv(f, n + 1)'
    BY <1>1, <1>5, <1>6, <1>8, <2>7 DEF SectionInv
  <2> QED
    BY <1>2, <1>3, <1>4, <2>6, <2>8 DEF ParseInv
<1> QED
  BY <1>7, <1>8

-----------------------------------------------------------------------------
\* The names of the entries.
LEMMA EntryCounts ==
    ASSUME NEW f, NEW T, NEW n, NEW m, Structure(f, T, n, m), NEW e \in DOMAIN T, NEW s,
           Same(s, T[e])
    PROVE  Counts("SET", s) /\ (T[e].code # Null => \A action : Counts(action, s))
<1>1. PICK i, k : Seen(f, i, k, n, m) /\ Same(f[i].who[k], T[e])
  BY DEF Structure
<1>2. Counts(f[i].action, f[i].who[k])
  BY <1>1 DEF Seen
<1> QED
  BY <1>1, <1>2 DEF Counts, Same

\* A name of an earlier section has its entry.
LEMMA ListedBefore ==
    ASSUME NEW f, NEW n \in Nat, NEW T, Structure(f, T, n, 0), NEW i \in Sections(f), i <= n,
           NEW k \in DOMAIN f[i].who, Counts(f[i].action, f[i].who[k])
    PROVE  \E x \in DOMAIN T : Same(f[i].who[k], T[x])
<1>1. Seen(f, i, k, n, 0)
  BY DEF Seen
<1> QED
  BY <1>1 DEF Structure

\* What HeadLexgions writes to an entry it selected.
WrittenBy(h, e) ==
    CASE h.action = "SET" -> Limit(Inherit(e, h.inherit), h.limit)
      [] h.action = "REMOVE" -> [e EXCEPT !.removed = TRUE]
      [] OTHER -> e

\* What a header writes into an entry it selects.
LEMMA WrittenIs ==
    ASSUME NEW h, h.action = "SET" \/ h.action = "REMOVE", NEW e, IsEntry(e)
    PROVE  /\ IsEntry(WrittenBy(h, e)) /\ Alike(WrittenBy(h, e), e)
           /\ WrittenBy(h, e).removed = IF h.action = "REMOVE" THEN TRUE ELSE e.removed
<1>1. CASE h.action = "SET"
  <2>1. WrittenBy(h, e) = Limit(Inherit(e, h.inherit), h.limit)
    BY <1>1 DEF WrittenBy
  <2> DEFINE g == Inherit(e, h.inherit)
  <2>2. IsEntry(g) /\ Alike(g, e) /\ g.removed = e.removed
    BY InheritIs DEF Alike
  <2> HIDE DEF g
  <2>3. IsEntry(Limit(g, h.limit)) /\ Alike(Limit(g, h.limit), g)
        /\ Limit(g, h.limit).removed = g.removed
    BY <2>2, LimitIs DEF Alike
  <2>4. WrittenBy(h, e) = Limit(g, h.limit)
    BY <2>1 DEF g
  <2> QED
    BY <1>1, <2>2, <2>3, <2>4 DEF Alike
<1>2. CASE h.action = "REMOVE"
  <2>1. WrittenBy(h, e) = [e EXCEPT !.removed = TRUE]
    BY <1>2 DEF WrittenBy
  <2> QED
    BY <1>2, <2>1 DEF IsEntry, EntryFields, Alike
<1> QED
  BY <1>1, <1>2

\* The table after a header: each entry of sel, written if it was selected.
After(h, sel, U) ==
    U = [i \in DOMAIN sel.table |->
            IF Taken(sel, i) THEN WrittenBy(h, sel.table[i]) ELSE sel.table[i]]

AfterFacts(f, n, sel, U) ==
    /\ f[n + 1].action = "SET" \/ f[n + 1].action = "REMOVE"
    /\ DOMAIN U = DOMAIN sel.table
    /\ Structure(f, U, n + 1, 0)
    /\ \A e \in DOMAIN U :
          /\ IsEntry(U[e]) /\ Alike(U[e], sel.table[e])
          /\ U[e].removed = IF Taken(sel, e) /\ f[n + 1].action = "REMOVE" THEN TRUE
                            ELSE sel.table[e].removed
          /\ Taken(sel, e) => Lists(f, n + 1, U[e])
          /\ Lists(f, n + 1, U[e]) /\ (f[n + 1].action = "SET" \/ U[e].code # Null)
             => Taken(sel, e)
          /\ Taken(sel, e) /\ f[n + 1].action = "REMOVE" => U[e].code # Null

\* The entry in the table the header leaves.
LEMMA AfterIs ==
    ASSUME NEW f, IsFile(f), Proper(f), NEW n \in Nat, n + 1 \in Sections(f), NEW sel, NEW T,
           Good(f, sel, T, n, Len(f[n + 1].who)), NEW U, After(f[n + 1], sel, U)
    PROVE  AfterFacts(f, n, sel, U)
<1> DEFINE h == f[n + 1]
<1>1. h.action = "SET" \/ h.action = "REMOVE"
  <2>1. n + 1 \in Headers(f) /\ h.target = "Lexgion"
    BY DEF Sections
  <2> QED
    BY <2>1 DEF Proper, IsFile
<1>2. /\ IsAcc(sel) /\ Structure(f, sel.table, n, Len(h.who))
      /\ \A e \in DOMAIN sel.table : IsEntry(sel.table[e])
  BY DEF Good, GoodTable
<1>3. DOMAIN U = DOMAIN sel.table /\ \A e \in DOMAIN U :
         U[e] = IF Taken(sel, e) THEN WrittenBy(h, sel.table[e]) ELSE sel.table[e]
  BY DEF After
<1>4. ASSUME NEW e \in DOMAIN U
      PROVE  /\ IsEntry(U[e]) /\ Alike(U[e], sel.table[e])
             /\ U[e].removed = IF Taken(sel, e) /\ h.action = "REMOVE" THEN TRUE
                               ELSE sel.table[e].removed
  <2>1. IsEntry(sel.table[e])
    BY <1>2, <1>3
  <2>2. /\ IsEntry(WrittenBy(h, sel.table[e])) /\ Alike(WrittenBy(h, sel.table[e]), sel.table[e])
        /\ WrittenBy(h, sel.table[e]).removed =
             IF h.action = "REMOVE" THEN TRUE ELSE sel.table[e].removed
    <3> HIDE DEF h
    <3> QED
      BY <1>1, <2>1, WrittenIs
  <2>3. Alike(sel.table[e], sel.table[e])
    BY DEF Alike
  <2> QED
    BY <1>3, <2>1, <2>2, <2>3
<1>5. Structure(f, U, n + 1, 0)
  <2>1. U = [i \in DOMAIN sel.table |-> U[i]]
    BY DEF After
  <2>2. IsSeq(U)
    BY <1>2, <2>1, MapSeq DEF IsAcc
  <2>3. Structure(f, U, n, Len(h.who))
    BY <1>2, <1>3, <1>4, <2>2, StructureAlike
  <2> QED
    BY <2>3, HeaderRead
<1>6. ASSUME NEW e \in DOMAIN U
      PROVE  /\ Taken(sel, e) => Lists(f, n + 1, U[e])
             /\ Lists(f, n + 1, U[e]) /\ (h.action = "SET" \/ U[e].code # Null)
                => Taken(sel, e)
             /\ Taken(sel, e) /\ h.action = "REMOVE" => U[e].code # Null
  <2>1. Taken(sel, e) <=>
          \E k \in DOMAIN h.who : /\ k <= Len(h.who) /\ Counts(h.action, h.who[k])
                                  /\ Same(h.who[k], sel.table[e])
    BY <1>3 DEF Good, GoodTaken
  <2>2. \A s : Same(s, U[e]) <=> Same(s, sel.table[e])
    BY <1>4 DEF Same, Alike
  <2>3. \A k \in DOMAIN h.who : k <= Len(h.who)
    <3>1. h.who \in Seq(Range(h.who))
      BY DEF IsFile, Sections
    <3> QED
      BY <3>1
  <2>4. \A s : Same(s, U[e]) => Counts("SET", s) /\ (U[e].code # Null => Counts(h.action, s))
    BY <1>5, EntryCounts
  <2>5. Taken(sel, e) => Lists(f, n + 1, U[e])
    BY <2>1, <2>2 DEF Lists
  <2>6. Lists(f, n + 1, U[e]) /\ (h.action = "SET" \/ U[e].code # Null) => Taken(sel, e)
    BY <2>1, <2>2, <2>3, <2>4 DEF Lists
  <2>7. Taken(sel, e) /\ h.action = "REMOVE" => U[e].code # Null
    BY <2>1, <2>2 DEF Counts, Same
  <2> QED
    BY <2>5, <2>6, <2>7
<1> QED
  BY <1>1, <1>3, <1>4, <1>5, <1>6 DEF AfterFacts

\* An entry that a header made is listed by none before.
LEMMA NewEntry ==
    ASSUME NEW f, IsFile(f), NEW n \in Nat, NEW T, Structure(f, T, n, 0), NEW U, NEW m, NEW p,
           Structure(f, U, p, m), DOMAIN T \subseteq DOMAIN U,
           \A x \in DOMAIN T : Alike(U[x], T[x]), NEW e \in DOMAIN U, e \notin DOMAIN T,
           NEW i \in Sections(f), i <= n, Lists(f, i, U[e]),
           f[i].action = "SET" \/ U[e].code # Null
    PROVE  FALSE
<1>1. PICK k \in DOMAIN f[i].who : Same(f[i].who[k], U[e])
  BY DEF Lists
<1>2. Counts(f[i].action, f[i].who[k])
  BY <1>1, EntryCounts
<1>3. PICK x \in DOMAIN T : Same(f[i].who[k], T[x])
  BY <1>2, ListedBefore
<1>4. Same(f[i].who[k], U[x])
  BY <1>3 DEF Same, Alike
<1>5. Same(U[x], U[e])
  BY <1>1, <1>4, SameSame
<1>6. x = e
  BY <1>5 DEF Structure
<1> QED
  BY <1>3, <1>6

\* [Lexgion(...)], while the table has room.
LEMMA LexgionsTable ==
    ASSUME NEW f, IsFile(f), Proper(f), NEW n \in Nat, n + 1 \in DOMAIN f, IsHeader(f[n + 1]),
           ParseInv(f, n), f[n + 1].target = "Lexgion",
           Len(SelectAll(f[n + 1]).table) < TableSize,
           After(f[n + 1], SelectAll(f[n + 1]), table'),
           \A field \in Fields : DefaultAt(f, n + 1, field) = DefaultAt(f, n, field)
    PROVE  TableInv(f, n + 1)' /\ RemovedInv(f, n + 1)'
<1> DEFINE h == f[n + 1]
           sel == SelectAll(h)
           U == table'
<1>1. n + 1 \in Sections(f)
  BY DEF Sections, Headers
<1>2. Structure(f, table, n, 0) /\ (\A e \in DOMAIN table : IsEntry(table[e])) /\ IsEntry(default)
  BY DEF ParseInv, TableInv, DefaultInv
<1>3. Good(f, sel, table, n, Len(h.who))
  BY <1>1, <1>2, HeaderGood
<1>4. /\ h.action = "SET" \/ h.action = "REMOVE"
      /\ DOMAIN U = DOMAIN sel.table
      /\ Structure(f, U, n + 1, 0)
      /\ \A e \in DOMAIN U :
            /\ IsEntry(U[e]) /\ Alike(U[e], sel.table[e])
            /\ U[e].removed = IF Taken(sel, e) /\ h.action = "REMOVE" THEN TRUE
                              ELSE sel.table[e].removed
            /\ Taken(sel, e) => Lists(f, n + 1, U[e])
            /\ Lists(f, n + 1, U[e]) /\ (h.action = "SET" \/ U[e].code # Null) => Taken(sel, e)
            /\ Taken(sel, e) /\ h.action = "REMOVE" => U[e].code # Null
  <2>1. After(h, sel, U)
    OBVIOUS
  <2> HIDE DEF sel, U
  <2>2. AfterFacts(f, n, sel, U)
    BY <1>1, <1>3, <2>1, AfterIs
  <2> QED
    BY <2>2 DEF AfterFacts
<1> HIDE DEF sel, U
<1>5. /\ DOMAIN table \subseteq DOMAIN U
      /\ \A e \in DOMAIN table :
            /\ Alike(U[e], table[e])
            /\ sel.table[e].removed = IF Taken(sel, e) THEN FALSE ELSE table[e].removed
      /\ \A e \in DOMAIN U : e \notin DOMAIN table =>
            U[e].num = default.num /\ sel.table[e].removed = FALSE
  <2>1. GoodEntries(sel, table)
    BY <1>3 DEF Good
  <2>2. \A e \in DOMAIN table : e \in DOMAIN U
    BY <1>4, <2>1 DEF GoodEntries
  <2> QED
    BY <1>4, <2>1, <2>2 DEF GoodEntries, Alike
<1>6. ASSUME NEW e \in DOMAIN U, NEW field \in Fields
      PROVE  U[e].num[field] =
               ValueAt(f, n + 1, SetSections(f, U[e]), field, DefaultAt(f, n + 1, field))
  <2> DEFINE hs == SetSections(f, U[e])
             base == DefaultAt(f, n, field)
  <2>1. hs \in SUBSET Headers(f)
    BY OwnHeaders
  <2>2. CASE e \in DOMAIN table
    <3>1. SetSections(f, table[e]) = hs
      BY <1>5, <2>2 DEF SetSections, Lists, Same, Alike
    <3>2. U[e].num = table[e].num
      BY <1>5, <2>2 DEF Alike
    <3>3. table[e].num[field] = ValueAt(f, n, hs, field, base)
      BY <2>2, <3>1 DEF ParseInv, TableInv
    <3> HIDE DEF hs, base
    <3>4. ValueAt(f, n + 1, hs, field, base) = ValueAt(f, n, hs, field, base)
      BY <2>1, ValueHeader
    <3> QED
      BY <3>2, <3>3, <3>4 DEF hs, base
  <2>3. CASE e \notin DOMAIN table
    <3>1. ASSUME NEW i \in hs PROVE i >= n + 1
      <4>1. i \in Sections(f) /\ f[i].action = "SET" /\ Lists(f, i, U[e]) /\ i \in Nat
        BY <2>1, HeadersIn DEF SetSections
      <4>2. ~(i <= n)
        BY <1>2, <1>4, <1>5, <2>3, <4>1, NewEntry
      <4> QED
        BY <4>1, <4>2
    <3>2. U[e].num[field] = base
      BY <1>5, <2>3 DEF ParseInv, DefaultInv
    <3> HIDE DEF hs, base
    <3>3. n + 1 \in Nat
      OBVIOUS
    <3>4. ValueAt(f, n + 1, hs, field, base) = base
      BY <2>1, <3>1, <3>3, ValueNone
    <3> QED
      BY <3>2, <3>4 DEF hs, base
  <2> QED
    BY <2>2, <2>3
<1>7. TableInv(f, n + 1)'
  <2>1. TableInv(f, n + 1)' <=>
          /\ Structure(f, U, n + 1, 0)
          /\ \A e \in DOMAIN U :
                /\ IsEntry(U[e])
                /\ \A field \in Fields :
                      U[e].num[field] =
                        ValueAt(f, n + 1, SetSections(f, U[e]), field, DefaultAt(f, n + 1, field))
    BY DEF TableInv, U
  <2> QED
    BY <1>4, <1>6, <2>1
<1>8. ASSUME NEW e \in DOMAIN U
      PROVE  /\ U[e].code = Null => U[e].removed = FALSE
             /\ U[e].code # Null =>
                   /\ LastRemoves(f, n + 1, U[e]) => U[e].removed = TRUE
                   /\ ~LastRemoves(f, n + 1, U[e]) => U[e].removed = FALSE
  <2>1. /\ e \in DOMAIN table => Alike(U[e], table[e])
        /\ sel.table[e].removed =
             IF e \in DOMAIN table
             THEN IF Taken(sel, e) THEN FALSE ELSE table[e].removed ELSE FALSE
    BY <1>5
  <2>2. \A i \in Sections(f) : i \in Nat /\ (i <= n + 1 <=> i <= n \/ i = n + 1)
                               /\ (n + 1 <= i /\ i <= n + 1 => i = n + 1)
    <3>1. \A i \in Sections(f) : i \in Nat
      BY HeadersIn, OwnHeaders
    <3>2. \A i \in Nat : (i <= n + 1 <=> i <= n \/ i = n + 1)
                         /\ (n + 1 <= i /\ i <= n + 1 => i = n + 1)
      OBVIOUS
    <3> QED
      BY <3>1, <3>2
  <2>3. e \in DOMAIN table => (LastRemoves(f, n, U[e]) <=> LastRemoves(f, n, table[e]))
    <3> SUFFICES ASSUME e \in DOMAIN table
                 PROVE  LastRemoves(f, n, U[e]) <=> LastRemoves(f, n, table[e])
      OBVIOUS
    <3>1. \A i : Lists(f, i, U[e]) <=> Lists(f, i, table[e])
      BY <2>1 DEF Lists, Same, Alike
    <3> QED
      BY <3>1 DEF LastRemoves
  <2>4. CASE U[e].code = Null
    <3>1. e \in DOMAIN table => table[e].removed = FALSE
      BY <2>1, <2>4 DEF ParseInv, RemovedInv, Alike
    <3>2. ~(Taken(sel, e) /\ h.action = "REMOVE")
      BY <1>4, <2>4
    <3>3. U[e].removed = sel.table[e].removed
      BY <1>4, <3>2
    <3> QED
      BY <2>1, <2>4, <3>1, <3>3
  <2>5. CASE U[e].code # Null /\ Taken(sel, e)
    <3>1. Lists(f, n + 1, U[e])
      BY <1>4, <2>5
    <3>2. CASE h.action = "SET"
      <4>1. U[e].removed = FALSE
        BY <1>4, <2>1, <2>5, <3>2
      <4>2. ~LastRemoves(f, n + 1, U[e])
        BY <1>1, <2>2, <3>1, <3>2 DEF LastRemoves
      <4> QED
        BY <2>5, <4>1, <4>2
    <3>3. CASE h.action = "REMOVE"
      <4>1. U[e].removed = TRUE
        BY <1>4, <2>5, <3>3
      <4>2. LastRemoves(f, n + 1, U[e])
        BY <1>1, <2>2, <3>1, <3>3 DEF LastRemoves
      <4> QED
        BY <2>5, <4>1, <4>2
    <3> QED
      BY <1>4, <3>2, <3>3
  <2>6. CASE U[e].code # Null /\ ~Taken(sel, e)
    <3>1. ~Lists(f, n + 1, U[e])
      BY <1>4, <2>6
    <3>2. U[e].removed = sel.table[e].removed
      BY <1>4, <2>6
    <3>3. LastRemoves(f, n + 1, U[e]) <=> LastRemoves(f, n, U[e])
      BY <2>2, <3>1 DEF LastRemoves
    <3>4. CASE e \in DOMAIN table
      <4>1. table[e].code = U[e].code
        BY <2>1, <3>4 DEF Alike
      <4>2. U[e].removed = table[e].removed
        BY <2>1, <2>6, <3>2, <3>4
      <4>3. RemovedInv(f, n)
        BY DEF ParseInv
      <4> QED
        BY <2>3, <2>6, <3>3, <3>4, <4>1, <4>2, <4>3 DEF RemovedInv
    <3>5. CASE e \notin DOMAIN table
      <4>1. ~LastRemoves(f, n, U[e])
        BY <1>2, <1>4, <1>5, <2>6, <3>5, NewEntry DEF LastRemoves
      <4> QED
        BY <2>1, <2>6, <3>2, <3>3, <3>5, <4>1
    <3> QED
      BY <3>4, <3>5
  <2> QED
    BY <2>4, <2>5, <2>6
<1>9. RemovedInv(f, n + 1)'
  <2>1. RemovedInv(f, n + 1)' <=>
          \A e \in DOMAIN U :
             /\ U[e].code = Null => U[e].removed = FALSE
             /\ U[e].code # Null =>
                   /\ LastRemoves(f, n + 1, U[e]) => U[e].removed = TRUE
                   /\ ~LastRemoves(f, n + 1, U[e]) => U[e].removed = FALSE
    BY DEF RemovedInv, U
  <2> QED
    BY <1>8, <2>1
<1> QED
  BY <1>7, <1>9

\* [Lexgion(a, b, ...)].
LEMMA LexgionsHeaderRead ==
    ASSUME NEW f, IsFile(f), Proper(f), NEW n \in Nat, n + 1 \in DOMAIN f, IsHeader(f[n + 1]),
           ParseInv(f, n), f[n + 1].target = "Lexgion",
           Len(SelectAll(f[n + 1]).table) < TableSize,
           After(f[n + 1], SelectAll(f[n + 1]), table'),
           section' = IF SelectAll(f[n + 1]).at = <<>> \/ f[n + 1].action = "SET"
                      THEN [Section("lexgions") EXCEPT !.at = SelectAll(f[n + 1]).at]
                      ELSE NoSection,
           UNCHANGED <<default, domDefault>>
    PROVE  ParseInv(f, n + 1)'
<1> DEFINE h == f[n + 1]
           sel == SelectAll(h)
<1>1. n + 1 \in Sections(f) /\ n + 1 \notin Defaults(f) /\ \A d : n + 1 \notin DefaultsOf(f, d)
  BY DEF Sections, Headers, Defaults, DefaultsOf
<1>2. DefaultInv(f, n + 1)' /\ \A field \in Fields :
         DefaultAt(f, n + 1, field) = DefaultAt(f, n, field)
  BY QuietDefault DEF ParseInv
<1>3. DomainInv(f, n + 1)'
  BY <1>1, <1>2, QuietDomain DEF ParseInv
<1>4. TableInv(f, n + 1)' /\ RemovedInv(f, n + 1)'
  BY <1>2, LexgionsTable
<1>5. /\ h.action = "SET" \/ h.action = "REMOVE"
      /\ DOMAIN (table') = DOMAIN sel.table
      /\ \A e \in DOMAIN (table') :
            /\ Taken(sel, e) => Lists(f, n + 1, table'[e])
            /\ Lists(f, n + 1, table'[e]) /\ (h.action = "SET" \/ table'[e].code # Null)
               => Taken(sel, e)
  <2>1. Structure(f, table, n, 0) /\ (\A e \in DOMAIN table : IsEntry(table[e]))
        /\ IsEntry(default)
    BY DEF ParseInv, TableInv, DefaultInv
  <2>2. Good(f, sel, table, n, Len(h.who))
    BY <1>1, <2>1, HeaderGood
  <2>3. After(h, sel, table')
    OBVIOUS
  <2> HIDE DEF sel
  <2>4. AfterFacts(f, n, sel, table')
    BY <1>1, <2>2, <2>3, AfterIs
  <2> QED
    BY <2>4 DEF AfterFacts
<1>6. SectionInv(f, n + 1)'
  <2>1. \A i : Current(f, i, n + 1) <=> i = n + 1
    BY CurrentHeader
  <2>2. CASE h.action = "SET"
    <3>1. section' = [Section("lexgions") EXCEPT !.at = sel.at]
      BY <2>2
    <3>2. section'.kind = "lexgions" /\ section'.at = sel.at
      BY <3>1 DEF Section, NoSection
    <3>3. \A t : t \in Targets' <=> Taken(sel, t)
      BY <3>2 DEF Targets, Taken
    <3>4. \A t \in DOMAIN (table') :
             t \in Targets' <=> \E i \in SetSections(f, table'[t]) : Current(f, i, n + 1)
      BY <1>1, <1>5, <2>1, <2>2, <3>3 DEF SetSections
    <3> QED
      BY <1>1, <2>1, <3>2, <3>4 DEF SectionInv
  <2>3. CASE h.action = "REMOVE"
    <3>1. section'.kind \in {"lexgions", "none"} /\ section'.at = <<>>
      <4>1. CASE sel.at = <<>>
        BY <4>1 DEF Section, NoSection
      <4>2. CASE sel.at # <<>>
        BY <2>3, <4>2 DEF Section, NoSection
      <4> QED
        BY <4>1, <4>2
    <3>2. Targets' = {}
      BY <3>1 DEF Targets
    <3>3. \A e : n + 1 \notin SetSections(f, e)
      BY <2>3 DEF SetSections
    <3> QED
      BY <1>1, <2>1, <2>3, <3>1, <3>2, <3>3 DEF SectionInv
  <2> QED
    BY <1>5, <2>2, <2>3
<1> QED
  BY <1>2, <1>3, <1>4, <1>6 DEF ParseInv

-----------------------------------------------------------------------------
\* A key of the sections on lexgions.
LEMMA TableKeyRead ==
    ASSUME NEW f, IsFile(f), NEW n \in Nat, n + 1 \in DOMAIN f, ~IsHeader(f[n + 1]),
           ParseInv(f, n),
           table' = [i \in DOMAIN table |->
                        IF i \in Targets THEN Keyed(table[i], f[n + 1]) ELSE table[i]],
           UNCHANGED section,
           \/ DOMAIN table = {}
           \/ \A field \in Fields : DefaultAt(f, n + 1, field) = DefaultAt(f, n, field)
    PROVE  TableInv(f, n + 1)' /\ RemovedInv(f, n + 1)' /\ SectionInv(f, n + 1)'
<1> DEFINE l == f[n + 1]
           U == table'
<1>1. n + 1 \notin Sections(f)
  BY DEF Sections, Headers
<1>2. Structure(f, table, n, 0) /\ \A e \in DOMAIN table : IsEntry(table[e])
  BY DEF ParseInv, TableInv
<1>3. U = [i \in DOMAIN table |-> U[i]]
      /\ \A e \in DOMAIN table :
            U[e] = IF e \in Targets THEN Keyed(table[e], l) ELSE table[e]
  OBVIOUS
<1>4. IsSeq(U) /\ DOMAIN U = DOMAIN table
  <2> HIDE DEF U
  <2> QED
    BY <1>2, <1>3, MapSeq DEF Structure
<1> HIDE DEF U
<1>5. ASSUME NEW e \in DOMAIN table
      PROVE  /\ IsEntry(U[e]) /\ U[e].removed = table[e].removed
             /\ U[e].code = table[e].code /\ U[e].name = table[e].name
             /\ U[e].dom = table[e].dom /\ U[e].hint = table[e].hint
             /\ U[e].num = IF e \in Targets /\ l.key = "num"
                           THEN [table[e].num EXCEPT ![l.field] = l.value] ELSE table[e].num
  <2>1. IsEntry(table[e])
    BY <1>2
  <2>2. CASE e \in Targets
    <3>1. U[e] = Keyed(table[e], l)
      BY <1>3, <2>2
    <3> DEFINE g == Keyed(table[e], l)
    <3>2. /\ IsEntry(g) /\ g.removed = table[e].removed
          /\ g.code = table[e].code /\ g.name = table[e].name
          /\ g.dom = table[e].dom /\ g.hint = table[e].hint
          /\ g.num = IF l.key = "num" THEN [table[e].num EXCEPT ![l.field] = l.value]
                     ELSE table[e].num
      BY <2>1, KeyedIs
    <3> HIDE DEF g
    <3>3. U[e] = g
      BY <3>1 DEF g
    <3> QED
      BY <2>2, <3>2, <3>3
  <2>3. CASE e \notin Targets
    BY <1>3, <2>1, <2>3
  <2> QED
    BY <2>2, <2>3
<1>6. \A e \in DOMAIN table : \A s : Same(s, U[e]) <=> Same(s, table[e])
  BY <1>5 DEF Same
<1>7. \A e \in DOMAIN table : \A i : Lists(f, i, U[e]) <=> Lists(f, i, table[e])
  BY <1>6 DEF Lists
<1>8. \A e \in DOMAIN table : SetSections(f, U[e]) = SetSections(f, table[e])
  BY <1>7 DEF SetSections
<1>9. Structure(f, U, n + 1, 0)
  <2>1. Structure(f, table, n + 1, 0)
    BY <1>1, <1>2, OtherRead
  <2>2. ASSUME NEW s, NEW e \in DOMAIN U PROVE Same(s, U[e]) <=> Same(s, table[e])
    BY <1>4, <1>6
  <2>3. \A e, g \in DOMAIN U : Same(U[e], U[g]) => e = g
    <3>1. \A e, g \in DOMAIN table : Same(U[e], U[g]) <=> Same(table[e], table[g])
      BY <1>5 DEF Same
    <3> QED
      BY <1>4, <2>1, <3>1 DEF Structure
  <2>4. \A e \in DOMAIN U : U[e].code = table[e].code /\ U[e].hint = table[e].hint
    BY <1>4, <1>5
  <2>5. /\ \A i, k : Seen(f, i, k, n + 1, 0) => \E e \in DOMAIN U : Same(f[i].who[k], U[e])
        /\ \A e \in DOMAIN U : \E i, k :
              /\ Seen(f, i, k, n + 1, 0) /\ Same(f[i].who[k], U[e])
              /\ U[e].code = Null => f[i].who[k].hint = U[e].hint
    BY <1>4, <2>1, <2>2, <2>4 DEF Structure
  <2>6. ASSUME NEW e \in DOMAIN U, NEW g \in DOMAIN U, e < g
        PROVE  \E i, k :
                 /\ Seen(f, i, k, n + 1, 0) /\ Same(f[i].who[k], U[e])
                 /\ \A j, q : Seen(f, j, q, n + 1, 0) /\ Same(f[j].who[q], U[g])
                              => i < j \/ (i = j /\ k < q)
    <3>1. PICK i, k :
             /\ Seen(f, i, k, n + 1, 0) /\ Same(f[i].who[k], table[e])
             /\ \A j, q : Seen(f, j, q, n + 1, 0) /\ Same(f[j].who[q], table[g])
                          => i < j \/ (i = j /\ k < q)
      BY <1>4, <2>1, <2>6 DEF Structure
    <3> QED
      BY <2>2, <3>1
  <2> QED
    BY <1>4, <2>3, <2>5, <2>6 DEF Structure
<1>10. SectionInv(f, n)
  BY DEF ParseInv
<1>11. ASSUME NEW e \in DOMAIN table, NEW field \in Fields
       PROVE  U[e].num[field] =
                ValueAt(f, n + 1, SetSections(f, U[e]), field, DefaultAt(f, n + 1, field))
  <2> DEFINE hs == SetSections(f, table[e])
             base == DefaultAt(f, n, field)
  <2>1. hs \in SUBSET Headers(f) /\ SetSections(f, U[e]) = hs
    BY <1>8, OwnHeaders
  <2>2. DefaultAt(f, n + 1, field) = base
    OBVIOUS
  <2>3. table[e].num[field] = ValueAt(f, n, hs, field, base)
    BY DEF ParseInv, TableInv
  <2>4. e \in Targets <=> \E i \in hs : Current(f, i, n)
    BY <1>10 DEF SectionInv
  <2>5. DOMAIN table[e].num = Fields
    BY <1>2 DEF IsEntry
  <2> HIDE DEF hs, base
  <2>6. CASE e \in Targets /\ l.key = "num" /\ field = l.field
    <3>1. PICK i \in hs : Current(f, i, n)
      BY <2>4, <2>6
    <3>2. ValueAt(f, n + 1, hs, l.field, base) = l.value
      BY <2>1, <2>6, <3>1, ValueKey
    <3>3. U[e].num[field] = l.value
      BY <1>5, <2>5, <2>6
    <3> QED
      BY <2>1, <2>2, <2>6, <3>2, <3>3
  <2>7. CASE e \notin Targets \/ l.key # "num" \/ field # l.field
    <3>1. ValueAt(f, n + 1, hs, field, base) = ValueAt(f, n, hs, field, base)
      BY <2>1, <2>4, <2>7, ValueOther
    <3>2. U[e].num[field] = table[e].num[field]
      BY <1>5, <2>5, <2>7
    <3> QED
      BY <2>1, <2>2, <2>3, <3>1, <3>2
  <2> QED
    BY <2>6, <2>7
<1>12. TableInv(f, n + 1)'
  <2>1. TableInv(f, n + 1)' <=>
          /\ Structure(f, U, n + 1, 0)
          /\ \A e \in DOMAIN U :
                /\ IsEntry(U[e])
                /\ \A field \in Fields :
                      U[e].num[field] =
                        ValueAt(f, n + 1, SetSections(f, U[e]), field, DefaultAt(f, n + 1, field))
    BY DEF TableInv, U
  <2> QED
    BY <1>4, <1>5, <1>9, <1>11, <2>1
<1>13. RemovedInv(f, n + 1)'
  <2>1. \A i \in Sections(f) : i \in Nat /\ i # n + 1
    BY <1>1, HeadersIn, OwnHeaders
  <2>2. \A i \in Sections(f) : i <= n + 1 <=> i <= n
    BY <2>1
  <2>3. \A e \in DOMAIN table : LastRemoves(f, n + 1, U[e]) <=> LastRemoves(f, n, table[e])
    BY <1>7, <2>2 DEF LastRemoves
  <2>4. RemovedInv(f, n + 1)' <=>
          \A e \in DOMAIN U :
             /\ U[e].code = Null => U[e].removed = FALSE
             /\ U[e].code # Null =>
                   /\ LastRemoves(f, n + 1, U[e]) => U[e].removed = TRUE
                   /\ ~LastRemoves(f, n + 1, U[e]) => U[e].removed = FALSE
    BY DEF RemovedInv, U
  <2>5. RemovedInv(f, n)
    BY DEF ParseInv
  <2>6. ASSUME NEW e \in DOMAIN table
        PROVE  /\ U[e].code = Null => U[e].removed = FALSE
               /\ U[e].code # Null =>
                     /\ LastRemoves(f, n + 1, U[e]) => U[e].removed = TRUE
                     /\ ~LastRemoves(f, n + 1, U[e]) => U[e].removed = FALSE
    <3>1. U[e].code = table[e].code /\ U[e].removed = table[e].removed
      BY <1>5
    <3> QED
      BY <2>3, <2>5, <3>1 DEF RemovedInv
  <2> QED
    BY <1>4, <2>4, <2>6
<1>14. SectionInv(f, n + 1)'
  <2>1. \A i : Current(f, i, n + 1) <=> Current(f, i, n)
    BY CurrentKey
  <2>2. Targets' = Targets
    BY DEF Targets
  <2>3. \A t \in DOMAIN U : t \in Targets' <=> \E i \in SetSections(f, U[t]) : Current(f, i, n + 1)
    BY <1>4, <1>8, <1>10, <2>1, <2>2 DEF SectionInv
  <2> QED
    BY <1>10, <2>1, <2>3 DEF SectionInv, U
<1> QED
  BY <1>12, <1>13, <1>14

\* Of the rates a key gives one.
LEMMA RateKeyed ==
    ASSUME NEW e, IsEntry(e), NEW l
    PROVE  /\ IsEntry(Keyed(e, l)) /\ Keyed(e, l).code = e.code
           /\ \A field \in Fields :
                 Keyed(e, l).num[field] =
                    IF l.key = "num" /\ field = l.field THEN l.value ELSE e.num[field]
<1>1. IsEntry(Keyed(e, l)) /\ Keyed(e, l).code = e.code
      /\ Keyed(e, l).num = IF l.key = "num" THEN [e.num EXCEPT ![l.field] = l.value]
                            ELSE e.num
  BY KeyedIs
<1>2. DOMAIN e.num = Fields
  BY DEF IsEntry
<1> QED
  BY <1>1, <1>2

\* A key of those three kinds of sections.
LEMMA LexgionKeyRead ==
    ASSUME NEW f, IsFile(f), Proper(f), NEW n \in Nat, n + 1 \in DOMAIN f, ~IsHeader(f[n + 1]),
           ParseInv(f, n), section.kind \in LexgionSections,
           default' = IF section.kind = "default" THEN Keyed(default, f[n + 1]) ELSE default,
           domDefault' = IF section.kind = "domDefault"
                         THEN [domDefault EXCEPT ![section.dom] = Keyed(@, f[n + 1])]
                         ELSE domDefault,
           table' = [i \in DOMAIN table |->
                        IF i \in Targets THEN Keyed(table[i], f[n + 1]) ELSE table[i]],
           UNCHANGED section
    PROVE  ParseInv(f, n + 1)'
<1> DEFINE l == f[n + 1]
<1>1. n + 1 \notin Sections(f) /\ n + 1 \notin Defaults(f) /\ \A d : n + 1 \notin DefaultsOf(f, d)
  BY DEF Sections, Headers, Defaults, DefaultsOf
<1>2. SectionInv(f, n) /\ DefaultInv(f, n) /\ DomainInv(f, n) /\ TableInv(f, n)
  BY DEF ParseInv
<1>3. \A i, j : Current(f, i, n) /\ Current(f, j, n) => i = j
  BY CurrentOnly
<1>4. CASE section.kind = "default"
  <2>1. PICK j \in Defaults(f) : f[j].action = "SET" /\ Current(f, j, n)
    BY <1>2, <1>4 DEF SectionInv
  <2>2. DOMAIN table = {} /\ (\A d \in Domains : domDefault[d].code = Null)
        /\ \A i \in Headers(f) : i <= n => f[i].target # "Lexgion(D).default"
    <3>1. \A i \in Headers(f) : i <= n => i <= j
      <4>1. \A i \in Headers(f) : i <= n => ~(i > n)
        BY HeadersIn
      <4> QED
        BY <2>1, <4>1 DEF Current
    <3>2. \A i \in Headers(f) : i <= n =>
             f[i].target # "Lexgion(D).default" /\ f[i].target # "Lexgion"
      BY <3>1, NoneYet
    <3>3. DOMAIN table = {} /\ \A d \in Domains : domDefault[d].code = Null
      BY <1>2, <3>2, NoneYetTables
    <3> QED
      BY <3>2, <3>3
  <2>3. DefaultInv(f, n + 1)'
    <3>1. default' = Keyed(default, l)
      BY <1>4
    <3> DEFINE g == Keyed(default, l)
    <3>2. IsEntry(g) /\ \A field \in Fields :
             g.num[field] = IF l.key = "num" /\ field = l.field THEN l.value
                            ELSE default.num[field]
      <4>1. IsEntry(default)
        BY <1>2 DEF DefaultInv
      <4> QED
        BY <4>1, RateKeyed
    <3>3. l.key = "num" => DefaultAt(f, n + 1, l.field) = l.value
      BY <2>1, DefaultKey
    <3>4. \A field \in Fields : l.key # "num" \/ field # l.field =>
             DefaultAt(f, n + 1, field) = DefaultAt(f, n, field)
      BY DefaultOtherKey
    <3> HIDE DEF g
    <3>5. default' = g
      BY <3>1 DEF g
    <3> QED
      BY <1>2, <3>2, <3>3, <3>4, <3>5 DEF DefaultInv
  <2>4. DomainInv(f, n + 1)'
    <3>1. UNCHANGED domDefault
      BY <1>4
    <3>2. ASSUME NEW d \in Domains, NEW i \in DefaultsOf(f, d), i <= n + 1 PROVE FALSE
      <4>1. i \in Headers(f) /\ i \in Nat /\ i # n + 1 /\ f[i].target = "Lexgion(D).default"
        BY <1>1, HeadersIn DEF DefaultsOf
      <4>2. i <= n
        BY <3>2, <4>1
      <4> QED
        BY <2>2, <4>1, <4>2
    <3> QED
      BY <1>2, <2>2, <3>1, <3>2 DEF DomainInv
  <2>5. TableInv(f, n + 1)' /\ RemovedInv(f, n + 1)' /\ SectionInv(f, n + 1)'
    BY <2>2, TableKeyRead
  <2> QED
    BY <2>3, <2>4, <2>5 DEF ParseInv
<1>5. CASE section.kind # "default"
  <2>1. ASSUME NEW i \in Defaults(f), f[i].action = "SET" PROVE ~Current(f, i, n)
    BY <1>2, <1>5, <2>1 DEF SectionInv
  <2>2. DefaultInv(f, n + 1)' /\ \A field \in Fields :
           DefaultAt(f, n + 1, field) = DefaultAt(f, n, field)
    BY <1>2, <1>5, <2>1, QuietDefault
  <2>3. TableInv(f, n + 1)' /\ RemovedInv(f, n + 1)' /\ SectionInv(f, n + 1)'
    BY <2>2, TableKeyRead
  <2>4. DomainInv(f, n + 1)'
    <3>1. CASE section.kind # "domDefault"
      <4>1. \A d \in Domains : \A i \in DefaultsOf(f, d) :
               f[i].action = "SET" => ~Current(f, i, n)
        BY <1>2, <3>1 DEF SectionInv
      <4>2. UNCHANGED domDefault
        BY <3>1
      <4> QED
        BY <1>1, <1>2, <2>2, <4>1, <4>2, QuietDomain
    <3>2. CASE section.kind = "domDefault"
      <4> DEFINE c == section.dom
      <4>1. PICK j \in DefaultsOf(f, c) : f[j].action = "SET" /\ Current(f, j, n)
        BY <1>2, <3>2 DEF SectionInv
      <4>2. c \in Domains
        BY <1>2, <3>2 DEF SectionInv
      <4>3. /\ DOMAIN (domDefault') = Domains /\ domDefault'[c] = Keyed(domDefault[c], l)
            /\ \A d \in Domains : d # c => domDefault'[d] = domDefault[d]
        BY <1>2, <3>2, <4>2 DEF DomainInv
      <4>4. ASSUME NEW d \in Domains
            PROVE  /\ IsEntry(domDefault'[d])
                   /\ domDefault'[d].code # Null <=> \E i \in DefaultsOf(f, d) : i <= n + 1
                   /\ domDefault'[d].code # Null => \A field \in Fields :
                         domDefault'[d].num[field] = DomainAt(f, n + 1, d, field)
        <5>1. IsEntry(domDefault[d])
              /\ (domDefault[d].code # Null <=> \E i \in DefaultsOf(f, d) : i <= n)
              /\ (domDefault[d].code # Null => \A field \in Fields :
                     domDefault[d].num[field] = DomainAt(f, n, d, field))
          BY <1>2 DEF DomainInv
        <5>2. (\E i \in DefaultsOf(f, d) : i <= n + 1) <=> \E i \in DefaultsOf(f, d) : i <= n
          <6>1. \A i \in DefaultsOf(f, d) : i \in Nat /\ i # n + 1
            BY <1>1, HeadersIn, OwnHeaders
          <6>2. \A i \in DefaultsOf(f, d) : i <= n + 1 <=> i <= n
            BY <6>1
          <6> QED
            BY <6>2
        <5>3. CASE d = c
          <6> DEFINE e == domDefault[c]
          <6>1. domDefault'[d] = Keyed(e, l) /\ IsEntry(e)
            BY <4>3, <5>1, <5>3
          <6> HIDE DEF e
          <6>2. /\ IsEntry(Keyed(e, l)) /\ Keyed(e, l).code = e.code
                /\ \A field \in Fields :
                      Keyed(e, l).num[field] =
                        IF l.key = "num" /\ field = l.field THEN l.value ELSE e.num[field]
            BY <6>1, RateKeyed
          <6>3. l.key = "num" => DomainAt(f, n + 1, c, l.field) = l.value
            BY <4>1, DomainKey
          <6>4. \A field \in Fields : l.key # "num" \/ field # l.field =>
                   DomainAt(f, n + 1, c, field) = DomainAt(f, n, c, field)
            BY <2>2, DomainOtherKey
          <6> QED
            BY <5>1, <5>2, <5>3, <6>1, <6>2, <6>3, <6>4 DEF e
        <5>4. CASE d # c
          <6>1. \A i \in DefaultsOf(f, d) : ~Current(f, i, n)
            BY <1>3, <4>1, <5>4 DEF DefaultsOf
          <6>2. \A field \in Fields : DomainAt(f, n + 1, d, field) = DomainAt(f, n, d, field)
            BY <2>2, <6>1, DomainOtherKey
          <6> QED
            BY <4>3, <5>1, <5>2, <5>4, <6>2
        <5> QED
          BY <5>3, <5>4
      <4> QED
        BY <4>3, <4>4 DEF DomainInv
    <3> QED
      BY <3>1, <3>2
  <2> QED
    BY <2>2, <2>3, <2>4 DEF ParseInv
<1> QED
  BY <1>4, <1>5

-----------------------------------------------------------------------------
(***************************************************************************)
(* The parser's lines.                                                     *)
(***************************************************************************)
\* The parser has read n lines.
ReadTo(n) ==
    /\ n <= Len(file) /\ IsSeq(lines) /\ Len(lines) = Len(file) - n
    /\ \A i \in 1 .. Len(lines) : lines[i] = file[n + i]

\* The files are sequences of lines.
LEMMA FilesAre ==
    ASSUME NEW f \in Files
    PROVE  IsFile(f)
BY InputsAssumption DEF IsFile, Headers, IsHeader

\* What is left after a line.
LEMMA TailIs ==
    ASSUME NEW T, IsSeq(T), T # <<>>
    PROVE  /\ IsSeq(Tail(T)) /\ Len(Tail(T)) = Len(T) - 1 /\ Len(T) >= 1 /\ Head(T) = T[1]
           /\ \A i \in 1 .. Len(Tail(T)) : Tail(T)[i] = T[i + 1]
<1>1. PICK S : T \in Seq(S)
  BY DEF IsSeq
<1>2. Tail(T) \in Seq(S) /\ Len(Tail(T)) = Len(T) - 1 /\ Len(T) >= 1
  BY <1>1
<1>3. \A i \in 1 .. Len(Tail(T)) : Tail(T)[i] = T[i + 1]
  BY <1>1
<1> QED
  BY <1>2, <1>3 DEF IsSeq

\* One more line is read.
LEMMA ReadNext ==
    ASSUME NEW f, IsFile(f), file = f, file' = f, NEW n \in Nat, ReadTo(n), lines # <<>>,
           lines' = Tail(lines)
    PROVE  n + 1 \in DOMAIN f /\ Line = f[n + 1] /\ ReadTo(n + 1)'
<1>1. PICK m \in Nat : m = Len(f) /\ DOMAIN f = 1 .. m
  BY FileDomain
<1>2. IsSeq(lines) /\ Len(lines) = m - n /\ n <= m
      /\ \A i \in 1 .. Len(lines) : lines[i] = f[n + i]
  BY <1>1 DEF ReadTo
<1> DEFINE T == Tail(lines)
<1>3. IsSeq(T) /\ Len(T) = Len(lines) - 1 /\ Len(lines) >= 1 /\ Head(lines) = lines[1]
      /\ \A i \in 1 .. Len(T) : T[i] = lines[i + 1]
  BY <1>2, TailIs
<1>4. n + 1 \in DOMAIN f /\ Line = f[n + 1]
  BY <1>1, <1>2, <1>3 DEF Line
<1> HIDE DEF T
<1>5. Len(T) = m - (n + 1) /\ n + 1 <= m
  BY <1>2, <1>3
<1>6. ASSUME NEW i \in 1 .. Len(T) PROVE T[i] = f[(n + 1) + i]
  <2>1. i + 1 \in 1 .. Len(lines) /\ n + (i + 1) = (n + 1) + i
    BY <1>1, <1>2, <1>3
  <2> QED
    BY <1>2, <1>3, <2>1
<1>7. ReadTo(n + 1)' <=>
        /\ n + 1 <= Len(f) /\ IsSeq(T) /\ Len(T) = Len(f) - (n + 1)
        /\ \A i \in 1 .. Len(T) : T[i] = f[(n + 1) + i]
  BY DEF ReadTo, T
<1> QED
  BY <1>1, <1>3, <1>4, <1>5, <1>6, <1>7

\* What a line leaves alone, and how it is read.
LEMMA LineReads ==
    ASSUME ReadLine
    PROVE  /\ loader = "parsing" /\ loader' \in {"parsing", "crashed"}
           /\ loader' = "parsing" => lines # <<>> /\ lines' = Tail(lines)
           /\ UNCHANGED <<file, loads, counter, resolution>>
<1> DEFINE Goal == /\ loader = "parsing" /\ loader' \in {"parsing", "crashed"}
                   /\ loader' = "parsing" => lines # <<>> /\ lines' = Tail(lines)
                   /\ UNCHANGED <<file, loads, counter, resolution>>
<1>1. \A l : Read(l) => Goal
  BY DEF Read, run, published
<1>2. Crash => Goal
  BY DEF Crash, run, published
<1> HIDE DEF Goal
<1> SUFFICES Goal
  BY DEF Goal
<1>3. CASE HeadDefault \/ HeadDomainDefault \/ HeadTracing \/ HeadSampling \/ HeadRejected
  BY <1>1, <1>3, Zenon DEF HeadDefault, HeadDomainDefault, HeadTracing, HeadSampling,
     HeadRejected, AtHeader
<1>4. CASE HeadLexgions
  BY <1>1, <1>4, Zenon DEF HeadLexgions, AtHeader
<1>5. CASE HeadPlain \/ HeadPunits \/ HeadAllPunits
  BY <1>1, <1>5, Zenon DEF HeadPlain, HeadPunits, HeadAllPunits, AtHeader
<1>6. CASE KeyLexgion \/ KeySampling \/ KeyMode \/ KeyRange \/ KeyPolicy \/ KeyEvent
  BY <1>1, <1>6, Zenon DEF KeyLexgion, KeySampling, KeyMode, KeyRange, KeyPolicy, KeyEvent, Key
<1>7. CASE KeyKnob \/ KeyService \/ KeyDropped
  BY <1>1, <1>7, Zenon DEF KeyKnob, KeyService, KeyDropped, Key
<1> QED
  BY <1>2, <1>3, <1>4, <1>5, <1>6, <1>7 DEF ReadLine

\* The header of a section with a table of its own, as an entry of After.
LEMMA HeadLexgionsIs ==
    ASSUME HeadLexgions
    PROVE  /\ IsHeader(Line) /\ Line.target = "Lexgion"
           /\ After(Line, SelectAll(Line), table')
           /\ section' = IF SelectAll(Line).at = <<>> \/ Line.action = "SET"
                         THEN [Section("lexgions") EXCEPT !.at = SelectAll(Line).at]
                         ELSE NoSection
           /\ UNCHANGED <<default, domDefault>>
<1> DEFINE sel == SelectAll(Line)
           sets(i) == \E k \in DOMAIN sel.at : sel.at[k] = i
           W(i, e) == CASE Line.action = "SET" ->
                                  Limit(Inherit(e, Line.inherit), Line.limit)
                        [] Line.action = "REMOVE" -> [e EXCEPT !.removed = TRUE]
                        [] OTHER -> e
<1>1. /\ IsHeader(Line) /\ Line.target = "Lexgion"
      /\ table' = [i \in DOMAIN sel.table |->
                      IF sets(i) THEN W(i, sel.table[i]) ELSE sel.table[i]]
      /\ section' = IF sel.at = <<>> \/ Line.action = "SET"
                    THEN [Section("lexgions") EXCEPT !.at = sel.at]
                    ELSE NoSection
      /\ UNCHANGED <<default, domDefault>>
  BY Zenon DEF HeadLexgions, AtHeader
<1>2. \A i, e : W(i, e) = WrittenBy(Line, e)
  BY DEF WrittenBy
<1>3. \A i : sets(i) <=> Taken(sel, i)
  BY DEF Taken
<1> HIDE DEF sets, W, sel
<1>4. table' = [i \in DOMAIN sel.table |->
                   IF Taken(sel, i) THEN WrittenBy(Line, sel.table[i]) ELSE sel.table[i]]
  BY <1>1, <1>2, <1>3
<1> QED
  BY <1>1, <1>4 DEF After, sel

\* No line shortens the table.
LEMMA LineGrows ==
    ASSUME NEW f, IsFile(f), NEW n \in Nat, n + 1 \in DOMAIN f, Line = f[n + 1], IsSeq(table),
           ReadLine
    PROVE  IsSeq(table') /\ Len(table) <= Len(table')
<1>1. Len(table) \in Nat
  BY SeqFacts
<1>2. CASE UNCHANGED table
  BY <1>1, <1>2
<1>3. CASE HeadLexgions
  <2> DEFINE sel == SelectAll(Line)
  <2>1. IsHeader(Line) /\ After(Line, sel, table')
    BY <1>3, HeadLexgionsIs
  <2>2. Line.who \in Seq(Range(Line.who))
    BY <2>1 DEF IsFile, Headers
  <2>3. IsAcc(sel) /\ Len(table) <= Len(sel.table)
    BY <2>2, HeaderGrows
  <2> HIDE DEF sel
  <2>4. table' = [i \in DOMAIN sel.table |-> table'[i]]
    BY <2>1 DEF After
  <2>5. IsSeq(table') /\ Len(table') = Len(sel.table)
    BY <2>3, <2>4, MapSeq DEF IsAcc
  <2> QED
    BY <2>3, <2>5
<1>4. CASE KeyLexgion
  <2>1. table' = [i \in DOMAIN table |-> table'[i]]
    BY <1>4 DEF KeyLexgion
  <2>2. IsSeq(table') /\ Len(table') = Len(table)
    BY <2>1, MapSeq
  <2> QED
    BY <1>1, <2>2
<1>5. CASE HeadDefault \/ HeadDomainDefault \/ HeadTracing \/ HeadSampling \/ HeadRejected
  BY <1>2, <1>5, Zenon DEF HeadDefault, HeadDomainDefault, HeadTracing, HeadSampling,
     HeadRejected, lexgionTables, tables
<1>6. CASE Crash \/ HeadPlain \/ HeadPunits \/ HeadAllPunits
  BY <1>2, <1>6, Zenon DEF Crash, HeadPlain, HeadPunits, HeadAllPunits, lexgionTables, tables
<1>7. CASE KeySampling \/ KeyMode \/ KeyRange \/ KeyPolicy \/ KeyEvent
  BY <1>2, <1>7, Zenon DEF KeySampling, KeyMode, KeyRange, KeyPolicy, KeyEvent, lexgionTables
<1>8. CASE KeyKnob \/ KeyService \/ KeyDropped
  BY <1>2, <1>8, Zenon DEF KeyKnob, KeyService, KeyDropped, lexgionTables, tables
<1> QED
  BY <1>3, <1>4, <1>5, <1>6, <1>7, <1>8 DEF ReadLine

\* The headers of sections that are none of the lexgions'.
LEMMA OtherHeaderIs ==
    ASSUME \/ HeadTracing \/ HeadSampling \/ HeadRejected \/ HeadPlain
           \/ HeadPunits \/ HeadAllPunits,
           Line.action \in {"SET", "RESET", "REMOVE"}
    PROVE  /\ IsHeader(Line) /\ UNCHANGED lexgionTables
           /\ Line.target \notin {"Lexgion.default", "Lexgion(D).default", "Lexgion"}
           /\ section'.kind \notin LexgionSections /\ section'.at = <<>>
<1> DEFINE Plain(s) == s.kind \notin LexgionSections /\ s.at = <<>>
<1>1. Plain(NoSection)
  BY DEF NoSection, Section, DomainSection, LexgionSections
<1>2. /\ \A d : /\ Plain(DomainSection("tracing", d)) /\ Plain(DomainSection("sampling", d))
                /\ Plain(DomainSection("punit", d))
      /\ Plain(Section("tracing")) /\ Plain(Section("punit"))
      /\ \A k \in {"knob", "energy", "manifest"} : Plain(Section(k))
  BY DEF NoSection, Section, DomainSection, LexgionSections
<1>3. CASE HeadTracing
  <2>1. /\ IsHeader(Line) /\ Line.target = "D.tracing" /\ UNCHANGED lexgionTables
        /\ IF Line.dom \in Domains
           THEN section' = IF Line.action = "SET" THEN DomainSection("tracing", Line.dom)
                           ELSE NoSection
           ELSE section' = Section("tracing")
    BY <1>3, Zenon DEF HeadTracing, AtHeader
  <2>2. \/ section' = DomainSection("tracing", Line.dom) \/ section' = NoSection
        \/ section' = Section("tracing")
    BY <2>1
  <2>3. Plain(section')
    BY <1>1, <1>2, <2>2
  <2> QED
    BY <2>1, <2>3
<1>4. CASE HeadSampling
  <2>1. /\ IsHeader(Line) /\ Line.target = "D.sampling" /\ UNCHANGED lexgionTables
        /\ section' = IF Line.dom \in Domains /\ Line.action = "SET"
                      THEN DomainSection("sampling", Line.dom) ELSE NoSection
    BY <1>4, Zenon DEF HeadSampling, AtHeader
  <2>2. Plain(section')
    BY <1>1, <1>2, <2>1
  <2> QED
    BY <2>1, <2>2
<1>5. CASE HeadRejected
  <2>1. /\ IsHeader(Line) /\ Line.target = "D.default" /\ UNCHANGED lexgionTables
        /\ section' = NoSection
    BY <1>5 DEF HeadRejected, AtHeader, tables, lexgionTables
  <2> QED
    BY <1>1, <2>1
<1>6. CASE HeadPlain
  <2>1. PICK k \in {"knob", "energy", "manifest"} :
            IsHeader(Line) /\ Line.target = k /\ section' = Section(k)
    BY <1>6, Zenon DEF HeadPlain, AtHeader
  <2>2. UNCHANGED lexgionTables
    BY <1>6 DEF HeadPlain, tables, lexgionTables
  <2>3. Plain(section')
    BY <1>1, <1>2, <2>1
  <2> QED
    BY <2>1, <2>2, <2>3
<1>7. CASE HeadPunits
  <2> DEFINE p == PunitSet(NoUnits, <<[dom |-> Line.dom, ids |-> Line.ids]>>)
             d == Line.dom
             same == SameUnits(d, p.units)
             at == IF same # {} THEN Min(same) ELSE Len(punits[d]) + 1
  <2>1. /\ IsHeader(Line) /\ Line.target = "D.Kind" /\ UNCHANGED lexgionTables
    BY <1>7, Zenon DEF HeadPunits, AtHeader
  <2>2. \/ section' = NoSection
        \/ section' = Section("punit")
        \/ section' = DomainSection("punit", d)
        \/ section' = [DomainSection("punit", d) EXCEPT !.unit = at]
    <3> HIDE DEF p, d, same, at
    <3>1. CASE Line.action = "RESET"
      BY <1>7, <3>1 DEF HeadPunits, d, p, same, at
    <3>2. CASE Line.action # "RESET" /\ (d \notin Domains \/ ~p.ok)
      BY <1>7, <3>2 DEF HeadPunits, d, p, same, at
    <3>3. CASE Line.action = "REMOVE" /\ d \in Domains /\ p.ok
      BY <1>7, <3>3 DEF HeadPunits, d, p, same, at
    <3>4. CASE Line.action = "SET" /\ d \in Domains /\ p.ok
      BY <1>7, <3>4 DEF HeadPunits, d, p, same, at
    <3> QED
      BY <3>1, <3>2, <3>3, <3>4
  <2>3. [DomainSection("punit", d) EXCEPT !.unit = at].kind = "punit"
        /\ [DomainSection("punit", d) EXCEPT !.unit = at].at = <<>>
    BY DEF DomainSection, NoSection
  <2>4. Plain([DomainSection("punit", d) EXCEPT !.unit = at])
    BY <2>3 DEF LexgionSections
  <2> DEFINE S == [DomainSection("punit", d) EXCEPT !.unit = at]
  <2> HIDE DEF S
  <2>5. section' \in {NoSection, Section("punit"), DomainSection("punit", d), S}
    BY <2>2 DEF S
  <2>6. Plain(S)
    BY <2>4 DEF S
  <2>7. Plain(section')
    BY <1>1, <1>2, <2>5, <2>6
  <2> QED
    BY <2>1, <2>7
<1>8. CASE HeadAllPunits
  <2>1. /\ IsHeader(Line) /\ Line.target = "D.Kind(*)" /\ UNCHANGED lexgionTables
        /\ section' = IF Line.action = "SET" THEN Section("punit") ELSE NoSection
    BY <1>8, Zenon DEF HeadAllPunits, AtHeader
  <2>2. Plain(section')
    BY <1>1, <1>2, <2>1
  <2> QED
    BY <2>1, <2>2
<1> QED
  BY <1>3, <1>4, <1>5, <1>6, <1>7, <1>8

\* The keys of those sections, and those that nobody reads.
LEMMA OtherKeyIs ==
    ASSUME \/ KeySampling \/ KeyMode \/ KeyRange \/ KeyPolicy \/ KeyEvent
           \/ KeyKnob \/ KeyService \/ KeyDropped
    PROVE  /\ ~IsHeader(Line) /\ UNCHANGED <<lexgionTables, section>>
           /\ Line.key # "num" \/ section.kind \notin LexgionSections
<1>1. CASE KeySampling \/ KeyMode \/ KeyRange \/ KeyPolicy \/ KeyEvent
  <2>1. /\ ~IsHeader(Line) /\ UNCHANGED <<lexgionTables, section>>
        /\ Line.key \in {"sampling", "trace_mode", "Domain.PunitKind", "device_activity", "Event"}
    BY <1>1 DEF KeySampling, KeyMode, KeyRange, KeyPolicy, KeyEvent, Key, lexgionTables
  <2> QED
    BY <2>1
<1>2. CASE KeyKnob \/ KeyService
  <2>1. /\ ~IsHeader(Line) /\ UNCHANGED <<lexgionTables, section>>
        /\ Line.key \in {"knob", "measure", "interval"}
    BY <1>2 DEF KeyKnob, KeyService, Key, lexgionTables
  <2> QED
    BY <2>1
<1>3. CASE KeyDropped
  <2>1. /\ ~IsHeader(Line) /\ UNCHANGED <<lexgionTables, section>>
        /\ \/ section.kind \notin ReadIn(Line.key)
           \/ section.kind \in {"tracing", "punit"}
    BY <1>3 DEF KeyDropped, Key, tables, lexgionTables
  <2>2. Line.key = "num" => ReadIn(Line.key) = LexgionSections
    BY DEF ReadIn, LexgionKeys
  <2>3. {"tracing", "punit"} \cap LexgionSections = {}
    BY DEF LexgionSections
  <2> QED
    BY <2>1, <2>2, <2>3
<1> QED
  BY <1>1, <1>2, <1>3

\* One line of a proper file.
LEMMA LineRead ==
    ASSUME NEW f, IsFile(f), Proper(f), NEW n \in Nat, n + 1 \in DOMAIN f, Line = f[n + 1],
           ParseInv(f, n), ReadLine, loader' = "parsing", Len(table') < TableSize
    PROVE  ParseInv(f, n + 1)'
<1>1. CASE HeadDefault
  <2>1. /\ IsHeader(f[n + 1]) /\ f[n + 1].target = "Lexgion.default"
        /\ default' = CASE f[n + 1].action = "SET" -> Inherit(default, f[n + 1].inherit)
                        [] f[n + 1].action = "RESET" -> SystemDefault
                        [] OTHER -> default
        /\ section' = IF f[n + 1].action = "SET" THEN Section("default") ELSE NoSection
        /\ UNCHANGED <<domDefault, table>>
    BY <1>1 DEF HeadDefault, AtHeader
  <2> QED
    BY <2>1, DefaultHeaderRead
<1>2. CASE HeadDomainDefault
  <2> DEFINE h == f[n + 1]
  <2>1. /\ IsHeader(h) /\ h.target = "Lexgion(D).default"
        /\ IF h.dom \in Domains
           THEN LET e == Combined(h.dom, "user") IN
                /\ domDefault' = [domDefault EXCEPT ![h.dom] =
                       IF h.action = "SET" THEN Inherit(e, h.inherit) ELSE e]
                /\ section' = IF h.action = "SET"
                              THEN DomainSection("domDefault", h.dom) ELSE NoSection
           ELSE section' = NoSection /\ UNCHANGED domDefault
        /\ UNCHANGED <<default, table>>
    BY <1>2 DEF HeadDomainDefault, AtHeader
  <2> QED
    BY <2>1, DomainHeaderRead
<1>3. CASE HeadLexgions
  <2>1. /\ IsHeader(f[n + 1]) /\ f[n + 1].target = "Lexgion"
        /\ After(f[n + 1], SelectAll(f[n + 1]), table')
        /\ section' = IF SelectAll(f[n + 1]).at = <<>> \/ f[n + 1].action = "SET"
                      THEN [Section("lexgions") EXCEPT !.at = SelectAll(f[n + 1]).at]
                      ELSE NoSection
        /\ UNCHANGED <<default, domDefault>>
    BY <1>3, HeadLexgionsIs
  <2>2. Len(table') = Len(SelectAll(f[n + 1]).table)
    <3> DEFINE sel == SelectAll(f[n + 1])
    <3>1. f[n + 1].who \in Seq(Range(f[n + 1].who))
      BY <2>1 DEF IsFile, Headers
    <3>2. IsSeq(table)
      BY DEF ParseInv, TableInv, Structure
    <3>3. IsAcc(sel)
      BY <3>1, <3>2, HeaderGrows
    <3> HIDE DEF sel
    <3>4. table' = [i \in DOMAIN sel.table |-> table'[i]]
      BY <2>1 DEF After, sel
    <3>5. Len(table') = Len(sel.table)
      BY <3>3, <3>4, MapSeq DEF IsAcc
    <3> QED
      BY <3>5 DEF sel
  <2>3. Len(SelectAll(f[n + 1]).table) < TableSize
    BY <2>2
  <2> QED
    BY <2>1, <2>3, LexgionsHeaderRead
<1>4. CASE \/ HeadTracing \/ HeadSampling \/ HeadRejected \/ HeadPlain
           \/ HeadPunits \/ HeadAllPunits
  <2>1. IsHeader(Line)
    BY <1>4, Zenon DEF HeadTracing, HeadSampling, HeadRejected, HeadPlain, HeadPunits,
       HeadAllPunits, AtHeader
  <2>2. Line.action \in {"SET", "RESET", "REMOVE"}
    BY <2>1 DEF IsFile, Headers
  <2>3. /\ IsHeader(Line) /\ UNCHANGED lexgionTables
        /\ Line.target \notin {"Lexgion.default", "Lexgion(D).default", "Lexgion"}
        /\ section'.kind \notin LexgionSections /\ section'.at = <<>>
    BY <1>4, <2>2, OtherHeaderIs
  <2> QED
    BY <2>3, OtherHeader
<1>5. CASE KeyLexgion
  <2>1. /\ ~IsHeader(f[n + 1]) /\ section.kind \in LexgionSections
        /\ default' = (IF section.kind = "default" THEN Keyed(default, f[n + 1]) ELSE default)
        /\ domDefault' = (IF section.kind = "domDefault"
                          THEN [domDefault EXCEPT ![section.dom] = Keyed(@, f[n + 1])]
                          ELSE domDefault)
        /\ table' = [i \in DOMAIN table |->
                        IF i \in Targets THEN Keyed(table[i], f[n + 1]) ELSE table[i]]
        /\ UNCHANGED section
    BY <1>5 DEF KeyLexgion, Key
  <2> QED
    BY <2>1, LexgionKeyRead
<1>6. CASE \/ KeySampling \/ KeyMode \/ KeyRange \/ KeyPolicy \/ KeyEvent
           \/ KeyKnob \/ KeyService \/ KeyDropped
  <2>1. /\ ~IsHeader(Line) /\ UNCHANGED <<lexgionTables, section>>
        /\ Line.key # "num" \/ section.kind \notin LexgionSections
    BY <1>6, OtherKeyIs
  <2> QED
    BY <2>1, OtherKey
<1>7. CASE Crash
  BY <1>7 DEF Crash
<1> QED
  BY <1>1, <1>2, <1>3, <1>4, <1>5, <1>6, <1>7 DEF ReadLine

-----------------------------------------------------------------------------
(***************************************************************************)
(* The whole file.                                                         *)
(***************************************************************************)
LEMMA ValueWhole ==
    ASSUME NEW f, IsFile(f), NEW hs, NEW field, NEW base
    PROVE  ValueAt(f, Len(f), hs, field, base) = Value(f, hs, field, base)
<1>1. Given(f, Len(f), hs, field) = Giving(f, hs, field)
  BY FileDomain DEF Given, Giving
<1> QED
  BY <1>1 DEF ValueAt, Value

\* The default's value after the whole file is DefaultValue,
LEMMA DefaultWhole ==
    ASSUME NEW f, IsFile(f), NEW field
    PROVE  DefaultAt(f, Len(f), field) = DefaultValue(f, field)
<1> DEFINE own == {i \in Headers(f) : f[i].target = "Lexgion.default"}
<1>1. \A j \in Headers(f) : j <= Len(f)
  BY HeadersIn
<1>2. StandingAt(f, Len(f), Defaults(f)) =
        {i \in own : f[i].action = "SET" /\ \A j \in own : f[j].action = "RESET" => j < i}
  BY <1>1 DEF StandingAt, Defaults
<1>3. DefaultValue(f, field) =
        Value(f, {i \in own : f[i].action = "SET" /\ \A j \in own : f[j].action = "RESET" => j < i},
              field, SystemDefault.num[field])
  BY DEF DefaultValue, Standing
<1> HIDE DEF own
<1>4. DefaultAt(f, Len(f), field) =
        Value(f, StandingAt(f, Len(f), Defaults(f)), field, SystemDefault.num[field])
  BY ValueWhole DEF DefaultAt
<1> QED
  BY <1>2, <1>3, <1>4

\* and a domain's is DomainValue.
LEMMA DomainWhole ==
    ASSUME NEW f, IsFile(f), NEW d, NEW field
    PROVE  DomainAt(f, Len(f), d, field) = DomainValue(f, d, field)
<1> DEFINE own == {i \in Headers(f) : f[i].target = "Lexgion(D).default" /\ f[i].dom = d}
<1>1. \A j \in Headers(f) : j <= Len(f)
  BY HeadersIn
<1>2. StandingAt(f, Len(f), DefaultsOf(f, d)) =
        {i \in own : f[i].action = "SET" /\ \A j \in own : f[j].action = "RESET" => j < i}
  BY <1>1 DEF StandingAt, DefaultsOf
<1>3. DomainValue(f, d, field) =
        Value(f, {i \in own : f[i].action = "SET" /\ \A j \in own : f[j].action = "RESET" => j < i},
              field, DefaultValue(f, field))
  BY DEF DomainValue, Standing
<1> HIDE DEF own
<1>4. DomainAt(f, Len(f), d, field) =
        Value(f, StandingAt(f, Len(f), DefaultsOf(f, d)), field, DefaultValue(f, field))
  BY ValueWhole, DefaultWhole DEF DomainAt
<1> QED
  BY <1>2, <1>3, <1>4

\* The sections that ValueFor speaks of.
OfAddress(f, r) == {i \in Sections(f) : \E k \in DOMAIN f[i].who : f[i].who[k].code = r.code}
OfName(f, r) == {i \in Sections(f) : f[i].action = "SET" /\ \E k \in DOMAIN f[i].who :
                                        Fits(f[i].who[k], r)}
FirstAt(f, r) == Min({k \in DOMAIN f[Min(OfName(f, r))].who :
                         Fits(f[Min(OfName(f, r))].who[k], r)})
FirstOf(f, r) == f[Min(OfName(f, r))].who[FirstAt(f, r)]
SetOfAddress(f, r) == {i \in OfAddress(f, r) : f[i].action = "SET"}
SetLike(f, s) == {i \in Sections(f) : f[i].action = "SET" /\ \E k \in DOMAIN f[i].who :
                    /\ f[i].who[k].code = Null
                    /\ f[i].who[k].dom = s.dom /\ f[i].who[k].name = s.name}

\* ValueFor by its three cases.
LEMMA ValueForIs ==
    ASSUME NEW f, NEW r, NEW field
    PROVE  ValueFor(f, r, field) =
             IF OfAddress(f, r) # {} /\ f[Max(OfAddress(f, r))].action = "SET"
             THEN Value(f, SetOfAddress(f, r), field, DefaultValue(f, field))
             ELSE IF OfName(f, r) # {}
             THEN Value(f, SetLike(f, FirstOf(f, r)), field, DefaultValue(f, field))
             ELSE DomainValue(f, r.dom, field)
<1> DEFINE A == {i \in Headers(f) : f[i].target = "Lexgion"
                                    /\ \E k \in DOMAIN f[i].who : f[i].who[k].code = r.code}
           N == {i \in {i \in Headers(f) : f[i].target = "Lexgion"
                            /\ \E k \in DOMAIN f[i].who : Fits(f[i].who[k], r)} :
                   f[i].action = "SET"}
           who == f[Min(N)].who
           first == who[Min({k \in DOMAIN who : Fits(who[k], r)})]
           L == {i \in {i \in Headers(f) : f[i].target = "Lexgion"
                            /\ \E k \in DOMAIN f[i].who :
                                  /\ f[i].who[k].code = Null /\ f[i].who[k].dom = first.dom
                                  /\ f[i].who[k].name = first.name} :
                   f[i].action = "SET"}
<1>1. A = OfAddress(f, r) /\ {i \in A : f[i].action = "SET"} = SetOfAddress(f, r)
  BY DEF OfAddress, SetOfAddress, Sections
<1>2. N = OfName(f, r)
  BY DEF OfName, Sections
<1>3. first = FirstOf(f, r)
  BY <1>2 DEF FirstOf, FirstAt
<1>4. L = SetLike(f, first)
  BY DEF SetLike, Sections
<1>5. ValueFor(f, r, field) =
        IF A # {} /\ f[Max(A)].action = "SET"
        THEN Value(f, {i \in A : f[i].action = "SET"}, field, DefaultValue(f, field))
        ELSE IF N # {} THEN Value(f, L, field, DefaultValue(f, field))
        ELSE DomainValue(f, r.dom, field)
  BY DEF ValueFor, Naming
<1> HIDE DEF A, N, who, first, L
<1> QED
  BY <1>1, <1>2, <1>3, <1>4, <1>5

-----------------------------------------------------------------------------
\* What a load with room leaves.
Loaded(f) ==
    /\ DefaultInv(f, Len(f)) /\ TableInv(f, Len(f)) /\ RemovedInv(f, Len(f))
    /\ \A d \in Domains :
          /\ domDefault[d].code # Null
          /\ \A field \in Fields : domDefault[d].num[field] = DomainAt(f, Len(f), d, field)

\* The end of the file fills in the domains it has no section for.
LEMMA LoadEndLoads ==
    ASSUME NEW f, IsFile(f), ParseInv(f, Len(f)), LoadEnd
    PROVE  Loaded(f)'
<1>1. domDefault' = Filled /\ UNCHANGED <<default, table>>
  BY DEF LoadEnd
<1>2. DefaultInv(f, Len(f)) /\ DomainInv(f, Len(f)) /\ TableInv(f, Len(f))
      /\ RemovedInv(f, Len(f))
  BY DEF ParseInv
<1>3. DefaultInv(f, Len(f))' /\ TableInv(f, Len(f))' /\ RemovedInv(f, Len(f))'
  BY <1>1, <1>2 DEF DefaultInv, TableInv, RemovedInv
<1>4. ASSUME NEW d \in Domains
      PROVE  /\ domDefault'[d].code # Null
             /\ \A field \in Fields : domDefault'[d].num[field] = DomainAt(f, Len(f), d, field)
  <2>1. domDefault'[d] = IF domDefault[d].code = Null THEN Combined(d, "filled")
                         ELSE domDefault[d]
    BY <1>1 DEF Filled
  <2>2. CASE domDefault[d].code # Null
    BY <1>2, <2>1, <2>2 DEF DomainInv
  <2>3. CASE domDefault[d].code = Null
    <3>1. IsEntry(default)
      BY <1>2 DEF DefaultInv
    <3>2. domDefault'[d].code = "filled" /\ domDefault'[d].num = default.num
      BY <2>1, <2>3, <3>1, CombinedIs
    <3>3. "filled" # Null
      BY DEF Null
    <3>4. DefaultsOf(f, d) = {}
      <4>1. \A i \in DefaultsOf(f, d) : i <= Len(f)
        BY HeadersIn, OwnHeaders
      <4>2. ~\E i \in DefaultsOf(f, d) : i <= Len(f)
        BY <1>2, <2>3 DEF DomainInv
      <4> QED
        BY <4>1, <4>2
    <3>5. \A field \in Fields : DomainAt(f, Len(f), d, field) = DefaultAt(f, Len(f), field)
      <4> SUFFICES ASSUME NEW field \in Fields
                   PROVE  DomainAt(f, Len(f), d, field) = DefaultAt(f, Len(f), field)
        OBVIOUS
      <4> DEFINE hs == StandingAt(f, Len(f), DefaultsOf(f, d))
      <4>1. hs = {}
        BY <3>4 DEF StandingAt
      <4>2. hs \in SUBSET Headers(f) /\ (\A i \in hs : i >= Len(f)) /\ Len(f) \in Nat
        BY <4>1, FileDomain
      <4>3. DomainAt(f, Len(f), d, field) =
              ValueAt(f, Len(f), hs, field, DefaultAt(f, Len(f), field))
        BY DEF DomainAt
      <4> HIDE DEF hs
      <4> QED
        BY <4>2, <4>3, ValueNone
    <3> QED
      BY <1>2, <3>2, <3>3, <3>5 DEF DefaultInv
  <2> QED
    BY <2>2, <2>3
<1> QED
  BY <1>3, <1>4 DEF Loaded

-----------------------------------------------------------------------------
(***************************************************************************)
(* The search in the tables of such a load.                                *)
(***************************************************************************)
LEMMA SectionsActions ==
    ASSUME NEW f, IsFile(f), Proper(f), NEW i \in Sections(f)
    PROVE  /\ f[i].action = "SET" \/ f[i].action = "REMOVE"
           /\ i \in Nat /\ i <= Len(f) /\ f[i].who \in Seq(Range(f[i].who))
<1>1. i \in Headers(f) /\ f[i].target = "Lexgion"
  BY DEF Sections
<1> QED
  BY <1>1, HeadersIn DEF Proper, IsFile

\* The last section by address.
LEMMA MaxAddress ==
    ASSUME NEW f, IsFile(f), NEW r, OfAddress(f, r) # {}
    PROVE  /\ Max(OfAddress(f, r)) \in OfAddress(f, r)
           /\ \A i \in OfAddress(f, r) : i <= Max(OfAddress(f, r))
<1> DEFINE A == OfAddress(f, r)
<1>1. PICK n \in Nat : n = Len(f)
  BY FileDomain
<1>2. A \in SUBSET (0 .. n)
  <2> SUFFICES ASSUME NEW i \in A PROVE i \in 0 .. n
    OBVIOUS
  <2>1. i \in Headers(f)
    BY OwnHeaders DEF OfAddress
  <2>2. i \in Nat /\ i <= n
    BY <1>1, <2>1, HeadersIn
  <2> QED
    BY <1>1, <2>2
<1> HIDE DEF A
<1>3. A # {}
  BY DEF A
<1>4. PICK m \in A : m = Max(A) /\ \A i \in A : m >= i
  BY <1>1, <1>2, <1>3, MaxOf
<1>5. \A i \in A : i \in Nat /\ m \in Nat
  BY <1>2
<1>6. \A i \in A : i <= m
  BY <1>4, <1>5
<1> QED
  BY <1>4, <1>6 DEF A

\* The sections of an address list its entry.
LEMMA AddressEntry ==
    ASSUME NEW f, NEW r \in Regions, NEW e, e.code = r.code
    PROVE  /\ \A i \in Sections(f) : Lists(f, i, e) <=> i \in OfAddress(f, r)
           /\ SetSections(f, e) = SetOfAddress(f, r)
<1>1. r.code # Null
  BY InputsAssumption
<1>2. \A s : Same(s, e) <=> s.code = r.code
  BY <1>1 DEF Same
<1>3. \A i \in Sections(f) : Lists(f, i, e) <=> i \in OfAddress(f, r)
  BY <1>2 DEF Lists, OfAddress
<1>4. SetSections(f, e) = SetOfAddress(f, r)
  BY <1>3 DEF SetSections, SetOfAddress, OfAddress
<1> QED
  BY <1>3, <1>4

\* A region whose last section by address is a SET finds the entry,
LEMMA AddressSet ==
    ASSUME NEW f, IsFile(f), Proper(f), Loaded(f), NEW r \in Regions, OfAddress(f, r) # {},
           f[Max(OfAddress(f, r))].action = "SET"
    PROVE  \E e \in DOMAIN table : /\ ByAddress(r) = {e}
                                   /\ SetSections(f, table[e]) = SetOfAddress(f, r)
<1>1. PICK m \in OfAddress(f, r) : m = Max(OfAddress(f, r)) /\ \A i \in OfAddress(f, r) : i <= m
  BY MaxAddress
<1>2. m \in Sections(f) /\ f[m].action = "SET" /\ m <= Len(f) /\ r.code # Null
  BY <1>1, HeadersIn, OwnHeaders, InputsAssumption DEF OfAddress
<1>3. Structure(f, table, Len(f), 0) /\ Len(f) \in Nat
  BY FileDomain DEF Loaded, TableInv
<1>4. PICK e \in DOMAIN table : table[e].code = r.code
  <2>1. PICK k \in DOMAIN f[m].who : f[m].who[k].code = r.code
    BY <1>1 DEF OfAddress
  <2>2. Counts(f[m].action, f[m].who[k])
    BY <1>2, <2>1 DEF Counts
  <2>3. PICK x \in DOMAIN table : Same(f[m].who[k], table[x])
    BY <1>2, <1>3, <2>2, ListedBefore
  <2> QED
    BY <2>1, <2>3 DEF Same
<1>5. table[e].removed = FALSE
  <2>1. ~LastRemoves(f, Len(f), table[e])
    <3> SUFFICES ASSUME NEW i \in Sections(f), i <= Len(f), f[i].action = "REMOVE",
                        Lists(f, i, table[e]),
                        \A j \in Sections(f) : j <= Len(f) /\ Lists(f, j, table[e]) => j <= i
                 PROVE  FALSE
      BY DEF LastRemoves
    <3>1. i \in OfAddress(f, r)
      BY <1>4, AddressEntry
    <3>2. Lists(f, m, table[e])
      BY <1>2, <1>4, AddressEntry
    <3>3. i <= m /\ m <= i /\ i \in Nat /\ m \in Nat
      BY <1>1, <1>2, <3>1, <3>2, HeadersIn, OwnHeaders
    <3>4. i = m
      BY <3>3
    <3> QED
      BY <1>2, <3>4
  <2> QED
    BY <1>2, <1>4, <2>1 DEF Loaded, RemovedInv
<1>6. ASSUME NEW g \in DOMAIN table, table[g].code = r.code PROVE g = e
  <2>1. Same(table[g], table[e])
    BY <1>2, <1>4, <1>6 DEF Same
  <2> QED
    BY <1>3, <2>1 DEF Structure
<1>7. ByAddress(r) = {e}
  BY <1>4, <1>5, <1>6 DEF ByAddress
<1> QED
  BY <1>4, <1>7, AddressEntry

\* and one whose last is a REMOVE, or that has none, finds nothing by address.
LEMMA AddressNone ==
    ASSUME NEW f, IsFile(f), Proper(f), Loaded(f), NEW r \in Regions,
           OfAddress(f, r) # {} => f[Max(OfAddress(f, r))].action # "SET"
    PROVE  ByAddress(r) = {}
<1> SUFFICES ASSUME NEW e \in ByAddress(r) PROVE FALSE
  OBVIOUS
<1>1. e \in DOMAIN table /\ table[e].code = r.code /\ ~table[e].removed /\ r.code # Null
  BY InputsAssumption DEF ByAddress
<1>2. Structure(f, table, Len(f), 0)
  BY DEF Loaded, TableInv
<1>3. PICK i, k : Seen(f, i, k, Len(f), 0) /\ Same(f[i].who[k], table[e])
  BY <1>1, <1>2 DEF Structure
<1>4. i \in OfAddress(f, r)
  BY <1>1, <1>3 DEF OfAddress, Seen, Same
<1>5. PICK m \in OfAddress(f, r) : m = Max(OfAddress(f, r)) /\ \A j \in OfAddress(f, r) : j <= m
  BY <1>4, MaxAddress
<1>6. m \in Sections(f) /\ f[m].action = "REMOVE" /\ m <= Len(f)
  BY <1>4, <1>5, SectionsActions DEF OfAddress
<1>7. LastRemoves(f, Len(f), table[e])
  <2>1. Lists(f, m, table[e]) /\ \A j \in Sections(f) : Lists(f, j, table[e]) => j <= m
    BY <1>1, <1>5, <1>6, AddressEntry
  <2> QED
    BY <1>6, <2>1 DEF LastRemoves
<1>8. table[e].removed = TRUE
  BY <1>1, <1>7 DEF Loaded, RemovedInv
<1> QED
  BY <1>1, <1>8

-----------------------------------------------------------------------------
\* Every name of an entry has the entry's file.
LEMMA EntryHint ==
    ASSUME NEW f, OneFile(f), NEW T, NEW n, Structure(f, T, n, 0), NEW e \in DOMAIN T,
           T[e].code = Null, NEW i, NEW k, Seen(f, i, k, n, 0), Same(f[i].who[k], T[e])
    PROVE  f[i].who[k].hint = T[e].hint
<1>1. PICK j, l : /\ Seen(f, j, l, n, 0) /\ Same(f[j].who[l], T[e])
                  /\ T[e].code = Null => f[j].who[l].hint = T[e].hint
  BY DEF Structure
<1>2. /\ i \in Headers(f) /\ f[i].target = "Lexgion" /\ f[i].who[k] \in Range(f[i].who)
      /\ j \in Headers(f) /\ f[j].target = "Lexgion" /\ f[j].who[l] \in Range(f[j].who)
  BY <1>1 DEF Seen, Sections, Range
<1>3. /\ f[i].who[k].code = Null /\ f[j].who[l].code = Null
      /\ f[i].who[k].dom = f[j].who[l].dom /\ f[i].who[k].name = f[j].who[l].name
  BY <1>1 DEF Same
<1>4. f[i].who[k].hint = f[j].who[l].hint
  BY <1>2, <1>3 DEF OneFile
<1> QED
  BY <1>1, <1>4

\* An entry is of a region just if the names it stands for are.
LEMMA EntryFits ==
    ASSUME NEW f, IsFile(f), Proper(f), OneFile(f), Loaded(f), NEW r, NEW e \in DOMAIN table,
           NEW i, NEW k, Seen(f, i, k, Len(f), 0), Same(f[i].who[k], table[e])
    PROVE  e \in ByName(r) <=> Fits(f[i].who[k], r)
<1> DEFINE s == f[i].who[k]
<1>1. Structure(f, table, Len(f), 0)
  BY DEF Loaded, TableInv
<1>2. CASE table[e].code # Null
  BY <1>2 DEF ByName, Fits, Same
<1>3. CASE table[e].code = Null
  <2>1. table[e].removed = FALSE
    BY <1>3 DEF Loaded, RemovedInv
  <2>2. s.code = Null /\ s.dom = table[e].dom /\ s.name = table[e].name
        /\ s.hint = table[e].hint
    BY <1>1, <1>3, EntryHint DEF Same
  <2> HIDE DEF s
  <2> QED
    BY <1>3, <2>1, <2>2 DEF ByName, Fits, s
<1> QED
  BY <1>2, <1>3

\* A name that is seen and is a region's is in a SET section of it.
LEMMA FitsOfName ==
    ASSUME NEW f, IsFile(f), Proper(f), NEW r, NEW i, NEW k, Seen(f, i, k, Len(f), 0),
           Fits(f[i].who[k], r)
    PROVE  i \in OfName(f, r)
<1>1. i \in Sections(f) /\ k \in DOMAIN f[i].who /\ Counts(f[i].action, f[i].who[k])
  BY DEF Seen
<1>2. f[i].action # "REMOVE"
  BY <1>1 DEF Counts, Fits
<1>3. f[i].action = "SET"
  BY <1>1, <1>2, SectionsActions
<1> QED
  BY <1>1, <1>3 DEF OfName

\* A region without a section by name finds nothing by name.
LEMMA NameNone ==
    ASSUME NEW f, IsFile(f), Proper(f), OneFile(f), Loaded(f), NEW r, OfName(f, r) = {}
    PROVE  ByName(r) = {}
<1> SUFFICES ASSUME NEW e \in ByName(r) PROVE FALSE
  OBVIOUS
<1>1. e \in DOMAIN table
  BY DEF ByName
<1>2. PICK i, k : Seen(f, i, k, Len(f), 0) /\ Same(f[i].who[k], table[e])
  BY <1>1 DEF Loaded, TableInv, Structure
<1>3. Fits(f[i].who[k], r)
  BY <1>1, <1>2, EntryFits
<1> QED
  BY <1>2, <1>3, FitsOfName

\* The first name is the one that is searched for.
LEMMA FirstIs ==
    ASSUME NEW f, IsFile(f), Proper(f), NEW r \in Regions, OfName(f, r) # {}
    PROVE  \E i, k : /\ Seen(f, i, k, Len(f), 0) /\ FirstOf(f, r) = f[i].who[k]
                     /\ f[i].action = "SET" /\ Fits(f[i].who[k], r)
                     /\ \A j, l : Seen(f, j, l, Len(f), 0) /\ Fits(f[j].who[l], r)
                                  => ~(j < i) /\ ~(j = i /\ l < k)
<1> DEFINE N == OfName(f, r)
<1>1. N \in SUBSET Nat /\ N # {}
  BY HeadersIn, OwnHeaders DEF OfName
<1>2. PICK i \in N : i = Min(N) /\ \A j \in N : i <= j
  <2> HIDE DEF N
  <2> QED
    BY <1>1, MinOf
<1>3. i \in Sections(f) /\ f[i].action = "SET" /\ i \in Nat /\ i <= Len(f)
      /\ f[i].who \in Seq(Range(f[i].who))
  BY <1>2, SectionsActions DEF OfName
<1> DEFINE K == {k \in DOMAIN f[i].who : Fits(f[i].who[k], r)}
<1>4. K \in SUBSET Nat /\ K # {}
  <2>1. \E k \in DOMAIN f[i].who : Fits(f[i].who[k], r)
    BY <1>2 DEF OfName
  <2>2. DOMAIN f[i].who \subseteq Nat
    BY <1>3
  <2> QED
    BY <2>1, <2>2
<1>5. PICK k \in K : k = Min(K) /\ \A l \in K : k <= l
  <2> HIDE DEF K
  <2> QED
    BY <1>4, MinOf
<1>6. FirstOf(f, r) = f[i].who[k]
  BY <1>2, <1>5 DEF FirstOf, FirstAt
<1>7. Seen(f, i, k, Len(f), 0)
  <2>1. f[i].who[k].dom \in Domains \cup {AnyDomain} /\ f[i].who[k].name # ""
    <3>1. r.dom \in Domains
      BY InputsAssumption
    <3> QED
      BY <1>5, <3>1 DEF Fits
  <2>2. Counts(f[i].action, f[i].who[k])
    BY <1>3, <2>1 DEF Counts
  <2> QED
    BY <1>3, <1>5, <2>2 DEF Seen
<1>8. ASSUME NEW j, NEW l, Seen(f, j, l, Len(f), 0), Fits(f[j].who[l], r)
      PROVE  ~(j < i) /\ ~(j = i /\ l < k)
  <2>1. j \in N
    BY <1>8, FitsOfName
  <2>2. i <= j /\ i \in Nat /\ j \in Nat
    BY <1>1, <1>2, <2>1
  <2>3. ASSUME j = i PROVE k <= l /\ k \in Nat /\ l \in Nat
    <3>1. l \in K
      BY <1>8, <2>3 DEF Seen
    <3> QED
      BY <1>4, <1>5, <3>1
  <2> QED
    BY <2>2, <2>3
<1>9. Fits(f[i].who[k], r)
  BY <1>5
<1> HIDE DEF K, N
<1> QED
  BY <1>3, <1>6, <1>7, <1>8, <1>9

\* And one that has one finds the entry of the first.
LEMMA NameSet ==
    ASSUME NEW f, IsFile(f), Proper(f), OneFile(f), Loaded(f), NEW r \in Regions,
           OfName(f, r) # {}
    PROVE  \E e \in DOMAIN table : /\ ByName(r) # {} /\ Min(ByName(r)) = e
                                   /\ SetSections(f, table[e]) = SetLike(f, FirstOf(f, r))
<1>1. PICK i, k : /\ Seen(f, i, k, Len(f), 0) /\ FirstOf(f, r) = f[i].who[k]
                  /\ f[i].action = "SET" /\ Fits(f[i].who[k], r)
                  /\ \A j, l : Seen(f, j, l, Len(f), 0) /\ Fits(f[j].who[l], r)
                               => ~(j < i) /\ ~(j = i /\ l < k)
  BY FirstIs
<1>2. Structure(f, table, Len(f), 0)
  BY DEF Loaded, TableInv
<1>3. PICK e \in DOMAIN table : Same(f[i].who[k], table[e])
  BY <1>1, <1>2 DEF Structure
<1>4. e \in ByName(r)
  BY <1>1, <1>3, EntryFits
<1>5. DOMAIN table \subseteq Nat
  BY <1>2, SeqFacts DEF Structure
<1>6. ASSUME NEW g \in ByName(r), g < e PROVE FALSE
  <2>1. g \in DOMAIN table
    BY DEF ByName
  <2>2. PICK j, l : /\ Seen(f, j, l, Len(f), 0) /\ Same(f[j].who[l], table[g])
                    /\ \A p, q : Seen(f, p, q, Len(f), 0) /\ Same(f[p].who[q], table[e])
                                 => j < p \/ (j = p /\ l < q)
    BY <1>2, <1>6, <2>1 DEF Structure
  <2>3. Fits(f[j].who[l], r)
    BY <2>1, <2>2, EntryFits
  <2>4. j < i \/ (j = i /\ l < k)
    BY <1>1, <1>3, <2>2
  <2> QED
    BY <1>1, <2>2, <2>3, <2>4
<1>7. Min(ByName(r)) = e
  <2> DEFINE S == ByName(r)
  <2>1. S \in SUBSET Nat /\ S # {}
    BY <1>4, <1>5 DEF ByName
  <2> HIDE DEF S
  <2>2. PICK x \in S : x = Min(S) /\ \A y \in S : x <= y
    BY <2>1, MinOf
  <2>3. x <= e /\ x \in Nat /\ e \in Nat /\ ~(x < e)
    BY <1>4, <1>6, <2>1, <2>2 DEF S
  <2>4. x = e
    BY <2>3
  <2> QED
    BY <2>2, <2>4 DEF S
<1>8. SetSections(f, table[e]) = SetLike(f, FirstOf(f, r))
  <2> DEFINE s == FirstOf(f, r)
  <2>1. s.code = Null /\ Same(s, table[e])
    BY <1>1, <1>3 DEF Fits
  <2> HIDE DEF s
  <2>2. \A t : Same(t, table[e]) <=> t.code = Null /\ t.dom = s.dom /\ t.name = s.name
    BY <2>1 DEF Same
  <2>3. SetSections(f, table[e]) = SetLike(f, s)
    BY <2>2 DEF SetSections, SetLike, Lists
  <2> QED
    BY <2>3 DEF s
<1> QED
  BY <1>4, <1>7, <1>8

\* The search finds the entry of the section that ValueFor speaks of.
LEMMA LoadedEffective ==
    ASSUME NEW f, IsFile(f), Proper(f), OneFile(f), Loaded(f), NEW r \in Regions,
           NEW field \in Fields
    PROVE  Entry(Lookup(r)).num[field] = ValueFor(f, r, field)
<1>1. ASSUME NEW e \in DOMAIN table
      PROVE  table[e].num[field] =
               Value(f, SetSections(f, table[e]), field, DefaultValue(f, field))
  <2>1. table[e].num[field] =
          ValueAt(f, Len(f), SetSections(f, table[e]), field, DefaultAt(f, Len(f), field))
    BY DEF Loaded, TableInv
  <2> QED
    BY <2>1, ValueWhole, DefaultWhole
<1>2. DOMAIN table \subseteq Nat
  BY SeqFacts DEF Loaded, TableInv, Structure
<1>3. CASE OfAddress(f, r) # {} /\ f[Max(OfAddress(f, r))].action = "SET"
  <2>1. PICK e \in DOMAIN table : ByAddress(r) = {e}
                                  /\ SetSections(f, table[e]) = SetOfAddress(f, r)
    BY <1>3, AddressSet
  <2>2. Min({e}) = e
    BY <1>2, MinOf
  <2>3. Lookup(r) = [Level("table") EXCEPT !.at = e]
    BY <2>1, <2>2 DEF Lookup
  <2>4. Entry(Lookup(r)) = table[e]
    BY <2>3 DEF Entry, Level, NoEntry
  <2> QED
    BY <1>1, <1>3, <2>1, <2>4, ValueForIs
<1>4. CASE ~(OfAddress(f, r) # {} /\ f[Max(OfAddress(f, r))].action = "SET")
  <2>1. ByAddress(r) = {}
    BY <1>4, AddressNone
  <2>2. CASE OfName(f, r) # {}
    <3>1. PICK e \in DOMAIN table : /\ ByName(r) # {} /\ Min(ByName(r)) = e
                                    /\ SetSections(f, table[e]) = SetLike(f, FirstOf(f, r))
      BY <2>2, NameSet
    <3>2. Lookup(r) = [Level("table") EXCEPT !.at = e]
      BY <2>1, <3>1 DEF Lookup
    <3>3. Entry(Lookup(r)) = table[e]
      BY <3>2 DEF Entry, Level, NoEntry
    <3> QED
      BY <1>1, <1>4, <2>2, <3>1, <3>3, ValueForIs
  <2>3. CASE OfName(f, r) = {}
    <3>1. ByName(r) = {}
      BY <2>3, NameNone
    <3>2. r.dom \in Domains
      BY InputsAssumption
    <3>3. domDefault[r.dom].code # Null
          /\ domDefault[r.dom].num[field] = DomainAt(f, Len(f), r.dom, field)
      BY <3>2 DEF Loaded
    <3>4. Lookup(r) = [Level("domain") EXCEPT !.dom = r.dom]
      BY <2>1, <3>1, <3>3 DEF Lookup
    <3>5. Entry(Lookup(r)) = domDefault[r.dom]
      BY <3>4 DEF Entry, Level, NoEntry
    <3>6. DomainAt(f, Len(f), r.dom, field) = DomainValue(f, r.dom, field)
      BY DomainWhole
    <3> QED
      BY <1>4, <2>3, <3>3, <3>5, <3>6, ValueForIs
  <2> QED
    BY <2>2, <2>3
<1> QED
  BY <1>3, <1>4

-----------------------------------------------------------------------------
(***************************************************************************)
(* A fresh start.                                                          *)
(***************************************************************************)
StartInv ==
    loader = "start" =>
        /\ loads = 0 /\ counter = 0 /\ default = SystemDefault
        /\ domDefault = [d \in Domains |-> SystemDefault] /\ table = <<>>

FileInv ==
    /\ loads \in Nat
    /\ loader # "start" => loads >= 1
    /\ loads <= 1 => file \in Files

ReadInv ==
    loader = "parsing" /\ loads = 1 =>
        \E n \in Nat : /\ ReadTo(n) /\ IsSeq(table)
                       /\ Proper(file) /\ Len(table) < TableSize => ParseInv(file, n)

LoadedInv ==
    /\ loader = "environment" /\ loads = 1 /\ counter = 1
    /\ Proper(file) /\ Len(table) < TableSize
    => Loaded(file)

FirstInv == StartInv /\ FileInv /\ ReadInv /\ LoadedInv

\* Before the first line the tables say what no line says.
LEMMA StartParses ==
    ASSUME NEW f, IsFile(f), default = SystemDefault, UNCHANGED default,
           domDefault' = [d \in Domains |-> [SystemDefault EXCEPT !.code = Null]],
           section' = NoSection, DOMAIN (table') = {}, IsSeq(table')
    PROVE  ParseInv(f, 0)'
<1>1. \A i \in Headers(f) : ~(i <= 0)
  BY HeadersIn
<1>2. SectionInv(f, 0)'
  <2>1. \A i : ~Current(f, i, 0)
    BY <1>1 DEF Current
  <2> QED
    BY <2>1 DEF SectionInv, NoSection
<1>3. DefaultInv(f, 0)'
  <2>1. ASSUME NEW field \in Fields PROVE DefaultAt(f, 0, field) = SystemDefault.num[field]
    <3> DEFINE hs == StandingAt(f, 0, Defaults(f))
    <3>1. hs \in SUBSET Headers(f)
      BY OwnHeaders, StandingIn
    <3>2. (\A i \in hs : i >= 0) /\ 0 \in Nat
      BY <3>1, HeadersIn
    <3>3. DefaultAt(f, 0, field) = ValueAt(f, 0, hs, field, SystemDefault.num[field])
      BY DEF DefaultAt
    <3> HIDE DEF hs
    <3> QED
      BY <3>1, <3>2, <3>3, ValueNone
  <2> QED
    BY <2>1, SystemIs DEF DefaultInv
<1>4. DomainInv(f, 0)'
  <2> DEFINE e == [SystemDefault EXCEPT !.code = Null]
  <2>1. IsEntry(e) /\ e.code = Null
    BY SystemIs DEF IsEntry, EntryFields
  <2>2. \A d \in Domains : \A i \in DefaultsOf(f, d) : ~(i <= 0)
    BY <1>1, OwnHeaders
  <2>3. DOMAIN (domDefault') = Domains /\ \A d \in Domains : domDefault'[d] = e
    OBVIOUS
  <2> HIDE DEF e
  <2> QED
    BY <2>1, <2>2, <2>3 DEF DomainInv
<1>5. TableInv(f, 0)'
  <2>1. ASSUME NEW i, NEW k, Seen(f, i, k, 0, 0) PROVE FALSE
    <3>1. i \in Sections(f) /\ k \in DOMAIN f[i].who /\ (i <= 0 \/ k <= 0)
      BY <2>1 DEF Seen
    <3>2. i \in Headers(f)
      BY <3>1 DEF Sections
    <3>3. f[i].who \in Seq(Range(f[i].who))
      BY <3>2 DEF IsFile
    <3>4. ~(k <= 0)
      BY <3>1, <3>3
    <3> QED
      BY <1>1, <3>1, <3>2, <3>4
  <2>2. Structure(f, table', 0, 0)
    BY <2>1 DEF Structure
  <2> QED
    BY <2>2 DEF TableInv
<1>6. RemovedInv(f, 0)'
  BY DEF RemovedInv
<1> QED
  BY <1>2, <1>3, <1>4, <1>5, <1>6 DEF ParseInv

\* The first load begins.
LEMMA StartFirst ==
    ASSUME FirstInv, Start
    PROVE  FirstInv'
<1>1. /\ loader = "start" /\ loads = 0 /\ counter = 0 /\ default = SystemDefault
      /\ domDefault = [d \in Domains |-> SystemDefault] /\ table = <<>> /\ file \in Files
  BY DEF FirstInv, StartInv, FileInv, Start
<1>2. /\ loader' = "parsing" /\ loads' = loads + 1 /\ file' = file /\ lines' = file
      /\ section' = NoSection /\ UNCHANGED default
      /\ domDefault' = [d \in Domains |-> [domDefault[d] EXCEPT !.code = Null]]
      /\ table' = [i \in DOMAIN table |->
                      [table[i] EXCEPT !.removed = @ \/ table[i].name # ""]]
  BY <1>1, Zenon DEF Start, Begin
<1>3. loads' = 1
  BY <1>1, <1>2
<1>4. PICK f \in Files : f = file
  BY <1>1
<1>5. IsFile(f)
  BY FilesAre
<1>6. IsSeq(table') /\ DOMAIN (table') = {}
  <2>1. IsSeq(table) /\ DOMAIN table = {}
    <3>1. <<>> \in Seq({}) /\ DOMAIN <<>> = {}
      OBVIOUS
    <3> QED
      BY <1>1, <3>1 DEF IsSeq
  <2>2. table' = [i \in DOMAIN table |-> table'[i]]
    BY <1>2
  <2> QED
    BY <2>1, <2>2, MapSeq
<1>7. ParseInv(f, 0)'
  <2>1. domDefault' = [d \in Domains |-> [SystemDefault EXCEPT !.code = Null]]
    BY <1>1, <1>2
  <2> QED
    BY <1>1, <1>2, <1>5, <1>6, <2>1, StartParses
<1>8. ReadTo(0)'
  <2>1. PICK m \in Nat : m = Len(f) /\ DOMAIN f = 1 .. m
    BY <1>5, FileDomain
  <2>2. IsSeq(f)
    BY <1>5 DEF IsFile, IsSeq
  <2>3. 0 <= m /\ m = m - 0 /\ \A i \in 1 .. m : f[i] = f[0 + i]
    OBVIOUS
  <2>4. ReadTo(0)' <=> /\ 0 <= Len(f) /\ IsSeq(f) /\ Len(f) = Len(f) - 0
                       /\ \A i \in 1 .. Len(f) : f[i] = f[0 + i]
    BY <1>2, <1>4 DEF ReadTo
  <2> QED
    BY <2>1, <2>2, <2>3, <2>4
<1>9. ReadInv'
  <2>1. f = file'
    BY <1>2, <1>4
  <2>2. (ReadTo(0) /\ IsSeq(table) /\ ParseInv(file, 0))'
    BY <1>6, <1>7, <1>8, <2>1
  <2> QED
    BY <2>2 DEF ReadInv
<1> QED
  BY <1>1, <1>2, <1>3, <1>9 DEF FirstInv, StartInv, FileInv, LoadedInv

\* A line of it.
LEMMA LineFirst ==
    ASSUME FirstInv, ReadLine
    PROVE  FirstInv'
<1>1. /\ loader = "parsing" /\ loader' \in {"parsing", "crashed"}
      /\ loader' = "parsing" => lines # <<>> /\ lines' = Tail(lines)
      /\ UNCHANGED <<file, loads, counter, resolution>>
  BY LineReads
<1>2. FileInv' /\ StartInv' /\ LoadedInv'
  BY <1>1 DEF FirstInv, FileInv, StartInv, LoadedInv
<1>3. ASSUME loader' = "parsing", loads' = 1
      PROVE  \E n \in Nat : (/\ ReadTo(n) /\ IsSeq(table)
                             /\ Proper(file) /\ Len(table) < TableSize => ParseInv(file, n))'
  <2>1. loads = 1 /\ file \in Files /\ lines # <<>> /\ lines' = Tail(lines)
    BY <1>1, <1>3 DEF FirstInv, FileInv
  <2>2. PICK f \in Files : f = file /\ f = file'
    BY <1>1, <2>1
  <2>3. IsFile(f)
    BY FilesAre
  <2>4. PICK n \in Nat : /\ ReadTo(n) /\ IsSeq(table)
                         /\ Proper(file) /\ Len(table) < TableSize => ParseInv(file, n)
    BY <1>1, <2>1 DEF FirstInv, ReadInv
  <2>5. n + 1 \in DOMAIN f /\ Line = f[n + 1] /\ ReadTo(n + 1)'
    BY <2>1, <2>2, <2>3, <2>4, ReadNext
  <2>6. IsSeq(table') /\ Len(table) <= Len(table')
    BY <2>3, <2>4, <2>5, LineGrows
  <2>7. ASSUME Proper(f), Len(table') < TableSize
        PROVE  ParseInv(f, n + 1)'
    <3>1. PICK a \in Nat, b \in Nat : a = Len(table) /\ b = Len(table')
      BY <2>4, <2>6, SeqFacts
    <3>2. a < TableSize
      BY <2>6, <2>7, <3>1, ConfigAssumption
    <3>3. ParseInv(f, n)
      BY <2>2, <2>4, <2>7, <3>1, <3>2
    <3> QED
      BY <1>3, <2>3, <2>5, <2>7, <3>3, LineRead
  <2>8. (Proper(file) /\ Len(table) < TableSize => ParseInv(file, n + 1))'
    <3>1. Proper(f) /\ Len(table') < TableSize => ParseInv(f, n + 1)'
      BY <2>7
    <3> QED
      BY <2>2, <3>1
  <2> QED
    BY <2>5, <2>6, <2>8
<1>4. ReadInv'
  BY <1>3 DEF ReadInv
<1> QED
  BY <1>2, <1>4 DEF FirstInv

\* Its end.
LEMMA LoadFirst ==
    ASSUME FirstInv, LoadEnd
    PROVE  FirstInv'
<1>1. /\ loader = "parsing" /\ lines = <<>> /\ loader' \in {"environment", "dump"}
      /\ UNCHANGED <<file, loads, table>>
  BY DEF LoadEnd, run
<1>2. FileInv' /\ StartInv' /\ ReadInv'
  BY <1>1 DEF FirstInv, FileInv, StartInv, ReadInv
<1>3. ASSUME loads' = 1, Proper(file'), Len(table') < TableSize
      PROVE  Loaded(file)'
  <2>1. loads = 1 /\ file \in Files
    BY <1>1, <1>3 DEF FirstInv, FileInv
  <2>2. PICK f \in Files : f = file /\ f = file'
    BY <1>1, <2>1
  <2>3. IsFile(f)
    BY FilesAre
  <2>4. PICK n \in Nat : /\ ReadTo(n) /\ IsSeq(table)
                         /\ Proper(file) /\ Len(table) < TableSize => ParseInv(file, n)
    BY <1>1, <2>1 DEF FirstInv, ReadInv
  <2>5. Proper(file) /\ Len(table) < TableSize
    BY <1>1, <1>3, <2>2
  <2>6. n = Len(f)
    <3>1. PICK m \in Nat : m = Len(f)
      BY <2>3, FileDomain
    <3>2. Len(lines) = 0
      BY <1>1
    <3> QED
      BY <2>2, <2>4, <3>1, <3>2 DEF ReadTo
  <2>7. ParseInv(f, Len(f))
    BY <2>2, <2>4, <2>5, <2>6
  <2>8. Loaded(f)'
    BY <2>3, <2>7, LoadEndLoads
  <2> QED
    BY <2>2, <2>8
<1>4. LoadedInv'
  BY <1>3 DEF LoadedInv
<1> QED
  BY <1>2, <1>4 DEF FirstInv

\* Loads without a file, later loads, the environment and the dump.
LEMMA LaterFirst ==
    ASSUME FirstInv,
           \/ StartWithoutFile \/ Reload \/ ReloadWithoutFile \/ ApplyEnv \/ DumpConfig
    PROVE  FirstInv'
<1>1. CASE StartWithoutFile
  <2>1. loader = "start" /\ loader' = "environment" /\ loads' = 1 /\ UNCHANGED <<counter, file>>
    BY <1>1 DEF StartWithoutFile
  <2> QED
    BY <2>1 DEF FirstInv, StartInv, FileInv, ReadInv, LoadedInv
<1>2. CASE Reload \/ ReloadWithoutFile
  <2>1. loader = "running" /\ loads' = loads + 1 /\ loader' \in {"parsing", "dump"}
    BY <1>2, Zenon DEF Reload, ReloadWithoutFile, Begin
  <2>2. loads \in Nat /\ loads >= 1
    BY <2>1 DEF FirstInv, FileInv
  <2>3. loads' \in Nat /\ loads' >= 1 /\ ~(loads' <= 1) /\ loads' # 1
    BY <2>1, <2>2
  <2> QED
    BY <2>1, <2>3 DEF FirstInv, StartInv, FileInv, ReadInv, LoadedInv
<1>3. CASE ApplyEnv \/ DumpConfig
  <2>1. /\ loader \in {"environment", "dump"} /\ loader' \in {"dump", "running"}
        /\ UNCHANGED <<loads, file>>
    BY <1>3, Zenon DEF ApplyEnv, DumpConfig, run
  <2> QED
    BY <2>1 DEF FirstInv, StartInv, FileInv, ReadInv, LoadedInv
<1> QED
  BY <1>1, <1>2, <1>3

\* A thread that searches or stores writes nothing that a load reads.
LEMMA QuietFirst ==
    ASSUME FirstInv, UNCHANGED <<tables, published, run, lines, section, loader>>
    PROVE  FirstInv'
<1>1. UNCHANGED <<loader, loads, counter, file, lines, section, default, domDefault, table>>
  BY DEF tables, published, run
<1>2. StartInv' /\ FileInv'
  BY <1>1 DEF FirstInv, StartInv, FileInv
<1>3. Targets' = Targets
  BY <1>1 DEF Targets
<1>4. ASSUME NEW f, NEW n
      PROVE  /\ ReadTo(n)' <=> ReadTo(n)
             /\ ParseInv(f, n)' <=> ParseInv(f, n)
             /\ Loaded(f)' <=> Loaded(f)
  <2>1. ReadTo(n)' <=> ReadTo(n)
    BY <1>1 DEF ReadTo
  <2>2. /\ SectionInv(f, n)' <=> SectionInv(f, n)
        /\ DefaultInv(f, n)' <=> DefaultInv(f, n)
        /\ DomainInv(f, n)' <=> DomainInv(f, n)
        /\ TableInv(f, n)' <=> TableInv(f, n)
        /\ RemovedInv(f, n)' <=> RemovedInv(f, n)
    BY <1>1, <1>3 DEF SectionInv, DefaultInv, DomainInv, TableInv, RemovedInv
  <2>3. /\ DefaultInv(f, Len(f))' <=> DefaultInv(f, Len(f))
        /\ TableInv(f, Len(f))' <=> TableInv(f, Len(f))
        /\ RemovedInv(f, Len(f))' <=> RemovedInv(f, Len(f))
    BY <1>1 DEF DefaultInv, TableInv, RemovedInv
  <2>4. Loaded(f)' <=> Loaded(f)
    BY <1>1, <2>3 DEF Loaded
  <2> QED
    BY <2>1, <2>2, <2>4 DEF ParseInv
<1>5. ASSUME loader' = "parsing", loads' = 1
      PROVE  \E n \in Nat : (/\ ReadTo(n) /\ IsSeq(table)
                             /\ Proper(file) /\ Len(table) < TableSize => ParseInv(file, n))'
  <2>1. PICK n \in Nat : /\ ReadTo(n) /\ IsSeq(table)
                         /\ Proper(file) /\ Len(table) < TableSize => ParseInv(file, n)
    BY <1>1, <1>5 DEF FirstInv, ReadInv
  <2>2. PICK f : f = file /\ f = file'
    BY <1>1
  <2>3. (ReadTo(n) /\ IsSeq(table))'
    BY <1>1, <1>4, <2>1
  <2>4. Proper(f) /\ Len(table') < TableSize => ParseInv(f, n)'
    BY <1>1, <1>4, <2>1, <2>2
  <2> QED
    BY <2>2, <2>3, <2>4
<1>6. ReadInv'
  BY <1>5 DEF ReadInv
<1>7. LoadedInv'
  <2>1. PICK f : f = file /\ f = file'
    BY <1>1
  <2>2. (/\ loader = "environment" /\ loads = 1 /\ counter = 1
         /\ Proper(file) /\ Len(table) < TableSize)' => Loaded(f)'
    BY <1>1, <1>4, <2>1 DEF FirstInv, LoadedInv
  <2> QED
    BY <2>1, <2>2 DEF LoadedInv
<1> QED
  BY <1>2, <1>6, <1>7 DEF FirstInv

\* The invariant of the first load.
LEMMA InitFirst == Init => FirstInv
BY DEF Init, FirstInv, StartInv, FileInv, ReadInv, LoadedInv

LEMMA NextFirst == FirstInv /\ [Next]_vars => FirstInv'
<1> SUFFICES ASSUME FirstInv, [Next]_vars
             PROVE  FirstInv'
  OBVIOUS
<1>1. ASSUME NEW r \in Regions, Search(r) \/ Store(r)
      PROVE  FirstInv'
  <2>1. UNCHANGED <<tables, published, run, lines, section, loader>>
    BY <1>1 DEF Search, Store
  <2> QED
    BY <2>1, QuietFirst
<1>2. CASE UNCHANGED vars
  <2>1. UNCHANGED <<tables, published, run, lines, section, loader>>
    BY <1>2 DEF vars
  <2> QED
    BY <2>1, QuietFirst
<1> QED
  BY <1>1, <1>2, StartFirst, LineFirst, LoadFirst, LaterFirst DEF Next

\* It says what EffectiveAsWritten promises.
LEMMA FirstEffective == FirstInv => EffectiveAsWritten
<1> SUFFICES ASSUME FirstInv, loader = "environment", loads = 1, counter = 1,
                    Proper(file), OneFile(file), Len(table) < TableSize,
                    NEW r \in Regions, NEW field \in Fields
             PROVE  Entry(Lookup(r)).num[field] = ValueFor(file, r, field)
  BY DEF EffectiveAsWritten
<1>1. Loaded(file) /\ file \in Files
  BY DEF FirstInv, LoadedInv, FileInv
<1>2. PICK f \in Files : f = file
  BY <1>1
<1>3. IsFile(f) /\ Proper(f) /\ OneFile(f) /\ Loaded(f)
  BY <1>1, <1>2, FilesAre
<1>4. Entry(Lookup(r)).num[field] = ValueFor(f, r, field)
  BY <1>3, LoadedEffective
<1> QED
  BY <1>2, <1>4

\* A fresh start with a file that keeps to the documentation gives every
\* region the rates the file says (initial_setup_config, pinsight_load_config,
\* pinsight_find_lexgion_trace_config).
THEOREM EffectiveAlways == Spec => []EffectiveAsWritten
<1>1. FirstInv /\ [Next]_vars => FirstInv'
  BY NextFirst
<1> QED
  BY InitFirst, <1>1, FirstEffective, PTL DEF Spec

-----------------------------------------------------------------------------
(***************************************************************************)
(* What the threads cache.                                                 *)
(***************************************************************************)
\* No file is being read: only then is the configuration what it says.
Settled == loader \notin {"parsing", "crashed"}

\* The counter only grows, and nobody holds a later one.
CounterInv ==
    /\ counter \in Nat
    /\ DOMAIN found = Regions /\ DOMAIN cache = Regions
    /\ \A r \in Regions :
          /\ found[r].counter \in Nat /\ found[r].counter <= counter
          /\ cache[r].at \in Nat /\ cache[r].at <= counter

\* What was searched for under the present counter, stored or about to be, is
\* what governs the region: a search while a file is read is of an earlier one.
FreshInv ==
    Settled => \A r \in Regions :
        /\ found[r].entry # NoEntry /\ found[r].counter = counter
           => found[r].entry = Lookup(r)
        /\ cache[r].entry # NoEntry /\ cache[r].at = counter
           => cache[r].entry = Lookup(r)

CachedInv == CounterInv /\ FreshInv

-----------------------------------------------------------------------------
\* Of the tables the search reads two alone.
LEMMA LookupReads ==
    ASSUME UNCHANGED <<domDefault, table>>, NEW r \in Regions
    PROVE  Lookup(r)' = Lookup(r)
<1>1. ByAddress(r)' = ByAddress(r)
  BY DEF ByAddress
<1>2. ByName(r)' = ByName(r)
  BY DEF ByName
<1> QED
  BY <1>1, <1>2 DEF Lookup

\* A thread's steps keep what it holds fresh, unless a load is on.
LEMMA SearchFresh ==
    ASSUME CachedInv, NEW r \in Regions, Search(r)
    PROVE  CachedInv'
<1>1. /\ UNCHANGED <<domDefault, table, counter, loader, cache>>
      /\ found' = [found EXCEPT ![r] = [entry |-> Lookup(r), counter |-> counter]]
  BY DEF Search, tables, published
<1>2. \A q \in Regions : Lookup(q)' = Lookup(q)
  BY <1>1, LookupReads
<1>3. \A q \in Regions : q # r => found'[q] = found[q]
  BY <1>1 DEF CachedInv, CounterInv
<1>4. found'[r] = [entry |-> Lookup(r), counter |-> counter] /\ DOMAIN (found') = Regions
  BY <1>1 DEF CachedInv, CounterInv
<1>5. CounterInv'
  BY <1>1, <1>3, <1>4 DEF CachedInv, CounterInv
<1>6. FreshInv'
  <2> SUFFICES ASSUME Settled', NEW q \in Regions
               PROVE  /\ found'[q].entry # NoEntry /\ found'[q].counter = counter'
                         => found'[q].entry = Lookup(q)'
                      /\ cache'[q].entry # NoEntry /\ cache'[q].at = counter'
                         => cache'[q].entry = Lookup(q)'
    BY DEF FreshInv, NoEntry
  <2>1. Settled
    BY <1>1 DEF Settled
  <2>2. CASE q = r
    BY <1>1, <1>2, <1>4, <2>1, <2>2 DEF CachedInv, FreshInv
  <2>3. CASE q # r
    BY <1>1, <1>2, <1>3, <2>1, <2>3 DEF CachedInv, FreshInv
  <2> QED
    BY <2>2, <2>3
<1> QED
  BY <1>5, <1>6 DEF CachedInv

\* A store keeps it fresh too: at is the counter of its search.
LEMMA StoreFresh ==
    ASSUME CachedInv, NEW r \in Regions, Store(r)
    PROVE  CachedInv'
<1>1. /\ UNCHANGED <<domDefault, table, counter, loader>>
      /\ found' = [found EXCEPT ![r] = [entry |-> NoEntry, counter |-> 0]]
      /\ cache' = [cache EXCEPT ![r] = [entry |-> found[r].entry, counter |-> counter,
                                        at |-> found[r].counter]]
      /\ found[r].entry # NoEntry
  BY DEF Store, tables, published
<1>2. \A q \in Regions : Lookup(q)' = Lookup(q)
  BY <1>1, LookupReads
<1>3. \A q \in Regions : q # r => found'[q] = found[q] /\ cache'[q] = cache[q]
  BY <1>1 DEF CachedInv, CounterInv
<1>4. /\ found'[r] = [entry |-> NoEntry, counter |-> 0]
      /\ cache'[r] = [entry |-> found[r].entry, counter |-> counter,
                      at |-> found[r].counter]
      /\ DOMAIN (found') = Regions /\ DOMAIN (cache') = Regions
  BY <1>1 DEF CachedInv, CounterInv
<1>5. CounterInv'
  BY <1>1, <1>3, <1>4 DEF CachedInv, CounterInv
<1>6. FreshInv'
  <2> SUFFICES ASSUME Settled', NEW q \in Regions
               PROVE  /\ found'[q].entry # NoEntry /\ found'[q].counter = counter'
                         => found'[q].entry = Lookup(q)'
                      /\ cache'[q].entry # NoEntry /\ cache'[q].at = counter'
                         => cache'[q].entry = Lookup(q)'
    BY DEF FreshInv, NoEntry
  <2>1. Settled
    BY <1>1 DEF Settled
  <2>2. CASE q = r
    BY <1>1, <1>2, <1>4, <2>1, <2>2 DEF CachedInv, FreshInv
  <2>3. CASE q # r
    BY <1>1, <1>2, <1>3, <2>1, <2>3 DEF CachedInv, FreshInv
  <2> QED
    BY <2>2, <2>3
<1> QED
  BY <1>5, <1>6 DEF CachedInv

\* The end of a load moves the counter past everything that is held.
LEMMA LoadEndFresh ==
    ASSUME CachedInv, LoadEnd
    PROVE  CachedInv'
<1>1. counter' = counter + 1 /\ UNCHANGED resolution
  BY DEF LoadEnd
<1>2. UNCHANGED <<found, cache>>
  BY <1>1 DEF resolution
<1>3. CounterInv'
  BY <1>1, <1>2 DEF CachedInv, CounterInv
<1>4. \A r \in Regions : found'[r].counter # counter' /\ cache'[r].at # counter'
  BY <1>1, <1>2 DEF CachedInv, CounterInv
<1> QED
  BY <1>3, <1>4 DEF CachedInv, FreshInv

\* The environment, the dump and a load without a file leave alone what the
\* search reads.
LEMMA QuietStep ==
    ASSUME CachedInv, UNCHANGED <<domDefault, table, counter, resolution>>, Settled' => Settled
    PROVE  CachedInv'
<1>1. UNCHANGED <<found, cache>>
  BY DEF resolution
<1>2. \A r \in Regions : Lookup(r)' = Lookup(r)
  BY LookupReads
<1>3. CounterInv'
  BY <1>1 DEF CachedInv, CounterInv
<1>4. FreshInv'
  BY <1>1, <1>2 DEF CachedInv, FreshInv, NoEntry
<1> QED
  BY <1>3, <1>4 DEF CachedInv

\* While a file is read only the counter matters.
LEMMA ParsingStep ==
    ASSUME CachedInv, UNCHANGED <<counter, resolution>>, ~Settled'
    PROVE  CachedInv'
<1>1. UNCHANGED <<found, cache>>
  BY DEF resolution
<1>2. CounterInv'
  BY <1>1 DEF CachedInv, CounterInv
<1> QED
  BY <1>2 DEF CachedInv, FreshInv

\* The invariant of the cache.
LEMMA InitFresh == Init => CachedInv
<1> SUFFICES ASSUME Init PROVE CachedInv
  OBVIOUS
<1>1. /\ counter = 0
      /\ found = [r \in Regions |-> [entry |-> NoEntry, counter |-> 0]]
      /\ cache = [r \in Regions |-> [entry |-> NoEntry, counter |-> 0, at |-> 0]]
  BY DEF Init
<1>2. CounterInv
  BY <1>1 DEF CounterInv
<1>3. FreshInv
  BY <1>1 DEF FreshInv, NoEntry
<1> QED
  BY <1>2, <1>3 DEF CachedInv

LEMMA NextFresh == CachedInv /\ [Next]_vars => CachedInv'
<1> SUFFICES ASSUME CachedInv, [Next]_vars PROVE CachedInv'
  OBVIOUS
<1>1. CASE Start \/ Reload
  <2>1. loader' = "parsing" /\ UNCHANGED <<counter, resolution>>
    BY <1>1 DEF Start, Reload, Begin, published
  <2> QED
    BY <2>1, ParsingStep DEF Settled
<1>2. CASE StartWithoutFile \/ ReloadWithoutFile
  <2>1. /\ UNCHANGED <<domDefault, table, counter, resolution>>
        /\ Settled
    BY <1>2 DEF StartWithoutFile, ReloadWithoutFile, tables, Settled
  <2> QED
    BY <2>1, QuietStep
<1>3. CASE ReadLine
  BY <1>3, LineReads, ParsingStep DEF Settled
<1>4. CASE LoadEnd
  BY <1>4, LoadEndFresh
<1>5. CASE ApplyEnv \/ DumpConfig
  <2>1. /\ UNCHANGED <<domDefault, table, counter, resolution>>
        /\ Settled
    BY <1>5 DEF ApplyEnv, DumpConfig, tables, published, Settled
  <2> QED
    BY <2>1, QuietStep
<1>6. ASSUME NEW r \in Regions, Search(r) \/ Store(r) PROVE CachedInv'
  BY <1>6, SearchFresh, StoreFresh
<1>7. CASE UNCHANGED vars
  <2>1. /\ UNCHANGED <<domDefault, table, counter, resolution>>
        /\ Settled' = Settled
    BY <1>7 DEF vars, tables, published, Settled
  <2> QED
    BY <2>1, QuietStep
<1> QED
  BY <1>1, <1>2, <1>3, <1>4, <1>5, <1>6, <1>7 DEF Next

\* ResolvedIsCurrent for every file, edit and environment (pinsight.c:345-420,
\* trace_config_parse.c: config_change_counter).
THEOREM ResolvedIsCurrentAlways == Spec => []ResolvedIsCurrent
<1>1. CachedInv => ResolvedIsCurrent
  BY DEF CachedInv, FreshInv, Settled, ResolvedIsCurrent
<1> QED
  BY <1>1, InitFresh, NextFresh, PTL DEF Spec
=============================================================================
