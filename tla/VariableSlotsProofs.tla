-------------------------- MODULE VariableSlotsProofs --------------------------
(***************************************************************************)
(* Proofs about what becomes of the names of an accepted program: what     *)
(* ir_gen knows of the types of variables agrees with the linter, and      *)
(* what the code generator keeps in the slots of the frame is what the     *)
(* names mean.                                                             *)
(***************************************************************************)
EXTENDS LinterProofs

-------------------------------------------------------------------------------
(* Where a declaration holds. *)

\* A declaration in front of statement i holds there.
Holds(d, i) == d.at < i /\ (d.scope[1] = 0 \/ i <= Close(d.scope[1]))

\* The construct a declaration belongs to is open behind it, and no switch.
LEMMA ScopeFacts ==
  ASSUME program \in Program, NEW d \in Declarations
  PROVE  /\ d.at \in DOMAIN program /\ d.at \in Nat \ {0} /\ d.scope[1] \in 0..d.at /\ ~Ends(d.at)
         /\ d.scope[1] # 0 =>
              /\ d.scope[1] \in DOMAIN program /\ Opens(d.scope[1]) /\ program[d.scope[1]].k # "switch"
              /\ Close(d.scope[1]) \in DOMAIN program /\ d.at < Close(d.scope[1]) /\ Ends(Close(d.scope[1]))
<1>1. PICK i, s : i \in DOMAIN program /\ i = d.at /\ s = d.scope[1]
  BY RankOfDeclaration
<1>2. i \in Nat \ {0} /\ DOMAIN program = 1..Len(program) /\ Len(program) \in Nat
  BY <1>1, ProgramDomain
<1>3. \/ program[i].k \in Block /\ s \in 0..i - 1 /\ (s # 0 => s \in OpenAt(i) /\ program[s].k # "switch")
      \/ program[i].k \in Heads /\ s = i
  BY <1>1, RankOfDeclaration
<1>4. ~Ends(i)
  BY <1>3 DEF Block, Heads, Ends
<1>5. ASSUME s # 0
      PROVE  s \in DOMAIN program /\ Opens(s) /\ program[s].k # "switch"
  <2>1. CASE s \in OpenAt(i) /\ program[s].k # "switch"
    BY <1>1, <1>2, <2>1 DEF OpenAt
  <2>2. CASE program[i].k \in Heads /\ s = i
    BY <1>1, <2>2 DEF Heads, Opens, Openers
  <2> QED
    BY <1>3, <1>5, <2>1, <2>2
<1>6. ASSUME s # 0
      PROVE  Close(s) \in DOMAIN program /\ i < Close(s) /\ Ends(Close(s))
  <2>1. PICK c \in s + 1..Len(program) : c = Close(s) /\ Ends(c)
    BY <1>5, <1>6, CloseFacts
  <2>2. s \in 0..i /\ c \in DOMAIN program
    BY <1>2, <1>3, <2>1
  <2>3. CASE s \in OpenAt(i)
    <3>1. i <= c /\ i # c
      BY <1>4, <2>1, <2>3 DEF OpenAt
    <3> QED
      BY <1>2, <2>1, <2>2, <3>1
  <2>4. CASE s = i
    BY <1>2, <2>1, <2>2, <2>4
  <2> QED
    BY <1>3, <1>6, <2>3, <2>4
<1> QED
  BY <1>1, <1>2, <1>3, <1>4, <1>5, <1>6

\* Where it holds it is visible; two of a name are not visible anywhere if none shadows
\* another.
LEMMA HoldsVisible ==
  ASSUME NEW d \in Declarations, NEW i, Holds(d, i), d.at \in Nat, i \in Nat
  PROVE  d \in Visible(i, d.name)
BY DEF Holds, Visible

LEMMA Alone ==
  ASSUME program \in Program, ~Shadows, NEW i \in Nat, NEW x, NEW d \in Visible(i, x), NEW e \in Visible(i, x)
  PROVE  d = e
<1>1. ASSUME NEW a \in Visible(i, x), NEW b \in Visible(i, x), a.at <= b.at
      PROVE  a = b
  <2>1. a \in Declarations /\ b \in Declarations /\ a.name = x /\ b.name = x /\ b.at <= i
        /\ (a.scope[1] = 0 \/ i <= Close(a.scope[1]))
    BY DEF Visible
  <2>2. b.at \in Nat /\ (a.scope[1] # 0 => Close(a.scope[1]) \in Nat)
    BY <2>1, ScopeFacts, ProgramDomain
  <2>3. a.scope[1] = 0 \/ b.at <= Close(a.scope[1])
    BY <2>1, <2>2
  <2>4. a \in Visible(b.at, b.name)
    BY <1>1, <2>1, <2>3 DEF Visible
  <2> QED
    BY <2>1, <2>4 DEF Shadows
<1>2. d.at \in Nat /\ e.at \in Nat
  BY ScopeFacts DEF Visible
<1>3. d.at <= e.at \/ e.at <= d.at
  BY <1>2
<1> QED
  BY <1>1, <1>3

\* So a name means what is visible.
LEMMA MeansAlone ==
  ASSUME program \in Program, ~Shadows, NEW i \in DOMAIN program, NEW x, NEW d \in Visible(i, x)
  PROVE  Meaning(i, x) = d
<1>1. i \in Nat
  BY ProgramDomain
<1>2. Meaning(i, x) \in Visible(i, x)
  BY MeaningVisible
<1> QED
  BY <1>1, <1>2, Alone

\* From statement to statement a declaration keeps holding, but for the end of its block.
LEMMA HoldsNext ==
  ASSUME program \in Program, NEW i \in DOMAIN program, NEW d \in Declarations, d.at <= i,
         d.at = i \/ Holds(d, i), Ends(i) /\ at = i => program[Closed].k = "switch", Ends(i) => at = i
  PROVE  Holds(d, i + 1)
<1>1. PICK s : s = d.scope[1]
  OBVIOUS
<1>2. d.at \in Nat /\ i \in Nat /\ d.at < i + 1 /\ ~Ends(d.at)
  BY ScopeFacts, ProgramDomain
<1>3. ASSUME s # 0
      PROVE  i + 1 <= Close(s)
  <2>1. /\ s \in DOMAIN program /\ Opens(s) /\ program[s].k # "switch"
        /\ Close(s) \in Nat /\ d.at < Close(s) /\ Ends(Close(s)) /\ s <= d.at /\ s \in Nat
    BY <1>1, <1>2, <1>3, ScopeFacts, ProgramDomain
  <2>2. i <= Close(s)
    BY <1>1, <1>2, <1>3, <2>1 DEF Holds
  <2>3. SUFFICES ASSUME i = Close(s) PROVE FALSE
    BY <1>2, <2>1, <2>2
  <2>4. s \in OpenAt(i)
    BY <1>2, <2>1, <2>3, ProgramDomain DEF OpenAt
  <2>5. Ends(i) /\ at = i /\ program[Closed].k = "switch"
    BY <2>1, <2>3
  <2>6. PICK o \in OpenAt(i) : Close(o) = i /\ \A q \in OpenAt(i) : q <= o /\ (q # o => i < Close(q))
    BY <2>5, ClosedFacts
  <2>7. s = o
    BY <1>2, <2>3, <2>4, <2>6
  <2>8. Closed \in DOMAIN program /\ Opens(Closed) /\ Close(Closed) = i
    BY <2>1, <2>3, <2>5 DEF Closed
  <2>9. Closed \in OpenAt(i)
    <3>1. PICK q \in Nat : q = Closed /\ q \in DOMAIN program
      BY <2>8, ProgramDomain
    <3>2. q < Close(q)
      BY <2>8, <3>1, CloseFacts, ProgramDomain
    <3> QED
      BY <1>2, <2>8, <3>1, <3>2, ProgramDomain DEF OpenAt
  <2> QED
    BY <1>2, <2>1, <2>5, <2>6, <2>7, <2>8, <2>9
<1> QED
  BY <1>1, <1>2, <1>3 DEF Holds

\* What holds in front of a construct does so behind it, and nothing else does that
\* was declared before its end.
LEMMA HoldsBehind ==
  ASSUME program \in Program, NEW o \in DOMAIN program, Opens(o), NEW d \in Declarations
  PROVE  /\ Holds(d, o) => Holds(d, Close(o) + 1)
         /\ Holds(d, Close(o) + 1) => d.at < o
<1>1. PICK s, c : s = d.scope[1] /\ c = Close(o)
  OBVIOUS
<1>2. /\ d.at \in Nat /\ o \in Nat /\ c \in Nat /\ o < c /\ Ends(c) /\ ~Ends(d.at) /\ s \in Nat /\ s <= d.at
      /\ d.at \in DOMAIN program /\ c \in DOMAIN program /\ ~Ends(o)
  BY <1>1, ScopeFacts, ProgramDomain, CloseFacts DEF Opens, Openers, Ends
<1>3. ASSUME s # 0
      PROVE  s \in DOMAIN program /\ Opens(s) /\ Close(s) \in Nat /\ d.at < Close(s) /\ Ends(Close(s))
  BY <1>1, <1>3, ScopeFacts, ProgramDomain
<1>4. ASSUME Holds(d, o)
      PROVE  Holds(d, c + 1)
  <2>1. d.at < o /\ (s = 0 \/ o <= Close(s))
    BY <1>1, <1>4 DEF Holds
  <2>2. ASSUME s # 0
        PROVE  c + 1 <= Close(s)
    <3>1. s < o /\ o < Close(s)
      <4>1. o # Close(s)
        BY <1>2, <1>3, <2>2
      <4> QED
        BY <1>2, <1>3, <2>1, <2>2, <4>1
    <3>2. Close(o) < Close(s)
      BY <1>3, <2>2, <3>1, Nested
    <3> QED
      BY <1>1, <1>2, <1>3, <2>2, <3>2
  <2> QED
    BY <1>1, <1>2, <2>1, <2>2 DEF Holds
<1>5. ASSUME Holds(d, c + 1)
      PROVE  d.at < o
  <2>1. SUFFICES ASSUME ~(d.at < o) PROVE FALSE
    OBVIOUS
  <2>2. d.at < c /\ o <= d.at /\ (s = 0 \/ c + 1 <= Close(s))
    <3>1. d.at < c + 1 /\ d.at # c
      BY <1>2, <1>5 DEF Holds
    <3>2. s = 0 \/ c + 1 <= Close(s)
      BY <1>1, <1>5 DEF Holds
    <3> QED
      BY <1>2, <2>1, <3>1, <3>2
  <2>3. \/ program[d.at].k \in Block /\ \A q \in OpenAt(d.at) : q <= s
        \/ program[d.at].k \in Heads /\ s = d.at
    BY <1>1, RankOfDeclaration
  <2>4. o <= s
    <3>1. CASE s = d.at
      BY <2>2, <3>1
    <3>2. CASE program[d.at].k \in Block /\ \A q \in OpenAt(d.at) : q <= s
      <4>1. o # d.at
        BY <3>2 DEF Block, Opens, Openers
      <4>2. o \in OpenAt(d.at)
        BY <1>1, <1>2, <2>2, <4>1, ProgramDomain DEF OpenAt
      <4> QED
        BY <3>2, <4>2
    <3> QED
      BY <2>3, <3>1, <3>2
  <2>5. s # 0 /\ s < c
    BY <1>2, <2>2, <2>4, ProgramDomain
  <2>6. CASE s = o
    BY <1>1, <1>2, <2>2, <2>5, <2>6
  <2>7. CASE o < s
    <3>1. Close(s) < Close(o)
      BY <1>1, <1>3, <2>5, <2>7, Nested
    <3> QED
      BY <1>1, <1>2, <1>3, <2>2, <2>5, <3>1
  <2> QED
    BY <1>2, <2>4, <2>6, <2>7
<1> QED
  BY <1>1, <1>4, <1>5

-------------------------------------------------------------------------------
(* Functions. *)

\* At the top nothing is open.
LEMMA TopOpen ==
  ASSUME program \in Program, NEW i \in DOMAIN program
  PROVE  /\ Depth(program, i - 1) = 0 => OpenAt(i) = {}
         /\ OpenAt(i) = {} => Depth(program, i - 1) = 0
         /\ OpenAt(i) # {} => \E f \in OpenAt(i) : program[f].k = "function"
<1>1. PICK p \in Program : p = program
  OBVIOUS
<1>2. DOMAIN p = 1..Len(p) /\ Len(p) \in Nat /\ i \in 1..Len(p) /\ i \in Nat /\ i - 1 \in 0..Len(p)
  BY <1>1, ProgramDomain
<1>3. Depth(p, i - 1) \in Nat
  BY <1>2, DepthType
<1>4. ASSUME NEW o \in OpenAt(i)
      PROVE  Depth(p, i - 1) # 0
  <2>1. o \in 1..i - 1 /\ Opens(o) /\ i <= Close(o) /\ o \in DOMAIN program /\ o \in DOMAIN p
    BY <1>1, <1>2 DEF OpenAt
  <2>2. Close(o) \in Nat /\ \A j \in o..Close(o) - 1 : Depth(program, j) >= Depth(program, o)
    BY <2>1, CloseFacts, ProgramDomain
  <2>3. i - 1 \in o..Close(o) - 1
    BY <1>2, <2>1, <2>2
  <2>4. Depth(p, i - 1) >= Depth(p, o)
    BY <1>1, <2>2, <2>3
  <2>5. Depth(p, o) = Depth(p, o - 1) + 1 /\ Depth(p, o - 1) \in Nat /\ Depth(p, o) \in Nat
    <3>1. o - 1 \in 0..Len(p)
      BY <1>2, <2>1
    <3>2. Depth(p, o - 1) \in Nat
      BY <3>1, DepthType
    <3> QED
      BY <1>1, <2>1, <3>2, DepthStep DEF Opens
  <2> QED
    BY <1>3, <2>4, <2>5
<1>5. ASSUME Depth(p, i - 1) # 0
      PROVE  \E f \in OpenAt(i) : program[f].k = "function"
  <2>1. 0 \in 0..Len(p) /\ 0 < i - 1 /\ Depth(p, 0) < 1 /\ 1 <= Depth(p, i - 1)
    <3>1. Depth(p, 0) = 0
      BY DepthZero
    <3>2. i # 1
      BY <1>5, <3>1
    <3> QED
      BY <1>2, <1>3, <1>5, <3>1, <3>2
  <2>2. PICK o \in 0 + 1..i - 1 : /\ p[o].k \in Openers /\ Depth(p, o - 1) = 1 - 1
                                  /\ \A j \in o..i - 1 : Depth(p, j) >= 1 /\ Depth(p, o) = 1
    <3>1. PICK a \in 0..Len(p), b \in 0..Len(p), l \in Nat : a = 0 /\ b = i - 1 /\ l = 1
      BY <1>2, <2>1
    <3>2. a < b /\ Depth(p, a) < l /\ l <= Depth(p, b)
      BY <2>1, <3>1
    <3>3. \E o \in a + 1..b : /\ p[o].k \in Openers /\ Depth(p, o) = l /\ Depth(p, o - 1) = l - 1
                              /\ \A j \in o..b : Depth(p, j) >= l
      BY <3>2, OpenerOf, Zenon
    <3> QED
      BY <3>1, <3>3, Zenon
  <2>3. o \in DOMAIN p /\ o \in 1..i - 1 /\ Opens(o) /\ Depth(p, o - 1) = 0
    BY <1>1, <1>2, <2>2 DEF Opens
  <2>4. p[o].k \in {"function", "global", "aggregate", "enum"}
    BY <2>3, TreeAssumption
  <2>5. p[o].k = "function"
    BY <2>2, <2>4 DEF Openers
  <2>6. Close(o) \in Nat /\ Depth(p, Close(o)) = 0 /\ o <= Close(o)
    <3>1. o + 1 \in Nat /\ o \in Nat
      BY <1>2, <2>3
    <3>2. i - 1 \in o..i - 1 /\ o \in o..i - 1
      BY <1>2, <2>3
    <3>3. Depth(p, o) = 1
      BY <2>2, <3>2
    <3> QED
      BY <1>1, <2>3, <3>1, <3>3, CloseFacts, ProgramDomain
  <2>7. Close(o) \notin o..i - 1
    BY <2>2, <2>6
  <2>8. o \in OpenAt(i)
    BY <1>2, <2>3, <2>6, <2>7 DEF OpenAt
  <2> QED
    BY <1>1, <2>5, <2>8
<1> QED
  BY <1>1, <1>4, <1>5

\* Functions stand in nothing, and of all that is open the function is outermost.
LEMMA FunctionOpen ==
  ASSUME program \in Program
  PROVE  /\ \A f \in DOMAIN program : program[f].k \in {"function", "global"} => OpenAt(f) = {}
         /\ \A i \in 1..Len(program) + 1 : \A f, q \in OpenAt(i) :
              program[f].k = "function" => f <= q /\ (program[q].k = "function" => f = q)
<1>1. ASSUME NEW f \in DOMAIN program, program[f].k \in {"function", "global"}
      PROVE  OpenAt(f) = {}
  <2>1. Depth(program, f - 1) = 0
    BY <1>1, TreeAssumption
  <2> QED
    BY <1>1, <2>1, TopOpen
<1>2. ASSUME NEW i \in 1..Len(program) + 1, NEW f \in OpenAt(i), NEW q \in OpenAt(i), program[f].k = "function"
      PROVE  f <= q
  <2>1. /\ f \in DOMAIN program /\ q \in DOMAIN program /\ Opens(f) /\ Opens(q) /\ f \in Nat /\ q \in Nat
        /\ f < i /\ q < i /\ i <= Close(f) /\ i <= Close(q) /\ i \in Nat
    BY ProgramDomain DEF OpenAt
  <2>2. SUFFICES ASSUME q < f PROVE FALSE
    BY <2>1
  <2>3. Close(q) \in Nat
    BY <2>1, CloseFacts, ProgramDomain
  <2>4. q \in OpenAt(f)
    BY <2>1, <2>2, <2>3 DEF OpenAt
  <2> QED
    BY <1>1, <1>2, <2>1, <2>4
<1>3. \A i \in 1..Len(program) + 1 : \A f \in OpenAt(i) : f \in Nat
  BY ProgramDomain DEF OpenAt
<1> QED
  BY <1>1, <1>2, <1>3

\* The function of a statement.
LEMMA FunctionOfFacts ==
  ASSUME program \in Program, NEW i \in DOMAIN program
  PROVE  /\ \A f \in DOMAIN program : program[f].k = "function" /\ f <= i /\ i <= Close(f) => FunctionOf(i) = f
         /\ OpenAt(i) = {} /\ program[i].k # "function" => FunctionOf(i) = 0
<1>0. i \in Nat /\ i \in 1..Len(program) /\ Len(program) \in Nat /\ DOMAIN program = 1..Len(program)
  BY ProgramDomain
<1>1. PICK F, n : F = {0} \cup {f \in 1..i : program[f].k = "function" /\ i <= Close(f)} /\ n = i /\ n \in Nat
  BY <1>0
<1>2. FunctionOf(i) = Max(F)
  BY <1>1 DEF FunctionOf
<1>3. F \in SUBSET (0..n) /\ F # {}
  BY <1>1
<1>4. Max(F) \in F /\ \A m \in F : m <= Max(F)
  BY <1>1, <1>3, MaxFacts
<1>5. ASSUME NEW f \in DOMAIN program, program[f].k = "function", f <= i, i <= Close(f)
      PROVE  Max(F) = f
  <2>1. f \in Nat \ {0} /\ f \in 1..i /\ f \in F
    BY <1>1, <1>5, ProgramDomain
  <2>2. PICK g \in Nat : g = Max(F) /\ f <= g /\ g \in F /\ g # 0
    <3>1. PICK g : g = Max(F)
      OBVIOUS
    <3>2. g \in F /\ g \in Nat /\ f <= g
      BY <1>0, <1>3, <1>4, <2>1, <3>1, <1>1
    <3> QED
      BY <2>1, <3>1, <3>2
  <2>3. g \in DOMAIN program /\ program[g].k = "function" /\ i <= Close(g) /\ g <= i
    <3>1. g \in 1..i /\ program[g].k = "function" /\ i <= Close(g)
      BY <1>1, <2>2
    <3> QED
      BY <1>0, <3>1
  <2>4. ASSUME f < g PROVE FALSE
    <3>1. Opens(f) /\ Opens(g) /\ Close(f) \in Nat
      BY <1>5, <2>3, CloseFacts, ProgramDomain DEF Opens, Openers
    <3>2. f \in OpenAt(g)
      BY <1>1, <1>5, <2>1, <2>2, <2>3, <2>4, <3>1 DEF OpenAt
    <3> QED
      BY <2>3, <3>2, FunctionOpen
  <2> QED
    BY <2>1, <2>2, <2>4
<1>6. ASSUME OpenAt(i) = {}, program[i].k # "function"
      PROVE  Max(F) = 0
  <2>1. SUFFICES ASSUME Max(F) # 0 PROVE FALSE
    OBVIOUS
  <2>2. PICK g \in 1..i : g = Max(F) /\ program[g].k = "function" /\ i <= Close(g)
    BY <1>1, <1>4, <2>1
  <2>3. g # i /\ Opens(g)
    BY <1>6, <2>2 DEF Opens, Openers
  <2>4. g \in OpenAt(i)
    BY <1>1, <2>2, <2>3 DEF OpenAt
  <2> QED
    BY <1>6, <2>4
<1> QED
  BY <1>2, <1>5, <1>6

\* What is visible in a function is of the function or stands outside of all.
LEMMA Near ==
  ASSUME program \in Program, NEW f \in DOMAIN program, program[f].k = "function",
         NEW i \in f..Close(f), NEW x, NEW d \in Visible(i, x)
  PROVE  /\ d.scope[1] = 0 /\ program[d.at].k # "function" => FunctionOf(d.at) = 0
         /\ d.scope[1] # 0 => d.at \in f..Close(f) /\ FunctionOf(d.at) = f
<1>1. PICK s, c : s = d.scope[1] /\ c = Close(f)
  OBVIOUS
<1>2. Opens(f) /\ c \in Nat /\ f \in Nat /\ i \in Nat /\ f <= i /\ i <= c
  BY <1>1, CloseFacts, ProgramDomain DEF Opens, Openers
<1>3. d \in Declarations /\ d.at <= i /\ d.at \in DOMAIN program /\ d.at \in Nat \ {0} /\ s \in Nat /\ s <= d.at
      /\ (s = 0 \/ i <= Close(s))
  <2>1. d \in Declarations /\ d.at <= i /\ (d.scope[1] = 0 \/ i <= Close(d.scope[1]))
    BY DEF Visible
  <2>2. d.at \in DOMAIN program /\ d.at \in Nat \ {0} /\ d.scope[1] \in 0..d.at
    BY <2>1, ScopeFacts
  <2> QED
    BY <1>1, <2>1, <2>2
<1>4. ASSUME s # 0
      PROVE  d.at \in f..c /\ FunctionOf(d.at) = f
  <2>1. s \in DOMAIN program /\ Opens(s) /\ Close(s) \in Nat
    BY <1>1, <1>3, <1>4, ScopeFacts, ProgramDomain
  <2>2. f <= d.at
    <3>1. SUFFICES ASSUME d.at < f PROVE FALSE
      BY <1>2, <1>3
    <3>2. s \in OpenAt(f)
      BY <1>2, <1>3, <1>4, <2>1, <3>1 DEF OpenAt
    <3> QED
      BY <3>2, FunctionOpen
  <2>3. d.at <= c
    BY <1>2, <1>3
  <2>4. FunctionOf(d.at) = f
    BY <1>1, <1>3, <2>2, <2>3, FunctionOfFacts
  <2> QED
    BY <1>2, <1>3, <2>2, <2>3, <2>4
<1>5. ASSUME s = 0, program[d.at].k # "function"
      PROVE  FunctionOf(d.at) = 0
  <2>1. \A q \in OpenAt(d.at) : q <= s
    <3>1. d.at # s
      BY <1>3, <1>5
    <3> QED
      BY <1>1, <1>3, <3>1, RankOfDeclaration
  <2>2. OpenAt(d.at) = {}
    BY <1>3, <1>5, <2>1, ProgramDomain DEF OpenAt
  <2> QED
    BY <1>3, <1>5, <2>2, FunctionOfFacts
<1> QED
  BY <1>1, <1>4, <1>5

\* The globals stand outside of all, and where there is neither array nor struct they
\* are all that does.
LEMMA GlobalFacts ==
  ASSUME program \in Program, NEW d \in Declarations
  PROVE  /\ program[d.at].k = "global" => d.scope[1] = 0 /\ FunctionOf(d.at) = 0
         /\ Scalars /\ d.scope[1] = 0 => program[d.at].k = "global"
<1>1. PICK i, s : i = d.at /\ s = d.scope[1]
  OBVIOUS
<1>2. i \in DOMAIN program /\ i \in Nat \ {0} /\ s \in 0..i
  BY <1>1, ScopeFacts
<1>3. \/ program[i].k \in Block /\ (s # 0 => s \in OpenAt(i)) /\ \A q \in OpenAt(i) : q <= s
      \/ program[i].k \in Heads /\ s = i
  BY <1>1, RankOfDeclaration
<1>4. ASSUME program[i].k = "global"
      PROVE  s = 0 /\ FunctionOf(i) = 0
  <2>1. OpenAt(i) = {}
    BY <1>2, <1>4, FunctionOpen
  <2>2. s = 0
    BY <1>3, <1>4, <2>1 DEF Heads
  <2> QED
    BY <1>2, <1>4, <2>1, <2>2, FunctionOfFacts
<1>5. ASSUME Scalars, s = 0
      PROVE  program[i].k = "global"
  <2>1. program[i].k \in Block /\ OpenAt(i) = {}
    BY <1>2, <1>3, <1>5, ProgramDomain DEF OpenAt
  <2>2. Depth(program, i - 1) = 0
    BY <1>2, <2>1, TopOpen
  <2>3. program[i].k \in {"function", "global", "aggregate", "enum"}
    BY <1>2, <2>2, TreeAssumption
  <2> QED
    BY <1>2, <1>5, <2>1, <2>3 DEF Scalars, Block
<1> QED
  BY <1>1, <1>4, <1>5

-------------------------------------------------------------------------------
(* The types ir_gen knows. *)

\* For its types ir_gen has the declarations of locals and parameters.
Local(d) == program[d.at].k \in {"declare", "function"}

\* In front of statement i it has what holds there, each with the type declared or
\* with none.
TypesHeld(types, i) ==
  /\ \A x \in DOMAIN types : \E d \in Declarations :
       d.name = x /\ Holds(d, i) /\ types[x] \in {Unknown, d.type}
  /\ \A d \in Declarations : Holds(d, i) /\ Local(d) => d.name \in DOMAIN types /\ types[d.name] = d.type

\* The names met before the construct at o are those that hold behind it.
Kept(types, names, o) ==
  /\ \A x \in names : \E d \in Declarations :
       d.name = x /\ Holds(d, o) /\ (x \in DOMAIN types => types[x] \in {Unknown, d.type})
  /\ \A d \in Declarations : Holds(d, o) /\ Local(d) => d.name \in names

\* There is such a set for each construct that is open, switches apart.
Framed(opens, i, types, before) ==
  /\ opens \in Seq(Nat) /\ \A s, t \in 1..Len(opens) : s < t => opens[s] < opens[t]
  /\ Range(opens) = {o \in OpenAt(i) : program[o].k # "switch"}
  /\ before \in Seq(Range(before)) /\ Len(before) = Len(opens)
  /\ TypesHeld(types, i)
  /\ \A s \in 1..Len(opens) : program[opens[s]].k # "function" => Kept(types, before[s], opens[s])

LowerInv ==
  /\ SoundInv
  /\ pass \in {"collect", "lint"} => variable_types = <<>> /\ vars_before = <<>> /\ code = <<>>
  /\ pass = "lower" => at \in 1..Len(program) + 1
  /\ pass = "lower" /\ ~Shadows => \E opens \in Seq(Nat) : Framed(opens, at, variable_types, vars_before)

\* A statement that neither opens nor ends a block, but for a switch.
LEMMA FramedOn ==
  ASSUME program \in Program, ~Shadows, NEW i \in DOMAIN program, Ends(i) => at = i,
         NEW opens, NEW types, NEW before, Framed(opens, i, types, before),
         {o \in OpenAt(i + 1) : program[o].k # "switch"} = {o \in OpenAt(i) : program[o].k # "switch"},
         Ends(i) => program[Closed].k = "switch",
         NEW new, TypesHeld(new, i + 1),
         \A x \in DOMAIN new : \/ x \in DOMAIN types /\ new[x] = types[x]
                               \/ new[x] = Unknown
                               \/ \E d \in Declarations : d.at = i /\ d.name = x /\ program[i].k \notin Openers
  PROVE  Framed(opens, i + 1, new, before)
<1>1. ASSUME NEW s \in 1..Len(opens), program[opens[s]].k # "function"
      PROVE  Kept(new, before[s], opens[s])
  <2>1. PICK o, names : o = opens[s] /\ names = before[s]
    OBVIOUS
  <2>2. Kept(types, names, o)
    BY <1>1, <2>1 DEF Framed
  <2>3. o \in OpenAt(i) /\ o \in Nat /\ i \in Nat
    <3>1. opens \in Seq(Nat) /\ Range(opens) \subseteq OpenAt(i)
      BY DEF Framed
    <3>2. o \in Range(opens) /\ o \in Nat
      BY <2>1, <3>1 DEF Range
    <3> QED
      BY <3>1, <3>2, ProgramDomain
  <2>4. o \in DOMAIN program /\ Opens(o) /\ o < i /\ i <= Close(o) /\ Close(o) \in Nat
    BY <2>3, CloseFacts, ProgramDomain DEF OpenAt
  <2>5. ASSUME NEW x \in names
        PROVE  \E d \in Declarations : d.name = x /\ Holds(d, o) /\ (x \in DOMAIN new => new[x] \in {Unknown, d.type})
    <3>1. PICK d \in Declarations : d.name = x /\ Holds(d, o) /\ (x \in DOMAIN types => types[x] \in {Unknown, d.type})
      BY <2>2 DEF Kept
    <3>2. ASSUME NEW e \in Declarations, e.at = i, e.name = x, program[i].k \notin Openers
          PROVE  FALSE
      <4>1. Holds(d, Close(o) + 1) /\ d.at \in Nat /\ d.at < i
        BY <2>3, <2>4, <3>1, HoldsBehind, ScopeFacts DEF Holds
      <4>2. d.scope[1] = 0 \/ i <= Close(d.scope[1])
        <5>1. d.scope[1] # 0 => Close(d.scope[1]) \in Nat
          BY ScopeFacts, ProgramDomain
        <5> QED
          BY <2>3, <2>4, <4>1, <5>1 DEF Holds
      <4>3. d \in Visible(e.at, e.name) /\ d # e
        BY <2>3, <3>1, <3>2, <4>1, <4>2 DEF Visible
      <4> QED
        BY <3>1, <3>2, <4>3 DEF Shadows
    <3> QED
      BY <3>1, <3>2
  <2>6. \A d \in Declarations : Holds(d, o) /\ Local(d) => d.name \in names
    BY <2>2 DEF Kept
  <2> QED
    BY <2>1, <2>5, <2>6 DEF Kept
<1> QED
  BY <1>1 DEF Framed

\* What held in front of statement i and holds behind it.
LEMMA HoldsBack ==
  ASSUME program \in Program, NEW i \in DOMAIN program, NEW d \in Declarations, Holds(d, i + 1)
  PROVE  d.at = i \/ Holds(d, i)
<1>1. i \in Nat /\ d.at \in Nat /\ (d.scope[1] # 0 => Close(d.scope[1]) \in Nat)
  BY ScopeFacts, ProgramDomain
<1> QED
  BY <1>1 DEF Holds

\* Where no local is declared the types stay.
LEMMA HeldOn ==
  ASSUME program \in Program, NEW i \in DOMAIN program, NEW types, TypesHeld(types, i),
         Ends(i) => at = i /\ program[Closed].k = "switch", program[i].k \notin {"declare", "function"}
  PROVE  TypesHeld(types, i + 1)
<1>1. ASSUME NEW x \in DOMAIN types
      PROVE  \E d \in Declarations : d.name = x /\ Holds(d, i + 1) /\ types[x] \in {Unknown, d.type}
  <2>1. PICK d \in Declarations : d.name = x /\ Holds(d, i) /\ types[x] \in {Unknown, d.type}
    BY DEF TypesHeld
  <2>2. d.at <= i
    BY <2>1, ScopeFacts, ProgramDomain DEF Holds
  <2>3. Holds(d, i + 1)
    BY <2>1, <2>2, HoldsNext
  <2> QED
    BY <2>1, <2>3
<1>2. ASSUME NEW d \in Declarations, Holds(d, i + 1), Local(d)
      PROVE  d.name \in DOMAIN types /\ types[d.name] = d.type
  <2>1. d.at # i
    BY <1>2 DEF Local
  <2>2. Holds(d, i)
    BY <1>2, <2>1, HoldsBack
  <2> QED
    BY <1>2, <2>2 DEF TypesHeld
<1> QED
  BY <1>1, <1>2 DEF TypesHeld

\* A block is entered.
LEMMA FramedOpen ==
  ASSUME program \in Program, NEW i \in DOMAIN program, program[i].k \in Openers \ {"switch", "function"},
         NEW opens, NEW types, NEW before, Framed(opens, i, types, before)
  PROVE  Framed(Append(opens, i), i + 1, types, Append(before, DOMAIN types))
<1>1. PICK n, S : n = Len(opens) /\ S = Range(before) \cup {DOMAIN types}
  OBVIOUS
<1>2. /\ opens \in Seq(Nat) /\ before \in Seq(S) /\ Len(before) = n /\ n \in Nat /\ i \in Nat /\ ~Ends(i) /\ Opens(i)
      /\ Range(opens) = {o \in OpenAt(i) : program[o].k # "switch"} /\ DOMAIN opens = 1..n
  <2>1. before \in Seq(Range(before)) /\ opens \in Seq(Nat) /\ Len(before) = Len(opens)
        /\ Range(opens) = {o \in OpenAt(i) : program[o].k # "switch"}
    BY DEF Framed
  <2>2. before \in Seq(S)
    <3>1. Range(before) \subseteq S
      BY <1>1
    <3> QED
      BY <2>1, <3>1
  <2> QED
    BY <1>1, <2>1, <2>2, ProgramDomain, LenProperties DEF Openers, Opens, Ends
<1>3. PICK oo, bb : oo = Append(opens, i) /\ bb = Append(before, DOMAIN types)
  OBVIOUS
<1>4. /\ oo \in Seq(Nat) /\ Len(oo) = n + 1 /\ DOMAIN oo = 1..n + 1 /\ oo[n + 1] = i
      /\ \A s \in 1..n : oo[s] = opens[s]
  BY <1>1, <1>2, <1>3, AppendFacts
<1>5. /\ bb \in Seq(S) /\ Len(bb) = n + 1 /\ bb[n + 1] = DOMAIN types
      /\ \A s \in 1..n : bb[s] = before[s]
  BY <1>1, <1>2, <1>3, AppendFacts
<1>6. \A s \in 1..n : opens[s] \in OpenAt(i) /\ opens[s] < i /\ opens[s] \in Nat
  <2>1. \A s \in 1..n : opens[s] \in Range(opens)
    BY <1>2 DEF Range
  <2> QED
    BY <1>2, <2>1 DEF OpenAt
<1>7. \A s, t \in 1..n + 1 : s < t => oo[s] < oo[t]
  <2>1. SUFFICES ASSUME NEW s \in 1..n + 1, NEW t \in 1..n + 1, s < t PROVE oo[s] < oo[t]
    OBVIOUS
  <2>2. s \in 1..n /\ (t \in 1..n \/ t = n + 1)
    BY <1>2, <2>1
  <2>3. \A a, b \in 1..n : a < b => opens[a] < opens[b]
    BY <1>1 DEF Framed
  <2> QED
    BY <1>4, <1>6, <2>1, <2>2, <2>3
<1>8. Range(oo) = {o \in OpenAt(i + 1) : program[o].k # "switch"}
  <2>1. OpenAt(i + 1) = OpenAt(i) \cup {i}
    BY <1>2, OpenStep
  <2>2. Range(oo) = Range(opens) \cup {i}
    <3>1. \A s \in 1..n + 1 : s \in 1..n \/ s = n + 1
      BY <1>2
    <3>2. \A s \in 1..n : s \in 1..n + 1
      BY <1>2
    <3>3. n + 1 \in 1..n + 1
      BY <1>2
    <3>4. Range(oo) = {oo[s] : s \in 1..n + 1} /\ Range(opens) = {opens[s] : s \in 1..n}
      BY <1>2, <1>4 DEF Range
    <3>5. \A s \in 1..n + 1 : oo[s] \in Range(opens) \cup {i}
      BY <1>4, <3>1, <3>4
    <3>6. \A q \in Range(opens) \cup {i} : \E s \in 1..n + 1 : oo[s] = q
      BY <1>4, <3>2, <3>3, <3>4
    <3>7. Range(oo) \subseteq Range(opens) \cup {i}
      BY <3>4, <3>5
    <3>8. Range(opens) \cup {i} \subseteq Range(oo)
      BY <3>4, <3>6
    <3> QED
      BY <3>7, <3>8
  <2> QED
    BY <1>2, <2>1, <2>2
<1>9. bb \in Seq(Range(bb))
  BY <1>5, OwnElements
<1>10. TypesHeld(types, i + 1)
  <2>1. TypesHeld(types, i)
    BY DEF Framed
  <2>2. program[i].k \notin {"declare", "function"}
    BY DEF Openers
  <2> QED
    BY <1>2, <2>1, <2>2, HeldOn
<1>11. ASSUME NEW s \in 1..n + 1, program[oo[s]].k # "function"
       PROVE  Kept(types, bb[s], oo[s])
  <2>1. CASE s \in 1..n
    BY <1>1, <1>4, <1>5, <1>11, <2>1 DEF Framed
  <2>2. CASE s = n + 1
    <3>1. TypesHeld(types, i)
      BY DEF Framed
    <3>2. Kept(types, DOMAIN types, i)
      BY <3>1 DEF Kept, TypesHeld
    <3> QED
      BY <1>4, <1>5, <2>2, <3>2
  <2> QED
    BY <1>2, <1>11, <2>1, <2>2
<1>12. Framed(oo, i + 1, types, bb)
  BY <1>4, <1>5, <1>7, <1>8, <1>9, <1>10, <1>11 DEF Framed
<1> QED
  BY <1>3, <1>12

\* A block is left.
LEMMA FramedEnd ==
  ASSUME program \in Program, NEW i \in DOMAIN program, Ends(i), at = i,
         program[Closed].k \notin {"switch", "function"},
         NEW opens, NEW types, NEW before, Framed(opens, i, types, before),
         NEW new, new = [x \in DOMAIN types \cap Last(before) |-> types[x]]
  PROVE  Framed(Front(opens), i + 1, new, Front(before)) /\ opens # <<>>
<1>1. PICK n, S, o : n = Len(opens) /\ S = Range(before) /\ o = Closed
  OBVIOUS
<1>2. /\ opens \in Seq(Nat) /\ before \in Seq(S) /\ Len(before) = n /\ n \in Nat /\ i \in Nat
      /\ Range(opens) = {q \in OpenAt(i) : program[q].k # "switch"} /\ DOMAIN opens = 1..n
  BY <1>1, ProgramDomain, LenProperties DEF Framed
<1>3. /\ o \in OpenAt(i) /\ Opens(o) /\ o \in DOMAIN program /\ Close(o) = i /\ o \in Nat /\ o < i
      /\ \A q \in OpenAt(i) : q <= o /\ (q # o => i < Close(q))
  <2>1. PICK q \in OpenAt(i) : Close(q) = i /\ \A r \in OpenAt(i) : r <= q /\ (r # q => i < Close(r))
    BY ClosedFacts
  <2>2. \E r \in DOMAIN program : Opens(r) /\ Close(r) = at
    BY <2>1, ProgramDomain DEF OpenAt
  <2>3. o \in DOMAIN program /\ Opens(o) /\ Close(o) = i
    BY <1>1, <2>2 DEF Closed
  <2>4. o \in OpenAt(i)
    <3>1. o \in Nat /\ o < i
      BY <1>2, <2>3, CloseFacts, ProgramDomain
    <3> QED
      BY <1>2, <2>3, <3>1, ProgramDomain DEF OpenAt
  <2>5. o = q
    BY <1>2, <2>1, <2>3, <2>4
  <2>6. o \in Nat /\ o < i
    BY <1>2, <2>4 DEF OpenAt
  <2> QED
    BY <2>1, <2>3, <2>4, <2>5, <2>6
<1>4. n # 0 /\ opens[n] = o
  <2>1. o \in Range(opens)
    BY <1>1, <1>2, <1>3
  <2>2. PICK k \in 1..n : opens[k] = o
    BY <1>2, <2>1 DEF Range
  <2>3. n \in 1..n /\ opens[n] \in Nat
    BY <1>2, <2>2
  <2>4. opens[n] <= o
    <3>1. opens[n] \in Range(opens)
      BY <1>2, <2>3 DEF Range
    <3> QED
      BY <1>2, <1>3, <3>1
  <2>5. k < n => opens[k] < opens[n]
    BY <1>1, <2>3 DEF Framed
  <2> QED
    BY <1>2, <1>3, <2>2, <2>3, <2>4, <2>5
<1>5. opens # <<>> /\ before # <<>>
  BY <1>1, <1>2, <1>4
<1>6. PICK oo, bb, names : oo = Front(opens) /\ bb = Front(before) /\ names = Last(before)
  OBVIOUS
<1>7. oo \in Seq(Nat) /\ Len(oo) = n - 1 /\ DOMAIN oo = 1..n - 1 /\ \A s \in 1..n - 1 : oo[s] = opens[s]
  BY <1>1, <1>2, <1>5, <1>6, FrontFacts
<1>8. bb \in Seq(S) /\ Len(bb) = n - 1 /\ names = before[n] /\ \A s \in 1..n - 1 : bb[s] = before[s]
  <2>1. /\ bb \in Seq(S) /\ Len(bb) = Len(before) - 1 /\ DOMAIN bb = 1..Len(before) - 1
        /\ names = before[Len(before)] /\ \A s \in DOMAIN bb : bb[s] = before[s]
    BY <1>2, <1>5, <1>6, FrontFacts, Zenon
  <2> QED
    BY <1>2, <2>1
<1>9. bb \in Seq(Range(bb))
  BY <1>8, OwnElements
<1>10. \A s, t \in 1..n - 1 : s < t => oo[s] < oo[t]
  <2>1. \A s \in 1..n - 1 : s \in 1..n
    BY <1>2
  <2> QED
    BY <1>1, <1>7, <2>1 DEF Framed
<1>11. Range(oo) = {q \in OpenAt(i + 1) : program[q].k # "switch"}
  <2>1. OpenAt(i + 1) = OpenAt(i) \ {o}
    BY <1>3, OpenStep
  <2>2. Range(oo) = Range(opens) \ {o}
    <3>1. \A s \in 1..n : s \in 1..n - 1 \/ s = n
      BY <1>2
    <3>2. \A s \in 1..n - 1 : s \in 1..n /\ opens[s] # o
      <4>1. SUFFICES ASSUME NEW s \in 1..n - 1 PROVE s \in 1..n /\ opens[s] # o
        OBVIOUS
      <4>2. s \in 1..n /\ n \in 1..n /\ s < n /\ opens[s] \in Nat
        BY <1>2, <4>1
      <4> QED
        BY <1>1, <1>3, <1>4, <4>2 DEF Framed
    <3>3. n \in 1..n
      BY <1>2, <1>4
    <3>4. ASSUME NEW q \in Range(oo) PROVE q \in Range(opens) \ {o}
      <4>1. PICK s \in 1..n - 1 : q = opens[s]
        BY <1>7 DEF Range
      <4> QED
        BY <1>2, <3>2, <4>1 DEF Range
    <3>5. ASSUME NEW q \in Range(opens) \ {o} PROVE q \in Range(oo)
      <4>1. PICK s \in 1..n : q = opens[s]
        BY <1>2 DEF Range
      <4>2. s \in 1..n - 1
        BY <1>4, <3>1, <4>1
      <4> QED
        BY <1>7, <4>1, <4>2 DEF Range
    <3> QED
      BY <3>4, <3>5
  <2> QED
    BY <1>2, <2>1, <2>2
<1>12. Kept(types, names, o)
  BY <1>1, <1>2, <1>4, <1>8 DEF Framed
<1>13. DOMAIN new = DOMAIN types \cap names /\ \A x \in DOMAIN new : new[x] = types[x]
  BY <1>6
<1>14. TypesHeld(new, i + 1)
  <2>1. ASSUME NEW x \in DOMAIN new
        PROVE  \E d \in Declarations : d.name = x /\ Holds(d, i + 1) /\ new[x] \in {Unknown, d.type}
    <3>1. PICK d \in Declarations : d.name = x /\ Holds(d, o) /\ types[x] \in {Unknown, d.type}
      BY <1>12, <1>13, <2>1 DEF Kept
    <3>2. Holds(d, i + 1)
      BY <1>3, <3>1, HoldsBehind
    <3> QED
      BY <1>13, <2>1, <3>1, <3>2
  <2>2. ASSUME NEW d \in Declarations, Holds(d, i + 1), Local(d)
        PROVE  d.name \in DOMAIN new /\ new[d.name] = d.type
    <3>1. d.at < o /\ d.at \in Nat
      BY <1>3, <2>2, HoldsBehind, ScopeFacts
    <3>2. Holds(d, i)
      BY <1>2, <1>3, <2>2, <3>1, HoldsBack
    <3>3. Holds(d, o)
      <4>1. d.scope[1] # 0 => Close(d.scope[1]) \in Nat
        BY ScopeFacts, ProgramDomain
      <4> QED
        BY <1>2, <1>3, <3>1, <3>2, <4>1 DEF Holds
    <3>4. d.name \in DOMAIN types /\ types[d.name] = d.type
      BY <2>2, <3>2 DEF Framed, TypesHeld
    <3>5. d.name \in names
      BY <1>12, <2>2, <3>3 DEF Kept
    <3> QED
      BY <1>13, <3>4, <3>5
  <2> QED
    BY <2>1, <2>2 DEF TypesHeld
<1>15. ASSUME NEW s \in 1..n - 1, program[oo[s]].k # "function"
       PROVE  Kept(new, bb[s], oo[s])
  <2>1. s \in 1..n
    BY <1>2
  <2>2. PICK q, nn : q = oo[s] /\ nn = bb[s] /\ Kept(types, nn, q)
    BY <1>1, <1>7, <1>8, <1>15, <2>1 DEF Framed
  <2>3. Kept(new, nn, q)
    BY <1>13, <2>2 DEF Kept
  <2> QED
    BY <2>2, <2>3
<1>16. Framed(oo, i + 1, new, bb)
  BY <1>7, <1>8, <1>9, <1>10, <1>11, <1>14, <1>15 DEF Framed
<1> QED
  BY <1>5, <1>6, <1>16

\* A function: its parameters, and the code of another begins.
LEMMA FramedFunction ==
  ASSUME program \in Program, NEW i \in DOMAIN program, program[i].k = "function",
         NEW params, DOMAIN params = {program[i].params[p].name : p \in DOMAIN program[i].params},
         ~Shadows,
         \A x \in DOMAIN params : \E p \in DOMAIN program[i].params :
           program[i].params[p].name = x /\ params[x] = program[i].params[p].type
  PROVE  Framed(<<i>>, i + 1, params, <<DOMAIN params>>)
<1>1. PICK opens, before : opens = <<i>> /\ before = <<DOMAIN params>>
  OBVIOUS
<1>2. i \in Nat /\ Opens(i) /\ ~Ends(i)
  BY ProgramDomain DEF Opens, Openers, Ends
<1>3. /\ opens \in Seq(Nat) /\ Len(opens) = 1 /\ opens[1] = i /\ DOMAIN opens = 1..1
      /\ before \in Seq({DOMAIN params}) /\ Len(before) = 1
  BY <1>1, <1>2
<1>4. OpenAt(i) = {} /\ OpenAt(i + 1) = {i}
  <2>1. OpenAt(i) = {}
    BY FunctionOpen
  <2>2. OpenAt(i + 1) = OpenAt(i) \cup {i}
    BY <1>2, OpenStep
  <2> QED
    BY <2>1, <2>2
<1>5. Range(opens) = {o \in OpenAt(i + 1) : program[o].k # "switch"}
  <2>1. Range(opens) = {i}
    BY <1>3 DEF Range
  <2> QED
    BY <1>4, <2>1
<1>6. before \in Seq(Range(before))
  BY <1>3, OwnElements
<1>7. ASSUME NEW x \in DOMAIN params
      PROVE  \E d \in Declarations : d.name = x /\ Holds(d, i + 1) /\ params[x] \in {Unknown, d.type}
  <2>1. PICK p \in DOMAIN program[i].params : program[i].params[p].name = x /\ params[x] = program[i].params[p].type
    OBVIOUS
  <2>2. PICK d \in Declarations : d.at = i /\ d.name = program[i].params[p].name /\ d.type = program[i].params[p].type
    BY DeclarationsAt
  <2>3. Holds(d, i + 1)
    BY <1>2, <2>2, HoldsNext
  <2> QED
    BY <2>1, <2>2, <2>3
<1>8. ASSUME NEW d \in Declarations, Holds(d, i + 1), Local(d)
      PROVE  d.name \in DOMAIN params /\ params[d.name] = d.type
  <2>1. d.at = i
    <3>1. SUFFICES ASSUME d.at # i PROVE FALSE
      OBVIOUS
    <3>2. Holds(d, i)
      BY <1>8, <3>1, HoldsBack
    <3>3. d.at \in Nat /\ d.at < i /\ d.scope[1] \in 0..d.at /\ d.at \in DOMAIN program
      BY <3>2, ScopeFacts DEF Holds
    <3>4. CASE d.scope[1] # 0
      <4>1. d.scope[1] \in DOMAIN program /\ Opens(d.scope[1]) /\ i <= Close(d.scope[1])
        BY <3>2, <3>4, ScopeFacts DEF Holds
      <4>2. d.scope[1] \in OpenAt(i)
        BY <1>2, <3>3, <3>4, <4>1 DEF OpenAt
      <4> QED
        BY <1>4, <4>2
    <3>5. CASE d.scope[1] = 0
      <4>1. /\ program[d.at].k \in Block /\ \A q \in OpenAt(d.at) : q <= 0
        BY <3>3, <3>5, RankOfDeclaration
      <4>2. OpenAt(d.at) = {}
        BY <3>3, <4>1, ProgramDomain DEF OpenAt
      <4>3. Depth(program, d.at - 1) = 0
        BY <3>3, <4>2, TopOpen
      <4>4. program[d.at].k # "declare"
        BY <3>3, <4>3, TreeAssumption
      <4> QED
        BY <1>8, <4>1, <4>4 DEF Local, Block
    <3> QED
      BY <3>4, <3>5
  <2>2. PICK p \in DOMAIN program[i].params : d.name = program[i].params[p].name
    BY <2>1, DeclarationKinds
  <2>3. d.name \in DOMAIN params
    BY <2>2
  <2>4. PICK q \in DOMAIN program[i].params :
          program[i].params[q].name = d.name /\ params[d.name] = program[i].params[q].type
    BY <2>3
  <2>5. PICK e \in Declarations : e.at = i /\ e.name = program[i].params[q].name /\ e.type = program[i].params[q].type
    BY DeclarationsAt
  <2>6. Holds(e, i + 1)
    BY <1>2, <2>5, HoldsNext
  <2>7. d \in Visible(i + 1, d.name) /\ e \in Visible(i + 1, d.name)
    <3>1. d.at \in Nat /\ e.at \in Nat /\ i + 1 \in Nat /\ e.name = d.name
      BY <1>2, <2>1, <2>4, <2>5
    <3> QED
      BY <1>8, <2>6, <3>1, HoldsVisible
  <2>8. d = e
    BY <1>2, <2>7, Alone
  <2> QED
    BY <2>3, <2>4, <2>5, <2>8
<1>9. \A s \in 1..Len(opens) : program[opens[s]].k = "function" /\ s = 1
  BY <1>3
<1>10. Framed(opens, i + 1, params, before)
  BY <1>3, <1>5, <1>6, <1>7, <1>8, <1>9 DEF Framed, TypesHeld
<1> QED
  BY <1>1, <1>10

\* Behind a function nothing is left.
LEMMA FramedBehind ==
  ASSUME program \in Program, NEW i \in DOMAIN program, Ends(i), at = i, program[Closed].k = "function"
  PROVE  Framed(<<>>, i + 1, <<>>, <<>>)
<1>1. PICK o \in OpenAt(i) : Close(o) = i /\ \A q \in OpenAt(i) : q <= o /\ (q # o => i < Close(q))
  BY ClosedFacts
<1>2. i \in Nat /\ o \in Nat /\ o \in DOMAIN program /\ Opens(o) /\ \A q \in OpenAt(i) : q \in Nat
  BY <1>1, ProgramDomain DEF OpenAt
<1>3. Closed = o
  <2>1. Closed \in DOMAIN program /\ Opens(Closed) /\ Close(Closed) = i
    BY <1>1, <1>2 DEF Closed
  <2>2. PICK c \in DOMAIN program : c = Closed /\ c \in Nat
    BY <2>1, ProgramDomain
  <2>3. c \in OpenAt(i)
    <3>1. c < i
      BY <1>2, <2>1, <2>2, CloseFacts, ProgramDomain
    <3> QED
      BY <1>2, <2>1, <2>2, <3>1, ProgramDomain DEF OpenAt
  <2> QED
    BY <1>1, <1>2, <2>1, <2>2, <2>3
<1>4. OpenAt(i) = {o}
  <2>1. i \in 1..Len(program) + 1
    BY ProgramDomain
  <2>2. \A q \in OpenAt(i) : o <= q
    BY <1>1, <1>3, <2>1, FunctionOpen
  <2>3. \A q \in OpenAt(i) : q = o
    BY <1>1, <1>2, <2>2
  <2> QED
    BY <1>1, <2>3
<1>5. OpenAt(i + 1) = {}
  <2>1. OpenAt(i + 1) = OpenAt(i) \ {o}
    BY <1>1, OpenStep
  <2> QED
    BY <1>4, <2>1
<1>6. ASSUME NEW d \in Declarations, Holds(d, i + 1)
      PROVE  ~Local(d)
  <2>1. /\ d.at \in Nat /\ d.at < i + 1 /\ d.scope[1] \in 0..d.at /\ d.at \in DOMAIN program
        /\ (d.scope[1] = 0 \/ i + 1 <= Close(d.scope[1]))
    BY <1>6, ScopeFacts DEF Holds
  <2>2. d.scope[1] = 0
    <3>1. SUFFICES ASSUME d.scope[1] # 0 PROVE FALSE
      OBVIOUS
    <3>2. Opens(d.scope[1])
      BY <3>1, ScopeFacts
    <3>3. d.scope[1] \in OpenAt(i + 1)
      BY <1>2, <2>1, <3>1, <3>2 DEF OpenAt
    <3> QED
      BY <1>5, <3>3
  <2>3. /\ program[d.at].k \in Block /\ \A q \in OpenAt(d.at) : q <= 0
    BY <2>1, <2>2, RankOfDeclaration
  <2>4. OpenAt(d.at) = {}
    BY <2>1, <2>3, ProgramDomain DEF OpenAt
  <2>5. Depth(program, d.at - 1) = 0
    BY <2>1, <2>4, TopOpen
  <2>6. program[d.at].k # "declare"
    BY <2>1, <2>5, TreeAssumption
  <2> QED
    BY <2>3, <2>6 DEF Local, Block
<1>7. TypesHeld(<<>>, i + 1)
  <2>1. DOMAIN <<>> = {}
    OBVIOUS
  <2> QED
    BY <1>6, <2>1 DEF TypesHeld
<1>8. ASSUME NEW e, e = <<>>
      PROVE  e \in Seq(Nat) /\ e \in Seq(Range(e)) /\ Len(e) = 0 /\ Range(e) = {} /\ 1..0 = {}
  BY <1>8 DEF Range
<1> QED
  BY <1>5, <1>7, <1>8 DEF Framed

\* A local is declared.
LEMMA HeldDeclared ==
  ASSUME program \in Program, ~Shadows, NEW i \in DOMAIN program, program[i].k = "declare",
         NEW types, TypesHeld(types, i),
         NEW new, new = Put(types, program[i].name, program[i].type)
  PROVE  TypesHeld(new, i + 1)
<1>1. PICK x0 : x0 = program[i].name
  OBVIOUS
<1>2. /\ DOMAIN new = DOMAIN types \cup {x0} /\ new[x0] = program[i].type
      /\ \A x \in DOMAIN types : x # x0 => new[x] = types[x]
  BY <1>1 DEF Put
<1>3. PICK d0 \in Declarations : d0.at = i /\ d0.name = x0 /\ d0.type = program[i].type
                                 /\ \A e \in Declarations : e.at = i => e = d0
  <2>1. PICK d \in Declarations : d.at = i
    BY DeclarationsAt DEF Block
  <2>2. d.name = program[i].name /\ d.type = program[i].type /\ \A e \in Declarations : e.at = i => e = d
    BY <2>1, DeclarationKinds
  <2> QED
    BY <1>1, <2>1, <2>2
<1>4. ~Ends(i) /\ i \in Nat /\ i + 1 \in Nat
  BY ProgramDomain DEF Ends
<1>5. Holds(d0, i + 1)
  BY <1>3, <1>4, HoldsNext
<1>6. ASSUME NEW x \in DOMAIN new
      PROVE  \E d \in Declarations : d.name = x /\ Holds(d, i + 1) /\ new[x] \in {Unknown, d.type}
  <2>1. CASE x = x0
    BY <1>2, <1>3, <1>5, <2>1
  <2>2. CASE x # x0
    <3>1. x \in DOMAIN types /\ new[x] = types[x]
      BY <1>2, <1>6, <2>2
    <3>2. PICK d \in Declarations : d.name = x /\ Holds(d, i) /\ types[x] \in {Unknown, d.type}
      BY <3>1 DEF TypesHeld
    <3>3. d.at <= i
      BY <1>4, <3>2, ScopeFacts DEF Holds
    <3>4. Holds(d, i + 1)
      BY <1>4, <3>2, <3>3, HoldsNext
    <3> QED
      BY <3>1, <3>2, <3>4
  <2> QED
    BY <2>1, <2>2
<1>7. ASSUME NEW d \in Declarations, Holds(d, i + 1), Local(d)
      PROVE  d.name \in DOMAIN new /\ new[d.name] = d.type
  <2>1. CASE d.name = x0
    <3>1. d \in Visible(i + 1, x0) /\ d0 \in Visible(i + 1, x0)
      BY <1>3, <1>4, <1>5, <1>7, <2>1, HoldsVisible, ScopeFacts
    <3>2. d = d0
      BY <1>4, <3>1, Alone
    <3> QED
      BY <1>2, <1>3, <3>2
  <2>2. CASE d.name # x0
    <3>1. d.at # i
      BY <1>3, <2>2
    <3>2. Holds(d, i)
      BY <1>7, <3>1, HoldsBack
    <3>3. d.name \in DOMAIN types /\ types[d.name] = d.type
      BY <1>7, <3>2 DEF TypesHeld
    <3> QED
      BY <1>2, <2>2, <3>3
  <2> QED
    BY <2>1, <2>2
<1> QED
  BY <1>6, <1>7 DEF TypesHeld

\* What the linter has made sure of.
Resolved == ~Faulty /\ \A i \in DOMAIN program : Sound(i)

\* A variable is assigned.
LEMMA HeldAssigned ==
  ASSUME program \in Program, Resolved, NEW i \in DOMAIN program, program[i].k = "assign",
         NEW types, TypesHeld(types, i), NEW x0, x0 = program[i].name,
         NEW new, new = Put(types, x0, TypeIn(types, x0))
  PROVE  TypesHeld(new, i + 1) /\ \A x \in DOMAIN new : \/ x \in DOMAIN types /\ new[x] = types[x]
                                                       \/ new[x] = Unknown
<1>1. /\ DOMAIN new = DOMAIN types \cup {x0}
      /\ \A x \in DOMAIN types : new[x] = types[x]
      /\ x0 \notin DOMAIN types => new[x0] = Unknown
  BY DEF Put, TypeIn
<1>2. ~Ends(i) /\ i \in Nat /\ i + 1 \in Nat
  BY ProgramDomain DEF Ends
<1>3. TypesHeld(types, i + 1)
  BY <1>2, HeldOn
<1>4. PICK d0 \in Declarations : d0.name = x0 /\ Holds(d0, i + 1)
  <2>1. Visible(i, x0) # {}
    BY DEF Resolved, Sound
  <2>2. PICK d \in Visible(i, x0) : TRUE
    BY <2>1
  <2>3. d \in Declarations /\ d.name = x0 /\ d.at <= i /\ (d.scope[1] = 0 \/ i <= Close(d.scope[1]))
    BY <2>2 DEF Visible
  <2>4. d.at # i
    <3>1. program[i].k \notin Block \cup Heads
      BY DEF Block, Heads
    <3> QED
      BY <2>3, <3>1, NothingDeclared
  <2>5. Holds(d, i)
    BY <1>2, <2>3, <2>4, ScopeFacts DEF Holds
  <2>6. Holds(d, i + 1)
    BY <1>2, <2>3, <2>5, HoldsNext
  <2> QED
    BY <2>3, <2>6
<1>5. \A x \in DOMAIN new : \/ x \in DOMAIN types /\ new[x] = types[x]
                            \/ x = x0 /\ new[x] = Unknown
  BY <1>1
<1>6. ASSUME NEW x \in DOMAIN new
      PROVE  \E d \in Declarations : d.name = x /\ Holds(d, i + 1) /\ new[x] \in {Unknown, d.type}
  <2>1. CASE x \in DOMAIN types /\ new[x] = types[x]
    BY <1>3, <2>1 DEF TypesHeld
  <2>2. CASE x = x0 /\ new[x] = Unknown
    BY <1>4, <2>2
  <2> QED
    BY <1>5, <2>1, <2>2
<1>7. ASSUME NEW d \in Declarations, Holds(d, i + 1), Local(d)
      PROVE  d.name \in DOMAIN new /\ new[d.name] = d.type
  <2>1. d.name \in DOMAIN types /\ types[d.name] = d.type
    BY <1>3, <1>7 DEF TypesHeld
  <2> QED
    BY <1>1, <2>1
<1> QED
  BY <1>5, <1>6, <1>7 DEF TypesHeld

\* The program stays.
LEMMA SameFrames ==
  ASSUME program' = program
  PROVE  /\ Shadows' = Shadows /\ Scalars' = Scalars
         /\ \A opens, i, types, before : Framed(opens, i, types, before)' = Framed(opens, i, types, before)
<1>1. Declarations' = Declarations
  BY SameProgram
<1>2. \A o : Close(o)' = Close(o)
  BY DEF Close
<1>3. \A i, x : Visible(i, x)' = Visible(i, x)
  BY <1>1, <1>2 DEF Visible
<1>4. \A i : OpenAt(i)' = OpenAt(i)
  BY <1>2 DEF OpenAt, Opens
<1>5. Shadows' = Shadows /\ Scalars' = Scalars
  BY <1>1, <1>3 DEF Shadows, Scalars
<1>6. ASSUME NEW types, NEW i
      PROVE  TypesHeld(types, i)' = TypesHeld(types, i)
  BY <1>1, <1>2 DEF TypesHeld, Holds, Local, Unknown, Type
<1>7. ASSUME NEW types, NEW names, NEW o
      PROVE  Kept(types, names, o)' = Kept(types, names, o)
  BY <1>1, <1>2 DEF Kept, Holds, Local, Unknown, Type
<1>8. ASSUME NEW opens, NEW i, NEW types, NEW before
      PROVE  Framed(opens, i, types, before)' = Framed(opens, i, types, before)
  BY <1>4, <1>6, <1>7 DEF Framed
<1> QED
  BY <1>5, <1>8

\* A statement is lowered.
LEMMA LowerStatement ==
  ASSUME LowerInv, SoundInv', pass = "lower", NEW i \in DOMAIN program, at = i,
         program' = program, pass' = pass, at' = at + 1,
         NEW types, types = variable_types', NEW before, before = vars_before',
         ~Shadows => \E opens \in Seq(Nat) : Framed(opens, i + 1, types, before)
  PROVE  LowerInv'
<1>1. i \in 1..Len(program) /\ Len(program) \in Nat
  BY ProgramDomain DEF LowerInv, SoundInv, ScopesInv
<1>2. at' \in 1..Len(program') + 1
  BY <1>1
<1>3. ASSUME ~Shadows'
      PROVE  \E opens \in Seq(Nat) : Framed(opens, at, variable_types, vars_before)'
  <2>1. PICK opens \in Seq(Nat) : Framed(opens, i + 1, types, before)
    BY <1>3, SameFrames
  <2>2. Framed(opens, i + 1, types, before)'
    BY <2>1, SameFrames
  <2> QED
    BY <2>2
<1> QED
  BY <1>2, <1>3 DEF LowerInv

\* At a statement that neither opens nor ends a block.
LEMMA OpenSame ==
  ASSUME program \in Program, NEW i \in DOMAIN program
  PROVE  (~Opens(i) /\ ~Ends(i)) \/ program[i].k = "switch" \/ (Ends(i) /\ at = i /\ program[Closed].k = "switch") =>
              {o \in OpenAt(i + 1) : program[o].k # "switch"} = {o \in OpenAt(i) : program[o].k # "switch"}
<1>1. CASE ~Opens(i) /\ ~Ends(i)
  BY <1>1, OpenStep
<1>2. CASE program[i].k = "switch"
  <2>1. OpenAt(i + 1) = OpenAt(i) \cup {i}
    BY <1>2, OpenStep DEF Opens, Openers
  <2> QED
    BY <1>2, <2>1
<1>3. CASE Ends(i) /\ at = i /\ program[Closed].k = "switch"
  <2>1. PICK o \in OpenAt(i) : Close(o) = i /\ \A q \in OpenAt(i) : q <= o /\ (q # o => i < Close(q))
    BY <1>3, ClosedFacts
  <2>2. i \in Nat /\ o \in DOMAIN program /\ Opens(o) /\ o \in Nat /\ \A q \in OpenAt(i) : q \in Nat
    BY <2>1, ProgramDomain DEF OpenAt
  <2>3. PICK c : c = Closed /\ c \in DOMAIN program /\ Opens(c) /\ Close(c) = i
    <3>1. \E q \in DOMAIN program : Opens(q) /\ Close(q) = at
      BY <1>3, <2>1, <2>2
    <3> QED
      BY <1>3, <3>1 DEF Closed
  <2>4. c = o
    <3>1. c \in Nat /\ c < i
      BY <2>2, <2>3, CloseFacts, ProgramDomain
    <3>2. c \in OpenAt(i)
      BY <2>2, <2>3, <3>1, ProgramDomain DEF OpenAt
    <3> QED
      BY <2>1, <2>2, <2>3, <3>2
  <2>5. OpenAt(i + 1) = OpenAt(i) \ {o}
    BY <1>3, <2>1, OpenStep
  <2> QED
    BY <1>3, <2>3, <2>4, <2>5
<1> QED
  BY <1>1, <1>2, <1>3

\* No step of ir_gen breaks the frames.
LEMMA LowerNames ==
  ASSUME LowerInv, SoundInv', pass = "lower", Next
  PROVE  LowerInv'
<1>1. program \in Program /\ Resolved
  BY DEF LowerInv, SoundInv, ScopesInv, Resolved
<1>2. CASE LowerDone
  <2>1. pass' = "emit"
    BY <1>2 DEF LowerDone
  <2> QED
    BY <2>1 DEF LowerInv
<1>3. ASSUME ~LowerDone
      PROVE  \/ LowerGlobal \/ LowerFunction \/ LowerDeclaration \/ LowerAssignment \/ LowerExpression
             \/ LowerConditional \/ LowerPlainBlock \/ LowerFor \/ LowerForAssign \/ LowerEnd
  BY <1>3 DEF Next, LintNext, CollectFunctions, LintUnheeded, LintGlobal, LintFunction, LintDeclaration, LintArray,
     LintAssignment, LintExpression, LintConditional, LintPlainBlock, LintFor, LintForAssign, LintSwitch, LintCase, LintEnd,
     LintDone, Lint, EmitEnter, EmitStore, EmitLoad, EmitLoadFails, EmitSkip, Instruction
<1>4. ASSUME ~LowerDone
      PROVE  LowerInv'
  <2>1. PICK i : i = at
    OBVIOUS
  <2>2. /\ at <= Len(program) /\ program' = program /\ pass' = pass /\ at' = at + 1
    BY <1>3, <1>4 DEF LowerGlobal, LowerFunction, LowerDeclaration, LowerAssignment, LowerExpression,
       LowerConditional, LowerPlainBlock, LowerFor, LowerForAssign, LowerEnd, Lower, Emit
  <2>3. i \in DOMAIN program /\ i \in Nat
    BY <1>1, <2>1, <2>2, ProgramDomain DEF LowerInv
  <2>4. PICK types, before, old, frames : types = variable_types' /\ before = vars_before'
                                          /\ old = variable_types /\ frames = vars_before
    OBVIOUS
  <2>5. SUFFICES ASSUME ~Shadows
                 PROVE  \E opens \in Seq(Nat) : Framed(opens, i + 1, types, before)
    BY <2>1, <2>2, <2>3, <2>4, LowerStatement
  <2>6. PICK opens \in Seq(Nat) : Framed(opens, i, old, frames)
    BY <2>1, <2>4, <2>5 DEF LowerInv
  <2>7. TypesHeld(old, i)
    BY <2>6 DEF Framed
  <2>8. CASE LowerGlobal \/ LowerExpression
    <3>1. program[i].k \in {"global", "enum", "expression", "switch"} /\ types = old /\ before = frames
      BY <2>1, <2>4, <2>8 DEF LowerGlobal, LowerExpression, Lower, Emit, Here
    <3>2. ~Ends(i) /\ (~Opens(i) \/ program[i].k = "switch")
      BY <3>1 DEF Ends, Opens, Openers
    <3>3. TypesHeld(old, i + 1)
      BY <1>1, <2>3, <2>7, <3>1, <3>2, HeldOn
    <3>4. {o \in OpenAt(i + 1) : program[o].k # "switch"} = {o \in OpenAt(i) : program[o].k # "switch"}
      BY <1>1, <2>3, <3>2, OpenSame
    <3>5. Framed(opens, i + 1, old, frames)
      BY <1>1, <2>3, <2>5, <2>6, <3>2, <3>3, <3>4, FramedOn
    <3> QED
      BY <3>1, <3>5
  <2>9. CASE LowerFunction
    <3>1. PICK params : params = [x \in {Here.params[p].name : p \in DOMAIN Here.params} |->
                                    (CHOOSE p \in Range(Here.params) : p.name = x).type]
      OBVIOUS
    <3>2. program[i].k = "function" /\ types = params /\ before = <<DOMAIN params>> /\ Here = program[i]
      BY <2>1, <2>4, <2>9, <3>1 DEF LowerFunction, Lower, Emit, Here
    <3>3. DOMAIN params = {program[i].params[p].name : p \in DOMAIN program[i].params}
      BY <3>1, <3>2
    <3>4. ASSUME NEW x \in DOMAIN params
          PROVE  \E p \in DOMAIN program[i].params :
                   program[i].params[p].name = x /\ params[x] = program[i].params[p].type
      <4>1. PICK q : q = CHOOSE p \in Range(program[i].params) : p.name = x
        OBVIOUS
      <4>2. \E p \in Range(program[i].params) : p.name = x
        BY <3>3, <3>4 DEF Range
      <4>3. q \in Range(program[i].params) /\ q.name = x
        BY <4>1, <4>2
      <4>4. params[x] = q.type
        BY <3>1, <3>2, <3>4, <4>1
      <4> QED
        BY <4>3, <4>4 DEF Range
    <3>5. Framed(<<i>>, i + 1, params, <<DOMAIN params>>)
      BY <1>1, <2>3, <2>5, <3>2, <3>3, <3>4, FramedFunction
    <3>6. <<i>> \in Seq(Nat)
      BY <2>3
    <3> QED
      BY <3>2, <3>5, <3>6
  <2>10. CASE LowerDeclaration
    <3>1. program[i].k = "declare" /\ types = Put(old, program[i].name, program[i].type) /\ before = frames
      BY <2>1, <2>4, <2>10 DEF LowerDeclaration, Lower, Emit, Here
    <3>2. ~Ends(i) /\ ~Opens(i)
      BY <3>1 DEF Ends, Opens, Openers
    <3>3. TypesHeld(types, i + 1)
      BY <1>1, <2>3, <2>5, <2>7, <3>1, HeldDeclared
    <3>4. {o \in OpenAt(i + 1) : program[o].k # "switch"} = {o \in OpenAt(i) : program[o].k # "switch"}
      BY <1>1, <2>3, <3>2, OpenSame
    <3>5. PICK d \in Declarations : d.at = i /\ d.name = program[i].name
      <4>1. PICK d \in Declarations : d.at = i
        BY <2>3, <3>1, DeclarationsAt DEF Block
      <4> QED
        BY <3>1, <4>1, DeclarationKinds
    <3>6. \A x \in DOMAIN types : \/ x \in DOMAIN old /\ types[x] = old[x]
                                  \/ x = program[i].name
      BY <3>1 DEF Put
    <3>7. \A x \in DOMAIN types : \/ x \in DOMAIN old /\ types[x] = old[x]
                                  \/ types[x] = Unknown
                                  \/ \E e \in Declarations : e.at = i /\ e.name = x /\ program[i].k \notin Openers
      BY <3>2, <3>5, <3>6 DEF Opens
    <3>8. Framed(opens, i + 1, types, frames)
      BY <1>1, <2>3, <2>5, <2>6, <3>2, <3>3, <3>4, <3>7, FramedOn
    <3> QED
      BY <3>1, <3>8
  <2>11. CASE LowerAssignment
    <3>1. PICK x : x = program[i].name
      OBVIOUS
    <3>2. program[i].k = "assign" /\ types = Put(old, x, TypeIn(old, x)) /\ before = frames
      BY <2>1, <2>4, <2>11, <3>1 DEF LowerAssignment, Lower, Emit, Here
    <3>3. ~Ends(i) /\ ~Opens(i)
      BY <3>2 DEF Ends, Opens, Openers
    <3>4. /\ TypesHeld(types, i + 1)
          /\ \A y \in DOMAIN types : \/ y \in DOMAIN old /\ types[y] = old[y]
                                     \/ types[y] = Unknown
      BY <1>1, <2>3, <2>7, <3>1, <3>2, HeldAssigned
    <3>5. {o \in OpenAt(i + 1) : program[o].k # "switch"} = {o \in OpenAt(i) : program[o].k # "switch"}
      BY <1>1, <2>3, <3>3, OpenSame
    <3>6. Framed(opens, i + 1, types, frames)
      BY <1>1, <2>3, <2>5, <2>6, <3>3, <3>4, <3>5, FramedOn
    <3> QED
      BY <3>2, <3>6
  <2>12. CASE LowerConditional \/ LowerPlainBlock \/ LowerFor \/ LowerForAssign
    <3>1. /\ program[i].k \in {"if", "elseif", "while", "else", "loop", "case", "default", "for", "forassign"}
          /\ types = old /\ before = Append(frames, DOMAIN old)
      BY <2>1, <2>4, <2>12 DEF LowerConditional, LowerPlainBlock, LowerFor, LowerForAssign, Lower, Emit, Here, Snapshot
    <3>2. program[i].k \in Openers \ {"switch", "function"}
      BY <3>1 DEF Openers
    <3>3. Framed(Append(opens, i), i + 1, old, Append(frames, DOMAIN old))
      BY <1>1, <2>3, <2>6, <3>2, FramedOpen
    <3>4. Append(opens, i) \in Seq(Nat)
      BY <2>3
    <3> QED
      BY <3>1, <3>3, <3>4
  <2>13. CASE LowerEnd
    <3>1. Ends(i) /\ at = i
      BY <2>1, <2>13 DEF LowerEnd, Lower, Here, Ends
    <3>2. CASE program[Closed].k = "switch"
      <4>1. types = old /\ before = frames
        BY <2>4, <2>13, <3>2 DEF LowerEnd, Emit
      <4>2. program[i].k \notin {"declare", "function"}
        BY <3>1 DEF Ends
      <4>3. TypesHeld(old, i + 1)
        BY <1>1, <2>3, <2>7, <3>1, <3>2, <4>2, HeldOn
      <4>4. {o \in OpenAt(i + 1) : program[o].k # "switch"} = {o \in OpenAt(i) : program[o].k # "switch"}
        BY <1>1, <2>3, <3>1, <3>2, OpenSame
      <4>5. Framed(opens, i + 1, old, frames)
        BY <1>1, <2>3, <2>5, <2>6, <3>1, <3>2, <4>3, <4>4, FramedOn
      <4> QED
        BY <4>1, <4>5
    <3>3. CASE program[Closed].k = "function"
      <4>1. types = <<>> /\ before = <<>>
        BY <2>4, <2>13, <3>3 DEF LowerEnd, Emit
      <4>2. Framed(<<>>, i + 1, <<>>, <<>>)
        BY <1>1, <2>3, <3>1, <3>3, FramedBehind
      <4>3. <<>> \in Seq(Nat)
        OBVIOUS
      <4> QED
        BY <4>1, <4>2, <4>3
    <3>4. CASE program[Closed].k \notin {"switch", "function"}
      <4>1. types = [x \in DOMAIN old \cap Last(frames) |-> old[x]] /\ before = Front(frames)
        BY <2>4, <2>13, <3>4 DEF LowerEnd, Emit, Cleanup
      <4>2. Framed(Front(opens), i + 1, types, Front(frames)) /\ opens # <<>>
        BY <1>1, <2>3, <2>6, <3>1, <3>4, <4>1, FramedEnd
      <4>3. Front(opens) \in Seq(Nat)
        BY <4>2, FrontFacts
      <4> QED
        BY <4>1, <4>2, <4>3
    <3> QED
      BY <3>2, <3>3, <3>4
  <2> QED
    BY <1>3, <1>4, <2>8, <2>9, <2>10, <2>11, <2>12, <2>13
<1> QED
  BY <1>2, <1>4

\* Nor do the others.
LEMMA LowerNext == LowerInv /\ [Next]_vars => LowerInv'
<1>1. ASSUME LowerInv, [Next]_vars
      PROVE  SoundInv' /\ program \in Program
  BY <1>1, SoundNext DEF LowerInv, SoundInv, ScopesInv
<1>2. ASSUME LowerInv, Next
      PROVE  LowerInv'
  <2>1. CASE pass = "lower"
    BY <1>1, <1>2, <2>1, LowerNames
  <2>2. CASE LintNext
    <3>1. /\ pass \in {"collect", "lint"}
          /\ pass' \in {"collect", "lint", "lower", "done"} /\ (pass' = "lower" => at' = 1)
          /\ UNCHANGED <<variable_types, vars_before, code>> /\ program' = program
      BY <1>2, <2>2 DEF Next, LowerGlobal, LowerFunction, LowerDeclaration, LowerAssignment, LowerExpression,
         LowerConditional, LowerPlainBlock, LowerFor, LowerForAssign, LowerEnd, LowerDone, Lower,
         EmitEnter, EmitStore, EmitLoad, EmitLoadFails, EmitSkip, Instruction,
         LintNext, CollectFunctions, LintUnheeded, LintGlobal, LintFunction, LintDeclaration, LintArray,
         LintAssignment, LintExpression, LintConditional, LintPlainBlock, LintFor, LintForAssign, LintSwitch, LintCase, LintEnd,
         LintDone, Lint, Go, lowerVars
    <3>2. variable_types' = <<>> /\ vars_before' = <<>> /\ code' = <<>>
      BY <1>2, <3>1 DEF LowerInv
    <3>3. ASSUME NEW e, e = <<>>
          PROVE  Framed(e, 1, e, e)
      <4>1. e \in Seq(Nat) /\ e \in Seq(Range(e)) /\ Len(e) = 0 /\ Range(e) = {} /\ DOMAIN e = {} /\ 1..0 = {}
        BY <3>3 DEF Range
      <4>2. \A d \in Declarations : ~Holds(d, 1)
        BY <1>1, <1>2, ScopeFacts DEF Holds
      <4>3. OpenAt(1) = {}
        BY DEF OpenAt
      <4> QED
        BY <4>1, <4>2, <4>3 DEF Framed, TypesHeld
    <3>4. \A e : e = <<>> => Framed(e, 1, e, e)'
      BY <3>1, <3>3, SameFrames
    <3>5. pass' = "lower" => at' \in 1..Len(program') + 1
      BY <1>1, <1>2, <3>1, ProgramDomain
    <3>6. <<>> \in Seq(Nat)
      OBVIOUS
    <3> QED
      BY <1>1, <1>2, <3>1, <3>2, <3>4, <3>5, <3>6 DEF LowerInv
  <2>3. CASE pass = "emit"
    <3>1. pass' = "emit"
      BY <1>2, <2>3 DEF Next, LowerGlobal, LowerFunction, LowerDeclaration, LowerAssignment, LowerExpression,
         LowerConditional, LowerPlainBlock, LowerFor, LowerForAssign, LowerEnd, LowerDone, Lower,
         EmitEnter, EmitStore, EmitLoad, EmitLoadFails, EmitSkip, Instruction, Emitted, lintVars,
         LintNext, CollectFunctions, LintUnheeded, LintGlobal, LintFunction, LintDeclaration, LintArray,
         LintAssignment, LintExpression, LintConditional, LintPlainBlock, LintFor, LintForAssign, LintSwitch, LintCase, LintEnd,
         LintDone, Lint
    <3> QED
      BY <1>1, <1>2, <3>1 DEF LowerInv
  <2>4. LintNext \/ pass \in {"lower", "emit"}
    BY <1>1, <1>2, BehindTheLinter
  <2> QED
    BY <2>1, <2>2, <2>3, <2>4
<1>3. ASSUME LowerInv, UNCHANGED vars
      PROVE  LowerInv'
  <2>1. /\ program' = program /\ pass' = pass /\ at' = at /\ variable_types' = variable_types
        /\ vars_before' = vars_before /\ code' = code
    BY <1>3 DEF vars, lintVars, lowerVars
  <2>2. PICK i, types, before : i = at /\ types = variable_types /\ before = vars_before
    OBVIOUS
  <2>3. \A opens \in Seq(Nat) : Framed(opens, i, types, before)' = Framed(opens, i, types, before)
    BY <2>1, SameFrames
  <2>4. Shadows' = Shadows
    BY <2>1, SameFrames
  <2> QED
    BY <1>1, <1>3, <2>1, <2>2, <2>3, <2>4 DEF LowerInv
<1> QED
  BY <1>2, <1>3

\* While a block is lowered, ir_gen has the types the linter saw there: those of
\* declarations that hold there, and none for globals and counters.
THEOREM LoweredTypesAgree == Spec => []TypesAgree
<1>1. Init => LowerInv
  BY ScopesInit DEF Init, LintInit, SoundInv, LowerInv
<1>2. LowerInv => TypesAgree
  <2>1. SUFFICES ASSUME LowerInv, pass = "lower", at <= Len(program), ~Shadows,
                        NEW x \in DOMAIN variable_types, variable_types[x] # Unknown
                 PROVE  \E d \in Visible(at, x) : d.type = variable_types[x]
    BY DEF TypesAgree
  <2>2. PICK opens \in Seq(Nat) : Framed(opens, at, variable_types, vars_before)
    BY <2>1 DEF LowerInv
  <2>3. program \in Program /\ at \in Nat
    BY <2>1, ProgramDomain DEF LowerInv, SoundInv, ScopesInv
  <2>4. PICK d \in Declarations : d.name = x /\ Holds(d, at) /\ variable_types[x] \in {Unknown, d.type}
    BY <2>1, <2>2 DEF Framed, TypesHeld
  <2>5. d \in Visible(at, x)
    BY <2>3, <2>4, HoldsVisible, ScopeFacts
  <2> QED
    BY <2>1, <2>4, <2>5
<1> QED
  BY <1>1, <1>2, LowerNext, PTL DEF Spec

-------------------------------------------------------------------------------
(* What the code does to the slots. *)

\* What was stored last under each name, and the type a name has in the frame.
Fresh == [means |-> <<>>, types |-> <<>>]

ParamNames(f) == {program[f].params[p].name : p \in DOMAIN program[f].params}

Entered(f) ==
  [means |-> [x \in ParamNames(f) |-> Meaning(f, x)],
   types |-> [x \in ParamNames(f) |-> (CHOOSE p \in Range(program[f].params) : p.name = x).type]]

Stored(run, x, d, type) ==
  [means |-> Put(run.means, x, d),
   types |-> IF x \in DOMAIN run.means THEN run.types ELSE Put(run.types, x, type)]

\* What an instruction makes of it.  A load finds what its name means.
Effect(run, q, next) ==
  \/ q.op = "enter" /\ q.at \in DOMAIN program /\ program[q.at].k = "function" /\ next = Entered(q.at)
  \/ /\ q.op = "op_store" /\ Visible(q.at, q.name) # {}
     /\ next = Stored(run, q.name, Meaning(q.at, q.name), q.type)
  \/ /\ q.op = "op_load" /\ next = run
     /\ q.name \in DOMAIN run.means /\ run.means[q.name] = Meaning(q.at, q.name)
     /\ run.types[q.name] = run.means[q.name].type

\* The first n instructions of some code lead from one run to another.
Leads(from, instrs, n, to) ==
  \E runs : runs[0] = from /\ runs[n] = to /\ \A k \in 1..n : Effect(runs[k - 1], instrs[k], runs[k])

LEMMA LeadsNone ==
  ASSUME NEW from, NEW instrs
  PROVE  Leads(from, instrs, 0, from)
<1>1. PICK runs : runs = [k \in 0..0 |-> from]
  OBVIOUS
<1>2. runs[0] = from /\ 1..0 = {}
  BY <1>1
<1> QED
  BY <1>2 DEF Leads

\* One code behind another.
LEMMA LeadsOn ==
  ASSUME NEW S, NEW first \in Seq(S), NEW T, NEW second \in Seq(T), NEW a, NEW b, NEW c,
         Leads(a, first, Len(first), b), Leads(b, second, Len(second), c)
  PROVE  /\ first \o second \in Seq(S \cup T)
         /\ Leads(a, first \o second, Len(first \o second), c)
<1>1. PICK m, n \in Nat : m = Len(first) /\ n = Len(second)
  BY LenProperties
<1>2. first \in Seq(S \cup T) /\ second \in [1..n -> S \cup T]
  <2>1. first \in [1..m -> S] /\ second \in [1..n -> T]
    BY <1>1, LenProperties
  <2>2. first \in [1..m -> S \cup T] /\ second \in [1..n -> S \cup T]
    BY <2>1
  <2> QED
    BY <1>1, <2>2, FunctionIsSeq
<1>3. PICK all : all = first \o second
  OBVIOUS
<1>4. /\ all \in Seq(S \cup T) /\ Len(all) = m + n
      /\ \A k \in 1..m : all[k] = first[k]
      /\ \A k \in 1..n : all[m + k] = second[k]
  BY <1>1, <1>2, <1>3, ConcatFacts
<1>5. PICK f : f[0] = a /\ f[m] = b /\ \A k \in 1..m : Effect(f[k - 1], first[k], f[k])
  BY <1>1 DEF Leads
<1>6. PICK g : g[0] = b /\ g[n] = c /\ \A k \in 1..n : Effect(g[k - 1], second[k], g[k])
  BY <1>1 DEF Leads
<1>7. PICK runs : runs = [k \in 0..m + n |-> IF k <= m THEN f[k] ELSE g[k - m]]
  OBVIOUS
<1>8. /\ \A k \in 0..m : runs[k] = f[k]
      /\ \A k \in 0..n : runs[m + k] = g[k]
  <2>1. \A k \in 0..m : k \in 0..m + n /\ k <= m
    BY <1>1
  <2>2. \A k \in 0..n : m + k \in 0..m + n /\ (m + k <= m => k = 0 /\ m + k = m) /\ (m + k) - m = k
    BY <1>1
  <2> QED
    BY <1>5, <1>6, <1>7, <2>1, <2>2
<1>9. \A k \in 1..m + n : Effect(runs[k - 1], all[k], runs[k])
  <2>1. SUFFICES ASSUME NEW k \in 1..m + n PROVE Effect(runs[k - 1], all[k], runs[k])
    OBVIOUS
  <2>2. CASE k <= m
    <3>1. k \in 1..m /\ k \in 0..m /\ k - 1 \in 0..m
      BY <1>1, <2>2
    <3> QED
      BY <1>4, <1>5, <1>8, <3>1
  <2>3. CASE ~(k <= m)
    <3>1. PICK j \in 1..n : k = m + j /\ j \in 0..n /\ j - 1 \in 0..n /\ k - 1 = m + (j - 1)
      <4>1. k - m \in 1..n /\ k = m + (k - m)
        BY <1>1, <2>3
      <4>2. PICK j \in 1..n : j = k - m /\ k = m + j
        BY <4>1
      <4>3. j \in 0..n /\ j - 1 \in 0..n
        BY <1>1
      <4>4. k - 1 = m + (j - 1)
        BY <1>1, <4>2
      <4> QED
        BY <4>2, <4>3, <4>4
    <3>2. all[k] = second[j] /\ runs[k] = g[j] /\ runs[k - 1] = g[j - 1]
      BY <1>4, <1>8, <3>1
    <3> QED
      BY <1>6, <3>1, <3>2
  <2> QED
    BY <2>2, <2>3
<1>10. runs[0] = a /\ runs[m + n] = c
  <2>1. 0 \in 0..m /\ n \in 0..n
    BY <1>1
  <2> QED
    BY <1>5, <1>6, <1>8, <2>1
<1>11. Leads(a, all, m + n, c)
  BY <1>9, <1>10 DEF Leads
<1> QED
  BY <1>3, <1>4, <1>11

\* A single instruction.
LEMMA LeadsOne ==
  ASSUME NEW q, NEW a, NEW b, Effect(a, q, b)
  PROVE  <<q>> \in Seq({q}) /\ Leads(a, <<q>>, Len(<<q>>), b)
<1>1. PICK runs, s : runs = [k \in 0..1 |-> IF k = 0 THEN a ELSE b] /\ s = <<q>>
  OBVIOUS
<1>2. s \in Seq({q}) /\ Len(s) = 1 /\ s[1] = q
  BY <1>1
<1>3. runs[0] = a /\ runs[1] = b /\ \A k \in 1..1 : k = 1 /\ k - 1 = 0
  BY <1>1
<1>4. \A k \in 1..1 : Effect(runs[k - 1], s[k], runs[k])
  BY <1>2, <1>3
<1> QED
  BY <1>1, <1>2, <1>3, <1>4 DEF Leads

\* One more of the same code.
LEMMA LeadsMore ==
  ASSUME NEW instrs, NEW n \in Nat, NEW a, NEW b, NEW c, Leads(a, instrs, n, b), Effect(b, instrs[n + 1], c)
  PROVE  Leads(a, instrs, n + 1, c)
<1>1. PICK f : f[0] = a /\ f[n] = b /\ \A k \in 1..n : Effect(f[k - 1], instrs[k], f[k])
  BY DEF Leads
<1>2. PICK runs : runs = [k \in 0..n + 1 |-> IF k = n + 1 THEN c ELSE f[k]]
  OBVIOUS
<1>3. runs[n + 1] = c /\ \A k \in 0..n : runs[k] = f[k]
  <2>1. n + 1 \in 0..n + 1 /\ \A k \in 0..n : k \in 0..n + 1 /\ k # n + 1
    OBVIOUS
  <2> QED
    BY <1>2, <2>1
<1>4. \A k \in 1..n + 1 : Effect(runs[k - 1], instrs[k], runs[k])
  <2>1. SUFFICES ASSUME NEW k \in 1..n + 1 PROVE Effect(runs[k - 1], instrs[k], runs[k])
    OBVIOUS
  <2>2. CASE k = n + 1
    <3>1. k - 1 = n /\ n \in 0..n
      BY <2>2
    <3> QED
      BY <1>1, <1>3, <2>2, <3>1
  <2>3. CASE k # n + 1
    <3>1. k \in 1..n /\ k \in 0..n /\ k - 1 \in 0..n
      BY <2>3
    <3> QED
      BY <1>1, <1>3, <3>1
  <2> QED
    BY <2>2, <2>3
<1>5. runs[0] = a
  BY <1>1, <1>3
<1> QED
  BY <1>3, <1>4, <1>5 DEF Leads

\* The loads of an expression, when all of them are good.
LEMMA LoadsLead ==
  ASSUME NEW w, NEW expr, expr \in Seq(Range(expr)), NEW run,
         \A x \in Uses(expr) : /\ x \in DOMAIN run.means /\ run.means[x] = Meaning(w, x)
                               /\ run.types[x] = run.means[x].type
  PROVE  \E S : Loads(w, expr) \in Seq(S) /\ Leads(run, Loads(w, expr), Len(Loads(w, expr)), run)
<1>1. PICK S, n : S = {Load(w, x) : x \in Uses(expr)} /\ n = Len(expr) /\ n \in Nat /\ DOMAIN expr = 1..n
  BY LenProperties
<1>2. PICK seqs : seqs = [j \in DOMAIN expr |-> IF expr[j].n = "var" THEN <<Load(w, expr[j].name)>> ELSE <<>>]
  OBVIOUS
<1>3. ASSUME NEW j \in 1..n
      PROVE  seqs[j] \in Seq(S) /\ \A k \in 1..Len(seqs[j]) : seqs[j][k] \in S
  <2>1. CASE expr[j].n = "var"
    <3>1. expr[j].name \in Uses(expr)
      BY <1>1, <1>3, <2>1 DEF Uses
    <3>2. PICK q : q = Load(w, expr[j].name)
      OBVIOUS
    <3>3. seqs[j] = <<q>> /\ q \in S
      BY <1>1, <1>2, <2>1, <3>1, <3>2
    <3>4. <<q>> \in Seq(S)
      BY <3>3
    <3> QED
      BY <3>3, <3>4
  <2>2. CASE expr[j].n # "var"
    <3>1. seqs[j] = <<>>
      BY <1>1, <1>2, <2>2
    <3>2. <<>> \in Seq(S) /\ 1..Len(<<>>) = {}
      OBVIOUS
    <3> QED
      BY <3>1, <3>2
  <2> QED
    BY <2>1, <2>2
<1>4. seqs \in Seq(Seq(S))
  <2>1. seqs \in [1..n -> Seq(S)]
    BY <1>1, <1>2, <1>3
  <2> QED
    BY <1>1, <2>1, FunctionIsSeq
<1>5. PICK flat : flat = Loads(w, expr) /\ flat = FlattenSeq(seqs)
  BY <1>2 DEF Loads
<1>6. Len(seqs) = n
  <2>1. seqs \in [1..n -> Seq(S)]
    BY <1>1, <1>2, <1>3
  <2> QED
    BY <1>1, <2>1, FunctionIsSeq
<1>7. flat \in Seq(S) /\ \E part, place : Joins(flat, seqs, n, part, place)
  BY <1>4, <1>5, <1>6, FlattenFacts
<1>8. PICK part, place : Joins(flat, seqs, n, part, place)
  BY <1>7
<1>9. \A k \in 1..Len(flat) : flat[k] \in S
  <2>1. \A k \in 1..Len(flat) : part[k] \in 1..n /\ place[k] \in 1..Len(seqs[part[k]])
                                /\ flat[k] = seqs[part[k]][place[k]]
    BY <1>8 DEF Joins
  <2> QED
    BY <1>3, <2>1
<1>10. \A k \in 1..Len(flat) : Effect(run, flat[k], run)
  <2>1. SUFFICES ASSUME NEW k \in 1..Len(flat) PROVE Effect(run, flat[k], run)
    OBVIOUS
  <2>2. PICK x \in Uses(expr) : flat[k] = Load(w, x)
    BY <1>1, <1>9
  <2>3. flat[k].op = "op_load" /\ flat[k].name = x /\ flat[k].at = w
    BY <2>2 DEF Load
  <2> QED
    BY <2>2, <2>3 DEF Effect
<1>11. Leads(run, flat, Len(flat), run)
  <2>1. PICK m \in Nat : m = Len(flat)
    BY <1>7, LenProperties
  <2>2. PICK runs : runs = [k \in 0..m |-> run]
    OBVIOUS
  <2>3. runs[0] = run /\ runs[m] = run /\ \A k \in 1..m : runs[k] = run /\ runs[k - 1] = run
    BY <2>1, <2>2
  <2>4. \A k \in 1..m : Effect(runs[k - 1], flat[k], runs[k])
    BY <1>10, <2>1, <2>3
  <2> QED
    BY <2>1, <2>3, <2>4 DEF Leads
<1> QED
  BY <1>5, <1>7, <1>11

-------------------------------------------------------------------------------
(* What a function has been given so far. *)

\* A name has the type of a declaration in the function or outside of all, unless it
\* is a global that was never given a value.
FrameType(f, i, x, type) ==
  \/ \E d \in Declarations : d.name = x /\ FunctionOf(d.at) \in {0, f} /\ type = d.type
  \/ \E g \in Declarations : g.name = x /\ g.scope[1] = 0 /\ g.at < i /\ ~g.stored

\* In front of statement i of function f every variable that has a value has its own.
Carries(run, f, i) ==
  /\ DOMAIN run.types = DOMAIN run.means
  /\ \A d \in Declarations : Holds(d, i) /\ Assigned(i, d.name, d) =>
       d.name \in DOMAIN run.means /\ run.means[d.name] = d
  /\ \A x \in DOMAIN run.types : FrameType(f, i, x, run.types[x])

\* The programs ReadsItsOwn speaks of.
Clean == ~Shadows /\ ~Retyped /\ ~Overwritten /\ ~CounterLost /\ EveryUseAssigned /\ Scalars /\ Resolved

\* So a load finds what it should.
LEMMA Usable ==
  ASSUME program \in Program, ~Shadows, ~Retyped,
         NEW f \in DOMAIN program, program[f].k = "function", NEW i \in f..Close(f),
         NEW run, Carries(run, f, i), NEW d \in Declarations, Holds(d, i), Assigned(i, d.name, d)
  PROVE  d.name \in DOMAIN run.means /\ run.means[d.name] = d /\ run.types[d.name] = d.type
<1>1. PICK x : x = d.name
  OBVIOUS
<1>2. x \in DOMAIN run.means /\ run.means[x] = d /\ x \in DOMAIN run.types
  BY <1>1 DEF Carries
<1>3. i \in Nat /\ f \in Nat /\ f <= i /\ i <= Close(f) /\ d.at \in Nat /\ d.at \in DOMAIN program
  BY ScopeFacts, ProgramDomain, CloseFacts DEF Opens, Openers
<1>4. d \in Visible(i, x)
  BY <1>1, <1>3, HoldsVisible
<1>5. FunctionOf(d.at) \in {0, f}
  <2>1. CASE d.scope[1] = 0
    <3>1. program[d.at].k # "function"
      <4>1. \/ program[d.at].k \in Block
            \/ program[d.at].k \in Heads /\ d.scope[1] = d.at
        BY RankOfDeclaration
      <4>2. d.at # 0
        BY ScopeFacts
      <4> QED
        BY <2>1, <4>1, <4>2 DEF Block
    <3> QED
      BY <1>3, <1>4, <2>1, <3>1, Near
  <2>2. CASE d.scope[1] # 0
    BY <1>3, <1>4, <2>2, Near
  <2> QED
    BY <2>1, <2>2
<1>6. CASE \E e \in Declarations : e.name = x /\ FunctionOf(e.at) \in {0, f} /\ run.types[x] = e.type
  <2>1. PICK e \in Declarations : e.name = x /\ FunctionOf(e.at) \in {0, f} /\ run.types[x] = e.type
    BY <1>6
  <2>2. d.type = e.type
    BY <1>1, <1>5, <2>1 DEF Retyped
  <2> QED
    BY <1>1, <1>2, <2>1, <2>2
<1>7. CASE \E g \in Declarations : g.name = x /\ g.scope[1] = 0 /\ g.at < i /\ ~g.stored
  <2>1. PICK g \in Declarations : g.name = x /\ g.scope[1] = 0 /\ g.at < i /\ ~g.stored
    BY <1>7
  <2>2. g \in Visible(i, x)
    BY <1>3, <2>1, ScopeFacts DEF Visible
  <2>3. g = d
    BY <1>3, <1>4, <2>2, Alone
  <2> QED
    BY <2>1, <2>3 DEF Assigned
<1>8. \/ \E e \in Declarations : e.name = x /\ FunctionOf(e.at) \in {0, f} /\ run.types[x] = e.type
      \/ \E g \in Declarations : g.name = x /\ g.scope[1] = 0 /\ g.at < i /\ ~g.stored
  BY <1>2 DEF Carries, FrameType
<1> QED
  BY <1>6, <1>7, <1>8

\* The counter of a loop has a value from the beginning.
LEMMA HeadsStored ==
  ASSUME NEW d \in Declarations, program[d.at].k \in Heads
  PROVE  d.stored
<1> DEFINE InBlock(i) ==
      [at |-> i, name |-> program[i].name, type |-> program[i].type, const |-> program[i].const,
       stored |-> program[i].init # <<>>, scope |-> <<Around(i), "block">>, place |-> 0]
           Counter(i) ==
      [at |-> i, name |-> program[i].name, type |-> program[i].type, const |-> FALSE,
       stored |-> TRUE, scope |-> <<i, "head">>, place |-> 0]
           Parameter(i, p) ==
      [at |-> i, name |-> program[i].params[p].name, type |-> program[i].params[p].type,
       const |-> FALSE, stored |-> TRUE, scope |-> <<i, "head">>, place |-> p]
<1>1. \/ \E i \in DOMAIN program : program[i].k \in Block /\ d = InBlock(i)
      \/ \E i \in DOMAIN program : program[i].k = "for" /\ d = Counter(i)
      \/ \E i \in DOMAIN program : program[i].k = "function"
                                   /\ \E p \in DOMAIN program[i].params : d = Parameter(i, p)
  BY Zenon DEF Declarations, Block
<1>2. \A i : InBlock(i).at = i
  OBVIOUS
<1>3. \A i : Counter(i).stored = TRUE
  OBVIOUS
<1>4. \A i, p : Parameter(i, p).stored = TRUE
  OBVIOUS
<1> HIDE DEF InBlock, Counter, Parameter
<1>5. ~\E i \in DOMAIN program : program[i].k \in Block /\ d = InBlock(i)
  BY <1>2 DEF Block, Heads
<1> QED
  BY <1>1, <1>3, <1>4, <1>5

\* What an assignment gives a value, it can mean.
LEMMA AssignedMeans ==
  ASSUME program \in Program, Resolved, NEW j \in DOMAIN program, program[j].k = "assign",
         NEW d, Meaning(j, program[j].name) = d
  PROVE  d \in Visible(j, program[j].name) /\ d.at <= j /\ d \in Declarations /\ d.name = program[j].name
<1>1. Visible(j, program[j].name) # {}
  BY DEF Resolved, Sound
<1>2. d \in Visible(j, program[j].name)
  BY <1>1, MeaningVisible
<1> QED
  BY <1>2 DEF Visible

\* What has a value behind statement i had it in front, unless statement i gives it.
LEMMA AssignedBack ==
  ASSUME program \in Program, Resolved, NEW i \in DOMAIN program, NEW d \in Declarations,
         Holds(d, i + 1), Assigned(i + 1, d.name, d), ~(d.at = i /\ d.stored),
         ~(program[i].k = "assign" /\ program[i].name = d.name)
  PROVE  Holds(d, i) /\ Assigned(i, d.name, d)
<1>1. i \in Nat /\ d.at \in Nat /\ (d.at = i \/ Holds(d, i)) /\ d.at <= i /\ i \in 1..Len(program) /\ Len(program) \in Nat
  BY HoldsBack, ScopeFacts, ProgramDomain DEF Holds
<1>2. CASE d.stored
  <2>1. d.at # i /\ d.at < i
    BY <1>1, <1>2
  <2> QED
    BY <1>1, <1>2, <2>1 DEF Assigned
<1>3. CASE ~d.stored
  <2>1. d.scope[1] # 0 /\ \E j \in 1..(i + 1) - 1 : program[j].k = "assign" /\ program[j].name = d.name /\ Meaning(j, d.name) = d
    BY <1>3 DEF Assigned
  <2>2. PICK j \in 1..(i + 1) - 1 : program[j].k = "assign" /\ program[j].name = d.name /\ Meaning(j, d.name) = d
    BY <2>1
  <2>3. j # i
    BY <2>2
  <2>4. j \in 1..i - 1 /\ j \in DOMAIN program /\ j < i
    BY <1>1, <2>3, ProgramDomain
  <2>5. d.at <= j
    BY <2>2, <2>4, AssignedMeans
  <2>6. Holds(d, i)
    BY <1>1, <2>4, <2>5
  <2> QED
    BY <2>1, <2>2, <2>4, <2>6 DEF Assigned
<1> QED
  BY <1>2, <1>3

\* Nothing is given a value.
LEMMA CarriesOn ==
  ASSUME program \in Program, Resolved, NEW i \in DOMAIN program, NEW f, NEW run, Carries(run, f, i),
         \A d \in Declarations : d.at = i => ~d.stored, program[i].k # "assign"
  PROVE  Carries(run, f, i + 1)
<1>1. ASSUME NEW d \in Declarations, Holds(d, i + 1), Assigned(i + 1, d.name, d)
      PROVE  d.name \in DOMAIN run.means /\ run.means[d.name] = d
  <2>1. Holds(d, i) /\ Assigned(i, d.name, d)
    BY <1>1, AssignedBack
  <2> QED
    BY <2>1 DEF Carries
<1>2. ASSUME NEW x \in DOMAIN run.types
      PROVE  FrameType(f, i + 1, x, run.types[x])
  <2>1. FrameType(f, i, x, run.types[x])
    BY DEF Carries
  <2>2. \A g \in Declarations : g.at < i => g.at < i + 1
    BY ScopeFacts, ProgramDomain
  <2> QED
    BY <2>1, <2>2 DEF FrameType
<1> QED
  BY <1>1, <1>2 DEF Carries

\* A variable is.
LEMMA CarriesStored ==
  ASSUME program \in Program, ~Shadows, NEW i \in DOMAIN program, NEW f, NEW run, Carries(run, f, i),
         NEW x, NEW d \in Visible(i, x), NEW type, x \notin DOMAIN run.types => FrameType(f, i + 1, x, type),
         \A e \in Declarations : Holds(e, i + 1) /\ Assigned(i + 1, e.name, e) /\ e.name # x =>
           Holds(e, i) /\ Assigned(i, e.name, e)
  PROVE  Carries(Stored(run, x, d, type), f, i + 1)
<1>1. PICK next : next = Stored(run, x, d, type)
  OBVIOUS
<1>2. DOMAIN run.types = DOMAIN run.means
  BY DEF Carries
<1>3. /\ DOMAIN next.means = DOMAIN run.means \cup {x} /\ next.means[x] = d
      /\ \A y \in DOMAIN run.means : y # x => next.means[y] = run.means[y]
  <2>1. next.means = Put(run.means, x, d)
    BY <1>1 DEF Stored
  <2> QED
    BY <2>1 DEF Put
<1>4. /\ DOMAIN next.types = DOMAIN next.means
      /\ \A y \in DOMAIN run.types : next.types[y] = run.types[y]
      /\ x \notin DOMAIN run.types => next.types[x] = type
  <2>1. CASE x \in DOMAIN run.means
    <3>1. next.types = run.types
      BY <1>1, <2>1 DEF Stored
    <3> QED
      BY <1>2, <1>3, <2>1, <3>1
  <2>2. CASE x \notin DOMAIN run.means
    <3>1. next.types = Put(run.types, x, type)
      BY <1>1, <2>2 DEF Stored
    <3> QED
      BY <1>2, <1>3, <2>2, <3>1 DEF Put
  <2> QED
    BY <2>1, <2>2
<1>5. i \in Nat /\ i + 1 \in Nat
  BY ProgramDomain
<1>6. ASSUME NEW e \in Declarations, Holds(e, i + 1), Assigned(i + 1, e.name, e)
      PROVE  e.name \in DOMAIN next.means /\ next.means[e.name] = e
  <2>1. CASE e.name # x
    <3>1. e.name \in DOMAIN run.means /\ run.means[e.name] = e
      BY <1>6, <2>1 DEF Carries
    <3> QED
      BY <1>3, <2>1, <3>1
  <2>2. CASE e.name = x
    <3>1. e.at \in Nat /\ (e.scope[1] # 0 => Close(e.scope[1]) \in Nat)
      BY ScopeFacts, ProgramDomain
    <3>2. e \in Visible(i, x)
      BY <1>5, <1>6, <2>2, <3>1 DEF Holds, Visible
    <3>3. e = d
      BY <1>5, <3>2, Alone
    <3> QED
      BY <1>3, <2>2, <3>3
  <2> QED
    BY <2>1, <2>2
<1>7. ASSUME NEW y \in DOMAIN next.types
      PROVE  FrameType(f, i + 1, y, next.types[y])
  <2>1. CASE y \in DOMAIN run.types
    <3>1. FrameType(f, i, y, run.types[y])
      BY <2>1 DEF Carries
    <3>2. \A g \in Declarations : g.at < i => g.at < i + 1
      BY <1>5, ScopeFacts
    <3>3. next.types[y] = run.types[y]
      BY <1>4, <2>1
    <3> QED
      BY <3>1, <3>2, <3>3 DEF FrameType
  <2>2. CASE y \notin DOMAIN run.types
    <3>1. y = x /\ x \notin DOMAIN run.types
      BY <1>2, <1>3, <1>4, <1>7, <2>2
    <3> QED
      BY <1>4, <3>1
  <2> QED
    BY <2>1, <2>2
<1>8. Carries(next, f, i + 1)
  BY <1>4, <1>6, <1>7 DEF Carries
<1> QED
  BY <1>1, <1>8

\* The type ir_gen gives a store that is no declaration.
LEMMA StoreType ==
  ASSUME program \in Program, Scalars, NEW f \in DOMAIN program, program[f].k = "function",
         NEW i \in f..Close(f), NEW run, Carries(run, f, i),
         NEW d \in Declarations, Holds(d, i), NEW types,
         Local(d) => d.name \in DOMAIN types /\ types[d.name] = d.type,
         d.name \notin DOMAIN run.types
  PROVE  FrameType(f, i + 1, d.name, TypeIn(types, d.name))
<1>1. i \in Nat /\ d.at \in Nat \ {0} /\ d.at < i /\ d.at \in DOMAIN program
  BY ScopeFacts, ProgramDomain DEF Holds
<1>2. ~d.stored
  <2>1. SUFFICES ASSUME d.stored PROVE FALSE
    OBVIOUS
  <2>2. Assigned(i, d.name, d)
    BY <1>1, <2>1 DEF Assigned
  <2> QED
    BY <2>2 DEF Carries
<1>3. program[d.at].k \in {"global", "declare"}
  <2>1. program[d.at].k \in Block \cup Heads
    BY DeclarationKinds
  <2>2. program[d.at].k \notin Heads
    BY <1>2, HeadsStored
  <2> QED
    BY <1>1, <2>1, <2>2 DEF Scalars, Block
<1>4. CASE program[d.at].k = "global"
  <2>1. d.scope[1] = 0 /\ d.at < i + 1
    BY <1>1, <1>4, GlobalFacts
  <2> QED
    BY <1>2, <2>1 DEF FrameType
<1>5. CASE program[d.at].k = "declare"
  <2>1. TypeIn(types, d.name) = d.type
    BY <1>5 DEF Local, TypeIn
  <2>2. d.scope[1] # 0
    BY <1>5, GlobalFacts
  <2>3. d \in Visible(i, d.name)
    BY <1>1, HoldsVisible
  <2>4. FunctionOf(d.at) = f
    BY <2>2, <2>3, Near
  <2> QED
    BY <2>1, <2>4 DEF FrameType
<1> QED
  BY <1>3, <1>4, <1>5

-------------------------------------------------------------------------------
(* The code of a statement. *)

Comes(from, instrs, to) == \E S : instrs \in Seq(S) /\ Leads(from, instrs, Len(instrs), to)

LEMMA ComesNone ==
  ASSUME NEW a
  PROVE  Comes(a, <<>>, a)
<1>1. ASSUME NEW e, e = <<>>
      PROVE  e \in Seq({}) /\ Len(e) = 0
  BY <1>1
<1> QED
  BY <1>1, LeadsNone DEF Comes

LEMMA ComesOn ==
  ASSUME NEW a, NEW b, NEW c, NEW first, NEW second, Comes(a, first, b), Comes(b, second, c)
  PROVE  Comes(a, first \o second, c)
<1>1. PICK S : first \in Seq(S) /\ Leads(a, first, Len(first), b)
  BY DEF Comes
<1>2. PICK T : second \in Seq(T) /\ Leads(b, second, Len(second), c)
  BY DEF Comes
<1> QED
  BY <1>1, <1>2, LeadsOn DEF Comes

LEMMA ComesAppend ==
  ASSUME NEW a, NEW b, NEW c, NEW first, NEW q, Comes(a, first, b), Effect(b, q, c)
  PROVE  Comes(a, Append(first, q), c)
<1>1. PICK S : first \in Seq(S) /\ Leads(a, first, Len(first), b)
  BY DEF Comes
<1>2. Comes(b, <<q>>, c)
  BY LeadsOne DEF Comes
<1>3. Append(first, q) = first \o <<q>>
  BY <1>1
<1> QED
  BY <1>2, <1>3, ComesOn

\* The loads of an expression in which every variable has a value.
LEMMA LoadsCome ==
  ASSUME program \in Program, ~Shadows, ~Retyped, NEW f \in DOMAIN program, program[f].k = "function",
         NEW i \in f..Close(f), NEW run, Carries(run, f, i), NEW w, NEW expr, expr \in Seq(Range(expr)),
         \A x \in Uses(expr) : /\ Meaning(w, x) \in Declarations /\ Meaning(w, x).name = x
                               /\ Holds(Meaning(w, x), i) /\ Assigned(i, x, Meaning(w, x))
  PROVE  Comes(run, Loads(w, expr), run)
<1>1. ASSUME NEW x \in Uses(expr)
      PROVE  x \in DOMAIN run.means /\ run.means[x] = Meaning(w, x) /\ run.types[x] = run.means[x].type
  <2>1. PICK d \in Declarations : d = Meaning(w, x) /\ d.name = x /\ Holds(d, i) /\ Assigned(i, d.name, d)
    OBVIOUS
  <2>2. d.name \in DOMAIN run.means /\ run.means[d.name] = d /\ run.types[d.name] = d.type
    BY <2>1, Usable
  <2> QED
    BY <2>1, <2>2
<1> QED
  BY <1>1, LoadsLead DEF Comes

\* A variable that has a value at statement i holds in front of it.
LEMMA AssignedHolds ==
  ASSUME program \in Program, Resolved, NEW i \in DOMAIN program, NEW x, Visible(i, x) # {},
         NEW d, d = Meaning(i, x), Assigned(i, x, d)
  PROVE  d \in Declarations /\ d.name = x /\ Holds(d, i)
<1>1. d \in Visible(i, x)
  BY MeaningVisible
<1>2. d \in Declarations /\ d.name = x /\ (d.scope[1] = 0 \/ i <= Close(d.scope[1])) /\ d.at \in Nat /\ i \in Nat
      /\ i \in 1..Len(program) /\ Len(program) \in Nat
  BY <1>1, ScopeFacts, ProgramDomain DEF Visible
<1>3. CASE d.at < i /\ d.stored
  BY <1>2, <1>3 DEF Holds
<1>4. CASE \E j \in 1..i - 1 : program[j].k = "assign" /\ program[j].name = x /\ Meaning(j, x) = d
  <2>1. PICK j \in 1..i - 1 : program[j].k = "assign" /\ program[j].name = x /\ Meaning(j, x) = d
    BY <1>4
  <2>2. j \in DOMAIN program /\ j < i
    BY <1>2, <2>1, ProgramDomain
  <2>3. d.at <= j
    BY <2>1, <2>2, AssignedMeans
  <2> QED
    BY <1>2, <2>2, <2>3 DEF Holds
<1> QED
  BY <1>3, <1>4 DEF Assigned

\* All the variables of an expression have one, outside of a for.
LEMMA UsesHold ==
  ASSUME program \in Program, Clean, NEW i \in DOMAIN program, program[i].k # "for",
         NEW expr \in Expressions(program[i])
  PROVE  /\ expr \in Seq(Range(expr))
         /\ \A x \in Uses(expr) : /\ Meaning(i, x) \in Declarations /\ Meaning(i, x).name = x
                                  /\ Holds(Meaning(i, x), i) /\ Assigned(i, x, Meaning(i, x))
<1>1. expr \in Seq(Range(expr))
  BY ExpressionAssumption
<1>2. ASSUME NEW x \in Uses(expr)
      PROVE  Visible(i, x) # {} /\ Assigned(i, x, Meaning(i, x))
  BY <1>2 DEF Clean, EveryUseAssigned
<1>3. ASSUME NEW x \in Uses(expr)
      PROVE  /\ Meaning(i, x) \in Declarations /\ Meaning(i, x).name = x
             /\ Holds(Meaning(i, x), i) /\ Assigned(i, x, Meaning(i, x))
  BY <1>2, <1>3, AssignedHolds DEF Clean
<1> QED
  BY <1>1, <1>3

\* A store that comes behind loads.
LEMMA StoreComes ==
  ASSUME program \in Program, ~Shadows, NEW i \in DOMAIN program, NEW f, NEW run, Carries(run, f, i),
         NEW w, NEW instrs, Comes(run, instrs, run),
         NEW x, NEW d \in Visible(i, x), Meaning(w, x) = d, Visible(w, x) # {},
         NEW type, x \notin DOMAIN run.types => FrameType(f, i + 1, x, type),
         \A e \in Declarations : Holds(e, i + 1) /\ Assigned(i + 1, e.name, e) /\ e.name # x =>
           Holds(e, i) /\ Assigned(i, e.name, e)
  PROVE  \E next : Comes(run, Append(instrs, Store(w, x, type)), next) /\ Carries(next, f, i + 1)
<1>1. PICK next, q : next = Stored(run, x, d, type) /\ q = Store(w, x, type)
  OBVIOUS
<1>2. Carries(next, f, i + 1)
  BY <1>1, CarriesStored
<1>3. q.op = "op_store" /\ q.name = x /\ q.at = w /\ q.type = type
  BY <1>1 DEF Store
<1>4. Effect(run, q, next)
  BY <1>1, <1>3 DEF Effect
<1>5. Comes(run, Append(instrs, q), next)
  BY <1>4, ComesAppend
<1> QED
  BY <1>1, <1>2, <1>5

-------------------------------------------------------------------------------
(* Statement by statement. *)

\* Statement i of function f, which is open there.
Within(f, i) == f \in OpenAt(i) /\ program[f].k = "function" /\ i \in DOMAIN program

LEMMA WithinFacts ==
  ASSUME program \in Program, NEW i, NEW f, Within(f, i)
  PROVE  /\ f \in DOMAIN program /\ i \in f..Close(f) /\ i \in Nat /\ f < i /\ Close(f) \in Nat
         /\ ~Ends(i) => i + 1 \in f..Close(f)
<1>1. f \in DOMAIN program /\ f \in Nat /\ f < i /\ i <= Close(f) /\ i \in Nat /\ Opens(f)
  BY ProgramDomain DEF Within, OpenAt
<1>2. Close(f) \in Nat /\ Ends(Close(f))
  BY <1>1, CloseFacts, ProgramDomain
<1>3. ~Ends(i) => i # Close(f)
  BY <1>2
<1> QED
  BY <1>1, <1>2, <1>3

\* A local is declared, with a value or without.
LEMMA DeclareComes ==
  ASSUME program \in Program, Clean, NEW i, NEW f, Within(f, i), program[i].k = "declare",
         NEW run, Carries(run, f, i),
         NEW new, new = IF program[i].init = <<>> THEN <<>>
                        ELSE Append(Loads(i, program[i].init), Store(i, program[i].name, program[i].type))
  PROVE  \E next : Comes(run, new, next) /\ Carries(next, f, i + 1)
<1>1. i \in DOMAIN program /\ i \in Nat /\ f \in DOMAIN program /\ i \in f..Close(f) /\ program[f].k = "function"
  BY WithinFacts DEF Within
<1>2. PICK d \in Declarations : /\ d.at = i /\ d.name = program[i].name /\ d.type = program[i].type
                                /\ d.stored = (program[i].init # <<>>) /\ \A e \in Declarations : e.at = i => e = d
  <2>1. PICK d \in Declarations : d.at = i
    BY <1>1, DeclarationsAt DEF Block
  <2> QED
    BY <2>1, DeclarationKinds DEF Block
<1>3. CASE program[i].init = <<>>
  <2>1. Carries(run, f, i + 1)
    BY <1>1, <1>2, <1>3, CarriesOn DEF Clean
  <2> QED
    BY <1>3, <2>1, ComesNone
<1>4. CASE program[i].init # <<>>
  <2>1. PICK expr, x, type : expr = program[i].init /\ x = program[i].name /\ type = program[i].type
    OBVIOUS
  <2>2. expr \in Expressions(program[i])
    BY <2>1 DEF Expressions
  <2>3. Comes(run, Loads(i, expr), run)
    BY <1>1, <2>2, UsesHold, LoadsCome DEF Clean
  <2>4. d \in Visible(i, x)
    <3>1. d.scope[1] # 0 => i <= Close(d.scope[1])
      BY <1>1, <1>2, ScopeFacts, ProgramDomain
    <3> QED
      BY <1>1, <1>2, <2>1, <3>1 DEF Visible
  <2>5. Meaning(i, x) = d
    BY <1>1, <2>4, MeansAlone DEF Clean
  <2>6. FrameType(f, i + 1, x, type)
    <3>1. d.scope[1] # 0
      BY <1>2, GlobalFacts DEF Clean
    <3>2. FunctionOf(d.at) = f
      BY <1>1, <2>4, <3>1, Near
    <3> QED
      BY <1>2, <2>1, <3>2 DEF FrameType
  <2>7. ASSUME NEW e \in Declarations, Holds(e, i + 1), Assigned(i + 1, e.name, e), e.name # x
        PROVE  Holds(e, i) /\ Assigned(i, e.name, e)
    <3>1. e.at # i
      BY <1>2, <2>1, <2>7
    <3> QED
      BY <1>1, <2>7, <3>1, AssignedBack DEF Clean
  <2>8. new = Append(Loads(i, expr), Store(i, x, type))
    BY <1>4, <2>1
  <2>9. PICK instrs : instrs = Loads(i, expr)
    OBVIOUS
  <2>10. \A e \in Declarations : Holds(e, i + 1) /\ Assigned(i + 1, e.name, e) /\ e.name # x =>
           Holds(e, i) /\ Assigned(i, e.name, e)
    BY <2>7
  <2>11. Comes(run, instrs, run)
    BY <2>3, <2>9
  <2>12. \E next : Comes(run, Append(instrs, Store(i, x, type)), next) /\ Carries(next, f, i + 1)
    BY <1>1, <2>4, <2>5, <2>6, <2>10, <2>11, StoreComes DEF Clean
  <2> QED
    BY <2>8, <2>9, <2>12
<1> QED
  BY <1>3, <1>4

\* A statement that neither declares nor assigns, with or without an expression; a for
\* that begins with no declaration is one.
LEMMA PlainComes ==
  ASSUME program \in Program, Clean, NEW i, NEW f, Within(f, i),
         program[i].k \notin (Block \cup Heads \cup {"assign"}) \ {"forassign"}, NEW run, Carries(run, f, i)
  PROVE  /\ Comes(run, <<>>, run) /\ Carries(run, f, i + 1)
         /\ \A expr \in Expressions(program[i]) : Comes(run, Loads(i, expr), run)
<1>1. i \in DOMAIN program /\ i \in Nat /\ f \in DOMAIN program /\ i \in f..Close(f) /\ program[f].k = "function"
  BY WithinFacts DEF Within
<1>2. \A d \in Declarations : d.at # i
  BY <1>1, NothingDeclared
<1>3. Carries(run, f, i + 1)
  BY <1>1, <1>2, CarriesOn DEF Clean
<1>4. ASSUME NEW expr \in Expressions(program[i])
      PROVE  Comes(run, Loads(i, expr), run)
  <2>1. program[i].k # "for"
    BY DEF Heads
  <2> QED
    BY <1>1, <2>1, UsesHold, LoadsCome DEF Clean
<1> QED
  BY <1>3, <1>4, ComesNone

\* An assignment: the name has the slot and the type of its first store.
LEMMA AssignComes ==
  ASSUME program \in Program, Clean, NEW i, NEW f, Within(f, i), program[i].k = "assign",
         NEW run, Carries(run, f, i), NEW types, TypesHeld(types, i),
         NEW x, x = program[i].name, NEW instrs, instrs = Loads(i, program[i].expr)
  PROVE  \E next : Comes(run, Append(instrs, Store(i, x, TypeIn(types, x))), next) /\ Carries(next, f, i + 1)
<1>1. i \in DOMAIN program /\ i \in Nat /\ f \in DOMAIN program /\ i \in f..Close(f) /\ program[f].k = "function"
  BY WithinFacts DEF Within
<1>2. \A d \in Declarations : d.at # i
  BY <1>1, NothingDeclared DEF Block, Heads
<1>3. Comes(run, instrs, run)
  <2>1. PICK expr : expr = program[i].expr
    OBVIOUS
  <2>2. expr \in Expressions(program[i])
    BY <2>1 DEF Expressions
  <2>3. Comes(run, Loads(i, expr), run)
    BY <1>1, <2>2, UsesHold, LoadsCome DEF Clean
  <2> QED
    BY <2>1, <2>3
<1>4. PICK d : d = Meaning(i, x) /\ d \in Visible(i, x) /\ d \in Declarations /\ d.name = x
  BY <1>1, AssignedMeans DEF Clean
<1>5. Holds(d, i)
  <2>1. d.at <= i /\ (d.scope[1] = 0 \/ i <= Close(d.scope[1])) /\ d.at # i
    BY <1>2, <1>4 DEF Visible
  <2> QED
    BY <1>1, <1>4, <2>1, ScopeFacts DEF Holds
<1>6. PICK type : type = TypeIn(types, x)
  OBVIOUS
<1>7. x \notin DOMAIN run.types => FrameType(f, i + 1, x, type)
  <2>1. Local(d) => d.name \in DOMAIN types /\ types[d.name] = d.type
    BY <1>4, <1>5 DEF TypesHeld
  <2> QED
    BY <1>1, <1>4, <1>5, <1>6, <2>1, StoreType DEF Clean
<1>8. ASSUME NEW e \in Declarations, Holds(e, i + 1), Assigned(i + 1, e.name, e), e.name # x
      PROVE  Holds(e, i) /\ Assigned(i, e.name, e)
  BY <1>1, <1>2, <1>8, AssignedBack DEF Clean
<1>9. \A e \in Declarations : Holds(e, i + 1) /\ Assigned(i + 1, e.name, e) /\ e.name # x =>
        Holds(e, i) /\ Assigned(i, e.name, e)
  BY <1>8
<1>10. \E next : Comes(run, Append(instrs, Store(i, x, type)), next) /\ Carries(next, f, i + 1)
  BY <1>1, <1>3, <1>4, <1>7, <1>9, StoreComes DEF Clean
<1> QED
  BY <1>6, <1>10

\* What has a value keeps it.
LEMMA AssignedOn ==
  ASSUME NEW i \in Nat, NEW j \in Nat, i <= j, NEW x, NEW d, d.at \in Nat, Assigned(i, x, d)
  PROVE  Assigned(j, x, d)
<1>1. \A k \in 1..i - 1 : k \in 1..j - 1
  OBVIOUS
<1> QED
  BY <1>1 DEF Assigned

\* A loop: its counter is stored behind the value it begins with, in front of the condition.
LEMMA ForComes ==
  ASSUME program \in Program, Clean, NEW i, NEW f, Within(f, i), program[i].k = "for",
         NEW run, Carries(run, f, i),
         NEW init, init = program[i].init, NEW expr, expr = program[i].expr,
         NEW x, x = program[i].name, NEW type, type = program[i].type
  PROVE  \E next : /\ Comes(run, Append(Loads(i, init), Store(i, x, type)) \o Loads(i, expr), next)
                   /\ Carries(next, f, i + 1)
<1>1. /\ i \in DOMAIN program /\ i \in Nat /\ f \in DOMAIN program /\ i \in f..Close(f) /\ program[f].k = "function"
      /\ i + 1 \in f..Close(f) /\ i + 1 \in Nat /\ ~Ends(i)
  BY WithinFacts DEF Within, Ends
<1>2. PICK d \in Declarations : d.at = i /\ d.name = x /\ d.type = type
  <2>1. PICK d \in Declarations : d.at = i
    BY <1>1, DeclarationsAt
  <2> QED
    BY <2>1, DeclarationKinds
<1>3. \A e \in Declarations : e.at = i => e.name = x /\ e.stored
  BY DeclarationKinds, HeadsStored DEF Heads
<1>4. init \in Expressions(program[i]) /\ expr \in Expressions(program[i])
  BY DEF Expressions
<1>5. init \in Seq(Range(init)) /\ expr \in Seq(Range(expr))
  BY <1>1, <1>4, ExpressionAssumption
<1>6. PICK instrs : instrs = Loads(i, init) /\ Comes(run, instrs, run)
  <2>1. ASSUME NEW y \in Uses(init)
        PROVE  Visible(i, y) # {} /\ Assigned(i, y, Meaning(i, y))
    BY <1>1, <1>4 DEF Clean, EveryUseAssigned
  <2>2. ASSUME NEW y \in Uses(init)
        PROVE  /\ Meaning(i, y) \in Declarations /\ Meaning(i, y).name = y
               /\ Holds(Meaning(i, y), i) /\ Assigned(i, y, Meaning(i, y))
    BY <1>1, <2>1, AssignedHolds DEF Clean
  <2> QED
    BY <1>1, <1>5, <2>2, LoadsCome DEF Clean
<1>7. PICK next : Comes(run, Append(instrs, Store(i, x, type)), next) /\ Carries(next, f, i + 1)
  <2>1. d \in Visible(i, x)
    <3>1. d.scope[1] # 0 => i <= Close(d.scope[1])
      BY <1>1, <1>2, ScopeFacts, ProgramDomain
    <3> QED
      BY <1>1, <1>2, <3>1 DEF Visible
  <2>2. Meaning(i, x) = d
    BY <1>1, <2>1, MeansAlone DEF Clean
  <2>3. FrameType(f, i + 1, x, type)
    <3>1. d.scope[1] # 0
      BY <1>2, GlobalFacts DEF Clean
    <3>2. FunctionOf(d.at) = f
      BY <1>1, <2>1, <3>1, Near
    <3> QED
      BY <1>2, <3>2 DEF FrameType
  <2>4. ASSUME NEW e \in Declarations, Holds(e, i + 1), Assigned(i + 1, e.name, e), e.name # x
        PROVE  Holds(e, i) /\ Assigned(i, e.name, e)
    <3>1. e.at # i
      BY <1>3, <2>4
    <3> QED
      BY <1>1, <2>4, <3>1, AssignedBack DEF Clean
  <2>5. \A e \in Declarations : Holds(e, i + 1) /\ Assigned(i + 1, e.name, e) /\ e.name # x =>
          Holds(e, i) /\ Assigned(i, e.name, e)
    BY <2>4
  <2> QED
    BY <1>1, <1>6, <2>1, <2>2, <2>3, <2>5, StoreComes DEF Clean
<1>8. Comes(next, Loads(i, expr), next)
  <2>1. ASSUME NEW y \in Uses(expr)
        PROVE  /\ Meaning(i, y) \in Declarations /\ Meaning(i, y).name = y
               /\ Holds(Meaning(i, y), i + 1) /\ Assigned(i + 1, y, Meaning(i, y))
    <3>1. PICK m : m = Meaning(i, y)
      OBVIOUS
    <3>2. Visible(i, y) # {} /\ (Assigned(i, y, m) \/ m.at = i)
      BY <1>1, <1>4, <3>1 DEF Clean, EveryUseAssigned
    <3>3. m \in Visible(i, y)
      BY <1>1, <3>1, <3>2, MeaningVisible
    <3>4. m \in Declarations /\ m.name = y /\ m.at <= i /\ (m.scope[1] = 0 \/ i <= Close(m.scope[1]))
      BY <3>3 DEF Visible
    <3>5. m.at \in Nat /\ (m.scope[1] # 0 => Close(m.scope[1]) \in Nat /\ Ends(Close(m.scope[1])))
      BY <3>4, ScopeFacts, ProgramDomain
    <3>6. Holds(m, i + 1)
      <4>1. m.scope[1] # 0 => Close(m.scope[1]) # i
        BY <1>1, <3>5
      <4> QED
        BY <1>1, <3>4, <3>5, <4>1 DEF Holds
    <3>7. Assigned(i + 1, y, m)
      <4>1. CASE m.at = i
        BY <1>1, <1>3, <3>4, <4>1 DEF Assigned
      <4>2. CASE Assigned(i, y, m)
        BY <1>1, <3>5, <4>2, AssignedOn
      <4> QED
        BY <3>2, <4>1, <4>2
    <3> QED
      BY <3>1, <3>4, <3>6, <3>7
  <2> QED
    BY <1>1, <1>5, <1>7, <2>1, LoadsCome DEF Clean
<1>9. PICK first, second : first = Append(instrs, Store(i, x, type)) /\ second = Loads(i, expr)
  OBVIOUS
<1>10. Comes(run, first \o second, next)
  BY <1>7, <1>8, <1>9, ComesOn
<1> QED
  BY <1>6, <1>7, <1>9, <1>10

\* What a name means in front of a loop holds until its end.
LEMMA LoopMeans ==
  ASSUME program \in Program, NEW o \in DOMAIN program, program[o].k \in {"for", "forassign"}, NEW x, Visible(o, x) # {},
         NEW d, d = Meaning(o, x), NEW i, i = Close(o)
  PROVE  /\ d \in Declarations /\ d.name = x /\ d.at <= o /\ d.at \in Nat
         /\ Holds(d, i) /\ d \in Visible(i, x) /\ (d.at # o => Holds(d, o))
<1>1. Opens(o) /\ ~Ends(o)
  BY DEF Opens, Openers, Ends
<1>2. o \in Nat /\ i \in Nat /\ o < i
  BY <1>1, CloseFacts, ProgramDomain
<1>3. d \in Visible(o, x)
  BY MeaningVisible
<1>4. PICK s : s = d.scope[1]
  OBVIOUS
<1>5. d \in Declarations /\ d.name = x /\ d.at <= o /\ (s = 0 \/ o <= Close(s))
  BY <1>3, <1>4 DEF Visible
<1>6. d.at \in Nat /\ s \in Nat /\ s <= d.at
      /\ (s # 0 => s \in DOMAIN program /\ Opens(s) /\ Close(s) \in Nat /\ Ends(Close(s)))
  BY <1>4, <1>5, ScopeFacts, ProgramDomain
<1>7. ASSUME s # 0
      PROVE  i <= Close(s)
  <2>1. CASE s = o
    BY <1>2, <2>1
  <2>2. CASE s < o
    <3>1. o < Close(s)
      <4>1. o # Close(s)
        BY <1>1, <1>6, <1>7
      <4> QED
        BY <1>2, <1>5, <1>6, <1>7, <4>1
    <3>2. Close(o) < Close(s)
      BY <1>1, <1>6, <1>7, <2>2, <3>1, Nested
    <3> QED
      BY <1>2, <1>6, <1>7, <3>2
  <2> QED
    BY <1>2, <1>5, <1>6, <2>1, <2>2
<1>8. Holds(d, i)
  BY <1>2, <1>4, <1>5, <1>6, <1>7 DEF Holds
<1>9. d \in Visible(i, x)
  BY <1>2, <1>5, <1>6, <1>8, HoldsVisible
<1>10. d.at # o => Holds(d, o)
  BY <1>2, <1>4, <1>5, <1>6 DEF Holds
<1> QED
  BY <1>5, <1>6, <1>8, <1>9, <1>10

\* The step of a loop comes behind its block, and means what it does in front of it.
LEMMA StepComes ==
  ASSUME program \in Program, Clean, NEW i, NEW f, Within(f, i), Ends(i),
         NEW o \in DOMAIN program, program[o].k \in {"for", "forassign"}, Close(o) = i,
         NEW run, Carries(run, f, i), NEW types, TypesHeld(types, i + 1),
         NEW x, x = program[o].step.name, NEW instrs, instrs = Loads(o, program[o].step.expr)
  PROVE  \E next : /\ Comes(run, Append(instrs, Store(o, x, TypeIn(types, x))), next)
                   /\ Carries(next, f, i + 1)
<1>1. /\ i \in DOMAIN program /\ i \in Nat /\ f \in DOMAIN program /\ i \in f..Close(f)
      /\ program[f].k = "function" /\ program[i].k = "end"
  BY WithinFacts DEF Within, Ends
<1>2. o \in Nat /\ o < i /\ Opens(o)
  BY <1>1, CloseFacts, ProgramDomain DEF Opens, Openers
<1>3. \A e \in Declarations : e.at # i
  BY <1>1, NothingDeclared DEF Block, Heads
<1>4. Comes(run, instrs, run)
  <2>1. PICK expr : expr = program[o].step.expr
    OBVIOUS
  <2>2. expr \in Seq(Range(expr))
    BY <2>1, ExpressionAssumption
  <2>3. ASSUME NEW y \in Uses(expr)
        PROVE  /\ Meaning(o, y) \in Declarations /\ Meaning(o, y).name = y
               /\ Holds(Meaning(o, y), i) /\ Assigned(i, y, Meaning(o, y))
    <3>1. PICK m : m = Meaning(o, y)
      OBVIOUS
    <3>2. Visible(o, y) # {} /\ (Assigned(o, y, m) \/ m.at = o)
      BY <2>1, <3>1 DEF Clean, EveryUseAssigned
    <3>3. m \in Declarations /\ m.name = y /\ m.at <= o /\ m.at \in Nat /\ Holds(m, i)
      BY <3>1, <3>2, LoopMeans
    <3>4. Assigned(i, y, m)
      <4>1. CASE m.at = o
        <5>1. m.stored
          BY <3>3, <4>1, HeadsStored DEF Heads
        <5> QED
          BY <1>2, <4>1, <5>1 DEF Assigned
      <4>2. CASE Assigned(o, y, m)
        BY <1>1, <1>2, <3>3, <4>2, AssignedOn
      <4> QED
        BY <3>2, <4>1, <4>2
    <3> QED
      BY <3>1, <3>3, <3>4
  <2>4. Comes(run, Loads(o, expr), run)
    BY <1>1, <2>2, <2>3, LoadsCome DEF Clean
  <2> QED
    BY <2>1, <2>4
<1>5. PICK d : d = Meaning(o, x) /\ Visible(o, x) # {}
  BY DEF Clean, EveryUseAssigned
<1>6. d \in Declarations /\ d.name = x /\ Holds(d, i) /\ d \in Visible(i, x) /\ (d.at # o => Holds(d, o))
  BY <1>5, LoopMeans
<1>7. PICK type : type = TypeIn(types, x)
  OBVIOUS
<1>8. x \notin DOMAIN run.types => FrameType(f, i + 1, x, type)
  <2>1. Local(d) => d.name \in DOMAIN types /\ types[d.name] = d.type
    <3>1. SUFFICES ASSUME Local(d) PROVE d.name \in DOMAIN types /\ types[d.name] = d.type
      OBVIOUS
    <3>2. d.at # o
      BY <3>1 DEF Local
    <3>3. Holds(d, i + 1)
      BY <1>2, <1>6, <3>2, HoldsBehind
    <3> QED
      BY <1>6, <3>1, <3>3 DEF TypesHeld
  <2> QED
    BY <1>1, <1>6, <1>7, <2>1, StoreType DEF Clean
<1>9. ASSUME NEW e \in Declarations, Holds(e, i + 1), Assigned(i + 1, e.name, e), e.name # x
      PROVE  Holds(e, i) /\ Assigned(i, e.name, e)
  BY <1>1, <1>3, <1>9, AssignedBack DEF Clean
<1>10. \A e \in Declarations : Holds(e, i + 1) /\ Assigned(i + 1, e.name, e) /\ e.name # x =>
         Holds(e, i) /\ Assigned(i, e.name, e)
  BY <1>9
<1>11. \E next : Comes(run, Append(instrs, Store(o, x, type)), next) /\ Carries(next, f, i + 1)
  BY <1>1, <1>4, <1>5, <1>6, <1>8, <1>10, StoreComes DEF Clean
<1> QED
  BY <1>7, <1>11

-------------------------------------------------------------------------------
(* The values every function begins with. *)

\* The parameters of f and, of the globals, those in front of k.
Given(run, f, k) ==
  /\ DOMAIN run.types = DOMAIN run.means
  /\ \A x \in ParamNames(f) : x \in DOMAIN run.means /\ run.means[x] = Meaning(f, x)
  /\ \A d \in Declarations : d.scope[1] = 0 /\ d.at < k /\ d.stored =>
       d.name \in DOMAIN run.means /\ run.means[d.name] = d
  /\ \A x \in DOMAIN run.types : \E d \in Declarations :
       d.name = x /\ FunctionOf(d.at) \in {0, f} /\ run.types[x] = d.type

\* The parameters alone.
LEMMA GivenParams ==
  ASSUME program \in Program, NEW f \in DOMAIN program, program[f].k = "function"
  PROVE  Given(Entered(f), f, 1)
<1>1. PICK run : run = Entered(f)
  OBVIOUS
<1>2. /\ run.means = [x \in ParamNames(f) |-> Meaning(f, x)]
      /\ run.types = [x \in ParamNames(f) |-> (CHOOSE p \in Range(program[f].params) : p.name = x).type]
  BY <1>1 DEF Entered
<1>3. ASSUME NEW x \in ParamNames(f)
      PROVE  \E d \in Declarations : d.name = x /\ FunctionOf(d.at) \in {0, f} /\ run.types[x] = d.type
  <2>1. PICK params : params = program[f].params
    OBVIOUS
  <2>2. PICK c : c = CHOOSE p \in Range(params) : p.name = x
    OBVIOUS
  <2>3. c \in Range(params) /\ c.name = x
    <3>1. \E p \in Range(params) : p.name = x
      BY <2>1 DEF ParamNames, Range
    <3> QED
      BY <2>2, <3>1
  <2>4. PICK q \in DOMAIN params : c = params[q]
    BY <2>3 DEF Range
  <2>5. PICK d \in Declarations : d.at = f /\ d.name = params[q].name /\ d.type = params[q].type
    BY <2>1, <2>4, DeclarationsAt
  <2>6. FunctionOf(f) = f
    <3>1. f \in Nat /\ Close(f) \in Nat /\ f <= Close(f)
      BY CloseFacts, ProgramDomain DEF Opens, Openers
    <3> QED
      BY <3>1, FunctionOfFacts
  <2>7. run.types[x] = c.type
    BY <1>2, <2>1, <2>2
  <2> QED
    BY <2>3, <2>4, <2>5, <2>6, <2>7
<1>4. \A d \in Declarations : ~(d.at < 1)
  BY ScopeFacts
<1>5. Given(run, f, 1)
  BY <1>2, <1>3, <1>4 DEF Given
<1> QED
  BY <1>1, <1>5

\* What is visible at a global, but for the global itself, is in front of it at the top.
LEMMA SeenByGlobal ==
  ASSUME program \in Program, NEW k \in DOMAIN program, program[k].k = "global",
         NEW x, NEW d \in Visible(k, x)
  PROVE  d.scope[1] = 0
<1>1. OpenAt(k) = {}
  BY FunctionOpen
<1>2. d \in Declarations /\ d.at <= k /\ (d.scope[1] = 0 \/ k <= Close(d.scope[1]))
  BY DEF Visible
<1>3. SUFFICES ASSUME d.scope[1] # 0 PROVE FALSE
  OBVIOUS
<1>4. PICK s : s = d.scope[1]
  OBVIOUS
<1>5. d.at \in Nat /\ s \in Nat \ {0} /\ s <= d.at /\ s \in DOMAIN program /\ Opens(s) /\ k \in Nat /\ k <= Close(s)
  BY <1>2, <1>3, <1>4, ScopeFacts, ProgramDomain
<1>6. s # k
  BY <1>5 DEF Opens, Openers
<1>7. s \in OpenAt(k)
  BY <1>2, <1>5, <1>6 DEF OpenAt
<1> QED
  BY <1>1, <1>7

\* The next global.
LEMMA GivenGlobal ==
  ASSUME program \in Program, Clean, NEW f \in DOMAIN program, program[f].k = "function",
         NEW k \in DOMAIN program, program[k].k = "global", program[k].init # <<>>,
         NEW run, Given(run, f, k),
         NEW x, x = program[k].name, NEW type, type = program[k].type,
         NEW instrs, instrs = Loads(k, program[k].init)
  PROVE  \E next : Comes(run, Append(instrs, Store(k, x, type)), next) /\ Given(next, f, k + 1)
<1>1. k \in Nat /\ f \in Nat
  BY ProgramDomain
<1>2. PICK d \in Declarations : /\ d.at = k /\ d.name = x /\ d.type = type /\ d.scope[1] = 0
                                /\ FunctionOf(d.at) = 0 /\ \A e \in Declarations : e.at = k => e = d
  <2>1. PICK d \in Declarations : d.at = k
    BY DeclarationsAt DEF Block
  <2>2. d.scope[1] = 0 /\ FunctionOf(d.at) = 0
    BY <2>1, GlobalFacts
  <2> QED
    BY <2>1, <2>2, DeclarationKinds
<1>3. Comes(run, instrs, run)
  <2>1. PICK expr : expr = program[k].init
    OBVIOUS
  <2>2. expr \in Expressions(program[k])
    BY <2>1 DEF Expressions
  <2>3. /\ expr \in Seq(Range(expr))
        /\ \A y \in Uses(expr) : Holds(Meaning(k, y), k) /\ Assigned(k, y, Meaning(k, y))
    BY <2>2, UsesHold
  <2>4. ASSUME NEW y \in Uses(expr)
        PROVE  y \in DOMAIN run.means /\ run.means[y] = Meaning(k, y) /\ run.types[y] = run.means[y].type
    <3>1. PICK m : m = Meaning(k, y)
      OBVIOUS
    <3>2. Visible(k, y) # {}
      BY <2>2 DEF Clean, EveryUseAssigned
    <3>3. m \in Visible(k, y)
      BY <3>1, <3>2, MeaningVisible
    <3>4. m \in Declarations /\ m.name = y /\ m.scope[1] = 0
      BY <3>3, SeenByGlobal DEF Visible
    <3>5. m.at < k /\ m.stored
      BY <2>3, <3>1, <3>4 DEF Assigned
    <3>6. y \in DOMAIN run.means /\ run.means[y] = m /\ y \in DOMAIN run.types
      BY <3>4, <3>5 DEF Given
    <3>7. PICK e \in Declarations : e.name = y /\ FunctionOf(e.at) \in {0, f} /\ run.types[y] = e.type
      BY <3>6 DEF Given
    <3>8. FunctionOf(m.at) = 0
      BY <3>4, GlobalFacts DEF Clean
    <3>9. m.type = e.type
      BY <3>4, <3>7, <3>8 DEF Clean, Retyped
    <3> QED
      BY <3>1, <3>6, <3>7, <3>9
  <2>5. Comes(run, Loads(k, expr), run)
    BY <2>3, <2>4, LoadsLead DEF Comes
  <2> QED
    BY <2>1, <2>5
<1>4. d \in Visible(k, x)
  BY <1>1, <1>2 DEF Visible
<1>5. Meaning(k, x) = d
  BY <1>4, MeansAlone DEF Clean
<1>6. PICK next, q : next = Stored(run, x, d, type) /\ q = Store(k, x, type)
  OBVIOUS
<1>7. Comes(run, Append(instrs, q), next)
  <2>1. q.op = "op_store" /\ q.name = x /\ q.at = k /\ q.type = type
    BY <1>6 DEF Store
  <2>2. Effect(run, q, next)
    BY <1>4, <1>5, <1>6, <2>1 DEF Effect
  <2> QED
    BY <1>3, <2>2, ComesAppend
<1>8. DOMAIN run.types = DOMAIN run.means
  BY DEF Given
<1>9. /\ DOMAIN next.means = DOMAIN run.means \cup {x} /\ next.means[x] = d
      /\ \A y \in DOMAIN run.means : y # x => next.means[y] = run.means[y]
  <2>1. next.means = Put(run.means, x, d)
    BY <1>6 DEF Stored
  <2> QED
    BY <2>1 DEF Put
<1>10. /\ DOMAIN next.types = DOMAIN next.means
       /\ \A y \in DOMAIN run.types : next.types[y] = run.types[y]
       /\ x \notin DOMAIN run.types => next.types[x] = type
  <2>1. CASE x \in DOMAIN run.means
    <3>1. next.types = run.types
      BY <1>6, <2>1 DEF Stored
    <3> QED
      BY <1>8, <1>9, <2>1, <3>1
  <2>2. CASE x \notin DOMAIN run.means
    <3>1. next.types = Put(run.types, x, type)
      BY <1>6, <2>2 DEF Stored
    <3> QED
      BY <1>8, <1>9, <2>2, <3>1 DEF Put
  <2> QED
    BY <2>1, <2>2
<1>11. ASSUME NEW y \in ParamNames(f)
       PROVE  y \in DOMAIN next.means /\ next.means[y] = Meaning(f, y)
  <2>1. y # x
    <3>1. PICK p \in DOMAIN program[f].params : program[f].params[p].name = y
      BY DEF ParamNames
    <3>2. p # 0
      <4>1. program[f].params \in Seq(Range(program[f].params))
        BY TreeAssumption
      <4>2. DOMAIN program[f].params = 1..Len(program[f].params) /\ Len(program[f].params) \in Nat
        BY <4>1, LenProperties
      <4> QED
        BY <3>1, <4>2
    <3>3. PICK e \in Declarations : e.name = y /\ e.place = p
      BY <3>1, DeclarationsAt
    <3> QED
      BY <1>2, <3>2, <3>3 DEF Clean, Overwritten
  <2>2. y \in DOMAIN run.means /\ run.means[y] = Meaning(f, y)
    BY DEF Given
  <2> QED
    BY <1>9, <2>1, <2>2
<1>12. ASSUME NEW e \in Declarations, e.scope[1] = 0, e.at < k + 1, e.stored
       PROVE  e.name \in DOMAIN next.means /\ next.means[e.name] = e
  <2>1. e.at \in Nat /\ e.at <= k
    BY <1>1, <1>12, ScopeFacts
  <2>2. CASE e.name = x
    <3>1. e \in Visible(k, x)
      BY <1>12, <2>1, <2>2 DEF Visible
    <3>2. e = d
      BY <1>1, <1>4, <3>1, Alone DEF Clean
    <3> QED
      BY <1>9, <2>2, <3>2
  <2>3. CASE e.name # x
    <3>1. e.at < k
      BY <1>1, <1>2, <2>1, <2>3
    <3>2. e.name \in DOMAIN run.means /\ run.means[e.name] = e
      BY <1>12, <3>1 DEF Given
    <3> QED
      BY <1>9, <2>3, <3>2
  <2> QED
    BY <2>2, <2>3
<1>13. ASSUME NEW y \in DOMAIN next.types
       PROVE  \E e \in Declarations : e.name = y /\ FunctionOf(e.at) \in {0, f} /\ next.types[y] = e.type
  <2>1. CASE y \in DOMAIN run.types
    <3>1. next.types[y] = run.types[y]
      BY <1>10, <2>1
    <3> QED
      BY <2>1, <3>1 DEF Given
  <2>2. CASE y \notin DOMAIN run.types
    <3>1. y = x /\ next.types[y] = type
      BY <1>8, <1>9, <1>10, <1>13, <2>2
    <3> QED
      BY <1>2, <3>1
  <2> QED
    BY <2>1, <2>2
<1>14. Given(next, f, k + 1)
  BY <1>10, <1>11, <1>12, <1>13 DEF Given
<1> QED
  BY <1>6, <1>7, <1>14

\* All of them.
LEMMA GlobalsCome ==
  ASSUME program \in Program, Clean, NEW f \in DOMAIN program, program[f].k = "function"
  PROVE  \E run : Comes(Entered(f), GlobalInit, run) /\ Given(run, f, Len(program) + 1)
<1>1. PICK n \in Nat : n = Len(program) /\ DOMAIN program = 1..n /\ f \in 1..n /\ n # 0
  <2>1. Len(program) \in Nat /\ DOMAIN program = 1..Len(program)
    BY ProgramDomain
  <2>2. f \in 1..Len(program) /\ Len(program) # 0
    BY <2>1
  <2> QED
    BY <2>1, <2>2
<1>2. PICK seqs : seqs = [i \in DOMAIN program |->
                            IF program[i].k = "global" /\ program[i].init # <<>>
                            THEN Append(Loads(i, program[i].init), Store(i, program[i].name, program[i].type))
                            ELSE <<>>]
  OBVIOUS
<1>3. ASSUME NEW k \in 1..n, NEW run, Given(run, f, k)
      PROVE  \E next : Comes(run, seqs[k], next) /\ Given(next, f, k + 1)
  <2>1. k \in DOMAIN program /\ k \in Nat
    BY <1>1
  <2>2. CASE program[k].k = "global" /\ program[k].init # <<>>
    <3>1. PICK x, type, instrs : x = program[k].name /\ type = program[k].type /\ instrs = Loads(k, program[k].init)
      OBVIOUS
    <3>2. \E next : Comes(run, Append(instrs, Store(k, x, type)), next) /\ Given(next, f, k + 1)
      BY <1>3, <2>1, <2>2, <3>1, GivenGlobal
    <3>3. seqs[k] = Append(instrs, Store(k, x, type))
      BY <1>2, <2>1, <2>2, <3>1
    <3> QED
      BY <3>2, <3>3
  <2>3. CASE ~(program[k].k = "global" /\ program[k].init # <<>>)
    <3>1. seqs[k] = <<>>
      BY <1>2, <2>1, <2>3
    <3>2. ASSUME NEW d \in Declarations, d.scope[1] = 0, d.at < k + 1, d.stored
          PROVE  d.at < k
      <4>1. program[d.at].k = "global"
        BY <3>2, GlobalFacts DEF Clean
      <4>2. program[d.at].init # <<>>
        BY <3>2, <4>1, DeclarationKinds DEF Block
      <4>3. d.at # k
        BY <2>3, <4>1, <4>2
      <4> QED
        BY <2>1, <3>2, <4>3, ScopeFacts
    <3>3. Given(run, f, k + 1)
      BY <1>3, <3>2 DEF Given
    <3> QED
      BY <3>1, <3>3, ComesNone
  <2> QED
    BY <2>2, <2>3
<1>4. Len(seqs) = n /\ GlobalInit = FlattenSeq(seqs)
  <2>1. PICK S : S = {seqs[k] : k \in 1..n}
    OBVIOUS
  <2>2. seqs \in [1..n -> S]
    BY <1>1, <1>2, <2>1
  <2>3. Len(seqs) = n
    BY <2>2, FunctionIsSeq
  <2> QED
    BY <1>2, <2>3 DEF GlobalInit
<1>5. PICK flatten : /\ flatten = [k \in 1..n |-> IF k = 1 THEN seqs[k] ELSE flatten[k - 1] \o seqs[k]]
                     /\ FlattenSeq(seqs) = flatten[n]
  BY <1>1, <1>4, FlattenSteps
<1> DEFINE T == {k \in 1..n : ~\E run : Comes(Entered(f), flatten[k], run) /\ Given(run, f, k + 1)}
<1>6. T = {}
  <2>1. SUFFICES ASSUME T # {} PROVE FALSE
    OBVIOUS
  <2>2. PICK k \in T : \A m \in T : k <= m
    <3>1. T \in SUBSET Nat
      OBVIOUS
    <3> HIDE DEF T
    <3> QED
      BY <2>1, <3>1, LeastNatural
  <2>3. k \in 1..n /\ k \in Nat
    BY <2>2
  <2>4. CASE k = 1
    <3>1. Given(Entered(f), f, 1)
      BY GivenParams
    <3>2. flatten[k] = seqs[k]
      BY <1>5, <2>3, <2>4
    <3>3. \E run : Comes(Entered(f), seqs[k], run) /\ Given(run, f, k + 1)
      BY <1>3, <2>3, <2>4, <3>1
    <3> QED
      BY <2>2, <3>2, <3>3
  <2>5. CASE k # 1
    <3>1. k - 1 \in 1..n /\ ~(k <= k - 1) /\ k - 1 + 1 = k
      BY <2>3, <2>5
    <3>2. k - 1 \notin T
      BY <2>2, <3>1
    <3>3. PICK run : Comes(Entered(f), flatten[k - 1], run) /\ Given(run, f, k)
      BY <3>1, <3>2
    <3>4. PICK next : Comes(run, seqs[k], next) /\ Given(next, f, k + 1)
      BY <1>3, <2>3, <3>3
    <3>5. PICK first, second : first = flatten[k - 1] /\ second = seqs[k]
      OBVIOUS
    <3>6. Comes(Entered(f), first \o second, next)
      BY <3>3, <3>4, <3>5, ComesOn
    <3>7. flatten[k] = first \o second
      BY <1>5, <2>3, <2>5, <3>5
    <3> QED
      BY <2>2, <3>4, <3>6, <3>7
  <2> QED
    BY <2>4, <2>5
<1>7. n \in 1..n /\ n \notin T
  BY <1>1, <1>6
<1>8. \E run : Comes(Entered(f), flatten[n], run) /\ Given(run, f, n + 1)
  BY <1>7
<1> QED
  BY <1>1, <1>4, <1>5, <1>8

\* So a function begins with what it needs, whatever the frame was before.
LEMMA FunctionComes ==
  ASSUME program \in Program, Clean, NEW f \in DOMAIN program, program[f].k = "function", NEW before
  PROVE  \E run : Comes(before, <<Enter(f)>> \o GlobalInit, run) /\ Carries(run, f, f + 1)
<1>1. PICK run : Comes(Entered(f), GlobalInit, run) /\ Given(run, f, Len(program) + 1)
  BY GlobalsCome
<1>2. Comes(before, <<Enter(f)>>, Entered(f))
  <2>1. PICK q : q = Enter(f)
    OBVIOUS
  <2>2. q.op = "enter" /\ q.at = f
    BY <2>1 DEF Enter
  <2>3. Effect(before, q, Entered(f))
    BY <2>2 DEF Effect
  <2>4. Comes(before, <<q>>, Entered(f))
    BY <2>3, LeadsOne DEF Comes
  <2> QED
    BY <2>1, <2>4
<1>3. PICK first, second : first = <<Enter(f)>> /\ second = GlobalInit
  OBVIOUS
<1>4. Comes(before, first \o second, run)
  BY <1>1, <1>2, <1>3, ComesOn
<1>5. f \in Nat /\ f \in 1..Len(program) /\ Len(program) \in Nat /\ OpenAt(f) = {}
  BY ProgramDomain, FunctionOpen
<1>6. ASSUME NEW d \in Declarations, Holds(d, f + 1), Assigned(f + 1, d.name, d)
      PROVE  d.name \in DOMAIN run.means /\ run.means[d.name] = d
  <2>1. PICK s : s = d.scope[1]
    OBVIOUS
  <2>2. d.at \in Nat /\ s \in Nat /\ s <= d.at /\ d.at <= f
        /\ (s # 0 => s \in DOMAIN program /\ Opens(s) /\ Close(s) \in Nat /\ f + 1 <= Close(s))
    BY <1>5, <1>6, <2>1, ScopeFacts, ProgramDomain DEF Holds
  <2>3. CASE s = 0
    <3>1. d.stored /\ d.at < Len(program) + 1
      BY <1>5, <1>6, <2>1, <2>2, <2>3 DEF Assigned
    <3> QED
      BY <1>1, <2>1, <2>3, <3>1 DEF Given
  <2>4. CASE s # 0
    <3>1. s = f
      <4>1. SUFFICES ASSUME s # f PROVE FALSE
        OBVIOUS
      <4>2. s \in OpenAt(f)
        BY <1>5, <2>2, <2>4, <4>1 DEF OpenAt
      <4> QED
        BY <1>5, <4>2
    <3>2. d.at = f
      BY <1>5, <2>2, <3>1
    <3>3. d.name \in ParamNames(f)
      BY <3>2, DeclarationKinds DEF ParamNames
    <3>4. d \in Visible(f, d.name)
      <4>1. f <= Close(s)
        BY <1>5, <2>2, <2>4
      <4>2. d.at <= f
        BY <1>5, <3>2
      <4> QED
        BY <2>1, <4>1, <4>2 DEF Visible
    <3>5. Meaning(f, d.name) = d
      BY <3>4, MeansAlone DEF Clean
    <3> QED
      BY <1>1, <3>3, <3>5 DEF Given
  <2> QED
    BY <2>3, <2>4
<1>7. \A x \in DOMAIN run.types : FrameType(f, f + 1, x, run.types[x])
  BY <1>1 DEF Given, FrameType
<1>8. Carries(run, f, f + 1)
  BY <1>1, <1>6, <1>7 DEF Given, Carries
<1> QED
  BY <1>3, <1>4, <1>8

-------------------------------------------------------------------------------
(* The code so far. *)

\* A statement of a function, whatever it is.
LEMMA StatementComes ==
  ASSUME program \in Program, Clean, NEW i, at = i, NEW f, Within(f, i), NEW run, Carries(run, f, i),
         TypesHeld(variable_types, i), NEW types, types = variable_types',
         Ends(i) /\ program[Closed].k \in {"for", "forassign"} => TypesHeld(types, i + 1),
         \/ LowerGlobal \/ LowerDeclaration \/ LowerAssignment \/ LowerExpression
         \/ LowerConditional \/ LowerPlainBlock \/ LowerFor \/ LowerForAssign \/ LowerEnd
  PROVE  \E new, next : code' = code \o new /\ Comes(run, new, next) /\ Carries(next, f, i + 1)
<1>1. i \in DOMAIN program /\ f \in OpenAt(i) /\ program[f].k = "function"
  BY DEF Within
<1>2. CASE program[i].k \notin (Block \cup Heads \cup {"assign"}) \ {"forassign"}
  <2>1. /\ Comes(run, <<>>, run) /\ Carries(run, f, i + 1)
        /\ \A expr \in Expressions(program[i]) : Comes(run, Loads(i, expr), run)
    BY <1>2, PlainComes
  <2>2. CASE LowerGlobal \/ LowerPlainBlock
    <3>1. code' = code \o <<>>
      BY <2>2 DEF LowerGlobal, LowerPlainBlock, Emit
    <3> QED
      BY <2>1, <3>1
  <2>3. CASE LowerExpression \/ LowerConditional \/ LowerForAssign
    <3>1. PICK expr : expr = program[i].expr
      OBVIOUS
    <3>2. /\ code' = code \o Loads(i, expr)
          /\ program[i].k \in {"expression", "switch", "if", "elseif", "while", "forassign"}
      BY <2>3, <3>1 DEF LowerExpression, LowerConditional, LowerForAssign, Emit, Lower, Here
    <3>3. expr \in Expressions(program[i])
      BY <3>1, <3>2 DEF Expressions
    <3> QED
      BY <2>1, <3>2, <3>3
  <2>4. CASE LowerEnd
    <3>1. Ends(i) /\ program[i].k = "end"
      BY <2>4 DEF LowerEnd, Lower, Here, Ends
    <3>2. PICK o : o = Closed
      OBVIOUS
    <3>3. o \in DOMAIN program /\ Opens(o) /\ Close(o) = i
      <4>1. \E q \in DOMAIN program : Opens(q) /\ Close(q) = i
        BY <1>1, <3>1, ClosedFacts, ProgramDomain DEF OpenAt
      <4> QED
        BY <3>2, <4>1 DEF Closed
    <3>4. CASE program[o].k \in {"for", "forassign"}
      <4>1. PICK x, instrs : x = program[o].step.name /\ instrs = Loads(o, program[o].step.expr)
        OBVIOUS
      <4>2. \E next : /\ Comes(run, Append(instrs, Store(o, x, TypeIn(types, x))), next)
                      /\ Carries(next, f, i + 1)
        BY <3>1, <3>2, <3>3, <3>4, <4>1, StepComes
      <4>3. types = Cleanup /\ code' = code \o Append(Loads(o, program[o].step.expr), Store(o, program[o].step.name, TypeIn(Cleanup, program[o].step.name)))
        BY <2>4, <3>2, <3>4 DEF LowerEnd, Emit
      <4>4. code' = code \o Append(instrs, Store(o, x, TypeIn(types, x)))
        BY <4>1, <4>3
      <4> QED
        BY <4>2, <4>4
    <3>5. CASE program[o].k \notin {"for", "forassign"}
      <4>1. code' = code \o <<>>
        BY <2>4, <3>2, <3>5 DEF LowerEnd, Emit
      <4> QED
        BY <2>1, <4>1
    <3> QED
      BY <3>4, <3>5
  <2>5. ~LowerDeclaration /\ ~LowerAssignment /\ ~LowerFor
    BY <1>2 DEF LowerDeclaration, LowerAssignment, LowerFor, Lower, Here, Block, Heads
  <2> QED
    BY <2>2, <2>3, <2>4, <2>5
<1>3. CASE program[i].k \in (Block \cup Heads \cup {"assign"}) \ {"forassign"}
  <2>1. program[i].k \notin {"global", "function"}
    BY <1>1, FunctionOpen
  <2>2. LowerDeclaration \/ LowerAssignment \/ LowerFor
    BY <1>3, <2>1 DEF LowerGlobal, LowerExpression, LowerConditional, LowerPlainBlock, LowerForAssign, LowerEnd,
       Lower, Here, Block, Heads
  <2>3. CASE LowerDeclaration
    <3>1. PICK new : new = IF program[i].init = <<>> THEN <<>>
                           ELSE Append(Loads(i, program[i].init), Store(i, program[i].name, program[i].type))
      OBVIOUS
    <3>2. code' = code \o new /\ program[i].k = "declare"
      BY <2>3, <3>1 DEF LowerDeclaration, Emit, Lower, Here
    <3> QED
      BY <3>1, <3>2, DeclareComes
  <2>4. CASE LowerAssignment
    <3>1. PICK x, instrs, before : /\ x = program[i].name /\ instrs = Loads(i, program[i].expr)
                                   /\ before = variable_types
      OBVIOUS
    <3>2. code' = code \o Append(instrs, Store(i, x, TypeIn(before, x))) /\ program[i].k = "assign"
      BY <2>4, <3>1 DEF LowerAssignment, Emit, Lower, Here
    <3>3. \E next : Comes(run, Append(instrs, Store(i, x, TypeIn(before, x))), next) /\ Carries(next, f, i + 1)
      BY <3>1, <3>2, AssignComes
    <3> QED
      BY <3>2, <3>3
  <2>5. CASE LowerFor
    <3>1. PICK x, type, init, expr : /\ x = program[i].name /\ type = program[i].type
                                     /\ init = program[i].init /\ expr = program[i].expr
      OBVIOUS
    <3>2. code' = code \o (Append(Loads(i, init), Store(i, x, type)) \o Loads(i, expr)) /\ program[i].k = "for"
      <4>1. program[i].k = "for" /\ Here = program[i]
        BY <2>5 DEF LowerFor, Lower, Here
      <4>2. type \in IntTypes
        BY <1>1, <3>1, <4>1 DEF Clean, CounterLost
      <4>3. Type(type.base) = type
        <5>1. PICK b : type = Type(b)
          BY <4>2 DEF IntTypes
        <5>2. type.base = b
          BY <5>1 DEF Type
        <5> QED
          BY <5>1, <5>2
      <4> QED
        BY <2>5, <3>1, <4>1, <4>2, <4>3 DEF LowerFor, Emit
    <3>3. \E next : /\ Comes(run, Append(Loads(i, init), Store(i, x, type)) \o Loads(i, expr), next)
                    /\ Carries(next, f, i + 1)
      BY <3>1, <3>2, ForComes
    <3> QED
      BY <3>2, <3>3
  <2> QED
    BY <2>2, <2>3, <2>4, <2>5
<1> QED
  BY <1>2, <1>3

\* The loads and stores made of a program ReadsItsOwn speaks of do as they should.
CodeInv ==
  /\ LowerInv
  /\ pass = "lower" /\ Clean =>
       \E run : /\ Comes(Fresh, code, run)
                /\ \A f \in OpenAt(at) : program[f].k = "function" => Carries(run, f, at)

\* One statement more of the program.
LEMMA CodeStatement ==
  ASSUME LowerInv, Clean, NEW i \in DOMAIN program, at = i, NEW types, types = variable_types',
         TypesHeld(variable_types, i), Ends(i) /\ program[Closed].k \in {"for", "forassign"} => TypesHeld(types, i + 1),
         NEW run, \A f \in OpenAt(i) : program[f].k = "function" => Carries(run, f, i),
         \/ LowerGlobal \/ LowerFunction \/ LowerDeclaration \/ LowerAssignment \/ LowerExpression
         \/ LowerConditional \/ LowerPlainBlock \/ LowerFor \/ LowerForAssign \/ LowerEnd
  PROVE  \E new, next : /\ code' = code \o new /\ Comes(run, new, next)
                        /\ \A f \in OpenAt(i + 1) : program[f].k = "function" => Carries(next, f, i + 1)
<1>1. program \in Program /\ i \in Nat
  BY ProgramDomain DEF LowerInv, SoundInv, ScopesInv
<1>2. CASE program[i].k = "function"
  <2>1. code' = code \o (<<Enter(i)>> \o GlobalInit)
    <3>1. LowerFunction
      BY <1>2 DEF LowerGlobal, LowerDeclaration, LowerAssignment, LowerExpression, LowerConditional,
         LowerPlainBlock, LowerFor, LowerForAssign, LowerEnd, Lower, Here
    <3> QED
      BY <3>1 DEF LowerFunction, Emit
  <2>2. PICK next : Comes(run, <<Enter(i)>> \o GlobalInit, next) /\ Carries(next, i, i + 1)
    BY <1>1, <1>2, FunctionComes
  <2>3. OpenAt(i + 1) = {i}
    <3>1. OpenAt(i) = {} /\ Opens(i)
      BY <1>1, <1>2, FunctionOpen DEF Opens, Openers
    <3> QED
      BY <1>1, <3>1, OpenStep
  <2> QED
    BY <2>1, <2>2, <2>3
<1>3. CASE program[i].k # "function"
  <2>0. /\ \/ LowerGlobal \/ LowerDeclaration \/ LowerAssignment \/ LowerExpression
           \/ LowerConditional \/ LowerPlainBlock \/ LowerFor \/ LowerForAssign \/ LowerEnd
        /\ \A f \in OpenAt(i + 1) : program[f].k = "function" => f \in OpenAt(i)
    <3>1. OpenAt(i + 1) \subseteq OpenAt(i) \cup {i}
      <4>1. i + 1 \in Nat /\ \A f \in Nat : i + 1 <= f => i <= f
        BY <1>1
      <4>2. ASSUME NEW f \in OpenAt(i + 1), f # i
            PROVE  f \in OpenAt(i)
        <5>1. f \in 1..i /\ Opens(f) /\ i + 1 <= Close(f)
          BY <1>1 DEF OpenAt
        <5>2. f \in 1..i - 1 /\ f \in DOMAIN program
          BY <1>1, <4>2, <5>1, ProgramDomain
        <5>3. Close(f) \in Nat
          BY <1>1, <5>1, <5>2, CloseFacts, ProgramDomain
        <5> QED
          BY <4>1, <5>1, <5>2, <5>3 DEF OpenAt
      <4> QED
        BY <4>2
    <3>2. ~LowerFunction
      BY <1>3 DEF LowerFunction, Lower, Here
    <3> QED
      BY <1>3, <3>1, <3>2
  <2>1. CASE OpenAt(i) = {}
    <3>1. program[i].k \in {"global", "enum"}
      <4>1. program[i].k \in {"function", "global", "aggregate", "enum"}
        BY <1>1, <2>1, TopOpen, TreeAssumption
      <4> QED
        BY <1>3, <4>1 DEF Clean, Scalars
    <3>2. LowerGlobal
      BY <2>0, <3>1 DEF LowerDeclaration, LowerAssignment, LowerExpression, LowerConditional,
         LowerPlainBlock, LowerFor, LowerForAssign, LowerEnd, Lower, Here
    <3>3. code' = code \o <<>>
      BY <3>2 DEF LowerGlobal, Emit
    <3> QED
      BY <2>0, <2>1, <3>3, ComesNone
  <2>2. CASE OpenAt(i) # {}
    <3>1. PICK f \in OpenAt(i) : program[f].k = "function"
      BY <1>1, <2>2, TopOpen
    <3>2. Within(f, i) /\ Carries(run, f, i)
      BY <3>1 DEF Within
    <3>3. PICK new, next : code' = code \o new /\ Comes(run, new, next) /\ Carries(next, f, i + 1)
      BY <1>1, <2>0, <3>2, StatementComes
    <3>4. \A g \in OpenAt(i + 1) : program[g].k = "function" => g = f
      <4>1. i \in 1..Len(program) + 1
        BY <1>1, ProgramDomain
      <4> QED
        BY <1>1, <2>0, <3>1, <4>1, FunctionOpen
    <3> QED
      BY <3>3, <3>4
  <2> QED
    BY <2>1, <2>2
<1> QED
  BY <1>2, <1>3

\* The program stays.
LEMMA SameCode ==
  ASSUME program' = program
  PROVE  /\ Clean' = Clean
         /\ \A i : OpenAt(i)' = OpenAt(i)
         /\ \A run, f, i : Carries(run, f, i)' = Carries(run, f, i)
         /\ \A run, instrs, next : Comes(run, instrs, next)' = Comes(run, instrs, next)
         /\ \A run, q, next : Effect(run, q, next)' = Effect(run, q, next)
<1>1. Declarations' = Declarations
  BY SameProgram
<1>2. \A o : Close(o)' = Close(o)
  BY DEF Close
<1>3. \A i, x : Visible(i, x)' = Visible(i, x)
  BY <1>1, <1>2 DEF Visible
<1>4. \A i, x : Meaning(i, x)' = Meaning(i, x)
  BY <1>3 DEF Meaning
<1>5. \A i : OpenAt(i)' = OpenAt(i)
  BY <1>2 DEF OpenAt, Opens
<1>6. \A i : FunctionOf(i)' = FunctionOf(i)
  BY <1>2 DEF FunctionOf
<1>7. \A i, x, d : Assigned(i, x, d)' = Assigned(i, x, d)
  BY <1>4 DEF Assigned
<1>8. Shadows' = Shadows /\ Scalars' = Scalars
  BY SameFrames
<1>9. Retyped' = Retyped /\ Overwritten' = Overwritten /\ CounterLost' = CounterLost
  BY <1>1, <1>6 DEF Retyped, Overwritten, CounterLost, IntTypes, Type
<1>10. EveryUseAssigned' = EveryUseAssigned
  BY <1>3, <1>4, <1>7 DEF EveryUseAssigned, Expressions, Uses
<1>11. Clean' = Clean
  <2>1. Resolved' = Resolved
    BY SameFaults DEF Resolved
  <2> QED
    BY <1>8, <1>9, <1>10, <2>1 DEF Clean
<1>12. ASSUME NEW run, NEW f, NEW i
       PROVE  Carries(run, f, i)' = Carries(run, f, i)
  <2>1. \A d, k : Holds(d, k)' = Holds(d, k)
    BY <1>2 DEF Holds
  <2>2. \A x, type : FrameType(f, i, x, type)' = FrameType(f, i, x, type)
    BY <1>1, <1>6 DEF FrameType
  <2> QED
    BY <1>1, <1>7, <2>1, <2>2 DEF Carries
<1>13. ASSUME NEW run, NEW q, NEW next
       PROVE  Effect(run, q, next)' = Effect(run, q, next)
  <2>1. \A f : Entered(f)' = Entered(f)
    BY <1>4 DEF Entered, ParamNames
  <2> QED
    BY <1>3, <1>4, <2>1 DEF Effect, Stored, Put
<1>14. ASSUME NEW run, NEW instrs, NEW next
       PROVE  Comes(run, instrs, next)' = Comes(run, instrs, next)
  BY <1>13 DEF Comes, Leads
<1> QED
  BY <1>5, <1>11, <1>12, <1>13, <1>14

\* ir_gen keeps it so.
LEMMA CodeNext == CodeInv /\ [Next]_vars => CodeInv'
<1>1. ASSUME CodeInv, [Next]_vars
      PROVE  LowerInv /\ LowerInv' /\ program \in Program
  BY <1>1, LowerNext DEF CodeInv, LowerInv, SoundInv, ScopesInv
<1>2. ASSUME CodeInv, Next, pass' = "lower", Clean'
      PROVE  (\E run : /\ Comes(Fresh, code, run)
                       /\ \A f \in OpenAt(at) : program[f].k = "function" => Carries(run, f, at))'
  <2>0. LowerInv /\ LowerInv' /\ program \in Program
    BY <1>1, <1>2
  <2>1. CASE pass = "lower"
    <3>1. \/ LowerGlobal \/ LowerFunction \/ LowerDeclaration \/ LowerAssignment \/ LowerExpression
          \/ LowerConditional \/ LowerPlainBlock \/ LowerFor \/ LowerForAssign \/ LowerEnd
      BY <1>2, <2>1 DEF Next, LintNext, CollectFunctions, LintUnheeded, LintGlobal, LintFunction, LintDeclaration,
         LintArray, LintAssignment, LintExpression, LintConditional, LintPlainBlock, LintFor, LintForAssign, LintSwitch, LintCase,
         LintEnd, LintDone, Lint, LowerDone, EmitEnter, EmitStore, EmitLoad, EmitLoadFails, EmitSkip, Instruction
    <3>2. at <= Len(program) /\ program' = program /\ at' = at + 1
      BY <3>1 DEF LowerGlobal, LowerFunction, LowerDeclaration, LowerAssignment, LowerExpression,
         LowerConditional, LowerPlainBlock, LowerFor, LowerForAssign, LowerEnd, Lower, Emit
    <3>3. PICK i, types, before, old : i = at /\ types = variable_types' /\ before = vars_before' /\ old = code
      OBVIOUS
    <3>4. i \in DOMAIN program /\ i \in Nat
      BY <2>0, <2>1, <3>2, <3>3, ProgramDomain DEF LowerInv
    <3>5. Clean /\ ~Shadows /\ ~Shadows'
      BY <1>2, <3>2, SameCode, SameFrames DEF Clean
    <3>6. TypesHeld(variable_types, i)
      BY <2>0, <2>1, <3>3, <3>5 DEF LowerInv, Framed
    <3>7. TypesHeld(types, i + 1)
      <4>1. PICK opens \in Seq(Nat) : Framed(opens, at, variable_types, vars_before)'
        BY <2>0, <1>2, <3>5 DEF LowerInv
      <4>2. Framed(opens, i + 1, types, before)'
        BY <3>2, <3>3, <4>1
      <4>3. Framed(opens, i + 1, types, before)
        BY <3>2, <4>2, SameFrames
      <4> QED
        BY <4>3 DEF Framed
    <3>8. PICK run : /\ Comes(Fresh, code, run)
                     /\ \A f \in OpenAt(i) : program[f].k = "function" => Carries(run, f, i)
      BY <1>2, <2>1, <3>3, <3>5 DEF CodeInv
    <3>9. PICK new, next : /\ code' = code \o new /\ Comes(run, new, next)
                           /\ \A f \in OpenAt(i + 1) : program[f].k = "function" => Carries(next, f, i + 1)
      BY <2>0, <3>1, <3>3, <3>4, <3>5, <3>6, <3>7, <3>8, CodeStatement
    <3>10. PICK all : all = old \o new /\ code' = all /\ Comes(Fresh, all, next)
      <4>1. Comes(Fresh, old, run)
        BY <3>3, <3>8
      <4>2. Comes(Fresh, old \o new, next)
        BY <3>9, <4>1, ComesOn
      <4> QED
        BY <3>3, <3>9, <4>2
    <3>11. Comes(Fresh, all, next)'
      <4>1. PICK fresh : fresh = Fresh
        OBVIOUS
      <4>2. Comes(fresh, all, next)'
        BY <3>2, <3>10, <4>1, SameCode
      <4> QED
        BY <4>1, <4>2 DEF Fresh
    <3>12. \A f \in OpenAt(i + 1)' : program'[f].k = "function" => Carries(next, f, i + 1)'
      BY <3>2, <3>9, SameCode
    <3> QED
      BY <3>2, <3>3, <3>10, <3>11, <3>12
  <2>2. CASE pass # "lower"
    <3>1. pass \in {"collect", "lint"} /\ at' = 1 /\ code' = code
      BY <1>2, <2>2 DEF Next, LowerGlobal, LowerFunction, LowerDeclaration, LowerAssignment, LowerExpression,
         LowerConditional, LowerPlainBlock, LowerFor, LowerForAssign, LowerEnd, LowerDone, Lower, lintVars, lowerVars,
         EmitEnter, EmitStore, EmitLoad, EmitLoadFails, EmitSkip, Instruction, Emitted,
         LintNext, CollectFunctions, LintUnheeded, LintGlobal, LintFunction, LintDeclaration, LintArray,
         LintAssignment, LintExpression, LintConditional, LintPlainBlock, LintFor, LintForAssign, LintSwitch, LintCase, LintEnd,
         LintDone, Lint, Go
    <3>2. code' = <<>>
      BY <2>0, <3>1 DEF LowerInv
    <3>3. OpenAt(1)' = {}
      BY DEF OpenAt
    <3>4. Comes(Fresh, <<>>, Fresh)'
      <4>1. PICK fresh : fresh = Fresh
        OBVIOUS
      <4>2. Comes(fresh, <<>>, fresh)'
        <5>1. ASSUME NEW e, e = <<>>
              PROVE  e \in Seq({}) /\ Len(e) = 0
          BY <5>1
        <5>2. PICK runs : runs = [k \in 0..0 |-> fresh]
          OBVIOUS
        <5>3. runs[0] = fresh /\ 1..0 = {}
          BY <5>2
        <5>4. ASSUME NEW e, e = <<>>
              PROVE  Leads(fresh, e, 0, fresh)'
          BY <5>3 DEF Leads
        <5> QED
          BY <5>1, <5>4 DEF Comes
      <4> QED
        BY <4>1, <4>2 DEF Fresh
    <3> QED
      BY <3>1, <3>2, <3>3, <3>4
  <2> QED
    BY <2>1, <2>2
<1>3. ASSUME CodeInv, UNCHANGED vars, pass' = "lower", Clean'
      PROVE  (\E run : /\ Comes(Fresh, code, run)
                       /\ \A f \in OpenAt(at) : program[f].k = "function" => Carries(run, f, at))'
  <2>1. program' = program /\ pass' = pass /\ at' = at /\ code' = code
    BY <1>3 DEF vars, lintVars, lowerVars
  <2>2. PICK i, all, fresh : i = at /\ all = code /\ fresh = Fresh
    OBVIOUS
  <2>3. PICK run : /\ Comes(fresh, all, run)
                   /\ \A f \in OpenAt(i) : program[f].k = "function" => Carries(run, f, i)
    BY <1>3, <2>1, <2>2, SameCode DEF CodeInv
  <2>4. /\ Comes(fresh, all, run)'
        /\ \A f \in OpenAt(i)' : program'[f].k = "function" => Carries(run, f, i)'
    BY <2>1, <2>3, SameCode
  <2> QED
    BY <2>1, <2>2, <2>4 DEF Fresh
<1> QED
  BY <1>1, <1>2, <1>3 DEF CodeInv

-------------------------------------------------------------------------------
(* The slots. *)

\* The frame has what the code has stored, each name in a slot of its own.
Mirrors(run, map, types, size, mem) ==
  /\ DOMAIN map = DOMAIN run.means /\ types = run.types /\ DOMAIN run.types = DOMAIN run.means
  /\ size \in Nat
  /\ \A x \in DOMAIN map :
       map[x] \in Nat /\ map[x] <= size /\ map[x] \in DOMAIN mem /\ mem[map[x]] = run.means[x]
  /\ \A x, y \in DOMAIN map : map[x] = map[y] => x = y

\* A function has its parameters first.
ParamSlots(params) == [p \in DOMAIN params |-> 8 * p]
ParamMap(params, slots) ==
  [x \in {params[p].name : p \in DOMAIN params} |-> slots[CHOOSE p \in DOMAIN params : params[p].name = x]]
ParamTypes(params, map) == [x \in DOMAIN map |-> (CHOOSE p \in Range(params) : p.name = x).type]
ParamMemory(f, params, slots) == [s \in Range(slots) |-> Meaning(f, params[s \div 8].name)]

LEMMA EnterMirrors ==
  ASSUME program \in Program, NEW f \in DOMAIN program, program[f].k = "function",
         NEW params, params = program[f].params, NEW slots, slots = ParamSlots(params),
         NEW map, map = ParamMap(params, slots), NEW types, types = ParamTypes(params, map),
         NEW mem, mem = ParamMemory(f, params, slots)
  PROVE  Mirrors(Entered(f), map, types, 8 * Len(params), mem)
<1> USE DEF ParamSlots, ParamMap, ParamTypes, ParamMemory
<1>1. DOMAIN params = 1..Len(params) /\ Len(params) \in Nat
  <2>1. params \in Seq(Range(params))
    BY TreeAssumption
  <2> QED
    BY <2>1, LenProperties
<1>2. PICK run : run = Entered(f)
  OBVIOUS
<1>3. /\ run.means = [x \in ParamNames(f) |-> Meaning(f, x)]
      /\ run.types = [x \in ParamNames(f) |-> (CHOOSE p \in Range(params) : p.name = x).type]
      /\ ParamNames(f) = {params[p].name : p \in DOMAIN params}
  BY <1>2 DEF Entered, ParamNames
<1>4. ASSUME NEW x \in DOMAIN map
      PROVE  \E p \in DOMAIN params : params[p].name = x /\ map[x] = 8 * p
  <2>1. PICK p : p = CHOOSE q \in DOMAIN params : params[q].name = x
    OBVIOUS
  <2>2. p \in DOMAIN params /\ params[p].name = x
    <3>1. \E q \in DOMAIN params : params[q].name = x
      OBVIOUS
    <3> QED
      BY <2>1, <3>1
  <2>3. map[x] = slots[p]
    BY <2>1
  <2> QED
    BY <2>2, <2>3
<1>5. ASSUME NEW p \in DOMAIN params
      PROVE  8 * p \in DOMAIN mem /\ mem[8 * p] = Meaning(f, params[p].name)
  <2>1. (8 * p) \div 8 = p
    BY <1>1
  <2>2. 8 * p \in Range(slots)
    BY DEF Range
  <2>3. PICK s : s = 8 * p
    OBVIOUS
  <2>4. s \in Range(slots) /\ s \div 8 = p
    BY <2>1, <2>2, <2>3
  <2>5. s \in DOMAIN mem /\ mem[s] = Meaning(f, params[p].name)
    BY <2>4
  <2> QED
    BY <2>3, <2>5
<1>6. ASSUME NEW x \in DOMAIN map
      PROVE  /\ map[x] \in Nat /\ map[x] <= 8 * Len(params) /\ map[x] \in DOMAIN mem
             /\ mem[map[x]] = run.means[x]
  <2>1. PICK p \in DOMAIN params : params[p].name = x /\ map[x] = 8 * p
    BY <1>4
  <2>2. run.means[x] = Meaning(f, x)
    BY <1>3, <2>1
  <2>3. p \in Nat /\ p <= Len(params)
    BY <1>1
  <2>4. 8 * p \in Nat /\ 8 * p <= 8 * Len(params)
    BY <1>1, <2>3
  <2> QED
    BY <1>5, <2>1, <2>2, <2>4
<1>7. ASSUME NEW x \in DOMAIN map, NEW y \in DOMAIN map, map[x] = map[y]
      PROVE  x = y
  <2>1. PICK p \in DOMAIN params : params[p].name = x /\ map[x] = 8 * p
    BY <1>4
  <2>2. PICK q \in DOMAIN params : params[q].name = y /\ map[y] = 8 * q
    BY <1>4
  <2>3. p = q
    <3>1. 8 * p = 8 * q
      BY <1>7, <2>1, <2>2
    <3>2. \A a, b \in Nat : 8 * a = 8 * b => a = b
      OBVIOUS
    <3>3. p \in Nat /\ q \in Nat
      BY <1>1
    <3> QED
      BY <3>1, <3>2, <3>3
  <2> QED
    BY <2>1, <2>2, <2>3
<1>8. DOMAIN map = DOMAIN run.means /\ types = run.types /\ DOMAIN run.types = DOMAIN run.means
  <2>1. DOMAIN map = ParamNames(f)
    BY <1>3
  <2> QED
    BY <1>3, <2>1
<1>9. 8 * Len(params) \in Nat
  BY <1>1
<1>10. Mirrors(run, map, types, 8 * Len(params), mem)
  BY <1>6, <1>7, <1>8, <1>9 DEF Mirrors
<1> QED
  BY <1>2, <1>10

\* A store goes to the slot of the name, or to one behind all the others.
LEMMA StoreMirrors ==
  ASSUME NEW run, NEW map, NEW types, NEW size, NEW mem, Mirrors(run, map, types, size, mem),
         NEW x, NEW d, NEW type, NEW slot, slot = IF x \in DOMAIN map THEN map[x] ELSE size + 8
  PROVE  Mirrors(Stored(run, x, d, type), Put(map, x, slot),
                 IF x \in DOMAIN map THEN types ELSE Put(types, x, type),
                 IF x \in DOMAIN map THEN size ELSE size + 8, Put(mem, slot, d))
<1>1. PICK next, map2, types2, size2, mem2 :
        /\ next = Stored(run, x, d, type) /\ map2 = Put(map, x, slot)
        /\ types2 = (IF x \in DOMAIN map THEN types ELSE Put(types, x, type))
        /\ size2 = (IF x \in DOMAIN map THEN size ELSE size + 8) /\ mem2 = Put(mem, slot, d)
  OBVIOUS
<1>2. /\ DOMAIN map = DOMAIN run.means /\ types = run.types /\ DOMAIN run.types = DOMAIN run.means
      /\ size \in Nat
      /\ \A y \in DOMAIN map :
           map[y] \in Nat /\ map[y] <= size /\ map[y] \in DOMAIN mem /\ mem[map[y]] = run.means[y]
      /\ \A y, z \in DOMAIN map : map[y] = map[z] => y = z
  BY DEF Mirrors
<1>3. /\ slot \in Nat /\ size2 \in Nat /\ slot <= size2 /\ size <= size2
      /\ \A y \in DOMAIN map : y # x => map[y] # slot
  BY <1>1, <1>2
<1>4. /\ DOMAIN map2 = DOMAIN map \cup {x} /\ map2[x] = slot
      /\ \A y \in DOMAIN map : y # x => map2[y] = map[y]
  BY <1>1 DEF Put
<1>5. /\ slot \in DOMAIN mem2 /\ mem2[slot] = d
      /\ \A s \in DOMAIN mem : s \in DOMAIN mem2 /\ (s # slot => mem2[s] = mem[s])
  BY <1>1 DEF Put
<1>6. next.means = Put(run.means, x, d)
      /\ next.types = IF x \in DOMAIN run.means THEN run.types ELSE Put(run.types, x, type)
  BY <1>1 DEF Stored
<1>7. /\ DOMAIN next.means = DOMAIN run.means \cup {x} /\ next.means[x] = d
      /\ \A y \in DOMAIN run.means : y # x => next.means[y] = run.means[y]
  BY <1>6 DEF Put
<1>8. DOMAIN map2 = DOMAIN next.means /\ types2 = next.types
  BY <1>1, <1>2, <1>4, <1>6, <1>7
<1>9. DOMAIN next.types = DOMAIN next.means
  <2>1. CASE x \in DOMAIN run.means
    BY <1>2, <1>6, <1>7, <2>1
  <2>2. CASE x \notin DOMAIN run.means
    BY <1>2, <1>6, <1>7, <2>2 DEF Put
  <2> QED
    BY <2>1, <2>2
<1>10. ASSUME NEW y \in DOMAIN map2
       PROVE  map2[y] \in Nat /\ map2[y] <= size2 /\ map2[y] \in DOMAIN mem2 /\ mem2[map2[y]] = next.means[y]
  <2>1. CASE y = x
    BY <1>3, <1>4, <1>5, <1>7, <2>1
  <2>2. CASE y # x
    <3>1. y \in DOMAIN map /\ map2[y] = map[y] /\ map[y] # slot
      BY <1>3, <1>4, <1>10, <2>2
    <3>2. map[y] \in Nat /\ map[y] <= size /\ map[y] \in DOMAIN mem /\ mem[map[y]] = run.means[y]
      BY <1>2, <3>1
    <3>3. next.means[y] = run.means[y]
      BY <1>2, <1>7, <2>2, <3>1
    <3>4. map[y] <= size2
      BY <1>2, <1>3, <3>2
    <3>5. map[y] \in DOMAIN mem2 /\ mem2[map[y]] = mem[map[y]]
      BY <1>5, <3>1, <3>2
    <3> QED
      BY <3>1, <3>2, <3>3, <3>4, <3>5
  <2> QED
    BY <2>1, <2>2
<1>11. ASSUME NEW y \in DOMAIN map2, NEW z \in DOMAIN map2, map2[y] = map2[z]
       PROVE  y = z
  BY <1>2, <1>3, <1>4, <1>11
<1>12. Mirrors(next, map2, types2, size2, mem2)
  BY <1>3, <1>8, <1>9, <1>10, <1>11 DEF Mirrors
<1> QED
  BY <1>1, <1>12

\* Nothing is emitted before everything is lowered.
Untouched ==
  /\ ir = 1 /\ local_variable_map = <<>> /\ local_variable_map_types = <<>>
  /\ totalsizes = 0 /\ memory = <<>> /\ loads = {} /\ abandoned = FALSE

Good(l) == l.from = Meaning(l.at, l.name) /\ l.type = l.from.type

ReadInv ==
  /\ CodeInv
  /\ pass \in {"collect", "lint", "lower"} => Untouched
  /\ pass = "emit" => Scalars /\ Resolved
  /\ pass = "emit" /\ Clean =>
       /\ ~abandoned
       /\ \A l \in loads : Good(l)
       /\ ir \in Nat \ {0} /\ Len(code) \in Nat
       /\ \E runs : /\ \A k \in 1..Len(code) : Effect(runs[k - 1], code[k], runs[k])
                    /\ Mirrors(runs[ir - 1], local_variable_map, local_variable_map_types, totalsizes, memory)

\* One instruction.
LEMMA EmitStep ==
  ASSUME program \in Program, pass = "emit", ~abandoned, \A l \in loads : Good(l), ir \in Nat \ {0},
         NEW k, k = ir, NEW run, NEW next, k <= Len(code) => Effect(run, code[k], next),
         Mirrors(run, local_variable_map, local_variable_map_types, totalsizes, memory),
         EmitEnter \/ EmitStore \/ EmitLoad \/ EmitLoadFails \/ EmitSkip
  PROVE  /\ ~abandoned' /\ (\A l \in loads' : Good(l)) /\ ir' = k + 1 /\ program' = program /\ code' = code
         /\ Mirrors(next, local_variable_map', local_variable_map_types', totalsizes', memory')
<1>1. PICK q : q = code[k]
  OBVIOUS
<1>2. k <= Len(code) /\ ir' = k + 1 /\ program' = program /\ code' = code
  BY DEF EmitEnter, EmitStore, EmitLoad, EmitLoadFails, EmitSkip, Instruction, Emitted, lintVars, lowerVars
<1>3. Effect(run, q, next)
  BY <1>1, <1>2
<1>4. PICK map, types, size, mem : /\ map = local_variable_map /\ types = local_variable_map_types
                                   /\ size = totalsizes /\ mem = memory
  OBVIOUS
<1>5. Mirrors(run, map, types, size, mem)
  BY <1>4
<1>6. CASE q.op = "enter"
  <2>1. PICK f : f = q.at
    OBVIOUS
  <2>2. f \in DOMAIN program /\ program[f].k = "function" /\ next = Entered(f)
    BY <1>3, <1>6, <2>1 DEF Effect
  <2>3. EmitEnter
    BY <1>1, <1>6 DEF EmitStore, EmitLoad, EmitLoadFails, EmitSkip, Instruction
  <2>4. PICK params, slots : params = program[code[ir].at].params /\ slots = ParamSlots(params)
    OBVIOUS
  <2>5. PICK map2, types2, mem2 : /\ map2 = local_variable_map' /\ types2 = local_variable_map_types'
                                  /\ mem2 = memory'
    OBVIOUS
  <2>6. code[ir].at = f /\ params = program[f].params
    BY <1>1, <2>1, <2>4
  <2>7. /\ local_variable_map' = ParamMap(program[code[ir].at].params, ParamSlots(program[code[ir].at].params))
        /\ local_variable_map_types' = ParamTypes(program[code[ir].at].params, local_variable_map')
        /\ memory' = ParamMemory(code[ir].at, program[code[ir].at].params, ParamSlots(program[code[ir].at].params))
        /\ totalsizes' = 8 * Len(program[code[ir].at].params) /\ abandoned' = FALSE /\ loads' = loads
    BY <2>3 DEF EmitEnter, ParamMap, ParamSlots, ParamTypes, ParamMemory
  <2>8. map2 = ParamMap(params, slots) /\ types2 = ParamTypes(params, map2) /\ mem2 = ParamMemory(f, params, slots)
    BY <2>4, <2>5, <2>6, <2>7
  <2>9. Mirrors(Entered(f), map2, types2, 8 * Len(params), mem2)
    BY <2>2, <2>4, <2>6, <2>8, EnterMirrors
  <2> QED
    BY <1>2, <2>2, <2>4, <2>5, <2>7, <2>9
<1>7. CASE q.op = "op_store"
  <2>1. PICK x, d, type, slot : /\ x = q.name /\ d = Meaning(q.at, x) /\ type = q.type
                                /\ slot = IF x \in DOMAIN map THEN map[x] ELSE size + 8
    OBVIOUS
  <2>2. next = Stored(run, x, d, type) /\ StoredThrough(q.at, x) = d
    BY <1>3, <1>7, <2>1 DEF Effect, StoredThrough
  <2>3. EmitStore
    BY <1>1, <1>7 DEF EmitEnter, EmitLoad, EmitLoadFails, EmitSkip, Instruction
  <2>4. slot = Slot(x)
    BY <1>4, <2>1 DEF Slot
  <2>5. /\ local_variable_map' = Put(map, x, slot)
        /\ local_variable_map_types' = IF x \in DOMAIN map THEN types ELSE Put(types, x, type)
        /\ totalsizes' = IF x \in DOMAIN map THEN size ELSE size + 8
        /\ memory' = Put(mem, slot, d)
        /\ loads' = loads /\ abandoned' = abandoned
    BY <1>1, <1>4, <2>1, <2>2, <2>3, <2>4 DEF EmitStore
  <2>6. Mirrors(Stored(run, x, d, type), Put(map, x, slot),
                IF x \in DOMAIN map THEN types ELSE Put(types, x, type),
                IF x \in DOMAIN map THEN size ELSE size + 8, Put(mem, slot, d))
    BY <1>5, <2>1, StoreMirrors
  <2> QED
    BY <1>2, <2>2, <2>5, <2>6
<1>8. CASE q.op = "op_load"
  <2>1. PICK x, l : x = q.name /\ l = [at |-> q.at, name |-> x, type |-> types[x], from |-> mem[map[x]]]
    OBVIOUS
  <2>2. next = run /\ x \in DOMAIN run.means /\ run.means[x] = Meaning(q.at, x) /\ run.types[x] = run.means[x].type
    BY <1>3, <1>8, <2>1 DEF Effect
  <2>3. x \in DOMAIN map /\ mem[map[x]] = run.means[x] /\ types[x] = run.types[x]
    BY <1>5, <2>2 DEF Mirrors
  <2>4. EmitLoad
    BY <1>1, <1>4, <1>8, <2>1, <2>3 DEF EmitEnter, EmitStore, EmitLoadFails, EmitSkip, Instruction
  <2>5. /\ loads' = loads \cup {l} /\ abandoned' = abandoned
        /\ UNCHANGED <<local_variable_map, local_variable_map_types, totalsizes, memory>>
    BY <1>1, <1>4, <2>1, <2>4 DEF EmitLoad
  <2>6. Good(l)
    <3>1. l.at = q.at /\ l.name = x /\ l.type = types[x] /\ l.from = mem[map[x]]
      BY <2>1
    <3> QED
      BY <2>2, <2>3, <3>1 DEF Good
  <2> QED
    BY <1>2, <1>4, <1>5, <2>2, <2>5, <2>6
<1> QED
  BY <1>3, <1>6, <1>7, <1>8 DEF Effect

\* What was lowered is begun.
LEMMA EmitBegins ==
  ASSUME ReadInv, LowerDone, Clean
  PROVE  /\ ~abandoned' /\ (\A l \in loads' : Good(l)) /\ ir' \in Nat \ {0} /\ code' = code
         /\ Len(code) \in Nat
         /\ \E runs : /\ \A k \in 1..Len(code) : Effect(runs[k - 1], code[k], runs[k])
                      /\ Mirrors(runs[ir' - 1], local_variable_map', local_variable_map_types', totalsizes', memory')
<1>1. PICK e : e = <<>>
  OBVIOUS
<1>2. /\ ir' = 1 /\ local_variable_map' = e /\ local_variable_map_types' = e /\ totalsizes' = 0 /\ memory' = e
      /\ loads' = {} /\ abandoned' = FALSE /\ code' = code /\ pass = "lower"
  BY <1>1 DEF ReadInv, Untouched, LowerDone, emitVars, lowerVars
<1>3. PICK run : Comes(Fresh, code, run)
  BY <1>2 DEF ReadInv, CodeInv
<1>4. PICK runs : runs[0] = Fresh /\ \A k \in 1..Len(code) : Effect(runs[k - 1], code[k], runs[k])
  BY <1>3 DEF Comes, Leads
<1>5. Mirrors(runs[0], e, e, 0, e)
  <2>1. runs[0].means = e /\ runs[0].types = e
    BY <1>1, <1>4 DEF Fresh
  <2>2. DOMAIN e = {}
    BY <1>1
  <2> QED
    BY <2>1, <2>2 DEF Mirrors
<1>6. Len(code) \in Nat
  BY <1>3, LenProperties DEF Comes
<1> QED
  BY <1>2, <1>4, <1>5, <1>6

\* Nothing that is done breaks this.
LEMMA ReadNext == ReadInv /\ [Next]_vars => ReadInv'
<1>1. ASSUME ReadInv, [Next]_vars
      PROVE  /\ CodeInv' /\ program' = program /\ program \in Program /\ Clean' = Clean /\ (\A l : Good(l)' = Good(l))
             /\ Scalars' = Scalars /\ Resolved' = Resolved
  <2>1. program' = program
    BY <1>1 DEF Next, vars, LowerGlobal, LowerFunction, LowerDeclaration, LowerAssignment, LowerExpression,
       LowerConditional, LowerPlainBlock, LowerFor, LowerForAssign, LowerEnd, LowerDone, Lower, Emit, lintVars,
       EmitEnter, EmitStore, EmitLoad, EmitLoadFails, EmitSkip, Instruction, Emitted,
       LintNext, CollectFunctions, LintUnheeded, LintGlobal, LintFunction, LintDeclaration, LintArray,
       LintAssignment, LintExpression, LintConditional, LintPlainBlock, LintFor, LintForAssign, LintSwitch, LintCase, LintEnd,
       LintDone, Lint, Go
  <2>2. \A l : Good(l)' = Good(l)
    <3>1. Declarations' = Declarations
      BY <2>1, SameProgram
    <3>2. \A o : Close(o)' = Close(o)
      BY <2>1 DEF Close
    <3>3. \A i, x : Visible(i, x)' = Visible(i, x)
      BY <3>1, <3>2 DEF Visible
    <3>4. \A i, x : Meaning(i, x)' = Meaning(i, x)
      BY <3>3 DEF Meaning
    <3> QED
      BY <3>4 DEF Good
  <2>3. CodeInv' /\ program \in Program
    BY <1>1, CodeNext DEF ReadInv, CodeInv, LowerInv, SoundInv, ScopesInv
  <2> QED
    BY <2>1, <2>2, <2>3, SameCode, SameFrames, SameFaults DEF Resolved
<1>2. ASSUME ReadInv, Next
      PROVE  ReadInv'
  <2>0. /\ CodeInv' /\ program' = program /\ program \in Program /\ Clean' = Clean /\ (\A l : Good(l)' = Good(l))
        /\ Scalars' = Scalars /\ Resolved' = Resolved
    BY <1>1, <1>2
  <2>1. CASE LowerDone
    <3>1. pass = "lower" /\ pass' = "emit" /\ Scalars
      BY <2>1 DEF LowerDone
    <3>2. Resolved
      BY <1>2, <3>1 DEF ReadInv, CodeInv, LowerInv, SoundInv, Resolved
    <3>3. ASSUME Clean
          PROVE  /\ ~abandoned' /\ (\A l \in loads' : Good(l)') /\ ir' \in Nat \ {0} /\ Len(code') \in Nat
                 /\ (\E runs : /\ \A k \in 1..Len(code) : Effect(runs[k - 1], code[k], runs[k])
                               /\ Mirrors(runs[ir - 1], local_variable_map, local_variable_map_types,
                                          totalsizes, memory))'
      <4>1. PICK now, map, types, size, mem : /\ now = ir' /\ map = local_variable_map'
                                              /\ types = local_variable_map_types'
                                              /\ size = totalsizes' /\ mem = memory'
        OBVIOUS
      <4>2. /\ ~abandoned' /\ (\A l \in loads' : Good(l)) /\ now \in Nat \ {0} /\ code' = code
            /\ Len(code) \in Nat
            /\ \E runs : /\ \A k \in 1..Len(code) : Effect(runs[k - 1], code[k], runs[k])
                         /\ Mirrors(runs[now - 1], map, types, size, mem)
        BY <1>2, <2>1, <3>3, <4>1, EmitBegins
      <4>3. PICK runs : /\ \A k \in 1..Len(code) : Effect(runs[k - 1], code[k], runs[k])
                        /\ Mirrors(runs[now - 1], map, types, size, mem)
        BY <4>2
      <4>4. (\A k \in 1..Len(code) : Effect(runs[k - 1], code[k], runs[k]))'
        BY <2>0, <4>2, <4>3, SameCode
      <4>5. Mirrors(runs[ir - 1], local_variable_map, local_variable_map_types, totalsizes, memory)'
        BY <4>1, <4>3 DEF Mirrors
      <4> QED
        BY <2>0, <4>1, <4>2, <4>4, <4>5
    <3> QED
      BY <2>0, <3>1, <3>2, <3>3 DEF ReadInv
  <2>2. CASE EmitEnter \/ EmitStore \/ EmitLoad \/ EmitLoadFails \/ EmitSkip
    <3>1. pass = "emit" /\ pass' = "emit"
      BY <2>2 DEF EmitEnter, EmitStore, EmitLoad, EmitLoadFails, EmitSkip, Instruction, Emitted, lintVars
    <3>2. ASSUME Clean
          PROVE  /\ ~abandoned' /\ (\A l \in loads' : Good(l)') /\ ir' \in Nat \ {0} /\ Len(code') \in Nat
                 /\ (\E runs : /\ \A k \in 1..Len(code) : Effect(runs[k - 1], code[k], runs[k])
                               /\ Mirrors(runs[ir - 1], local_variable_map, local_variable_map_types,
                                          totalsizes, memory))'
      <4>1. PICK runs : /\ \A k \in 1..Len(code) : Effect(runs[k - 1], code[k], runs[k])
                        /\ Mirrors(runs[ir - 1], local_variable_map, local_variable_map_types, totalsizes, memory)
        BY <1>2, <3>1, <3>2 DEF ReadInv
      <4>2. PICK n, k, run, next : n = Len(code) /\ k = ir /\ run = runs[k - 1] /\ next = runs[k]
        OBVIOUS
      <4>3. ~abandoned /\ (\A l \in loads : Good(l)) /\ ir \in Nat \ {0} /\ n \in Nat
        BY <1>2, <3>1, <3>2, <4>2 DEF ReadInv
      <4>4. k <= Len(code) => Effect(run, code[k], next)
        <5>1. SUFFICES ASSUME k <= n PROVE Effect(run, code[k], next)
          BY <4>2
        <5>2. k \in 1..n
          BY <4>2, <4>3, <5>1
        <5> QED
          BY <4>1, <4>2, <5>2
      <4>5. Mirrors(run, local_variable_map, local_variable_map_types, totalsizes, memory)
        BY <4>1, <4>2
      <4>6. /\ ~abandoned' /\ (\A l \in loads' : Good(l)) /\ ir' = k + 1 /\ code' = code
            /\ Mirrors(next, local_variable_map', local_variable_map_types', totalsizes', memory')
        BY <2>0, <2>2, <3>1, <4>2, <4>3, <4>4, <4>5, EmitStep
      <4>7. (\A j \in 1..Len(code) : Effect(runs[j - 1], code[j], runs[j]))'
        BY <2>0, <4>1, <4>6, SameCode
      <4>8. Mirrors(runs[ir - 1], local_variable_map, local_variable_map_types, totalsizes, memory)'
        <5>1. ir' - 1 = k /\ ir' \in Nat \ {0}
          BY <4>2, <4>3, <4>6
        <5> QED
          BY <4>2, <4>6, <5>1 DEF Mirrors
      <4>9. ir' \in Nat \ {0} /\ Len(code') \in Nat
        BY <4>2, <4>3, <4>6
      <4> QED
        BY <2>0, <4>6, <4>7, <4>8, <4>9
    <3> QED
      BY <1>2, <2>0, <3>1, <3>2 DEF ReadInv
  <2>3. CASE ~LowerDone /\ ~(EmitEnter \/ EmitStore \/ EmitLoad \/ EmitLoadFails \/ EmitSkip)
    <3>1. UNCHANGED emitVars /\ pass \in {"collect", "lint", "lower"} /\ pass' # "emit"
      BY <1>2, <2>3 DEF Next, LowerGlobal, LowerFunction, LowerDeclaration, LowerAssignment, LowerExpression,
         LowerConditional, LowerPlainBlock, LowerFor, LowerForAssign, LowerEnd, Lower, Emit,
         LintNext, CollectFunctions, LintUnheeded, LintGlobal, LintFunction, LintDeclaration, LintArray,
         LintAssignment, LintExpression, LintConditional, LintPlainBlock, LintFor, LintForAssign, LintSwitch, LintCase, LintEnd,
         LintDone, Lint, Go
    <3>2. Untouched'
      BY <1>2, <3>1 DEF ReadInv, Untouched, emitVars
    <3> QED
      BY <2>0, <3>1, <3>2 DEF ReadInv
  <2> QED
    BY <2>1, <2>2, <2>3
<1>3. ASSUME ReadInv, UNCHANGED vars
      PROVE  ReadInv'
  <2>0. /\ CodeInv' /\ program' = program /\ Clean' = Clean /\ (\A l : Good(l)' = Good(l))
        /\ Scalars' = Scalars /\ Resolved' = Resolved
    BY <1>1, <1>3
  <2>1. /\ pass' = pass /\ code' = code /\ ir' = ir /\ local_variable_map' = local_variable_map
        /\ local_variable_map_types' = local_variable_map_types /\ totalsizes' = totalsizes
        /\ memory' = memory /\ loads' = loads /\ abandoned' = abandoned
    BY <1>3 DEF vars, lintVars, lowerVars, emitVars
  <2>2. ASSUME pass = "emit", Clean
        PROVE  (\E runs : /\ \A k \in 1..Len(code) : Effect(runs[k - 1], code[k], runs[k])
                          /\ Mirrors(runs[ir - 1], local_variable_map, local_variable_map_types,
                                     totalsizes, memory))'
    <3>1. PICK runs : /\ \A k \in 1..Len(code) : Effect(runs[k - 1], code[k], runs[k])
                      /\ Mirrors(runs[ir - 1], local_variable_map, local_variable_map_types, totalsizes, memory)
      BY <1>3, <2>2 DEF ReadInv
    <3>2. (\A k \in 1..Len(code) : Effect(runs[k - 1], code[k], runs[k]))'
      BY <2>0, <2>1, <3>1, SameCode
    <3>3. Mirrors(runs[ir - 1], local_variable_map, local_variable_map_types, totalsizes, memory)'
      BY <2>1, <3>1 DEF Mirrors
    <3> QED
      BY <3>2, <3>3
  <2>3. Untouched' = Untouched
    BY <2>1 DEF Untouched
  <2> QED
    BY <1>3, <2>0, <2>1, <2>2, <2>3 DEF ReadInv
<1> QED
  BY <1>2, <1>3

\* A load finds what was stored last through the declaration its name means, with the
\* type declared there, and every function is emitted whole, where loops count in
\* integers and every variable is given a value before it is used.
THEOREM LoadsReadTheirOwn == Spec => []ReadsItsOwn
<1>1. Init => ReadInv
  BY ScopesInit DEF Init, LintInit, SoundInv, LowerInv, CodeInv, ReadInv, Untouched
<1>2. ReadInv => ReadsItsOwn
  BY DEF ReadInv, ReadsItsOwn, Clean, Good
<1> QED
  BY <1>1, <1>2, ReadNext, PTL DEF Spec
===============================================================================
