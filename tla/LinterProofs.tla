----------------------------- MODULE LinterProofs -----------------------------
(***************************************************************************)
(* Proofs about the linter, for every program: its stack of scopes is the  *)
(* lexical one, and what it accepts has none of the faults it looks for.   *)
(*                                                                         *)
(* The scopes on the stack are those of the constructs that are open where *)
(* the walk stands, outermost first.  A scope is known by its rank: the    *)
(* head of the construct at o has rank 2 o, its block 2 o + 1, and the     *)
(* scope of the globals 1, so that a scope inside another ranks higher.    *)
(***************************************************************************)
EXTENDS VariableSlots, SequenceFacts

Rank(scope) == 2 * scope[1] + IF scope[2] = "block" THEN 1 ELSE 0

\* The constructs that are open at statement i, and the scopes they have.
OpenAt(i) == {o \in 1..i - 1 : Opens(o) /\ i <= Close(o)}
RanksAt(i) ==
  {1} \cup {2 * o + 1 : o \in {o \in OpenAt(i) : program[o].k # "switch"}}
      \cup {2 * o : o \in {o \in OpenAt(i) : program[o].k \in {"for", "forassign", "function"}}}

\* The declarations in front of statement i in the scope of a rank; they make it up.
Met(r, i) == {d \in Declarations : d.at < i /\ Rank(d.scope) = r}
IsScope(scope, r, i) ==
  DOMAIN scope = {d.name : d \in Met(r, i)} /\ \A d \in Met(r, i) : scope[d.name] = d.type

\* The stack has the scopes of these ranks, outermost first.
Stacked(scopes, ranks, i) ==
  /\ ranks \in Seq(Nat) /\ \A s, t \in 1..Len(ranks) : s < t => ranks[s] < ranks[t]
  /\ scopes \in Seq(Range(scopes)) /\ Len(scopes) = Len(ranks)
  /\ \A s \in 1..Len(ranks) : IsScope(scopes[s], ranks[s], i)

\* It has those that are open at statement i.
Lexical(scopes, i) ==
  \E ranks \in Seq(Nat) : Stacked(scopes, ranks, i) /\ Range(ranks) = RanksAt(i)

\* A scope has one declaration of a name.
DeclaredOnce(i) ==
  \A d, e \in Declarations :
    d.at < i /\ e.at < i /\ d.name = e.name /\ Rank(d.scope) = Rank(e.scope) => d = e

ScopesInv ==
  /\ program \in Program
  /\ pass \in {"collect", "lint", "lower", "emit", "done"}
  /\ pass = "collect" => scope_stack = <<>> /\ at = 1 /\ errors = {} /\ const_variables = {}
  /\ pass = "lint" =>
       /\ at \in 1..Len(program) + 1
       /\ Accepted => DeclaredOnce(at) /\ Lexical(scope_stack, at)

\* The functions that can be called, as the last declaration of each has it, and
\* the builtin, unless the program has a function of that name.
KnownRight ==
  /\ DOMAIN known = {program[i].name : i \in {j \in DOMAIN program : program[j].k = "function"}} \cup {"alloc"}
  /\ \A f \in DOMAIN known : Functions(f) = {} => ~known[f].variadic /\ known[f].min = 1
  /\ \A f \in DOMAIN known : Functions(f) # {} =>
       \E i \in Functions(f) : LET params == program[i].params IN
         IF params # <<>> /\ Last(params).name = "__varargs"
         THEN known[f].variadic /\ known[f].min = Len(params) - 1
         ELSE ~known[f].variadic /\ known[f].min = Len(params)

\* The constants in front of statement i are known by name.
ConstantsIn(i, names) == \A d \in Declarations : d.at < i /\ Constant(d) => d.name \in names

\* Statement i has none of the faults.
NodesSound(i, expr) ==
  \A j \in DOMAIN expr : LET x == expr[j].name IN
    /\ expr[j].n = "var" => Visible(i, x) # {} \/ Functions(x) # {} \/ x = "alloc"
    /\ expr[j].n \in {"member", "index"} => Visible(i, x) # {}
    /\ expr[j].n = "call" => ~Unmet(expr[j])

\* The name its step assigns to is one there is, if only that of a function.
StepSound(i) ==
  LET x == program[i].step.name IN Visible(i, x) # {} \/ Functions(x) # {} \/ x = "alloc"

Sound(i) ==
  /\ program[i].k # "global" => \A expr \in Expressions(program[i]) : NodesSound(i, expr)
  /\ program[i].k = "assign" =>
       Visible(i, program[i].name) # {} /\ ~Constant(Meaning(i, program[i].name))
  /\ program[i].k \in {"for", "forassign"} => StepSound(i)
  /\ \A d \in Declarations : d.at = i => ~(Constant(d) /\ ~d.stored /\ program[i].k # "struct")

SoundInv ==
  /\ ScopesInv
  /\ pass # "collect" => KnownRight
  /\ pass = "lint" =>
       /\ ConstantsIn(at, const_variables)
       /\ Accepted => \A i \in 1..at - 1 : Sound(i)
  /\ pass \in {"lower", "emit"} => ~Faulty /\ \A i \in DOMAIN program : Sound(i)

-------------------------------------------------------------------------------
(* Blocks nest. *)

\* A program's statements are numbered from 1.
LEMMA ProgramFacts ==
  ASSUME NEW p \in Program
  PROVE  Len(p) \in Nat /\ DOMAIN p = 1..Len(p)
BY TreeAssumption

\* The statements up to i of some kinds.
UpTo(p, kinds, i) == {j \in 1..i : p[j].k \in kinds}

\* Statement i is one more of them or is not.
LEMMA CountStep ==
  ASSUME NEW p, NEW i \in Nat \ {0}, NEW kinds
  PROVE  /\ Cardinality(UpTo(p, kinds, i)) \in Nat /\ Cardinality(UpTo(p, kinds, i - 1)) \in Nat
         /\ Cardinality(UpTo(p, kinds, i)) =
              Cardinality(UpTo(p, kinds, i - 1)) + IF p[i].k \in kinds THEN 1 ELSE 0
<1>0. PICK new, old : new = UpTo(p, kinds, i) /\ old = UpTo(p, kinds, i - 1)
  OBVIOUS
<1>1. IsFiniteSet(new) /\ IsFiniteSet(old)
  <2>1. IsFiniteSet(1..i) /\ IsFiniteSet(1..(i - 1))
    BY FS_Interval
  <2> QED
    BY <1>0, <2>1, FS_Subset DEF UpTo
<1>2. Cardinality(new) \in Nat /\ Cardinality(old) \in Nat
  BY <1>1, FS_CardinalityType
<1>3. CASE p[i].k \in kinds
  <2>1. new = old \cup {i} /\ i \notin old
    BY <1>0, <1>3 DEF UpTo
  <2> QED
    BY <1>0, <1>1, <1>2, <1>3, <2>1, FS_AddElement
<1>4. CASE p[i].k \notin kinds
  <2>1. new = old
    <3>1. \A j \in 1..i : j = i \/ j \in 1..(i - 1)
      OBVIOUS
    <3> QED
      BY <1>0, <1>4, <3>1 DEF UpTo
  <2>2. Cardinality(new) = Cardinality(old)
    BY <2>1
  <2>3. (IF p[i].k \in kinds THEN 1 ELSE 0) = 0
    BY <1>4
  <2>4. Cardinality(old) + 0 = Cardinality(old)
    BY <1>2
  <2> QED
    BY <1>0, <1>2, <2>2, <2>3, <2>4
<1> QED
  BY <1>0, <1>2, <1>3, <1>4

\* Behind an opening statement one more construct is open, behind an end one less.
LEMMA DepthStep ==
  ASSUME NEW p \in Program, NEW i \in DOMAIN p
  PROVE  /\ Depth(p, i) \in Nat /\ Depth(p, i - 1) \in Int
         /\ p[i].k \in Openers => Depth(p, i) = Depth(p, i - 1) + 1
         /\ p[i].k = "end" => Depth(p, i) = Depth(p, i - 1) - 1
         /\ p[i].k \notin Openers \cup {"end"} => Depth(p, i) = Depth(p, i - 1)
<1>1. i \in Nat \ {0}
  BY ProgramFacts
<1>2. PICK o0, o1, e0, e1 :
        /\ o0 = UpTo(p, Openers, i - 1) /\ o1 = UpTo(p, Openers, i)
        /\ e0 = UpTo(p, {"end"}, i - 1) /\ e1 = UpTo(p, {"end"}, i)
  OBVIOUS
<1>3. /\ Cardinality(o1) \in Nat /\ Cardinality(o0) \in Nat
      /\ Cardinality(o1) = Cardinality(o0) + IF p[i].k \in Openers THEN 1 ELSE 0
  BY <1>1, <1>2, CountStep
<1>4. /\ Cardinality(e1) \in Nat /\ Cardinality(e0) \in Nat
      /\ Cardinality(e1) = Cardinality(e0) + IF p[i].k \in {"end"} THEN 1 ELSE 0
  BY <1>1, <1>2, CountStep
<1>5. /\ Depth(p, i) = Cardinality(o1) - Cardinality(e1)
      /\ Depth(p, i - 1) = Cardinality(o0) - Cardinality(e0)
  <2>1. /\ e1 = {j \in 1..i : p[j].k = "end"} /\ e0 = {j \in 1..(i - 1) : p[j].k = "end"}
        /\ o1 = {j \in 1..i : p[j].k \in Openers} /\ o0 = {j \in 1..(i - 1) : p[j].k \in Openers}
    BY <1>2 DEF UpTo
  <2> QED
    BY <2>1 DEF Depth
<1>9. "end" \notin Openers
  BY DEF Openers
<1>10. Depth(p, i) >= 0
  BY TreeAssumption
<1> QED
  BY <1>3, <1>4, <1>5, <1>9, <1>10

\* In front of a program nothing is open,
LEMMA DepthZero ==
  ASSUME NEW p \in Program
  PROVE  Depth(p, 0) = 0
<1>1. {j \in 1..0 : p[j].k \in Openers} = {} /\ {j \in 1..0 : p[j].k = "end"} = {}
  OBVIOUS
<1> QED
  BY <1>1, FS_EmptySet DEF Depth

\* and nowhere is it less than nothing.
LEMMA DepthType ==
  ASSUME NEW p \in Program, NEW i \in 0..Len(p)
  PROVE  Depth(p, i) \in Nat
<1>1. CASE i = 0
  BY <1>1, DepthZero
<1>2. CASE i # 0
  BY <1>2, DepthStep, ProgramFacts
<1> QED
  BY <1>1, <1>2

\* Between a place of less depth and one of level l at least stands the statement
\* that opened the construct of level l around the latter.
LEMMA OpenerOf ==
  ASSUME NEW p \in Program, NEW a \in 0..Len(p), NEW b \in 0..Len(p), a < b,
         NEW l \in Nat, Depth(p, a) < l, l <= Depth(p, b)
  PROVE  \E o \in a + 1..b : /\ p[o].k \in Openers /\ Depth(p, o) = l /\ Depth(p, o - 1) = l - 1
                             /\ \A j \in o..b : Depth(p, j) >= l
<1> DEFINE T == {o \in a + 1..b : \A j \in o..b : Depth(p, j) >= l}
<1>1. Len(p) \in Nat /\ DOMAIN p = 1..Len(p) /\ a \in Nat /\ b \in Nat
  BY ProgramFacts
<1>2. b \in T
  <2>1. b \in a + 1..b /\ \A j \in b..b : j = b
    BY <1>1
  <2> QED
    BY <2>1
<1>3. T \in SUBSET Nat /\ T # {}
  <2>1. \A o \in T : o \in Nat
    BY <1>1
  <2> HIDE DEF T
  <2> QED
    BY <2>1, <1>2
<1>4. PICK o \in T : \A m \in T : o <= m
  BY <1>3, LeastNatural
<1>5. o \in a + 1..b /\ o \in 1..Len(p) /\ o - 1 \in 0..Len(p) /\ \A j \in o..b : Depth(p, j) >= l
  BY <1>1, <1>4
<1>6. Depth(p, o - 1) < l
  <2>1. CASE o - 1 = a
    BY <2>1
  <2>2. CASE o - 1 # a
    <3>1. o - 1 \notin T /\ o - 1 \in a + 1..b
      BY <1>1, <1>4, <1>5, <2>2
    <3>2. PICK j \in (o - 1)..b : ~(Depth(p, j) >= l)
      BY <3>1
    <3>3. j \notin o..b
      BY <1>5, <3>2
    <3>4. j = o - 1
      BY <3>3, <1>5, <1>1
    <3> QED
      BY <3>2, <3>4, <1>5, DepthType
  <2> QED
    BY <2>1, <2>2
<1>7. Depth(p, o) >= l /\ Depth(p, o) \in Nat /\ Depth(p, o - 1) \in Nat
  BY <1>5, <1>1, DepthType
<1>8. p[o].k \in Openers /\ Depth(p, o) = Depth(p, o - 1) + 1
  <2>1. /\ p[o].k \in Openers => Depth(p, o) = Depth(p, o - 1) + 1
        /\ p[o].k = "end" => Depth(p, o) = Depth(p, o - 1) - 1
        /\ p[o].k \notin Openers \cup {"end"} => Depth(p, o) = Depth(p, o - 1)
    BY <1>1, <1>5, DepthStep
  <2> QED
    BY <2>1, <1>6, <1>7
<1> QED
  BY <1>5, <1>6, <1>7, <1>8

\* A construct ends behind itself, at an "end", and is open up to there.
LEMMA CloseFacts ==
  ASSUME program \in Program, NEW o \in DOMAIN program, Opens(o)
  PROVE  /\ Close(o) \in o + 1..Len(program) /\ Ends(Close(o))
         /\ Depth(program, Close(o)) = Depth(program, o) - 1
         /\ \A j \in o..Close(o) - 1 : Depth(program, j) >= Depth(program, o)
<1>1. PICK p \in Program : p = program
  OBVIOUS
<1>2. Len(p) \in Nat /\ DOMAIN p = 1..Len(p) /\ o \in 1..Len(p) /\ p[o].k \in Openers
  BY <1>1, ProgramFacts DEF Opens
<1> DEFINE T == {c \in o..Len(p) : Depth(p, c) < Depth(p, o)}
<1>3. Depth(p, o) = Depth(p, o - 1) + 1 /\ Depth(p, o - 1) \in Nat /\ Depth(p, o) \in Nat
  BY <1>2, DepthStep, DepthType
<1>4. Len(p) \in T
  <2>1. Depth(p, Len(p)) = 0
    BY TreeAssumption
  <2> QED
    BY <1>2, <1>3, <2>1
<1>5. T \in SUBSET Nat /\ T # {} /\ T \subseteq o..Len(p) /\ \A c \in T : Depth(p, c) < Depth(p, o)
  <2>1. \A c \in T : c \in Nat
    BY <1>2
  <2>2. T \subseteq o..Len(p) /\ \A c \in T : Depth(p, c) < Depth(p, o)
    OBVIOUS
  <2>3. T # {}
    BY <1>4
  <2> HIDE DEF T
  <2> QED
    BY <2>1, <2>2, <2>3
<1>6. Close(o) = Min(T)
  BY <1>1 DEF Close
<1>7. \A c \in o..Len(p) : c \notin T => Depth(p, c) >= Depth(p, o)
  BY <1>2, DepthType
<1> HIDE DEF T
<1>8. PICK c \in T : c = Close(o) /\ \A m \in T : c <= m
  BY <1>5, <1>6, MinFacts
<1>9. c \in o..Len(p) /\ Depth(p, c) < Depth(p, o) /\ c # o
  BY <1>5, <1>8, <1>3
<1>10. \A j \in o..(c - 1) : Depth(p, j) >= Depth(p, o)
  <2>1. \A j \in o..(c - 1) : j \notin T /\ j \in o..Len(p)
    BY <1>2, <1>8, <1>9
  <2> QED
    BY <2>1, <1>7
<1>11. c \in o + 1..Len(p) /\ c \in 1..Len(p) /\ c - 1 \in o..(c - 1) /\ c - 1 \in 0..Len(p)
  BY <1>2, <1>9
<1>12. Depth(p, c - 1) >= Depth(p, o) /\ Depth(p, c) \in Nat /\ Depth(p, c - 1) \in Nat
  BY <1>10, <1>11, <1>2, DepthType
<1>13. /\ p[c].k \in Openers => Depth(p, c) = Depth(p, c - 1) + 1
       /\ p[c].k = "end" => Depth(p, c) = Depth(p, c - 1) - 1
       /\ p[c].k \notin Openers \cup {"end"} => Depth(p, c) = Depth(p, c - 1)
  BY <1>2, <1>11, DepthStep
<1>14. p[c].k = "end" /\ Depth(p, c) = Depth(p, o) - 1
  BY <1>3, <1>9, <1>12, <1>13
<1> QED
  BY <1>1, <1>8, <1>10, <1>11, <1>14 DEF Ends

\* A construct that opens inside of another ends before it.
LEMMA Nested ==
  ASSUME program \in Program, NEW o \in DOMAIN program, Opens(o),
         NEW q \in DOMAIN program, Opens(q), o < q, q < Close(o)
  PROVE  Close(q) < Close(o)
<1>1. PICK p \in Program : p = program
  OBVIOUS
<1>2. Len(p) \in Nat /\ DOMAIN p = 1..Len(p) /\ o \in 1..Len(p) /\ q \in 1..Len(p)
  BY <1>1, ProgramFacts
<1>3. PICK c, e \in 1..Len(p) :
        /\ c = Close(o) /\ c \in o + 1..Len(p)
        /\ Depth(p, c) = Depth(p, o) - 1 /\ \A j \in o..c - 1 : Depth(p, j) >= Depth(p, o)
        /\ e = Close(q) /\ e \in q + 1..Len(p)
        /\ Depth(p, e) = Depth(p, q) - 1 /\ \A j \in q..e - 1 : Depth(p, j) >= Depth(p, q)
  BY <1>1, <1>2, CloseFacts
<1>4. Depth(p, q) = Depth(p, q - 1) + 1 /\ Depth(p, q - 1) >= Depth(p, o)
  <2>1. q - 1 \in o..c - 1
    BY <1>2, <1>3
  <2>2. p[q].k \in Openers
    BY <1>1 DEF Opens
  <2> QED
    BY <1>2, <1>3, <2>1, <2>2, DepthStep
<1>5. /\ Depth(p, o) \in Nat /\ Depth(p, q) \in Nat /\ Depth(p, q - 1) \in Nat
      /\ Depth(p, c) \in Nat /\ Depth(p, e) \in Nat
  <2>1. q - 1 \in 0..Len(p) /\ o \in 0..Len(p) /\ q \in 0..Len(p) /\ c \in 0..Len(p) /\ e \in 0..Len(p)
    BY <1>2
  <2> QED
    BY <2>1, DepthType
<1>6. c \notin q..(e - 1)
  BY <1>3, <1>4, <1>5
<1>7. c # e
  BY <1>3, <1>4, <1>5
<1> QED
  BY <1>2, <1>3, <1>6, <1>7

\* An end closes the construct that was opened last of those that are open.
LEMMA ClosedFacts ==
  ASSUME program \in Program, NEW i \in DOMAIN program, Ends(i)
  PROVE  \E o \in OpenAt(i) : /\ Close(o) = i
                              /\ \A q \in OpenAt(i) : q <= o /\ (q # o => i < Close(q))
<1>1. PICK p \in Program : p = program
  OBVIOUS
<1>2. Len(p) \in Nat /\ DOMAIN p = 1..Len(p) /\ i \in 1..Len(p) /\ p[i].k = "end"
  BY <1>1, ProgramFacts DEF Ends
<1>3. /\ Depth(p, i) = Depth(p, i - 1) - 1 /\ Depth(p, i) \in Nat /\ Depth(p, i - 1) \in Nat
      /\ Depth(p, 0) = 0
  BY <1>2, DepthStep, DepthType, DepthZero
<1>4. i - 1 \in 0..Len(p) /\ 0 \in 0..Len(p) /\ 0 < i - 1
  <2>1. i - 1 # 0
    BY <1>3
  <2> QED
    BY <1>2, <2>1
<1>5. PICK l \in Nat : l = Depth(p, i - 1) /\ Depth(p, 0) < l
  BY <1>3
<1>6. PICK o \in 0 + 1..(i - 1) : /\ p[o].k \in Openers /\ Depth(p, o) = l /\ Depth(p, o - 1) = l - 1
                                  /\ \A j \in o..(i - 1) : Depth(p, j) >= l
  BY <1>4, <1>5, OpenerOf
<1>7. o \in 1..(i - 1) /\ o \in DOMAIN program /\ Opens(o) /\ o < i /\ o \in Nat /\ i \in Nat
  BY <1>1, <1>2, <1>6 DEF Opens
<1>8. PICK c \in 1..Len(p) : /\ c = Close(o) /\ c \in o + 1..Len(p) /\ Depth(p, c) = l - 1
                             /\ \A j \in o..(c - 1) : Depth(p, j) >= l
  BY <1>1, <1>2, <1>6, <1>7, CloseFacts
<1>9. c = i
  <2>1. c \notin o..(i - 1)
    BY <1>6, <1>8
  <2>2. i \notin o..(c - 1)
    BY <1>3, <1>5, <1>8
  <2> QED
    BY <2>1, <2>2, <1>2, <1>7, <1>8
<1>10. Close(o) = i
  BY <1>8, <1>9
<1>11. i <= Close(o)
  BY <1>10, <1>7
<1>12. o \in OpenAt(i)
  BY <1>7, <1>11 DEF OpenAt
<1>13. ASSUME NEW q \in OpenAt(i), q # o
       PROVE  q <= o /\ i < Close(q)
  <2>1. q \in 1..(i - 1) /\ Opens(q) /\ i <= Close(q)
    BY DEF OpenAt
  <2>2. q \in DOMAIN program /\ q \in Nat
    BY <1>1, <1>2, <2>1
  <2>3. PICK e \in Nat : e = Close(q)
    BY <1>1, <1>2, <2>1, <2>2, CloseFacts
  <2>4. ~(o < q)
    <3>1. SUFFICES ASSUME o < q PROVE FALSE
      OBVIOUS
    <3>2. q < Close(o)
      BY <2>1, <1>10, <1>7
    <3>3. Close(q) < Close(o)
      BY <1>7, <2>1, <2>2, <3>1, <3>2, Nested
    <3> QED
      BY <2>1, <2>3, <3>3, <1>10, <1>7
  <2>5. q < o
    BY <2>2, <2>4, <1>7, <1>13
  <2>6. Close(o) < Close(q)
    <3>1. o < Close(q)
      BY <2>1, <2>3, <1>7
    <3> QED
      BY <1>7, <2>1, <2>2, <2>5, <3>1, Nested
  <2> QED
    BY <2>2, <2>5, <2>6, <1>10, <1>7
<1>14. o <= o
  BY <1>7
<1> QED
  BY <1>10, <1>12, <1>13, <1>14
-------------------------------------------------------------------------------
(* What is open from statement to statement. *)

\* The same of the program that is compiled.
LEMMA ProgramDomain ==
  ASSUME program \in Program
  PROVE  Len(program) \in Nat /\ DOMAIN program = 1..Len(program)
<1>1. PICK p \in Program : p = program
  OBVIOUS
<1> QED
  BY <1>1, ProgramFacts

\* Behind an opening statement its construct is open too, behind an end the one it
\* closes is not.
LEMMA OpenStep ==
  ASSUME program \in Program, NEW i \in DOMAIN program
  PROVE  /\ ~Opens(i) /\ ~Ends(i) => OpenAt(i + 1) = OpenAt(i)
         /\ Opens(i) => OpenAt(i + 1) = OpenAt(i) \cup {i}
         /\ \A o \in OpenAt(i) : Ends(i) /\ Close(o) = i /\ (\A q \in OpenAt(i) : q # o => i < Close(q)) =>
              OpenAt(i + 1) = OpenAt(i) \ {o}
<1>1. PICK n \in Nat : n = Len(program) /\ DOMAIN program = 1..n /\ i \in 1..n /\ i \in Nat
  <2>1. Len(program) \in Nat /\ DOMAIN program = 1..Len(program)
    BY ProgramDomain
  <2>2. i \in 1..Len(program) /\ i \in Nat
    BY <2>1
  <2> QED
    BY <2>1, <2>2
<1>2. \A o \in 1..n : Opens(o) => Close(o) \in o + 1..n /\ Ends(Close(o))
  BY <1>1, CloseFacts
<1>3. Opens(i) => ~Ends(i)
  BY DEF Opens, Ends, Openers
<1>4. \A o : o \in OpenAt(i) <=> o \in 1..(i - 1) /\ Opens(o) /\ i <= Close(o)
  BY DEF OpenAt
<1>5. \A o : o \in OpenAt(i + 1) <=> o \in 1..i /\ Opens(o) /\ i + 1 <= Close(o)
  <2>1. PICK m \in Nat : m = i + 1 /\ m - 1 = i
    BY <1>1
  <2>2. \A o : o \in OpenAt(m) <=> o \in 1..(m - 1) /\ Opens(o) /\ m <= Close(o)
    BY DEF OpenAt
  <2> QED
    BY <2>1, <2>2
<1>6. ASSUME NEW o \in 1..(i - 1), Opens(o), Close(o) # i PROVE i <= Close(o) <=> i + 1 <= Close(o)
  <2>1. Close(o) \in Nat
    BY <1>1, <1>2, <1>6
  <2> QED
    BY <2>1, <1>1, <1>6
<1>7. ASSUME ~Ends(i) PROVE \A o \in 1..(i - 1) : Opens(o) => (o \in OpenAt(i + 1) <=> o \in OpenAt(i))
  <2>1. \A o \in 1..(i - 1) : Opens(o) => Close(o) # i
    BY <1>1, <1>2, <1>7
  <2> QED
    BY <1>1, <1>4, <1>5, <1>6, <2>1
<1>8. \A o : o \in 1..i <=> o \in 1..(i - 1) \/ o = i
  BY <1>1
<1>9. ASSUME ~Opens(i), ~Ends(i) PROVE OpenAt(i + 1) = OpenAt(i)
  BY <1>4, <1>5, <1>7, <1>8, <1>9
<1>10. ASSUME Opens(i) PROVE OpenAt(i + 1) = OpenAt(i) \cup {i}
  <2>1. i \in OpenAt(i + 1)
    <3>1. i + 1 <= Close(i)
      BY <1>1, <1>2, <1>10
    <3> QED
      BY <1>5, <1>8, <1>10, <3>1
  <2> QED
    BY <1>3, <1>4, <1>5, <1>7, <1>8, <1>10, <2>1
<1>11. ASSUME NEW o \in OpenAt(i), Ends(i), Close(o) = i, \A q \in OpenAt(i) : q # o => i < Close(q)
       PROVE  OpenAt(i + 1) = OpenAt(i) \ {o}
  <2>1. ~Opens(i)
    BY <1>3, <1>11
  <2>2. o \notin OpenAt(i + 1)
    BY <1>1, <1>5, <1>11
  <2>3. \A q \in OpenAt(i) : q # o => q \in OpenAt(i + 1)
    <3> TAKE q \in OpenAt(i)
    <3> HAVE q # o
    <3>1. q \in 1..(i - 1) /\ Opens(q) /\ Close(q) # i
      BY <1>4, <1>11, <1>1
    <3> QED
      BY <3>1, <1>4, <1>5, <1>6, <1>8
  <2>4. \A q \in OpenAt(i + 1) : q \in OpenAt(i)
    <3> TAKE q \in OpenAt(i + 1)
    <3>1. q \in 1..(i - 1) /\ Opens(q) /\ i + 1 <= Close(q)
      BY <1>5, <1>8, <2>1
    <3>2. Close(q) \in Nat
      BY <3>1, <1>1, <1>2
    <3> QED
      BY <1>1, <1>4, <3>1, <3>2
  <2> QED
    BY <2>2, <2>3, <2>4
<1> QED
  BY <1>9, <1>10, <1>11

\* The ranks on the stack are below those of the next statement.
LEMMA RanksBelow ==
  ASSUME program \in Program, NEW i \in 1..Len(program) + 1, NEW r \in RanksAt(i)
  PROVE  r \in Nat /\ r < 2 * i
<1>1. i \in Nat /\ i >= 1
  BY ProgramDomain
<1>2. \A o \in OpenAt(i) : o \in Nat /\ o <= i - 1
  BY <1>1 DEF OpenAt
<1>3. r = 1 \/ \E o \in OpenAt(i) : r = 2 * o \/ r = 2 * o + 1
  BY DEF RanksAt
<1> QED
  BY <1>1, <1>2, <1>3

\* The construct around a statement is the one opened last of those that are open.
LEMMA AroundFacts ==
  ASSUME program \in Program, NEW i \in DOMAIN program, ~Ends(i)
  PROVE  /\ Around(i) \in {0} \cup OpenAt(i) /\ Around(i) \in 0..i - 1
         /\ \A q \in OpenAt(i) : q <= Around(i)
<1>1. PICK n \in Nat : n = i /\ n - 1 \in Nat /\ Len(program) \in Nat /\ DOMAIN program = 1..Len(program)
  <2>1. Len(program) \in Nat /\ DOMAIN program = 1..Len(program)
    BY ProgramDomain
  <2>2. i \in Nat /\ i - 1 \in Nat
    BY <2>1
  <2> QED
    BY <2>1, <2>2
<1>2. PICK T : T = {0} \cup OpenAt(i)
  OBVIOUS
<1>3. T \subseteq 0..(n - 1) /\ T # {}
  <2>1. \A q \in OpenAt(i) : q \in 1..(n - 1)
    BY <1>1 DEF OpenAt
  <2>2. \A q \in T : q \in 0..(n - 1)
    BY <1>1, <1>2, <2>1
  <2> QED
    BY <1>2, <2>2
<1>4. Around(i) = Max(T)
  <2>1. \A o \in 1..(i - 1) : Opens(o) => o \in DOMAIN program /\ Close(o) # i /\ Close(o) \in Nat
    <3> TAKE o \in 1..(i - 1)
    <3> HAVE Opens(o)
    <3>1. o \in DOMAIN program
      BY <1>1
    <3>2. Ends(Close(o)) /\ Close(o) \in o + 1..Len(program)
      BY <3>1, CloseFacts
    <3> QED
      BY <1>1, <3>1, <3>2
  <2>2. \A o \in 1..(i - 1) : Opens(o) => (i <= Close(o) <=> i < Close(o))
    BY <1>1, <2>1
  <2>3. {o \in 1..(i - 1) : Opens(o) /\ i < Close(o)} = OpenAt(i)
    BY <2>2 DEF OpenAt
  <2> QED
    BY <1>2, <2>3 DEF Around
<1>5. Max(T) \in T /\ \A q \in T : q <= Max(T)
  BY <1>1, <1>3, MaxFacts
<1> QED
  BY <1>1, <1>2, <1>3, <1>4, <1>5

\* Only cases stand in a switch.
LEMMA NotInSwitch ==
  ASSUME program \in Program, NEW i \in DOMAIN program, program[i].k \notin {"case", "default", "end"},
         Around(i) # 0
  PROVE  program[Around(i)].k # "switch"
<1>1. PICK p \in Program : p = program
  OBVIOUS
<1>2. Len(p) \in Nat /\ DOMAIN p = 1..Len(p) /\ i \in 1..Len(p) /\ i \in Nat
  <2>1. Len(p) \in Nat /\ DOMAIN p = 1..Len(p)
    BY ProgramFacts
  <2> QED
    BY <1>1, <2>1
<1>3. ~Ends(i)
  BY DEF Ends
<1>4. PICK o \in 1..(i - 1) : o = Around(i) /\ o \in OpenAt(i)
  BY <1>3, <1>2, AroundFacts DEF OpenAt
<1>5. Opens(o) /\ i <= Close(o) /\ o \in DOMAIN program /\ o \in Nat /\ o < i
  BY <1>1, <1>2, <1>4 DEF OpenAt
<1>6. PICK c \in 1..Len(p) : c = Close(o) /\ \A j \in o..(c - 1) : Depth(p, j) >= Depth(p, o)
  BY <1>1, <1>2, <1>5, CloseFacts
<1>7. \A j \in o..(i - 1) : Depth(p, j) >= Depth(p, o)
  <2>1. \A j \in o..(i - 1) : j \in o..(c - 1)
    BY <1>2, <1>5, <1>6
  <2> QED
    BY <1>6, <2>1
<1>8. PICK l \in Nat : l = Depth(p, o)
  BY <1>2, <1>4, DepthType
<1>9. Depth(p, i - 1) \in Nat
  <2>1. i - 1 \in 0..Len(p)
    BY <1>2
  <2> QED
    BY <2>1, DepthType
<1>10. ~(Depth(p, i - 1) > l)
  <2>1. SUFFICES ASSUME Depth(p, i - 1) > l PROVE FALSE
    OBVIOUS
  <2>2. o \in 0..Len(p) /\ i - 1 \in 0..Len(p) /\ o < i - 1
    <3>1. o # i - 1
      BY <1>8, <2>1
    <3> QED
      BY <1>2, <1>5, <3>1
  <2>3. PICK m \in Nat : m = l + 1 /\ Depth(p, o) < m /\ m <= Depth(p, i - 1)
    BY <1>8, <1>9, <2>1
  <2>4. PICK q \in o + 1..(i - 1) : /\ p[q].k \in Openers /\ Depth(p, q) = m
                                    /\ \A j \in q..(i - 1) : Depth(p, j) >= m
    BY <2>2, <2>3, OpenerOf
  <2>5. q \in 1..(i - 1) /\ q \in DOMAIN program /\ Opens(q) /\ q > o
    BY <1>1, <1>2, <1>5, <2>4 DEF Opens
  <2>6. PICK e \in 1..Len(p) : e = Close(q) /\ e \in q + 1..Len(p) /\ Depth(p, e) = m - 1
    BY <1>1, <1>2, <2>4, <2>5, CloseFacts
  <2>7. e \notin q..(i - 1)
    BY <2>3, <2>4, <2>6
  <2>8. i <= e
    BY <1>2, <2>5, <2>6, <2>7
  <2>9. q \in OpenAt(i)
    BY <2>5, <2>6, <2>8 DEF OpenAt
  <2>10. q <= o
    BY <1>3, <1>4, <2>9, AroundFacts
  <2> QED
    BY <1>2, <2>5, <2>10
<1>11. Depth(p, i - 1) = Depth(p, o)
  <2>1. i - 1 \in o..(i - 1)
    BY <1>2, <1>5
  <2>2. Depth(p, i - 1) >= l
    BY <1>7, <1>8, <2>1
  <2> QED
    BY <1>8, <1>9, <1>10, <2>2
<1>12. DirectlyIn(p, o, i)
  BY <1>5, <1>7, <1>11 DEF DirectlyIn
<1>13. p[o].k # "switch"
  BY <1>1, <1>5, <1>12, TreeAssumption
<1> QED
  BY <1>1, <1>4, <1>13

-------------------------------------------------------------------------------
(* Where declarations stand. *)

Block == {"global", "declare", "struct", "array"}
Heads == {"for", "forassign", "function"}

\* Which statements declare what, and in which scope.
LEMMA DeclarationKinds ==
  ASSUME NEW d \in Declarations
  PROVE  /\ d.at \in DOMAIN program
         /\ \/ program[d.at].k \in Block /\ d.scope = <<Around(d.at), "block">>
            \/ program[d.at].k \in Heads /\ d.scope = <<d.at, "head">>
         /\ program[d.at].k \in Block =>
              d.const = program[d.at].const /\ d.stored = (program[d.at].init # <<>>)
         /\ program[d.at].k # "forassign"
         /\ program[d.at].k \in Heads => d.const = FALSE
         /\ program[d.at].k # "function" =>
              /\ d.name = program[d.at].name /\ d.type = program[d.at].type
              /\ \A e \in Declarations : e.at = d.at => e = d
         /\ program[d.at].k = "function" =>
              \E p \in DOMAIN program[d.at].params :
                /\ d.name = program[d.at].params[p].name /\ d.type = program[d.at].params[p].type
                /\ d.place = p /\ \A e \in Declarations : e.at = d.at /\ e.place = p => e = d
<1> DEFINE InBlock(i) ==
      [at |-> i, name |-> program[i].name, type |-> program[i].type, const |-> program[i].const,
       stored |-> program[i].init # <<>>, scope |-> <<Around(i), "block">>, place |-> 0]
           Counter(i) ==
      [at |-> i, name |-> program[i].name, type |-> program[i].type, const |-> FALSE,
       stored |-> TRUE, scope |-> <<i, "head">>, place |-> 0]
           Parameter(i, p) ==
      [at |-> i, name |-> program[i].params[p].name, type |-> program[i].params[p].type,
       const |-> FALSE, stored |-> TRUE, scope |-> <<i, "head">>, place |-> p]
<1>1. \A e \in Declarations :
        \/ \E i \in DOMAIN program : program[i].k \in Block /\ e = InBlock(i)
        \/ \E i \in DOMAIN program : program[i].k = "for" /\ e = Counter(i)
        \/ \E i \in DOMAIN program : program[i].k = "function"
                                     /\ \E p \in DOMAIN program[i].params : e = Parameter(i, p)
  BY Zenon DEF Declarations, Block
<1>2. \A i : InBlock(i).at = i /\ InBlock(i).scope = <<Around(i), "block">>
             /\ InBlock(i).name = program[i].name /\ InBlock(i).type = program[i].type
             /\ InBlock(i).const = program[i].const /\ InBlock(i).stored = (program[i].init # <<>>)
  OBVIOUS
<1>3. \A i : Counter(i).at = i /\ Counter(i).scope = <<i, "head">>
             /\ Counter(i).name = program[i].name /\ Counter(i).type = program[i].type
             /\ Counter(i).const = FALSE
  OBVIOUS
<1>4. \A i, p : Parameter(i, p).at = i /\ Parameter(i, p).scope = <<i, "head">> /\ Parameter(i, p).place = p
                /\ Parameter(i, p).name = program[i].params[p].name
                /\ Parameter(i, p).type = program[i].params[p].type /\ Parameter(i, p).const = FALSE
  OBVIOUS
<1> HIDE DEF InBlock, Counter, Parameter
<1>5. /\ Block \cap Heads = {} /\ "for" \notin Block /\ "function" \notin Block /\ "forassign" \notin Block
      /\ "for" \in Heads /\ "function" \in Heads /\ "for" # "function" /\ "forassign" \notin {"for", "function"}
  BY DEF Block, Heads
<1>6. CASE \E i \in DOMAIN program : program[i].k \in Block /\ d = InBlock(i)
  <2>1. d = InBlock(d.at) /\ d.at \in DOMAIN program /\ program[d.at].k \in Block
    BY <1>2, <1>6
  <2>2. \A e \in Declarations : e.at = d.at => e = d
    BY <1>1, <1>2, <1>3, <1>4, <1>5, <2>1
  <2> QED
    BY <1>2, <1>5, <2>1, <2>2
<1>7. CASE \E i \in DOMAIN program : program[i].k = "for" /\ d = Counter(i)
  <2>1. d = Counter(d.at) /\ d.at \in DOMAIN program /\ program[d.at].k = "for"
    BY <1>3, <1>7
  <2>2. \A e \in Declarations : e.at = d.at => e = d
    BY <1>1, <1>2, <1>3, <1>4, <1>5, <2>1
  <2> QED
    BY <1>3, <1>5, <2>1, <2>2
<1>8. CASE \E i \in DOMAIN program : program[i].k = "function"
                                     /\ \E p \in DOMAIN program[i].params : d = Parameter(i, p)
  <2>1. PICK p \in DOMAIN program[d.at].params : d = Parameter(d.at, p)
    BY <1>4, <1>8
  <2>2. d.at \in DOMAIN program /\ program[d.at].k = "function"
    BY <1>4, <1>8
  <2>3. \A e \in Declarations : e.at = d.at /\ e.place = p => e = d
    BY <1>1, <1>2, <1>3, <1>4, <1>5, <2>1, <2>2
  <2> QED
    BY <1>4, <1>5, <2>1, <2>2, <2>3
<1> QED
  BY <1>1, <1>6, <1>7, <1>8

\* The rank of a declaration's scope: of those that are open in front of it, the
\* innermost, or its own head.
LEMMA RankOfDeclaration ==
  ASSUME program \in Program, NEW d \in Declarations
  PROVE  /\ d.at \in DOMAIN program /\ d.at \in Nat \ {0}
         /\ \/ /\ program[d.at].k \in Block /\ d.scope[1] = Around(d.at)
               /\ d.scope[1] \in 0..d.at - 1 /\ Rank(d.scope) = 2 * d.scope[1] + 1
               /\ d.scope[1] # 0 => d.scope[1] \in OpenAt(d.at) /\ program[d.scope[1]].k # "switch"
               /\ \A q \in OpenAt(d.at) : q <= d.scope[1]
            \/ /\ program[d.at].k \in Heads /\ d.scope[1] = d.at
               /\ Rank(d.scope) = 2 * d.at
<1>1. PICK i \in DOMAIN program : i = d.at
  BY DeclarationKinds
<1>2. i \in Nat \ {0}
  BY ProgramDomain
<1>3. CASE program[i].k \in Block /\ d.scope = <<Around(i), "block">>
  <2>1. program[i].k \notin {"case", "default", "end"} /\ ~Ends(i)
    BY <1>3 DEF Block, Ends
  <2>2. PICK o : o = Around(i)
    OBVIOUS
  <2>3. o \in {0} \cup OpenAt(i) /\ o \in 0..i - 1 /\ \A q \in OpenAt(i) : q <= o
    BY <2>1, <2>2, AroundFacts
  <2>4. o # 0 => program[o].k # "switch"
    BY <2>1, <2>2, NotInSwitch
  <2>5. d.scope = <<o, "block">>
    BY <1>3, <2>2
  <2>6. d.scope[1] = o /\ Rank(d.scope) = 2 * o + 1
    BY <2>5 DEF Rank
  <2> QED
    BY <1>1, <1>2, <1>3, <2>2, <2>3, <2>4, <2>6
<1>4. CASE program[i].k \in Heads /\ d.scope = <<i, "head">>
  <2>1. d.scope[1] = i /\ d.scope[2] = "head"
    BY <1>4
  <2>2. Rank(d.scope) = 2 * i + 0
    BY <2>1 DEF Rank
  <2>3. 2 * i + 0 = 2 * i
    BY <1>2
  <2> QED
    BY <1>1, <1>2, <1>4, <2>1, <2>2, <2>3
<1> QED
  BY <1>1, <1>3, <1>4, DeclarationKinds

\* A rank is that of one scope.
LEMMA SameRank ==
  ASSUME program \in Program, NEW d \in Declarations, NEW e \in Declarations, Rank(d.scope) = Rank(e.scope)
  PROVE  d.scope = e.scope
<1>1. ASSUME NEW c \in Declarations
      PROVE  \E a \in Nat : \/ c.scope = <<a, "block">> /\ Rank(c.scope) = 2 * a + 1
                            \/ c.scope = <<a, "head">> /\ Rank(c.scope) = 2 * a
  <2>1. c.at \in DOMAIN program /\ c.at \in Nat
    BY RankOfDeclaration, ProgramDomain
  <2>2. CASE program[c.at].k \in Block /\ c.scope = <<Around(c.at), "block">>
    <3>1. PICK a : a = Around(c.at)
      OBVIOUS
    <3>2. c.scope[1] = a
      BY <2>2, <3>1
    <3>3. ~(program[c.at].k \in Heads)
      BY <2>2 DEF Block, Heads
    <3>4. a \in 0..c.at - 1 /\ Rank(c.scope) = 2 * a + 1
      BY <3>2, <3>3, RankOfDeclaration
    <3> QED
      BY <2>1, <2>2, <3>1, <3>4
  <2>3. CASE program[c.at].k \in Heads /\ c.scope = <<c.at, "head">>
    <3>1. ~(program[c.at].k \in Block)
      BY <2>3 DEF Block, Heads
    <3>2. Rank(c.scope) = 2 * c.at
      BY <3>1, RankOfDeclaration
    <3> QED
      BY <2>1, <2>3, <3>2
  <2> QED
    BY <2>2, <2>3, DeclarationKinds
<1>2. PICK a \in Nat : \/ d.scope = <<a, "block">> /\ Rank(d.scope) = 2 * a + 1
                       \/ d.scope = <<a, "head">> /\ Rank(d.scope) = 2 * a
  BY <1>1
<1>3. PICK b \in Nat : \/ e.scope = <<b, "block">> /\ Rank(e.scope) = 2 * b + 1
                       \/ e.scope = <<b, "head">> /\ Rank(e.scope) = 2 * b
  BY <1>1
<1>4. 2 * a + 1 # 2 * b /\ 2 * b + 1 # 2 * a /\ (2 * a = 2 * b => a = b) /\ (2 * a + 1 = 2 * b + 1 => a = b)
  BY <1>2, <1>3
<1> QED
  BY <1>2, <1>3, <1>4

\* What is visible of what has been declared is what is in the scopes that are open.
LEMMA VisibleIsOpen ==
  ASSUME program \in Program, NEW i \in 1..Len(program) + 1, NEW d \in Declarations, d.at < i
  PROVE  (d.scope[1] = 0 \/ i <= Close(d.scope[1])) <=> Rank(d.scope) \in RanksAt(i)
<1>1. PICK o : o = d.scope[1]
  OBVIOUS
<1>2. PICK j \in Nat \ {0} : j = d.at /\ j \in DOMAIN program /\ j < i
  BY RankOfDeclaration
<1>3. i \in Nat /\ \A q \in OpenAt(i) : q \in Nat \ {0}
  <2>1. i \in Nat
    BY ProgramDomain
  <2> QED
    BY <2>1 DEF OpenAt
<1>4. CASE /\ program[j].k \in Block /\ o \in 0..j - 1 /\ Rank(d.scope) = 2 * o + 1
           /\ o # 0 => o \in OpenAt(j) /\ program[o].k # "switch"
  <2>1. o # 0 => o \in 1..(i - 1) /\ Opens(o)
    BY <1>2, <1>3, <1>4 DEF OpenAt
  <2>2. ASSUME o # 0, i <= Close(o) PROVE 2 * o + 1 \in RanksAt(i)
    <3>1. o \in OpenAt(i)
      BY <2>1, <2>2 DEF OpenAt
    <3> QED
      BY <3>1, <2>2, <1>4 DEF RanksAt
  <2>3. o = 0 => 2 * o + 1 \in RanksAt(i)
    BY DEF RanksAt
  <2>4. ASSUME 2 * o + 1 \in RanksAt(i), o # 0 PROVE i <= Close(o)
    <3>1. \E q \in OpenAt(i) : 2 * o + 1 = 2 * q + 1 \/ 2 * o + 1 = 2 * q
      <4>1. 2 * o + 1 # 1
        BY <1>2, <1>4, <2>4
      <4> QED
        BY <2>4, <4>1 DEF RanksAt
    <3>2. o \in OpenAt(i)
      BY <1>2, <1>3, <1>4, <3>1
    <3> QED
      BY <3>2 DEF OpenAt
  <2> QED
    BY <1>1, <1>4, <2>2, <2>3, <2>4
<1>5. CASE program[j].k \in Heads /\ o = j /\ Rank(d.scope) = 2 * j
  <2>1. j \in 1..(i - 1) /\ Opens(j)
    BY <1>2, <1>3, <1>5 DEF Opens, Openers, Heads
  <2>2. ASSUME i <= Close(j) PROVE 2 * j \in RanksAt(i)
    <3>1. j \in OpenAt(i)
      BY <2>1, <2>2 DEF OpenAt
    <3> QED
      BY <3>1, <1>5 DEF RanksAt, Heads
  <2>3. ASSUME 2 * j \in RanksAt(i) PROVE i <= Close(j)
    <3>1. \E q \in OpenAt(i) : 2 * j = 2 * q + 1 \/ 2 * j = 2 * q
      <4>1. 2 * j # 1
        BY <1>2
      <4> QED
        BY <2>3, <4>1 DEF RanksAt
    <3>2. j \in OpenAt(i)
      BY <1>2, <1>3, <3>1
    <3> QED
      BY <3>2 DEF OpenAt
  <2> QED
    BY <1>1, <1>2, <1>5, <2>2, <2>3
<1> QED
  BY <1>1, <1>2, <1>4, <1>5, RankOfDeclaration

\* What opens and ends makes of the ranks.
LEMMA RanksStep ==
  ASSUME program \in Program, NEW i \in DOMAIN program
  PROVE  /\ ~Opens(i) /\ ~Ends(i) => RanksAt(i + 1) = RanksAt(i)
         /\ program[i].k = "switch" => RanksAt(i + 1) = RanksAt(i)
         /\ program[i].k \in Heads => RanksAt(i + 1) = RanksAt(i) \cup {2 * i} \cup {2 * i + 1}
         /\ program[i].k \in Openers \ (Heads \cup {"switch"}) =>
              RanksAt(i + 1) = RanksAt(i) \cup {2 * i + 1}
<1>1. PICK m : m = i + 1
  OBVIOUS
<1>2. /\ ~Opens(i) /\ ~Ends(i) => OpenAt(m) = OpenAt(i)
      /\ Opens(i) => OpenAt(m) = OpenAt(i) \cup {i}
  BY <1>1, OpenStep
<1>3. Heads \subseteq Openers /\ "switch" \in Openers /\ "switch" \notin Heads
  BY DEF Heads, Openers
<1>4. \A j, r : r \in RanksAt(j) <=>
                  \/ r = 1
                  \/ \E o \in OpenAt(j) : program[o].k # "switch" /\ r = 2 * o + 1
                  \/ \E o \in OpenAt(j) : program[o].k \in Heads /\ r = 2 * o
  BY DEF RanksAt, Heads
<1>5. ASSUME ~Opens(i), ~Ends(i) PROVE RanksAt(m) = RanksAt(i)
  BY <1>2, <1>5 DEF RanksAt
<1>6. ASSUME Opens(i)
      PROVE  \A r : r \in RanksAt(m) <=> \/ r \in RanksAt(i)
                                         \/ program[i].k # "switch" /\ r = 2 * i + 1
                                         \/ program[i].k \in Heads /\ r = 2 * i
  <2>1. OpenAt(m) = OpenAt(i) \cup {i}
    BY <1>2, <1>6
  <2> QED
    BY <1>4, <2>1
<1>7. ASSUME program[i].k = "switch" PROVE RanksAt(m) = RanksAt(i)
  BY <1>3, <1>6, <1>7 DEF Opens
<1>8. ASSUME program[i].k \in Heads PROVE RanksAt(m) = RanksAt(i) \cup {2 * i} \cup {2 * i + 1}
  BY <1>3, <1>6, <1>8 DEF Opens
<1>9. ASSUME program[i].k \in Openers \ (Heads \cup {"switch"})
      PROVE  RanksAt(m) = RanksAt(i) \cup {2 * i + 1}
  BY <1>3, <1>6, <1>9 DEF Opens
<1> QED
  BY <1>1, <1>5, <1>7, <1>8, <1>9

\* An end takes the highest ranks away: as many as the construct has scopes.
LEMMA RanksEnd ==
  ASSUME program \in Program, NEW i \in DOMAIN program, Ends(i), at = i
  PROVE  /\ Closed \in 1..i - 1 /\ Opens(Closed)
         /\ program[Closed].k = "switch" => RanksAt(i + 1) = RanksAt(i)
         /\ program[Closed].k \in Heads =>
              /\ 2 * Closed \in RanksAt(i) /\ 2 * Closed + 1 \in RanksAt(i)
              /\ RanksAt(i + 1) = {r \in RanksAt(i) : r < 2 * Closed}
              /\ \A r \in RanksAt(i) : r < 2 * Closed \/ r = 2 * Closed \/ r = 2 * Closed + 1
         /\ program[Closed].k \notin Heads \cup {"switch"} =>
              /\ 2 * Closed + 1 \in RanksAt(i)
              /\ RanksAt(i + 1) = {r \in RanksAt(i) : r < 2 * Closed + 1}
              /\ \A r \in RanksAt(i) : r < 2 * Closed + 1 \/ r = 2 * Closed + 1
<1>1. PICK m : m = i + 1
  OBVIOUS
<1>2. PICK o \in OpenAt(i) : /\ Close(o) = i
                             /\ \A q \in OpenAt(i) : q <= o /\ (q # o => i < Close(q))
  BY ClosedFacts
<1>3. i \in Nat \ {0} /\ DOMAIN program = 1..Len(program) /\ Len(program) \in Nat
  BY ProgramDomain
<1>4. /\ o \in 1..(i - 1) /\ Opens(o) /\ o \in Nat \ {0} /\ o \in DOMAIN program
      /\ \A q \in OpenAt(i) : q \in Nat \ {0}
  BY <1>3 DEF OpenAt
<1>5. Closed = o
  <2>1. ASSUME NEW q \in DOMAIN program, Opens(q), Close(q) = i PROVE q = o
    <3>1. q \in 1..(i - 1)
      <4>1. Close(q) \in q + 1..Len(program)
        BY <2>1, CloseFacts
      <4> QED
        BY <1>3, <2>1, <4>1
    <3>2. i <= Close(q) /\ ~(i < Close(q))
      BY <1>3, <2>1
    <3>3. q \in OpenAt(i)
      BY <2>1, <3>1, <3>2 DEF OpenAt
    <3> QED
      BY <1>2, <3>2, <3>3
  <2> QED
    BY <1>2, <1>4, <2>1 DEF Closed
<1>6. OpenAt(m) = OpenAt(i) \ {o}
  BY <1>1, <1>2, OpenStep
<1>7. \A j, r : r \in RanksAt(j) <=>
                  \/ r = 1
                  \/ \E q \in OpenAt(j) : program[q].k # "switch" /\ r = 2 * q + 1
                  \/ \E q \in OpenAt(j) : program[q].k \in Heads /\ r = 2 * q
  BY DEF RanksAt, Heads
<1>8. \A q \in OpenAt(i) : q = o \/ (q \in Nat /\ 2 * q < 2 * o /\ 2 * q + 1 < 2 * o)
  BY <1>2, <1>4
<1>9. \A r \in RanksAt(m) : r \in RanksAt(i) /\ r < 2 * o /\ r < 2 * o + 1
  <2> TAKE r \in RanksAt(m)
  <2>1. \/ r = 1
        \/ \E q \in OpenAt(i) : q # o /\ program[q].k # "switch" /\ r = 2 * q + 1
        \/ \E q \in OpenAt(i) : q # o /\ program[q].k \in Heads /\ r = 2 * q
    BY <1>6, <1>7
  <2>2. r \in RanksAt(i)
    BY <1>7, <2>1
  <2> QED
    BY <2>1, <2>2, <1>8, <1>4
<1>10. \A r \in RanksAt(i) : \/ r \in RanksAt(m)
                             \/ program[o].k # "switch" /\ r = 2 * o + 1
                             \/ program[o].k \in Heads /\ r = 2 * o
  BY <1>6, <1>7
<1>11. "switch" \notin Heads
  BY DEF Heads
<1>12. program[o].k # "switch" => 2 * o + 1 \in RanksAt(i)
  BY <1>7
<1>13. program[o].k \in Heads => 2 * o \in RanksAt(i)
  BY <1>7
<1>14. ~(2 * o < 2 * o) /\ ~(2 * o + 1 < 2 * o) /\ ~(2 * o + 1 < 2 * o + 1)
  BY <1>4
<1>15. ASSUME program[o].k = "switch" PROVE RanksAt(m) = RanksAt(i)
  BY <1>9, <1>10, <1>11, <1>15
<1>16. ASSUME program[o].k \in Heads
       PROVE  /\ 2 * o \in RanksAt(i) /\ 2 * o + 1 \in RanksAt(i)
              /\ RanksAt(m) = {r \in RanksAt(i) : r < 2 * o}
              /\ \A r \in RanksAt(i) : r < 2 * o \/ r = 2 * o \/ r = 2 * o + 1
  BY <1>9, <1>10, <1>11, <1>12, <1>13, <1>14, <1>16
<1>17. ASSUME program[o].k \notin Heads \cup {"switch"}
       PROVE  /\ 2 * o + 1 \in RanksAt(i)
              /\ RanksAt(m) = {r \in RanksAt(i) : r < 2 * o + 1}
              /\ \A r \in RanksAt(i) : r < 2 * o + 1 \/ r = 2 * o + 1
  BY <1>9, <1>10, <1>12, <1>14, <1>17
<1> QED
  BY <1>1, <1>4, <1>5, <1>15, <1>16, <1>17

\* What has been met of a scope behind the next statement, and in a scope that
\* has just been opened.
LEMMA MetNext ==
  ASSUME program \in Program, NEW i \in DOMAIN program, NEW r
  PROVE  Met(r, i + 1) = Met(r, i) \cup {d \in Declarations : d.at = i /\ Rank(d.scope) = r}
<1>1. i \in Nat
  BY ProgramDomain
<1>2. \A d \in Declarations : d.at \in Nat
  BY RankOfDeclaration
<1>3. \A d \in Declarations : d.at < i + 1 <=> d.at < i \/ d.at = i
  BY <1>1, <1>2
<1> QED
  BY <1>3 DEF Met

\* A scope has met nothing where it begins.
LEMMA MetNone ==
  ASSUME program \in Program, NEW i \in DOMAIN program
  PROVE  Met(2 * i, i) = {} /\ Met(2 * i + 1, i + 1) = {} /\ Met(1, 1) = {}
<1>1. i \in Nat \ {0}
  BY ProgramDomain
<1>2. ASSUME NEW d \in Declarations
      PROVE  /\ d.at < i => Rank(d.scope) # 2 * i
             /\ d.at < i + 1 => Rank(d.scope) # 2 * i + 1
             /\ ~(d.at < 1)
  <2>1. PICK j, o : j = d.at /\ o = d.scope[1]
    OBVIOUS
  <2>2. /\ j \in Nat \ {0}
        /\ \/ o \in 0..j - 1 /\ Rank(d.scope) = 2 * o + 1
           \/ Rank(d.scope) = 2 * j
    BY <2>1, RankOfDeclaration
  <2> QED
    BY <1>1, <2>1, <2>2
<1> QED
  BY <1>2 DEF Met

-------------------------------------------------------------------------------
(* The stack of scopes. *)

\* A sequence over any set is one over its own elements.
LEMMA OwnElements ==
  ASSUME NEW S, NEW s \in Seq(S)
  PROVE  s \in Seq(Range(s)) /\ DOMAIN s = 1..Len(s) /\ Len(s) \in Nat
<1>1. s \in [1..Len(s) -> S] /\ Len(s) \in Nat /\ DOMAIN s = 1..Len(s)
  BY LenProperties
<1>2. s \in [1..Len(s) -> Range(s)]
  BY <1>1 DEF Range
<1> QED
  BY <1>1, <1>2, FunctionIsSeq

\* A scope and its rank are pushed.
LEMMA StackedPush ==
  ASSUME NEW scopes, NEW ranks, NEW i, Stacked(scopes, ranks, i),
         NEW scope, NEW n \in Nat, \A r \in Range(ranks) : r < n, IsScope(scope, n, i)
  PROVE  /\ Stacked(Append(scopes, scope), Append(ranks, n), i)
         /\ Range(Append(ranks, n)) = Range(ranks) \cup {n}
         /\ Len(Append(ranks, n)) = Len(ranks) + 1 /\ Append(ranks, n)[Len(ranks) + 1] = n
         /\ Len(ranks) \in Nat
<1>1. ranks \in Seq(Nat) /\ scopes \in Seq(Range(scopes) \cup {scope}) /\ Len(scopes) = Len(ranks)
  BY DEF Stacked
<1>2. PICK a, b : a = Append(scopes, scope) /\ b = Append(ranks, n)
  OBVIOUS
<1>3. /\ a \in Seq(Range(scopes) \cup {scope}) /\ Len(a) = Len(scopes) + 1
      /\ (\A s \in 1..Len(scopes) : a[s] = scopes[s]) /\ a[Len(scopes) + 1] = scope
  BY <1>1, <1>2, AppendFacts
<1>4. /\ b \in Seq(Nat) /\ Len(b) = Len(ranks) + 1 /\ Len(ranks) \in Nat /\ DOMAIN ranks = 1..Len(ranks)
      /\ (\A s \in 1..Len(ranks) : b[s] = ranks[s]) /\ b[Len(ranks) + 1] = n
      /\ DOMAIN b = 1..Len(ranks) + 1
  BY <1>1, <1>2, AppendFacts
<1>5. \A s \in 1..Len(ranks) + 1 : s \in 1..Len(ranks) \/ s = Len(ranks) + 1
  BY <1>4
<1>6. \A s \in 1..Len(ranks) : ranks[s] \in Range(ranks)
  BY <1>4 DEF Range
<1>7. Range(b) = Range(ranks) \cup {n}
  <2>1. \A s \in 1..Len(ranks) : s \in 1..Len(ranks) + 1
    BY <1>4
  <2>2. Len(ranks) + 1 \in 1..Len(ranks) + 1
    BY <1>4
  <2> QED
    BY <1>4, <1>5, <2>1, <2>2 DEF Range
<1>8. a \in Seq(Range(a))
  BY <1>3, OwnElements
<1>9. ASSUME NEW s \in 1..Len(b), NEW t \in 1..Len(b), s < t PROVE b[s] < b[t]
  <2>1. s \in 1..Len(ranks)
    BY <1>4, <1>9
  <2>2. CASE t = Len(ranks) + 1
    BY <1>4, <1>6, <2>1, <2>2
  <2>3. CASE t \in 1..Len(ranks)
    BY <1>4, <1>9, <2>1, <2>3 DEF Stacked
  <2> QED
    BY <1>4, <1>5, <2>2, <2>3
<1>10. ASSUME NEW s \in 1..Len(b) PROVE IsScope(a[s], b[s], i)
  <2>1. CASE s = Len(ranks) + 1
    BY <1>1, <1>3, <1>4, <2>1
  <2>2. CASE s \in 1..Len(ranks)
    <3>1. IsScope(scopes[s], ranks[s], i)
      BY <2>2 DEF Stacked
    <3> QED
      BY <1>1, <1>3, <1>4, <2>2, <3>1
  <2> QED
    BY <1>4, <1>5, <2>1, <2>2
<1>11. Stacked(a, b, i)
  BY <1>1, <1>3, <1>4, <1>8, <1>9, <1>10 DEF Stacked
<1> QED
  BY <1>2, <1>4, <1>7, <1>11

\* All scopes but n are popped.
LEMMA StackedPrefix ==
  ASSUME NEW scopes, NEW ranks, NEW i, Stacked(scopes, ranks, i), NEW n \in 0..Len(ranks) - 1
  PROVE  /\ Stacked(SubSeq(scopes, 1, n), SubSeq(ranks, 1, n), i)
         /\ Range(SubSeq(ranks, 1, n)) = {r \in Range(ranks) : r < ranks[n + 1]}
         /\ Len(scopes) = Len(ranks)
<1>1. /\ ranks \in Seq(Nat) /\ scopes \in Seq(Range(scopes)) /\ Len(scopes) = Len(ranks)
      /\ Len(ranks) \in Nat /\ DOMAIN ranks = 1..Len(ranks) /\ n \in 0..Len(ranks) /\ n + 1 \in 1..Len(ranks)
  BY LenProperties DEF Stacked
<1>2. PICK a, b : a = SubSeq(scopes, 1, n) /\ b = SubSeq(ranks, 1, n)
  OBVIOUS
<1>3. a \in Seq(Range(scopes)) /\ Len(a) = n /\ \A s \in 1..n : a[s] = scopes[s]
  BY <1>1, <1>2, PrefixFacts
<1>4. b \in Seq(Nat) /\ Len(b) = n /\ \A s \in 1..n : b[s] = ranks[s]
  BY <1>1, <1>2, PrefixFacts
<1>5. DOMAIN b = 1..n /\ a \in Seq(Range(a))
  BY <1>3, <1>4, OwnElements, LenProperties
<1>6. \A s \in 1..Len(ranks) : ranks[s] \in Nat
  BY <1>1, ElementOfSeq
<1>7. \A s, t \in 1..Len(ranks) : s < t => ranks[s] < ranks[t]
  BY DEF Stacked
<1>8. \A s \in 1..Len(ranks) : s \in 1..n <=> ranks[s] < ranks[n + 1]
  <2> TAKE s \in 1..Len(ranks)
  <2>1. CASE s < n + 1
    BY <1>1, <1>7, <2>1
  <2>2. CASE s = n + 1
    BY <1>1, <1>6, <2>2
  <2>3. CASE n + 1 < s
    <3>1. ranks[n + 1] < ranks[s]
      BY <1>1, <1>7, <2>3
    <3> QED
      BY <1>1, <1>6, <2>3, <3>1
  <2> QED
    BY <1>1, <2>1, <2>2, <2>3
<1>9. Range(b) = {r \in Range(ranks) : r < ranks[n + 1]}
  <2>1. \A s \in 1..n : s \in 1..Len(ranks)
    BY <1>1
  <2> QED
    BY <1>1, <1>4, <1>5, <1>8, <2>1 DEF Range
<1>10. Stacked(a, b, i)
  <2>1. \A s \in 1..n : s \in 1..Len(ranks)
    BY <1>1
  <2>2. \A s \in 1..n : IsScope(scopes[s], ranks[s], i)
    BY <2>1 DEF Stacked
  <2> QED
    BY <1>1, <1>3, <1>4, <1>5, <1>7, <2>1, <2>2 DEF Stacked
<1> QED
  BY <1>1, <1>2, <1>9, <1>10

\* A statement that declares nothing in these scopes leaves them as they are.
LEMMA StackedNext ==
  ASSUME program \in Program, NEW scopes, NEW ranks, NEW i \in DOMAIN program, Stacked(scopes, ranks, i),
         \A d \in Declarations : d.at = i => Rank(d.scope) \notin Range(ranks)
  PROVE  Stacked(scopes, ranks, i + 1)
<1>1. DOMAIN ranks = 1..Len(ranks)
  BY LenProperties DEF Stacked
<1>2. ASSUME NEW s \in 1..Len(ranks) PROVE IsScope(scopes[s], ranks[s], i + 1)
  <2>1. PICK r : r = ranks[s] /\ r \in Range(ranks)
    BY <1>1 DEF Range
  <2>2. Met(r, i + 1) = Met(r, i)
    <3>1. {d \in Declarations : d.at = i /\ Rank(d.scope) = r} = {}
      BY <2>1
    <3> QED
      BY <3>1, MetNext
  <2>3. IsScope(scopes[s], r, i)
    BY <2>1 DEF Stacked
  <2> QED
    BY <2>1, <2>2, <2>3 DEF IsScope
<1> QED
  BY <1>2 DEF Stacked

\* A declaration enters the innermost scope.
LEMMA StackedDeclare ==
  ASSUME program \in Program, NEW scopes, NEW ranks, NEW i \in DOMAIN program, Stacked(scopes, ranks, i),
         ranks # <<>>, NEW d \in Declarations, d.at = i, \A e \in Declarations : e.at = i => e = d,
         Rank(d.scope) = ranks[Len(ranks)], d.name \notin DOMAIN Last(scopes)
  PROVE  Stacked(Declare(scopes, d.name, d.type), ranks, i + 1)
<1>1. /\ ranks \in Seq(Nat) /\ scopes \in Seq(Range(scopes)) /\ Len(scopes) = Len(ranks)
      /\ Len(ranks) \in Nat \ {0} /\ DOMAIN ranks = 1..Len(ranks) /\ DOMAIN scopes = 1..Len(ranks)
  BY LenProperties, EmptySeq DEF Stacked
<1>2. PICK n \in Nat : n = Len(ranks) /\ n \in 1..n
  <2>1. Len(ranks) \in Nat /\ Len(ranks) \in 1..Len(ranks)
    BY <1>1
  <2> QED
    BY <2>1
<1>3. PICK old, x, type : old = scopes[n] /\ x = d.name /\ type = d.type
  OBVIOUS
<1>4. PICK new : new = [y \in DOMAIN old \cup {x} |-> IF y = x THEN type ELSE old[y]]
  OBVIOUS
<1>5. PICK t : t = [scopes EXCEPT ![n] = new]
  OBVIOUS
<1>6. Declare(scopes, d.name, d.type) = t
  BY <1>1, <1>2, <1>3, <1>4, <1>5 DEF Declare
<1>7. /\ DOMAIN t = 1..n /\ t[n] = new /\ \A s \in 1..n : s # n => t[s] = scopes[s]
      /\ t \in [1..n -> Range(scopes) \cup {new}]
  BY <1>1, <1>2, <1>5 DEF Range
<1>8. t \in Seq(Range(t)) /\ Len(t) = n
  <2>1. t \in Seq(Range(scopes) \cup {new}) /\ Len(t) = n
    BY <1>2, <1>7, FunctionIsSeq
  <2> QED
    BY <2>1, OwnElements
<1>9. x \notin DOMAIN old
  BY <1>1, <1>2, <1>3 DEF Last
<1>10. DOMAIN new = DOMAIN old \cup {x} /\ new[x] = type /\ \A y \in DOMAIN old : new[y] = old[y]
  BY <1>4, <1>9
<1>11. ASSUME NEW s \in 1..n PROVE IsScope(t[s], ranks[s], i + 1)
  <2>1. PICK r : r = ranks[s]
    OBVIOUS
  <2>2. Met(r, i + 1) = Met(r, i) \cup {e \in Declarations : e.at = i /\ Rank(e.scope) = r}
    BY MetNext
  <2>3. IsScope(scopes[s], r, i)
    BY <1>2, <2>1 DEF Stacked
  <2>4. CASE s = n
    <3>1. Met(r, i + 1) = Met(r, i) \cup {d}
      BY <1>2, <2>1, <2>2, <2>4
    <3>2. IsScope(old, r, i)
      BY <1>3, <2>3, <2>4
    <3>3. \A e \in Met(r, i) : e.name \in DOMAIN old /\ old[e.name] = e.type
      BY <3>2 DEF IsScope
    <3>4. DOMAIN new = {e.name : e \in Met(r, i + 1)}
      BY <1>3, <1>10, <3>1, <3>2 DEF IsScope
    <3>5. \A e \in Met(r, i + 1) : new[e.name] = e.type
      BY <1>3, <1>10, <3>1, <3>3
    <3> QED
      BY <1>7, <2>1, <2>4, <3>4, <3>5 DEF IsScope
  <2>5. CASE s # n
    <3>1. r # Rank(d.scope)
      <4>1. \A a, b \in 1..Len(ranks) : a < b => ranks[a] < ranks[b]
        BY DEF Stacked
      <4>2. s < n /\ s \in 1..Len(ranks) /\ n \in 1..Len(ranks)
        BY <1>2, <2>5
      <4>3. ranks[s] < ranks[n] /\ ranks[s] \in Nat /\ ranks[n] \in Nat
        BY <1>1, <4>1, <4>2, ElementOfSeq
      <4> QED
        BY <1>2, <2>1, <4>3
    <3>2. Met(r, i + 1) = Met(r, i)
      BY <2>2, <3>1
    <3> QED
      BY <1>7, <2>1, <2>3, <2>5, <3>2 DEF IsScope
  <2> QED
    BY <2>4, <2>5
<1> QED
  BY <1>1, <1>2, <1>6, <1>8, <1>11 DEF Stacked

-------------------------------------------------------------------------------
(* What each statement does to the stack. *)

\* Every declaring statement has its declarations.
LEMMA DeclarationsAt ==
  ASSUME NEW i \in DOMAIN program
  PROVE  /\ program[i].k \in Block =>
              \E d \in Declarations : d.at = i /\ d.scope = <<Around(i), "block">>
         /\ program[i].k = "for" => \E d \in Declarations : d.at = i
         /\ program[i].k = "function" =>
              \A p \in DOMAIN program[i].params : \E d \in Declarations :
                /\ d.at = i /\ d.name = program[i].params[p].name /\ d.type = program[i].params[p].type
                /\ d.scope = <<i, "head">> /\ d.place = p
<1>1. ASSUME program[i].k \in Block
      PROVE  \E d \in Declarations : d.at = i /\ d.scope = <<Around(i), "block">>
  <2>1. PICK d : d = [at |-> i, name |-> program[i].name, type |-> program[i].type, const |-> program[i].const,
                      stored |-> program[i].init # <<>>, scope |-> <<Around(i), "block">>, place |-> 0]
    OBVIOUS
  <2>2. d \in Declarations
    BY <1>1, <2>1, Zenon DEF Declarations, Block
  <2>3. d.at = i /\ d.scope = <<Around(i), "block">>
    BY <2>1
  <2> QED
    BY <2>2, <2>3
<1>2. ASSUME program[i].k = "for" PROVE \E d \in Declarations : d.at = i
  <2>1. PICK d : d = [at |-> i, name |-> program[i].name, type |-> program[i].type, const |-> FALSE,
                      stored |-> TRUE, scope |-> <<i, "head">>, place |-> 0]
    OBVIOUS
  <2>2. d \in Declarations
    BY <1>2, <2>1, Zenon DEF Declarations
  <2>3. d.at = i
    BY <2>1
  <2> QED
    BY <2>2, <2>3
<1>3. ASSUME program[i].k = "function", NEW p \in DOMAIN program[i].params
      PROVE  \E d \in Declarations :
               /\ d.at = i /\ d.name = program[i].params[p].name /\ d.type = program[i].params[p].type
               /\ d.scope = <<i, "head">> /\ d.place = p
  <2>1. PICK d : d = [at |-> i, name |-> program[i].params[p].name, type |-> program[i].params[p].type,
                      const |-> FALSE, stored |-> TRUE, scope |-> <<i, "head">>, place |-> p]
    OBVIOUS
  <2>2. d \in Declarations
    <3>1. d \in {[at |-> i, name |-> program[i].params[q].name, type |-> program[i].params[q].type,
                  const |-> FALSE, stored |-> TRUE, scope |-> <<i, "head">>, place |-> q] :
                    q \in DOMAIN program[i].params}
      BY <1>3, <2>1
    <3>2. i \in {j \in DOMAIN program : program[j].k = "function"}
      BY <1>3
    <3> QED
      BY <3>1, <3>2, ZenonT(30) DEF Declarations
  <2>3. /\ d.at = i /\ d.name = program[i].params[p].name /\ d.type = program[i].params[p].type
        /\ d.scope = <<i, "head">> /\ d.place = p
    BY <2>1
  <2> QED
    BY <2>2, <2>3
<1> QED
  BY <1>1, <1>2, <1>3

\* Other statements declare nothing.
LEMMA NothingDeclared ==
  ASSUME program \in Program, NEW i \in DOMAIN program, program[i].k \notin (Block \cup Heads) \ {"forassign"}
  PROVE  /\ \A d \in Declarations : d.at # i
         /\ DeclaredOnce(i) => DeclaredOnce(i + 1)
<1>1. \A d \in Declarations : d.at # i
  BY DeclarationKinds
<1>2. i \in Nat /\ \A d \in Declarations : d.at \in Nat
  BY ProgramDomain, RankOfDeclaration
<1>3. \A d \in Declarations : d.at < i + 1 => d.at < i
  BY <1>1, <1>2
<1> QED
  BY <1>1, <1>3 DEF DeclaredOnce

\* A statement without a block, and a switch.
LEMMA LexicalPlain ==
  ASSUME program \in Program, NEW i \in DOMAIN program, NEW scopes, Lexical(scopes, i),
         program[i].k \notin Block \cup Heads \cup {"end"}, program[i].k \notin Openers \/ program[i].k = "switch"
  PROVE  Lexical(scopes, i + 1)
<1>1. PICK ranks \in Seq(Nat) : Stacked(scopes, ranks, i) /\ Range(ranks) = RanksAt(i)
  BY DEF Lexical
<1>2. Stacked(scopes, ranks, i + 1)
  BY <1>1, NothingDeclared, StackedNext
<1>3. RanksAt(i + 1) = RanksAt(i)
  BY RanksStep DEF Opens, Ends
<1> QED
  BY <1>1, <1>2, <1>3 DEF Lexical

\* An empty scope for a block.
LEMMA LexicalOpen ==
  ASSUME program \in Program, NEW i \in DOMAIN program, NEW scopes, Lexical(scopes, i),
         program[i].k \in Openers \ (Heads \cup {"switch"})
  PROVE  Lexical(PushScope(scopes), i + 1)
<1>1. PICK ranks \in Seq(Nat) : Stacked(scopes, ranks, i) /\ Range(ranks) = RanksAt(i)
  BY DEF Lexical
<1>2. PICK n \in Nat : n = 2 * i + 1 /\ \A r \in Range(ranks) : r < n
  <2>1. i \in Nat /\ i \in 1..Len(program) + 1
    BY ProgramDomain
  <2>2. \A r \in Range(ranks) : r \in Nat /\ r < 2 * i
    BY <1>1, <2>1, RanksBelow
  <2>3. 2 * i + 1 \in Nat /\ \A r \in Nat : r < 2 * i => r < 2 * i + 1
    BY <2>1
  <2> QED
    BY <2>2, <2>3
<1>3. Openers \cap Block = {}
  BY DEF Openers, Block
<1>4. Stacked(scopes, ranks, i + 1)
  BY <1>1, <1>3, NothingDeclared, StackedNext
<1>5. IsScope(<<>>, n, i + 1)
  <2>1. Met(n, i + 1) = {}
    BY <1>2, MetNone
  <2> QED
    BY <2>1 DEF IsScope
<1>6. Stacked(PushScope(scopes), Append(ranks, n), i + 1) /\ Range(Append(ranks, n)) = Range(ranks) \cup {n}
  <2>1. PICK m : m = i + 1
    OBVIOUS
  <2>2. Stacked(scopes, ranks, m) /\ IsScope(<<>>, n, m)
    BY <1>4, <1>5, <2>1
  <2> QED
    BY <1>2, <2>1, <2>2, StackedPush DEF PushScope
<1>7. Append(ranks, n) \in Seq(Nat) /\ RanksAt(i + 1) = Range(Append(ranks, n))
  BY <1>1, <1>2, <1>6, RanksStep DEF Stacked
<1> QED
  BY <1>6, <1>7 DEF Lexical

\* Of the scopes that are open the innermost has the highest rank.
LEMMA TopRank ==
  ASSUME NEW scopes, NEW ranks, NEW i, Stacked(scopes, ranks, i),
         NEW n, n \in Range(ranks), \A r \in Range(ranks) : r < n \/ r = n
  PROVE  /\ Len(ranks) \in Nat \ {0} /\ Len(scopes) = Len(ranks)
         /\ ranks[Len(ranks)] = n /\ IsScope(Last(scopes), n, i) /\ ranks # <<>>
<1>1. /\ ranks \in Seq(Nat) /\ Len(scopes) = Len(ranks)
      /\ Len(ranks) \in Nat /\ DOMAIN ranks = 1..Len(ranks)
  BY LenProperties DEF Stacked
<1>2. PICK s \in 1..Len(ranks) : n = ranks[s]
  BY <1>1 DEF Range
<1>3. Len(ranks) \in 1..Len(ranks) /\ Len(ranks) \in Nat \ {0}
  BY <1>1, <1>2
<1>4. ranks[Len(ranks)] \in Range(ranks) /\ \A t \in 1..Len(ranks) : ranks[t] \in Nat
  BY <1>1, <1>3, ElementOfSeq DEF Range
<1>5. s = Len(ranks)
  <2>1. SUFFICES ASSUME s < Len(ranks) PROVE FALSE
    BY <1>1, <1>2
  <2>2. ranks[s] < ranks[Len(ranks)]
    BY <1>3, <2>1 DEF Stacked
  <2> QED
    BY <1>2, <1>3, <1>4, <2>2
<1>6. IsScope(scopes[s], ranks[s], i)
  BY DEF Stacked
<1>7. ranks # <<>>
  BY <1>3
<1> QED
  BY <1>1, <1>2, <1>3, <1>5, <1>6, <1>7 DEF Last

\* A name is declared once in its scope when it was not there before.
LEMMA OnceMore ==
  ASSUME program \in Program, NEW i \in DOMAIN program, DeclaredOnce(i),
         \A d, e \in Declarations : d.at = i /\ e.at = i /\ d.name = e.name => d = e,
         \A d \in Declarations : d.at = i => \A e \in Met(Rank(d.scope), i) : d.name # e.name
  PROVE  DeclaredOnce(i + 1)
<1>1. i \in Nat /\ \A d \in Declarations : d.at \in Nat
  BY ProgramDomain, RankOfDeclaration
<1>2. \A d \in Declarations : d.at < i + 1 => d.at < i \/ d.at = i
  BY <1>1
<1>3. \A d, e \in Declarations :
        d.at = i /\ e.at < i /\ Rank(d.scope) = Rank(e.scope) => d.name # e.name
  BY DEF Met
<1> QED
  BY <1>2, <1>3 DEF DeclaredOnce

\* The scope a statement declares in is the last one.
LEMMA BlockTop ==
  ASSUME program \in Program, NEW i \in DOMAIN program, program[i].k \in Block,
         NEW scopes, NEW ranks, Stacked(scopes, ranks, i), Range(ranks) = RanksAt(i)
  PROVE  \E d \in Declarations :
           /\ d.at = i /\ d.name = program[i].name /\ d.type = program[i].type
           /\ \A e \in Declarations : e.at = i => e = d
           /\ d.scope = <<Around(i), "block">>
           /\ ranks # <<>> /\ ranks[Len(ranks)] = Rank(d.scope) /\ IsScope(Last(scopes), Rank(d.scope), i)
<1>2. Block \cap Heads = {} /\ "function" \notin Block
  BY DEF Heads, Block
<1>3. PICK d \in Declarations : d.at = i
  BY DeclarationsAt
<1>4. /\ d.name = program[i].name /\ d.type = program[i].type /\ \A e \in Declarations : e.at = i => e = d
      /\ d.scope = <<Around(i), "block">>
  BY <1>2, <1>3, DeclarationKinds
<1>5. PICK o \in 0..i - 1 : /\ Rank(d.scope) = 2 * o + 1
                            /\ o # 0 => o \in OpenAt(i) /\ program[o].k # "switch"
                            /\ \A q \in OpenAt(i) : q <= o
  BY <1>2, <1>3, RankOfDeclaration
<1>6. PICK n : n = 2 * o + 1
  OBVIOUS
<1>7. n \in Range(ranks) /\ \A r \in Range(ranks) : r < n \/ r = n
  <2>1. i \in Nat /\ \A q \in OpenAt(i) : q \in Nat
    BY ProgramDomain DEF OpenAt
  <2>2. n \in RanksAt(i)
    <3>1. CASE o = 0
      <4>1. n = 1
        BY <1>6, <3>1
      <4> QED
        BY <4>1 DEF RanksAt
    <3>2. CASE o # 0
      BY <1>5, <1>6, <3>2 DEF RanksAt
    <3> QED
      BY <3>1, <3>2
  <2>3. \A r \in RanksAt(i) : r = 1 \/ \E q \in OpenAt(i) : r = 2 * q + 1 \/ r = 2 * q
    BY DEF RanksAt
  <2>4. \A r \in RanksAt(i) : r < n \/ r = n
    BY <1>5, <1>6, <2>1, <2>3
  <2> QED
    BY <2>2, <2>4
<1>8. ranks[Len(ranks)] = n /\ IsScope(Last(scopes), n, i) /\ ranks # <<>>
  BY <1>7, TopRank
<1> QED
  BY <1>3, <1>4, <1>5, <1>6, <1>8

\* A declaration in the block around it.
LEMMA LexicalBlock ==
  ASSUME program \in Program, NEW i \in DOMAIN program, NEW scopes, Lexical(scopes, i), DeclaredOnce(i),
         program[i].k \in Block, program[i].name \notin DOMAIN Last(scopes)
  PROVE  /\ Lexical(Declare(scopes, program[i].name, program[i].type), i + 1) /\ DeclaredOnce(i + 1)
<1>1. PICK ranks \in Seq(Nat) : Stacked(scopes, ranks, i) /\ Range(ranks) = RanksAt(i)
  BY DEF Lexical
<1>2. PICK d \in Declarations :
        /\ d.at = i /\ d.name = program[i].name /\ d.type = program[i].type
        /\ \A e \in Declarations : e.at = i => e = d
        /\ d.scope = <<Around(i), "block">>
        /\ ranks # <<>> /\ ranks[Len(ranks)] = Rank(d.scope) /\ IsScope(Last(scopes), Rank(d.scope), i)
  BY <1>1, BlockTop
<1>3. Stacked(Declare(scopes, d.name, d.type), ranks, i + 1)
  BY <1>1, <1>2, StackedDeclare
<1>4. RanksAt(i + 1) = RanksAt(i)
  <2>1. ~Opens(i) /\ ~Ends(i)
    BY DEF Opens, Ends, Openers, Block
  <2> QED
    BY <2>1, RanksStep
<1>5. \A e \in Met(Rank(d.scope), i) : d.name # e.name
  BY <1>2 DEF IsScope
<1>6. DeclaredOnce(i + 1)
  BY <1>2, <1>5, OnceMore
<1> QED
  BY <1>1, <1>2, <1>3, <1>4, <1>6 DEF Lexical

\* The scopes of a construct with a head, the head's made already.
LEMMA LexicalHead ==
  ASSUME program \in Program, NEW i \in DOMAIN program, program[i].k \in Heads,
         NEW scopes, NEW ranks, Range(ranks) = RanksAt(i) \cup {2 * i}, Stacked(scopes, ranks, i + 1)
  PROVE  Lexical(PushScope(scopes), i + 1)
<1>1. PICK n \in Nat : n = 2 * i + 1 /\ \A r \in Range(ranks) : r < n
  <2>1. i \in Nat /\ i \in 1..Len(program) + 1
    BY ProgramDomain
  <2>2. \A r \in RanksAt(i) : r \in Nat /\ r < 2 * i
    BY <2>1, RanksBelow
  <2>3. 2 * i + 1 \in Nat /\ 2 * i < 2 * i + 1 /\ \A r \in Nat : r < 2 * i => r < 2 * i + 1
    BY <2>1
  <2> QED
    BY <2>2, <2>3
<1>2. PICK m : m = i + 1
  OBVIOUS
<1>3. IsScope(<<>>, n, m)
  <2>1. Met(n, m) = {}
    BY <1>1, <1>2, MetNone
  <2> QED
    BY <2>1 DEF IsScope
<1>4. Stacked(PushScope(scopes), Append(ranks, n), m) /\ Range(Append(ranks, n)) = Range(ranks) \cup {n}
  <2>1. Stacked(scopes, ranks, m)
    BY <1>2
  <2> QED
    BY <1>1, <1>3, <2>1, StackedPush DEF PushScope
<1>5. RanksAt(m) = Range(Append(ranks, n)) /\ Append(ranks, n) \in Seq(Nat)
  BY <1>1, <1>2, <1>4, RanksStep DEF Stacked
<1> QED
  BY <1>2, <1>4, <1>5 DEF Lexical

\* A loop with a counter.
LEMMA LexicalFor ==
  ASSUME program \in Program, NEW i \in DOMAIN program, NEW scopes, Lexical(scopes, i), DeclaredOnce(i),
         program[i].k = "for"
  PROVE  /\ Lexical(PushScope(Declare(PushScope(scopes), program[i].name, program[i].type)), i + 1)
         /\ DeclaredOnce(i + 1)
         /\ \E S : Declare(PushScope(scopes), program[i].name, program[i].type) \in Seq(S)
<1>1. PICK ranks \in Seq(Nat) : Stacked(scopes, ranks, i) /\ Range(ranks) = RanksAt(i)
  BY DEF Lexical
<1>2. program[i].k \in Heads \ Block /\ program[i].k # "function"
  BY DEF Heads, Block
<1>3. PICK d \in Declarations : d.at = i
  BY DeclarationsAt
<1>4. d.name = program[i].name /\ d.type = program[i].type /\ \A e \in Declarations : e.at = i => e = d
  BY <1>2, <1>3, DeclarationKinds
<1>5. Rank(d.scope) = 2 * i
  BY <1>2, <1>3, RankOfDeclaration
<1>6. PICK n \in Nat : n = 2 * i /\ \A r \in Range(ranks) : r < n
  <2>1. 2 * i \in Nat /\ i \in 1..Len(program) + 1
    BY ProgramDomain
  <2> QED
    BY <1>1, <2>1, RanksBelow
<1>7. Met(n, i) = {}
  BY <1>6, MetNone
<1>8. IsScope(<<>>, n, i)
  BY <1>7 DEF IsScope
<1>9. PICK pushed, more : pushed = PushScope(scopes) /\ more = Append(ranks, n)
  OBVIOUS
<1>10. Stacked(pushed, more, i) /\ Range(more) = RanksAt(i) \cup {n}
  BY <1>1, <1>6, <1>8, <1>9, StackedPush DEF PushScope
<1>11. more[Len(more)] = n /\ IsScope(Last(pushed), n, i) /\ more # <<>>
  <2>1. n \in Range(more) /\ \A r \in Range(more) : r < n \/ r = n
    BY <1>1, <1>6, <1>10
  <2> QED
    BY <1>10, <2>1, TopRank
<1>12. d.name \notin DOMAIN Last(pushed)
  BY <1>7, <1>11 DEF IsScope
<1>13. Stacked(Declare(pushed, d.name, d.type), more, i + 1)
  BY <1>3, <1>4, <1>5, <1>6, <1>10, <1>11, <1>12, StackedDeclare
<1>14. Lexical(PushScope(Declare(pushed, d.name, d.type)), i + 1)
  <2>1. PICK declared : declared = Declare(pushed, d.name, d.type)
    OBVIOUS
  <2>2. Stacked(declared, more, i + 1) /\ Range(more) = RanksAt(i) \cup {2 * i}
    BY <1>6, <1>10, <1>13, <2>1
  <2> QED
    BY <1>2, <2>1, <2>2, LexicalHead
<1>15. DeclaredOnce(i + 1)
  BY <1>4, <1>5, <1>6, <1>7, OnceMore
<1>16. \E S : Declare(pushed, d.name, d.type) \in Seq(S)
  BY <1>13 DEF Stacked
<1> QED
  BY <1>4, <1>9, <1>14, <1>15, <1>16

\* A loop without one.
LEMMA LexicalForAssign ==
  ASSUME program \in Program, NEW i \in DOMAIN program, NEW scopes, Lexical(scopes, i),
         program[i].k = "forassign"
  PROVE  /\ Lexical(PushScope(PushScope(scopes)), i + 1)
         /\ \E S : PushScope(scopes) \in Seq(S)
<1>1. PICK ranks \in Seq(Nat) : Stacked(scopes, ranks, i) /\ Range(ranks) = RanksAt(i)
  BY DEF Lexical
<1>2. program[i].k \in Heads \ Block /\ program[i].k \notin (Block \cup Heads) \ {"forassign"}
  BY DEF Heads, Block
<1>3. PICK n \in Nat : n = 2 * i /\ \A r \in Range(ranks) : r < n
  <2>1. 2 * i \in Nat /\ i \in 1..Len(program) + 1
    BY ProgramDomain
  <2> QED
    BY <1>1, <2>1, RanksBelow
<1>4. PICK m : m = i + 1
  OBVIOUS
<1>5. \A d \in Declarations : d.at # i
  BY <1>2, NothingDeclared
<1>6. Stacked(scopes, ranks, m)
  BY <1>1, <1>4, <1>5, StackedNext
<1>7. IsScope(<<>>, n, m)
  <2>1. Met(n, i) = {}
    BY <1>3, MetNone
  <2>2. Met(n, m) = {d \in Declarations : d.at = i /\ Rank(d.scope) = n}
    BY <1>4, <2>1, MetNext
  <2>3. Met(n, m) = {}
    BY <1>5, <2>2
  <2> QED
    BY <2>3 DEF IsScope
<1>8. PICK pushed, more : pushed = PushScope(scopes) /\ more = Append(ranks, n)
  OBVIOUS
<1>9. Stacked(pushed, more, m) /\ Range(more) = RanksAt(i) \cup {n}
  BY <1>1, <1>3, <1>6, <1>7, <1>8, StackedPush DEF PushScope
<1>10. Lexical(PushScope(pushed), i + 1)
  <2>1. Stacked(pushed, more, i + 1) /\ Range(more) = RanksAt(i) \cup {2 * i}
    BY <1>3, <1>4, <1>9
  <2> QED
    BY <1>2, <2>1, LexicalHead
<1>11. \E S : pushed \in Seq(S)
  BY <1>9 DEF Stacked
<1> QED
  BY <1>8, <1>10, <1>11

\* A function, whose parameters have names of their own.
LEMMA LexicalFunction ==
  ASSUME program \in Program, NEW i \in DOMAIN program, NEW scopes, Lexical(scopes, i), DeclaredOnce(i),
         program[i].k = "function", NEW params, params = program[i].params,
         \A p, q \in DOMAIN params : params[p].name = params[q].name => p = q,
         NEW scope, DOMAIN scope = {params[p].name : p \in DOMAIN params},
         \A p \in DOMAIN params : scope[params[p].name] = params[p].type
  PROVE  Lexical(PushScope(Append(scopes, scope)), i + 1) /\ DeclaredOnce(i + 1)
<1>1. PICK ranks \in Seq(Nat) : Stacked(scopes, ranks, i) /\ Range(ranks) = RanksAt(i)
  BY DEF Lexical
<1>2. program[i].k \in Heads \ Block
  BY DEF Heads, Block
<1>3. \A d \in Declarations : d.at = i =>
        /\ Rank(d.scope) = 2 * i
        /\ \E p \in DOMAIN params : /\ d.name = params[p].name /\ d.type = params[p].type /\ d.place = p
                                    /\ \A e \in Declarations : e.at = i /\ e.place = p => e = d
  <2> TAKE d \in Declarations
  <2> HAVE d.at = i
  <2>1. Rank(d.scope) = 2 * i
    BY <1>2, RankOfDeclaration
  <2>2. \E p \in DOMAIN params : /\ d.name = params[p].name /\ d.type = params[p].type /\ d.place = p
                                 /\ \A e \in Declarations : e.at = i /\ e.place = p => e = d
    <3>1. program[d.at].k = "function" /\ program[d.at].params = params
      OBVIOUS
    <3>2. \E p \in DOMAIN program[d.at].params :
            /\ d.name = program[d.at].params[p].name /\ d.type = program[d.at].params[p].type
            /\ d.place = p /\ \A e \in Declarations : e.at = d.at /\ e.place = p => e = d
      BY <3>1, DeclarationKinds
    <3> QED
      BY <3>1, <3>2
  <2> QED
    BY <2>1, <2>2
<1>4. PICK n \in Nat : n = 2 * i /\ \A r \in Range(ranks) : r < n
  <2>1. 2 * i \in Nat /\ i \in 1..Len(program) + 1
    BY ProgramDomain
  <2> QED
    BY <1>1, <2>1, RanksBelow
<1>5. \A r \in Range(ranks) : r # n
  <2>1. ranks \in Seq(Nat) /\ DOMAIN ranks = 1..Len(ranks)
    BY LenProperties
  <2>2. \A r \in Range(ranks) : r \in Nat
    BY <2>1, ElementOfSeq DEF Range
  <2> QED
    BY <1>4, <2>2
<1>6. PICK m : m = i + 1
  OBVIOUS
<1>7. Stacked(scopes, ranks, m)
  BY <1>1, <1>3, <1>4, <1>5, <1>6, StackedNext
<1>8. Met(n, i) = {}
  BY <1>4, MetNone
<1>9. Met(n, m) = {d \in Declarations : d.at = i}
  <2>1. Met(n, m) = {d \in Declarations : d.at = i /\ Rank(d.scope) = n}
    BY <1>6, <1>8, MetNext
  <2> QED
    BY <1>3, <1>4, <2>1
<1>10. IsScope(scope, n, m)
  <2>1. \A p \in DOMAIN params : \E d \in Met(n, m) : d.name = params[p].name /\ d.type = params[p].type
    BY <1>9, DeclarationsAt
  <2>2. \A d \in Met(n, m) : \E p \in DOMAIN params : d.name = params[p].name /\ d.type = params[p].type
    BY <1>3, <1>9
  <2>3. DOMAIN scope = {d.name : d \in Met(n, m)}
    BY <2>1, <2>2
  <2>4. \A d \in Met(n, m) : scope[d.name] = d.type
    BY <2>2
  <2> QED
    BY <2>3, <2>4 DEF IsScope
<1>11. Stacked(Append(scopes, scope), Append(ranks, n), m) /\ Range(Append(ranks, n)) = RanksAt(i) \cup {n}
  BY <1>1, <1>4, <1>7, <1>10, StackedPush
<1>12. Lexical(PushScope(Append(scopes, scope)), i + 1)
  <2>1. PICK pushed, more : pushed = Append(scopes, scope) /\ more = Append(ranks, n)
    OBVIOUS
  <2>2. Stacked(pushed, more, i + 1) /\ Range(more) = RanksAt(i) \cup {2 * i}
    BY <1>4, <1>6, <1>11, <2>1
  <2> QED
    BY <1>2, <2>1, <2>2, LexicalHead
<1>13. \A d, e \in Declarations : d.at = i /\ e.at = i /\ d.name = e.name => d = e
  BY <1>3
<1>14. DeclaredOnce(i + 1)
  BY <1>3, <1>4, <1>8, <1>13, OnceMore
<1> QED
  BY <1>12, <1>14

\* An end pops the scopes of the construct it closes.
LEMMA LexicalEnd ==
  ASSUME program \in Program, NEW i \in DOMAIN program, Ends(i), at = i, NEW scopes, Lexical(scopes, i)
  PROVE  Lexical(SubSeq(scopes, 1, Len(scopes) - ScopesOf(program[Closed].k)), i + 1)
<1>1. PICK ranks \in Seq(Nat) : Stacked(scopes, ranks, i) /\ Range(ranks) = RanksAt(i)
  BY DEF Lexical
<1>2. PICK m, c, k : m = i + 1 /\ c = Closed /\ k = program[c].k
  OBVIOUS
<1>3. Stacked(scopes, ranks, m)
  <2>1. program[i].k \notin Block \cup Heads
    BY DEF Ends, Block, Heads
  <2> QED
    BY <1>1, <1>2, <2>1, NothingDeclared, StackedNext
<1>4. /\ scopes \in Seq(Range(scopes)) /\ Len(scopes) = Len(ranks) /\ Len(ranks) \in Nat
      /\ DOMAIN ranks = 1..Len(ranks) /\ \A s, t \in 1..Len(ranks) : s < t => ranks[s] < ranks[t]
      /\ \A s \in 1..Len(ranks) : ranks[s] \in Nat
  BY <1>3, LenProperties, ElementOfSeq DEF Stacked
<1>5. c \in Nat
  BY <1>2, RanksEnd, ProgramDomain
<1>6. ASSUME NEW n \in 0..Len(ranks) - 1, RanksAt(m) = {r \in RanksAt(i) : r < ranks[n + 1]}
      PROVE  Lexical(SubSeq(scopes, 1, n), m)
  <2>1. /\ Stacked(SubSeq(scopes, 1, n), SubSeq(ranks, 1, n), m)
        /\ Range(SubSeq(ranks, 1, n)) = RanksAt(m)
    BY <1>1, <1>3, <1>6, StackedPrefix
  <2> QED
    BY <2>1 DEF Lexical, Stacked
<1>7. CASE k = "switch"
  <2>1. ScopesOf(k) = 0
    BY <1>7 DEF ScopesOf
  <2>2. Len(scopes) \in 0..Len(scopes) /\ Len(scopes) - 0 = Len(scopes)
    BY <1>4
  <2>3. SubSeq(scopes, 1, Len(scopes)) = scopes
    <3>1. PICK t : t = SubSeq(scopes, 1, Len(scopes))
      OBVIOUS
    <3>2. /\ t \in Seq(Range(scopes)) /\ Len(t) = Len(scopes)
          /\ \A s \in 1..Len(scopes) : t[s] = scopes[s]
      BY <1>4, <2>2, <3>1, PrefixFacts
    <3> QED
      BY <1>4, <3>1, <3>2, SeqEqual
  <2>4. RanksAt(m) = RanksAt(i)
    BY <1>2, <1>7, RanksEnd
  <2>5. Lexical(scopes, m)
    BY <1>1, <1>3, <2>4 DEF Lexical
  <2> QED
    BY <1>2, <2>1, <2>2, <2>3, <2>5
<1>8. CASE k \in Heads
  <2>1. ScopesOf(k) = 2
    BY <1>8 DEF ScopesOf, Heads
  <2>2. /\ 2 * c \in RanksAt(i) /\ 2 * c + 1 \in RanksAt(i)
        /\ RanksAt(m) = {r \in RanksAt(i) : r < 2 * c}
        /\ \A r \in RanksAt(i) : r < 2 * c \/ r = 2 * c \/ r = 2 * c + 1
    BY <1>2, <1>8, RanksEnd
  <2>3. PICK s, t \in 1..Len(ranks) : ranks[s] = 2 * c /\ ranks[t] = 2 * c + 1
    BY <1>1, <1>4, <2>2 DEF Range
  <2>4. \A u \in 1..Len(ranks) : ranks[u] = 2 * c + 1 => u = t
    <3> TAKE u \in 1..Len(ranks)
    <3> HAVE ranks[u] = 2 * c + 1
    <3>1. ~(u < t) /\ ~(t < u)
      BY <1>4, <1>5, <2>3
    <3> QED
      BY <1>4, <3>1
  <2>5. \A u \in 1..Len(ranks) : s < u => u = t
    <3> TAKE u \in 1..Len(ranks)
    <3> HAVE s < u
    <3>1. ranks[s] < ranks[u] /\ ranks[u] \in RanksAt(i)
      BY <1>1, <1>4 DEF Range
    <3>2. ranks[u] = 2 * c + 1
      BY <1>4, <1>5, <2>2, <2>3, <3>1
    <3> QED
      BY <2>4, <3>2
  <2>6. s < t
    <3>1. ~(t < s) /\ s # t
      BY <1>4, <1>5, <2>3
    <3> QED
      BY <1>4, <3>1
  <2>7. t = s + 1 /\ Len(ranks) = t
    <3>1. s + 1 \in 1..Len(ranks) /\ Len(ranks) \in 1..Len(ranks) /\ s < s + 1 /\ s < Len(ranks)
      BY <1>4, <2>6
    <3> QED
      BY <2>5, <3>1
  <2>8. PICK n \in 0..Len(ranks) - 1 : n = Len(ranks) - 2 /\ n + 1 = s
    BY <1>4, <2>7
  <2>9. Lexical(SubSeq(scopes, 1, n), m)
    BY <1>6, <2>2, <2>3, <2>8
  <2> QED
    BY <1>2, <1>4, <2>1, <2>8, <2>9
<1>9. CASE k \notin Heads \cup {"switch"}
  <2>1. ScopesOf(k) = 1
    BY <1>9 DEF ScopesOf, Heads
  <2>2. /\ 2 * c + 1 \in RanksAt(i)
        /\ RanksAt(m) = {r \in RanksAt(i) : r < 2 * c + 1}
        /\ \A r \in RanksAt(i) : r < 2 * c + 1 \/ r = 2 * c + 1
    BY <1>2, <1>9, RanksEnd
  <2>3. ranks[Len(ranks)] = 2 * c + 1 /\ Len(ranks) # 0
    <3>1. PICK r : r = 2 * c + 1
      OBVIOUS
    <3>2. r \in Range(ranks) /\ \A q \in Range(ranks) : q < r \/ q = r
      BY <1>1, <2>2, <3>1
    <3> QED
      BY <1>1, <3>1, <3>2, TopRank
  <2>4. PICK n \in 0..Len(ranks) - 1 : n = Len(ranks) - 1 /\ n + 1 = Len(ranks)
    BY <1>4, <2>3
  <2>5. Lexical(SubSeq(scopes, 1, n), m)
    BY <1>6, <2>2, <2>3, <2>4
  <2> QED
    BY <1>2, <1>4, <2>1, <2>4, <2>5
<1> QED
  BY <1>7, <1>8, <1>9

-------------------------------------------------------------------------------
(* The steps. *)

\* What depends on the program alone stays.
LEMMA SameProgram ==
  ASSUME program' = program
  PROVE  /\ Declarations' = Declarations
         /\ \A i, r : Met(r, i)' = Met(r, i)
         /\ \A i : RanksAt(i)' = RanksAt(i)
         /\ \A i, s : Lexical(s, i)' = Lexical(s, i)
         /\ \A i : DeclaredOnce(i)' = DeclaredOnce(i)
<1>1. \A o : Close(o)' = Close(o)
  BY DEF Close
<1>2. \A o : Opens(o)' = Opens(o)
  BY DEF Opens
<1>3. \A i : Around(i)' = Around(i)
  BY <1>1, <1>2 DEF Around
<1>4. Declarations' = Declarations
  BY <1>3 DEF Declarations
<1>5. \A i, r : Met(r, i)' = Met(r, i)
  BY <1>4 DEF Met
<1>6. \A i : OpenAt(i)' = OpenAt(i)
  BY <1>1, <1>2 DEF OpenAt
<1>7. \A i : RanksAt(i)' = RanksAt(i)
  BY <1>6 DEF RanksAt
<1>8. \A s, r, i : IsScope(s, r, i)' = IsScope(s, r, i)
  BY <1>5 DEF IsScope
<1>9. \A s, r, i : Stacked(s, r, i)' = Stacked(s, r, i)
  BY <1>8 DEF Stacked
<1>10. \A i, s : Lexical(s, i)' = Lexical(s, i)
  BY <1>7, <1>9 DEF Lexical
<1>11. \A i : DeclaredOnce(i)' = DeclaredOnce(i)
  BY <1>4 DEF DeclaredOnce
<1> QED
  BY <1>4, <1>5, <1>7, <1>10, <1>11

\* In front of the first step there are no scopes.
LEMMA ScopesInit == Init => ScopesInv
BY DEF Init, LintInit, ScopesInv

\* The scope of the globals.
LEMMA ScopesCollect ==
  ASSUME ScopesInv, CollectFunctions
  PROVE  ScopesInv'
<1>1. /\ program' = program /\ program \in Program /\ pass' = "lint" /\ at = 1 /\ at' = 1
      /\ scope_stack = <<>> /\ scope_stack' = Append(<<>>, <<>>)
  BY DEF ScopesInv, CollectFunctions, PushScope
<1>2. \A d \in Declarations : ~(d.at < 1)
  BY <1>1, RankOfDeclaration
<1>3. Stacked(<<>>, <<>>, 1)
  <2>1. <<>> \in Seq(Nat) /\ <<>> \in Seq(Range(<<>>)) /\ Len(<<>>) = 0 /\ 1..0 = {}
    BY EmptySeq
  <2> QED
    BY <2>1 DEF Stacked
<1>4. IsScope(<<>>, 1, 1)
  <2>1. Met(1, 1) = {}
    BY <1>2 DEF Met
  <2> QED
    BY <2>1 DEF IsScope
<1>5. RanksAt(1) = {1}
  <2>1. OpenAt(1) = {}
    BY DEF OpenAt
  <2> QED
    BY <2>1 DEF RanksAt
<1>6. PICK ranks : ranks = Append(<<>>, 1)
  OBVIOUS
<1>7. Stacked(Append(<<>>, <<>>), ranks, 1) /\ Range(ranks) = {1}
  <2>1. PICK e : e = <<>>
    OBVIOUS
  <2>2. Range(e) = {}
    BY <2>1 DEF Range
  <2>3. Stacked(e, e, 1) /\ IsScope(e, 1, 1) /\ \A r \in Range(e) : r < 1
    BY <1>3, <1>4, <2>1, <2>2
  <2>4. Stacked(Append(e, e), Append(e, 1), 1) /\ Range(Append(e, 1)) = Range(e) \cup {1}
    BY <2>3, StackedPush
  <2> QED
    BY <1>6, <2>1, <2>2, <2>4
<1>8. PICK s : s = Append(<<>>, <<>>) /\ Lexical(s, 1)
  BY <1>5, <1>7 DEF Lexical, Stacked
<1>9. DeclaredOnce(1)
  BY <1>2 DEF DeclaredOnce
<1>10. Lexical(scope_stack, at)' /\ DeclaredOnce(at)'
  <2>1. Lexical(s, 1)' /\ DeclaredOnce(1)'
    BY <1>1, <1>8, <1>9, SameProgram
  <2> QED
    BY <1>1, <1>8, <2>1
<1>11. (at \in 1..Len(program) + 1)'
  BY <1>1, ProgramDomain
<1> QED
  BY <1>1, <1>10, <1>11 DEF ScopesInv

\* A statement: errors accumulate, so that a program that is accepted behind it was
\* accepted in front of it.
LEMMA ScopesStatement ==
  ASSUME ScopesInv, pass = "lint", NEW i \in DOMAIN program, at = i,
         NEW found, errors' = errors \cup found, program' = program, pass' = pass, at' = at + 1,
         NEW old, old = scope_stack, NEW new, new = scope_stack',
         (\A e \in found : e.level # "error") /\ DeclaredOnce(i) /\ Lexical(old, i) =>
           DeclaredOnce(i + 1) /\ Lexical(new, i + 1)
  PROVE  ScopesInv'
<1>1. program \in Program /\ pass' = "lint"
  BY DEF ScopesInv
<1>2. PICK m : m = i + 1
  OBVIOUS
<1>3. (at \in 1..Len(program) + 1)'
  BY <1>1, ProgramDomain
<1>4. ASSUME Accepted' PROVE DeclaredOnce(at)' /\ Lexical(scope_stack, at)'
  <2>1. Accepted /\ \A e \in found : e.level # "error"
    BY <1>4 DEF Accepted
  <2>2. DeclaredOnce(i) /\ Lexical(old, i)
    BY <2>1 DEF ScopesInv
  <2>3. DeclaredOnce(m) /\ Lexical(new, m)
    BY <1>2, <2>1, <2>2
  <2>4. DeclaredOnce(m)' /\ Lexical(new, m)'
    BY <2>3, SameProgram
  <2> QED
    BY <1>2, <2>4
<1> QED
  BY <1>1, <1>3, <1>4 DEF ScopesInv

\* The least of the parameters with a name: with no error it is the only one.
LEMMA ParametersApart ==
  ASSUME NEW params,
         \A p \in DOMAIN params : p = Min({q \in DOMAIN params : params[q].name = params[p].name})
  PROVE  \A p, q \in DOMAIN params : params[p].name = params[q].name => p = q
<1> SUFFICES ASSUME NEW p \in DOMAIN params, NEW q \in DOMAIN params, params[p].name = params[q].name
             PROVE  p = q
  OBVIOUS
<1>1. PICK P, Q : /\ P = {r \in DOMAIN params : params[r].name = params[p].name}
                  /\ Q = {r \in DOMAIN params : params[r].name = params[q].name}
  OBVIOUS
<1>2. p = Min(P) /\ q = Min(Q)
  BY <1>1
<1>3. P = Q
  BY <1>1
<1> QED
  BY <1>2, <1>3

\* Every case of lint_block() keeps the scopes.
LEMMA ScopesLint ==
  ASSUME ScopesInv, LintNext
  PROVE  ScopesInv'
<1>1. program \in Program
  BY DEF ScopesInv
<1>2. ASSUME pass = "lint", at <= Len(program) PROVE at \in DOMAIN program
  BY <1>1, <1>2, ProgramDomain DEF ScopesInv
<1>3. ASSUME NEW x, NEW scopes, \A e \in Redeclared(scopes, x) : e.level # "error"
      PROVE  x \notin DOMAIN Last(scopes)
  <2>1. SUFFICES ASSUME x \in DOMAIN Last(scopes) PROVE FALSE
    OBVIOUS
  <2>2. Found("error", "redeclared") \in Redeclared(scopes, x)
    BY <2>1 DEF Redeclared
  <2> QED
    BY <1>3, <2>2 DEF Found
<1>4. CASE CollectFunctions
  BY <1>4, ScopesCollect
<1>5. CASE \/ LintUnheeded \/ LintAssignment \/ LintExpression \/ LintSwitch
  <2>1. /\ pass = "lint" /\ at \in DOMAIN program /\ program' = program /\ pass' = pass /\ at' = at + 1
        /\ scope_stack' = scope_stack
        /\ program[at].k \in {"enum", "aggregate", "assign", "expression", "switch"}
    BY <1>2, <1>5 DEF LintUnheeded, LintAssignment, LintExpression, LintSwitch, Lint, Go, Here
  <2>2. PICK found : errors' = errors \cup found
    BY <1>5 DEF LintUnheeded, LintAssignment, LintExpression, LintSwitch, Go
  <2>3. PICK i, s : i \in DOMAIN program /\ i = at /\ s = scope_stack
    BY <2>1
  <2>4. Lexical(s, i) => Lexical(s, i + 1)
    BY <1>1, <2>1, <2>3, LexicalPlain DEF Block, Heads, Openers
  <2>5. DeclaredOnce(i) => DeclaredOnce(i + 1)
    BY <1>1, <2>1, <2>3, NothingDeclared DEF Block, Heads
  <2> QED
    BY <2>1, <2>2, <2>3, <2>4, <2>5, ScopesStatement
<1>6. CASE \/ LintConditional \/ LintPlainBlock \/ LintCase
  <2>1. /\ pass = "lint" /\ at \in DOMAIN program /\ program' = program /\ pass' = pass /\ at' = at + 1
        /\ scope_stack' = PushScope(scope_stack)
        /\ program[at].k \in {"if", "elseif", "while", "else", "loop", "default", "case"}
    BY <1>2, <1>6 DEF LintConditional, LintPlainBlock, LintCase, Lint, Go, Here
  <2>2. PICK found : errors' = errors \cup found
    BY <1>6 DEF LintConditional, LintPlainBlock, LintCase, Go
  <2>3. PICK i, s : i \in DOMAIN program /\ i = at /\ s = scope_stack
    BY <2>1
  <2>4. PICK new : new = PushScope(s)
    OBVIOUS
  <2>5. Lexical(s, i) => Lexical(new, i + 1)
    BY <1>1, <2>1, <2>3, <2>4, LexicalOpen DEF Heads, Openers
  <2>6. DeclaredOnce(i) => DeclaredOnce(i + 1)
    BY <1>1, <2>1, <2>3, NothingDeclared DEF Block, Heads
  <2> QED
    BY <2>1, <2>2, <2>3, <2>4, <2>5, <2>6, ScopesStatement
<1>7. CASE \/ LintGlobal \/ LintDeclaration \/ LintArray
  <2>1. /\ pass = "lint" /\ at \in DOMAIN program /\ program' = program /\ pass' = pass /\ at' = at + 1
        /\ scope_stack' = Declare(scope_stack, program[at].name, program[at].type)
        /\ program[at].k \in Block
    BY <1>2, <1>7 DEF LintGlobal, LintDeclaration, LintArray, Lint, Go, Here, Block
  <2>2. PICK found : errors' = errors \cup found /\ Redeclared(scope_stack, program[at].name) \subseteq found
    BY <1>7 DEF LintGlobal, LintDeclaration, LintArray, Go, Here
  <2>3. PICK i, s : i \in DOMAIN program /\ i = at /\ s = scope_stack
    BY <2>1
  <2>4. PICK new, x : new = Declare(s, program[i].name, program[i].type) /\ x = program[i].name
    OBVIOUS
  <2>5. ASSUME \A e \in found : e.level # "error", DeclaredOnce(i), Lexical(s, i)
        PROVE  DeclaredOnce(i + 1) /\ Lexical(new, i + 1)
    <3>1. \A e \in Redeclared(s, x) : e.level # "error"
      BY <2>2, <2>3, <2>4, <2>5
    <3>2. x \notin DOMAIN Last(s)
      BY <1>3, <3>1
    <3> QED
      BY <1>1, <2>1, <2>3, <2>4, <2>5, <3>2, LexicalBlock
  <2> QED
    BY <2>1, <2>2, <2>3, <2>4, <2>5, ScopesStatement
<1>8. CASE LintFunction
  <2>1. /\ pass = "lint" /\ at \in DOMAIN program /\ program' = program /\ pass' = pass /\ at' = at + 1
        /\ program[at].k = "function"
    BY <1>2, <1>8 DEF LintFunction, Lint, Go, Here
  <2>2. PICK i, s, params : i \in DOMAIN program /\ i = at /\ s = scope_stack /\ params = program[i].params
    BY <2>1
  <2>3. PICK scope :
          scope = [x \in {params[p].name : p \in DOMAIN params} |->
                     params[Min({p \in DOMAIN params : params[p].name = x})].type]
    OBVIOUS
  <2>4. PICK found :
          found = {Found("error", "redeclared") :
                     p \in {p \in DOMAIN params : p # Min({q \in DOMAIN params : params[q].name = params[p].name})}}
    OBVIOUS
  <2>5. scope_stack' = PushScope(Append(s, scope)) /\ errors' = errors \cup found
    BY <1>8, <2>2, <2>3, <2>4 DEF LintFunction, Go, Here
  <2>6. PICK new : new = PushScope(Append(s, scope))
    OBVIOUS
  <2>7. ASSUME \A e \in found : e.level # "error", DeclaredOnce(i), Lexical(s, i)
        PROVE  DeclaredOnce(i + 1) /\ Lexical(new, i + 1)
    <3>1. \A p \in DOMAIN params : p = Min({q \in DOMAIN params : params[q].name = params[p].name})
      <4>1. Found("error", "redeclared") \notin found
        BY <2>7 DEF Found
      <4> QED
        BY <2>4, <4>1
    <3>2. \A p, q \in DOMAIN params : params[p].name = params[q].name => p = q
      BY <3>1, ParametersApart
    <3>3. DOMAIN scope = {params[p].name : p \in DOMAIN params}
      BY <2>3
    <3>4. \A p \in DOMAIN params : scope[params[p].name] = params[p].type
      BY <2>3, <3>1
    <3>5. program[i].k = "function" /\ params = program[i].params
      BY <2>1, <2>2
    <3>6. DeclaredOnce(i) /\ Lexical(s, i)
      BY <2>7
    <3>7. Lexical(PushScope(Append(s, scope)), i + 1) /\ DeclaredOnce(i + 1)
      BY <1>1, <2>2, <3>2, <3>3, <3>4, <3>5, <3>6, LexicalFunction
    <3> QED
      BY <2>6, <3>7
  <2> QED
    BY <2>1, <2>2, <2>5, <2>6, <2>7, ScopesStatement
<1>9. CASE LintFor
  <2>1. /\ pass = "lint" /\ at \in DOMAIN program /\ program' = program /\ pass' = pass /\ at' = at + 1
        /\ scope_stack' = PushScope(Declare(PushScope(scope_stack), program[at].name, program[at].type))
        /\ program[at].k = "for"
    BY <1>2, <1>9 DEF LintFor, Lint, Go, Here
  <2>2. PICK found : errors' = errors \cup found
    BY <1>9 DEF LintFor, Go
  <2>3. PICK i, s : i \in DOMAIN program /\ i = at /\ s = scope_stack
    BY <2>1
  <2>4. PICK new : new = PushScope(Declare(PushScope(s), program[i].name, program[i].type))
    OBVIOUS
  <2>5. DeclaredOnce(i) /\ Lexical(s, i) => DeclaredOnce(i + 1) /\ Lexical(new, i + 1)
    BY <1>1, <2>1, <2>3, <2>4, LexicalFor
  <2> QED
    BY <2>1, <2>2, <2>3, <2>4, <2>5, ScopesStatement
<1>10. CASE LintEnd
  <2>1. /\ pass = "lint" /\ at \in DOMAIN program /\ program' = program /\ pass' = pass /\ at' = at + 1
        /\ scope_stack' = SubSeq(scope_stack, 1, Len(scope_stack) - ScopesOf(program[Closed].k))
        /\ program[at].k = "end"
    BY <1>2, <1>10 DEF LintEnd, Lint, Go, Here
  <2>2. PICK found : errors' = errors \cup found
    BY <1>10 DEF LintEnd, Go
  <2>3. PICK i, s : i \in DOMAIN program /\ i = at /\ s = scope_stack
    BY <2>1
  <2>4. PICK new : new = SubSeq(s, 1, Len(s) - ScopesOf(program[Closed].k))
    OBVIOUS
  <2>5. Lexical(s, i) => Lexical(new, i + 1)
    BY <1>1, <2>1, <2>3, <2>4, LexicalEnd DEF Ends
  <2>6. DeclaredOnce(i) => DeclaredOnce(i + 1)
    BY <1>1, <2>1, <2>3, NothingDeclared DEF Block, Heads
  <2> QED
    BY <2>1, <2>2, <2>3, <2>4, <2>5, <2>6, ScopesStatement
<1>11. CASE LintDone
  BY <1>1, <1>11 DEF LintDone, ScopesInv
<1>12. CASE LintForAssign
  <2>1. /\ pass = "lint" /\ at \in DOMAIN program /\ program' = program /\ pass' = pass /\ at' = at + 1
        /\ scope_stack' = PushScope(PushScope(scope_stack))
        /\ program[at].k = "forassign"
    BY <1>2, <1>12 DEF LintForAssign, Lint, Go, Here
  <2>2. PICK found : errors' = errors \cup found
    BY <1>12 DEF LintForAssign, Go
  <2>3. PICK i, s : i \in DOMAIN program /\ i = at /\ s = scope_stack
    BY <2>1
  <2>4. PICK new : new = PushScope(PushScope(s))
    OBVIOUS
  <2>5. Lexical(s, i) => Lexical(new, i + 1)
    BY <1>1, <2>1, <2>3, <2>4, LexicalForAssign
  <2>6. DeclaredOnce(i) => DeclaredOnce(i + 1)
    BY <1>1, <2>1, <2>3, NothingDeclared
  <2> QED
    BY <2>1, <2>2, <2>3, <2>4, <2>5, <2>6, ScopesStatement
<1> QED
  BY <1>4, <1>5, <1>6, <1>7, <1>8, <1>9, <1>10, <1>11, <1>12 DEF LintNext

\* Behind the linter the program stays.
LEMMA BehindTheLinter ==
  ASSUME program \in Program, Next, ~LintNext
  PROVE  program' = program /\ pass \in {"lower", "emit"} /\ pass' \in {"lower", "emit"}
<1>1. ASSUME \/ LowerGlobal \/ LowerFunction \/ LowerDeclaration \/ LowerAssignment \/ LowerExpression
             \/ LowerConditional \/ LowerPlainBlock \/ LowerFor \/ LowerForAssign \/ LowerEnd
      PROVE  program' = program /\ pass = "lower" /\ pass' = pass
  BY <1>1 DEF LowerGlobal, LowerFunction, LowerDeclaration, LowerAssignment, LowerExpression,
       LowerConditional, LowerPlainBlock, LowerFor, LowerForAssign, LowerEnd, Lower, Emit
<1>2. ASSUME LowerDone PROVE program' = program /\ pass = "lower" /\ pass' = "emit"
  BY <1>2 DEF LowerDone
<1>3. ASSUME EmitEnter \/ EmitStore \/ EmitLoad \/ EmitLoadFails \/ EmitSkip
      PROVE  program' = program /\ pass = "emit" /\ pass' = pass
  BY <1>3 DEF EmitEnter, EmitStore, EmitLoad, EmitLoadFails, EmitSkip, Instruction, Emitted, lintVars
<1> QED
  BY <1>1, <1>2, <1>3 DEF Next

\* Every step of analyze() and of the passes behind it does.
LEMMA ScopesNext == ScopesInv /\ [Next]_vars => ScopesInv'
<1>1. ASSUME ScopesInv, LintNext PROVE ScopesInv'
  BY <1>1, ScopesLint
<1>2. ASSUME ScopesInv, Next, ~LintNext PROVE ScopesInv'
  BY <1>2, BehindTheLinter DEF ScopesInv
<1>3. ASSUME ScopesInv, UNCHANGED vars PROVE ScopesInv'
  <2>1. /\ program' = program /\ pass' = pass /\ at' = at /\ scope_stack' = scope_stack
        /\ errors' = errors /\ const_variables' = const_variables
    BY <1>3 DEF vars, lintVars
  <2>2. PICK i, s : i = at /\ s = scope_stack
    OBVIOUS
  <2>3. Lexical(s, i)' = Lexical(s, i) /\ DeclaredOnce(i)' = DeclaredOnce(i)
    BY <2>1, SameProgram
  <2>4. (Lexical(scope_stack, at) => Lexical(scope_stack, at)') /\ (DeclaredOnce(at) => DeclaredOnce(at)')
    BY <2>1, <2>2, <2>3
  <2> QED
    BY <1>3, <2>1, <2>4 DEF ScopesInv, Accepted
<1> QED
  BY <1>1, <1>2, <1>3

-------------------------------------------------------------------------------
(* Names are resolved lexically. *)

\* Of two declarations that are visible the one in the inner scope comes later.
LEMMA InnerIsLater ==
  ASSUME program \in Program, NEW i \in 1..Len(program) + 1,
         NEW d \in Declarations, d.at < i, Rank(d.scope) \in RanksAt(i),
         NEW e \in Declarations, e.at < i, Rank(e.scope) \in RanksAt(i), Rank(d.scope) < Rank(e.scope)
  PROVE  d.at < e.at
<1>1. PICK j, u, k, o : j = d.at /\ u = d.scope[1] /\ k = e.at /\ o = e.scope[1]
  OBVIOUS
<1>2. /\ j \in Nat \ {0}
      /\ \/ /\ program[j].k \in Block /\ u \in 0..j - 1 /\ Rank(d.scope) = 2 * u + 1
            /\ \A q \in OpenAt(j) : q <= u
         \/ program[j].k \in Heads /\ Rank(d.scope) = 2 * j
  BY <1>1, RankOfDeclaration
<1>3. /\ k \in Nat \ {0}
      /\ \/ /\ program[k].k \in Block /\ o \in 0..k - 1 /\ Rank(e.scope) = 2 * o + 1
            /\ o # 0 => o \in OpenAt(k)
         \/ program[k].k \in Heads /\ o = k /\ Rank(e.scope) = 2 * k
  BY <1>1, RankOfDeclaration
<1>4. o = 0 \/ i <= Close(o)
  BY <1>1, VisibleIsOpen
<1>5. i \in Nat /\ j < i /\ k < i
  BY <1>1, ProgramDomain
<1>6. ASSUME o # 0, o < j PROVE o \in OpenAt(j)
  <2>1. Opens(o) /\ o \in DOMAIN program
    <3>1. CASE o \in OpenAt(k)
      <4>1. o \in 1..(k - 1) /\ Opens(o)
        BY <3>1 DEF OpenAt
      <4> QED
        BY <4>1, <1>1, <1>3, RankOfDeclaration, ProgramDomain
    <3>2. CASE program[k].k \in Heads /\ o = k
      BY <1>1, <3>2, RankOfDeclaration DEF Opens, Openers, Heads
    <3> QED
      BY <1>3, <1>6, <3>1, <3>2
  <2>2. o \in 1..(j - 1) /\ o \in Nat
    BY <1>2, <1>3, <1>6
  <2>3. Close(o) \in Nat
    BY <2>1, CloseFacts, ProgramDomain
  <2>4. j <= Close(o)
    BY <1>2, <1>4, <1>5, <1>6, <2>3
  <2> QED
    BY <2>1, <2>2, <2>4 DEF OpenAt
<1>7. Heads \cap Block = {}
  BY DEF Heads, Block
<1>8. CASE program[k].k \in Heads /\ o = k /\ Rank(e.scope) = 2 * k
  <2>1. SUFFICES ASSUME k <= j PROVE FALSE
    BY <1>1, <1>2, <1>3
  <2>2. /\ program[j].k \in Block /\ u \in 0..j - 1 /\ Rank(d.scope) = 2 * u + 1
        /\ \A q \in OpenAt(j) : q <= u
    BY <1>2, <1>3, <1>8, <2>1
  <2>3. k < j
    BY <1>2, <1>3, <1>7, <1>8, <2>1, <2>2
  <2>4. k <= u
    BY <1>3, <1>6, <1>8, <2>2, <2>3
  <2> QED
    BY <1>3, <1>8, <2>2, <2>4
<1>9. CASE program[k].k \in Block /\ o \in 0..k - 1 /\ Rank(e.scope) = 2 * o + 1
  <2>1. SUFFICES ASSUME k <= j PROVE FALSE
    BY <1>1, <1>2, <1>3
  <2>2. /\ u \in 0..j - 1 /\ Rank(d.scope) = 2 * u + 1 /\ \A q \in OpenAt(j) : q <= u
    BY <1>2, <1>3, <1>9, <2>1
  <2>3. u < o
    BY <1>9, <2>2
  <2>4. o <= u
    BY <1>2, <1>3, <1>6, <1>9, <2>1, <2>2, <2>3
  <2> QED
    BY <1>9, <2>2, <2>3, <2>4
<1> QED
  BY <1>3, <1>8, <1>9

\* A name is found when one of its declarations is visible, with the type of the
\* latest of them.
LEMMA LexicalLookup ==
  ASSUME program \in Program, NEW i \in 1..Len(program) + 1, NEW scopes, Lexical(scopes, i),
         NEW x, NEW before, before = {d \in Visible(i, x) : d.at < i}
  PROVE  /\ before = {} <=> Holding(scopes, x) = {}
         /\ \A d \in before : (\A e \in before : e.at <= d.at) => Lookup(scopes, x) = d.type
         /\ before # {} => \E d \in before : \A e \in before : e.at <= d.at
<1>1. PICK ranks \in Seq(Nat) : Stacked(scopes, ranks, i) /\ Range(ranks) = RanksAt(i)
  BY DEF Lexical
<1>2. /\ scopes \in Seq(Range(scopes)) /\ Len(scopes) = Len(ranks) /\ Len(ranks) \in Nat
      /\ DOMAIN scopes = 1..Len(ranks) /\ DOMAIN ranks = 1..Len(ranks)
      /\ \A s, t \in 1..Len(ranks) : s < t => ranks[s] < ranks[t]
      /\ \A s \in 1..Len(ranks) : IsScope(scopes[s], ranks[s], i) /\ ranks[s] \in Nat
  BY <1>1, LenProperties, ElementOfSeq DEF Stacked
<1>3. \A d \in Declarations : d.at \in Nat
  BY RankOfDeclaration
<1>4. i \in Nat
  BY ProgramDomain
<1>5. \A d : d \in before <=> d \in Declarations /\ d.name = x /\ d.at < i /\ Rank(d.scope) \in RanksAt(i)
  <2>1. \A d \in Declarations : d.at < i => d.at <= i
    BY <1>3, <1>4
  <2> QED
    BY <2>1, VisibleIsOpen DEF Visible
<1>6. PICK H : H = Holding(scopes, x)
  OBVIOUS
<1>7. \A s : s \in H <=> s \in 1..Len(ranks) /\ \E d \in Met(ranks[s], i) : d.name = x
  BY <1>2, <1>6 DEF Holding, IsScope
<1>8. \A s \in H : \E d \in before : Rank(d.scope) = ranks[s]
  BY <1>1, <1>2, <1>5, <1>7 DEF Met, Range
<1>9. \A d \in before : \E s \in H : Rank(d.scope) = ranks[s]
  BY <1>1, <1>2, <1>5, <1>7 DEF Met, Range
<1>10. before = {} <=> H = {}
  BY <1>8, <1>9
<1>11. ASSUME NEW d \in before, \A e \in before : e.at <= d.at PROVE Lookup(scopes, x) = d.type
  <2>1. H \in SUBSET (0..Len(ranks)) /\ H # {}
    BY <1>2, <1>7, <1>10
  <2>2. PICK m \in H : m = Max(H) /\ \A s \in H : s <= m
    BY <1>2, <2>1, MaxFacts
  <2>3. PICK s \in H : Rank(d.scope) = ranks[s]
    BY <1>9
  <2>4. PICK e \in before : Rank(e.scope) = ranks[m]
    BY <1>8, <2>2
  <2>5. m \in 1..Len(ranks) /\ s \in 1..Len(ranks) /\ s <= m
    BY <1>7, <2>2, <2>3
  <2>6. s = m
    <3>1. SUFFICES ASSUME s < m PROVE FALSE
      BY <2>5
    <3>2. Rank(d.scope) < Rank(e.scope)
      BY <1>2, <2>3, <2>4, <2>5, <3>1
    <3>3. d.at < e.at
      BY <1>5, <3>2, InnerIsLater
    <3>4. d.at \in Nat /\ e.at \in Nat /\ e.at <= d.at
      BY <1>3, <1>5, <1>11
    <3> QED
      BY <3>3, <3>4
  <2>7. d \in Met(ranks[m], i) /\ d.name = x
    BY <1>5, <2>3, <2>6 DEF Met
  <2>8. scopes[m][x] = d.type
    BY <1>2, <2>5, <2>7 DEF IsScope
  <2> QED
    BY <1>6, <2>1, <2>2, <2>8 DEF Lookup
<1>12. ASSUME before # {} PROVE \E d \in before : \A e \in before : e.at <= d.at
  <2>1. PICK T : T = {d.at : d \in before}
    OBVIOUS
  <2>2. T \in SUBSET (0..i) /\ T # {}
    <3>1. \A d \in before : d.at \in 0..i
      BY <1>3, <1>4, <1>5
    <3>2. T \subseteq 0..i
      BY <2>1, <3>1
    <3>3. T # {}
      BY <1>12, <2>1
    <3> QED
      BY <3>2, <3>3
  <2>3. Max(T) \in T /\ \A m \in T : m <= Max(T)
    BY <1>4, <2>2, MaxFacts
  <2> QED
    BY <2>1, <2>3
<1> QED
  BY <1>6, <1>10, <1>11, <1>12

\* The linter's stack of scopes resolves names as the nesting of blocks in the
\* program does: a name is found exactly when a declaration of it holds where the
\* walk stands, and has the type of the innermost of those.
THEOREM NamesResolveLexically == Spec => []ResolvesLexically
<1>1. ScopesInv => ResolvesLexically
  <2> SUFFICES ASSUME ScopesInv, pass = "lint", at <= Len(program), Accepted,
                      NEW x, NEW before, before = {d \in Visible(at, x) : d.at < at}
               PROVE  /\ before = {} <=> Holding(scope_stack, x) = {}
                      /\ before # {} => Lookup(scope_stack, x) =
                                          (CHOOSE d \in before : \A e \in before : e.at <= d.at).type
    BY DEF ResolvesLexically
  <2>1. PICK i, s : i = at /\ s = scope_stack
    OBVIOUS
  <2>2. program \in Program /\ i \in 1..Len(program) + 1 /\ Lexical(s, i)
    BY <2>1 DEF ScopesInv
  <2>3. before = {d \in Visible(i, x) : d.at < i}
    BY <2>1
  <2>4. /\ before = {} <=> Holding(s, x) = {}
        /\ \A d \in before : (\A e \in before : e.at <= d.at) => Lookup(s, x) = d.type
        /\ before # {} => \E d \in before : \A e \in before : e.at <= d.at
    BY <2>2, <2>3, LexicalLookup
  <2>5. ASSUME before # {}
        PROVE  Lookup(s, x) = (CHOOSE d \in before : \A e \in before : e.at <= d.at).type
    <3>1. PICK d : d = CHOOSE c \in before : \A e \in before : e.at <= c.at
      OBVIOUS
    <3>2. d \in before /\ \A e \in before : e.at <= d.at
      BY <2>4, <2>5, <3>1
    <3> QED
      BY <2>4, <3>1, <3>2
  <2> QED
    BY <2>1, <2>4, <2>5
<1>2. Spec => []ScopesInv
  BY ScopesInit, ScopesNext, PTL DEF Spec
<1> QED
  BY <1>1, <1>2, PTL

-------------------------------------------------------------------------------
(* What is accepted is sound. *)

\* The numbers up to n are n.
LEMMA FirstNumbers ==
  ASSUME NEW n \in Nat
  PROVE  Cardinality(1..n) = n
<1>1. 1 \in Int /\ n \in Int /\ n - 1 + 1 = n /\ (1 > n => n = 0)
  OBVIOUS
<1>2. Cardinality(1..n) = IF 1 > n THEN 0 ELSE n - 1 + 1
  BY <1>1, FS_Interval
<1> QED
  BY <1>1, <1>2

\* A variadic function has all its parameters but the last as fixed ones.
LEMMA FixedParameters ==
  ASSUME NEW params, params \in Seq(Range(params)),
         \A q \in DOMAIN params : params[q].name = "__varargs" => q = Len(params),
         NEW fixed, fixed = {p \in DOMAIN params : params[p].name # "__varargs"}
  PROVE  IF params # <<>> /\ Last(params).name = "__varargs"
         THEN fixed # DOMAIN params /\ Cardinality(fixed) = Len(params) - 1
         ELSE fixed = DOMAIN params /\ Cardinality(fixed) = Len(params)
<1>1. Len(params) \in Nat /\ DOMAIN params = 1..Len(params) /\ (params = <<>> <=> Len(params) = 0)
  BY LenProperties, EmptySeq
<1>2. PICK n \in Nat : n = Len(params) /\ DOMAIN params = 1..n
  BY <1>1
<1>3. Last(params) = params[n]
  BY <1>2 DEF Last
<1>4. CASE params # <<>> /\ Last(params).name = "__varargs"
  <2>1. n \in 1..n
    BY <1>1, <1>2, <1>4
  <2>2. fixed = 1..(n - 1)
    BY <1>2, <1>3, <1>4, <2>1
  <2>3. PICK m \in Nat : m = n - 1
    BY <1>2, <2>1
  <2>4. Cardinality(1..m) = m
    BY FirstNumbers
  <2>5. n \notin fixed
    BY <1>2, <2>2
  <2> QED
    BY <1>2, <1>4, <2>1, <2>2, <2>3, <2>4, <2>5
<1>5. CASE ~(params # <<>> /\ Last(params).name = "__varargs")
  <2>1. \A q \in 1..n : params[q].name # "__varargs"
    BY <1>1, <1>2, <1>3, <1>5
  <2>2. fixed = 1..n
    BY <1>2, <2>1
  <2>3. Cardinality(1..n) = n
    BY FirstNumbers
  <2> QED
    BY <1>2, <1>5, <2>2, <2>3
<1> QED
  BY <1>4, <1>5

\* collect_functions() knows every function as its last definition has it.
LEMMA KnownCollected ==
  ASSUME program \in Program, CollectFunctions
  PROVE  KnownRight'
<1>1. program' = program
  BY DEF CollectFunctions
<1>2. DOMAIN known' = {program[i].name : i \in {j \in DOMAIN program : program[j].k = "function"}} \cup {"alloc"}
  BY DEF CollectFunctions
<1>3. \A f \in DOMAIN known' : known'[f] = Signature(f)
  BY <1>2 DEF CollectFunctions
<1>4. ASSUME NEW f \in DOMAIN known', Functions(f) # {}
      PROVE  \E i \in Functions(f) :
               LET params == program[i].params IN
               IF params # <<>> /\ Last(params).name = "__varargs"
               THEN known'[f].variadic /\ known'[f].min = Len(params) - 1
               ELSE ~known'[f].variadic /\ known'[f].min = Len(params)
  <2>1. PICK p \in Program : p = program /\ Len(p) \in Nat /\ DOMAIN p = 1..Len(p)
    BY ProgramFacts
  <2>2. PICK T : T = Functions(f)
    OBVIOUS
  <2>3. T \in SUBSET (0..Len(p)) /\ T # {} /\ \A i \in T : i \in DOMAIN p /\ p[i].k = "function"
    <3>1. \A i \in T : i \in DOMAIN p /\ p[i].k = "function"
      BY <2>1, <2>2 DEF Functions
    <3>2. T # {}
      BY <1>4, <2>2
    <3>3. T \in SUBSET (0..Len(p))
      BY <2>1, <3>1
    <3> QED
      BY <3>1, <3>2, <3>3
  <2>4. PICK i \in T : i = Max(T)
    BY <2>1, <2>3, MaxFacts
  <2>5. PICK params, fixed : params = p[i].params /\ fixed = Fixed(i)
    OBVIOUS
  <2>6. /\ params \in Seq(Range(params))
        /\ \A q \in DOMAIN params : params[q].name = "__varargs" => q = Len(params)
    BY <2>3, <2>5, TreeAssumption
  <2>7. fixed = {q \in DOMAIN params : params[q].name # "__varargs"}
    BY <2>1, <2>5 DEF Fixed
  <2>8. IF params # <<>> /\ Last(params).name = "__varargs"
        THEN fixed # DOMAIN params /\ Cardinality(fixed) = Len(params) - 1
        ELSE fixed = DOMAIN params /\ Cardinality(fixed) = Len(params)
    BY <2>6, <2>7, FixedParameters
  <2>9. known'[f].min = Cardinality(fixed)
    <3>1. Signature(f).min = Cardinality(fixed)
      BY <2>1, <2>2, <2>3, <2>4, <2>5 DEF Signature
    <3> QED
      BY <1>3, <1>4, <3>1
  <2>10. PICK b \in BOOLEAN : b <=> fixed # DOMAIN params
    OBVIOUS
  <2>11. known'[f].variadic = b
    <3>1. b = (fixed # DOMAIN params)
      BY <2>10, Zenon
    <3>2. Signature(f) = [min |-> Cardinality(fixed), variadic |-> b, result |-> p[i].type]
      BY <2>1, <2>2, <2>3, <2>4, <2>5, <3>1, Zenon DEF Signature
    <3> QED
      BY <1>3, <1>4, <3>2
  <2> QED
    BY <2>1, <2>2, <2>5, <2>8, <2>9, <2>10, <2>11
<1>5. ASSUME NEW f \in DOMAIN known', Functions(f) = {}
      PROVE  ~known'[f].variadic /\ known'[f].min = 1
  <2>1. known'[f] = [min |-> 1, variadic |-> FALSE, result |-> Unknown]
    BY <1>3, <1>5, Zenon DEF Signature
  <2> QED
    BY <2>1
<1>6. \A f : Functions(f)' = Functions(f)
  BY <1>1 DEF Functions
<1> QED
  BY <1>1, <1>2, <1>4, <1>5, <1>6 DEF KnownRight

\* A name the stack has, in front of a statement or behind it, is visible there.
LEMMA SeenIsVisible ==
  ASSUME program \in Program, NEW i \in DOMAIN program, NEW scopes,
         Lexical(scopes, i) \/ Lexical(scopes, i + 1), NEW x, Holding(scopes, x) # {}
  PROVE  Visible(i, x) # {}
<1>1. PICK j \in {i, i + 1} : Lexical(scopes, j)
  OBVIOUS
<1>2. i \in Nat /\ j \in Nat /\ i <= j /\ j <= i + 1 /\ j \in 1..Len(program) + 1
  BY <1>1, ProgramDomain
<1>3. PICK before : before = {d \in Visible(j, x) : d.at < j}
  OBVIOUS
<1>4. before # {}
  BY <1>1, <1>2, <1>3, LexicalLookup
<1>5. PICK d \in Visible(j, x) : d.at < j
  BY <1>3, <1>4
<1>6. d \in Declarations /\ d.name = x /\ (d.scope[1] = 0 \/ j <= Close(d.scope[1]))
  BY <1>5 DEF Visible
<1>7. d.at <= i
  BY <1>2, <1>5, <1>6, RankOfDeclaration
<1>8. d.scope[1] = 0 \/ i <= Close(d.scope[1])
  <2>1. SUFFICES ASSUME d.scope[1] # 0 PROVE i <= Close(d.scope[1])
    OBVIOUS
  <2>2. PICK o : o = d.scope[1]
    OBVIOUS
  <2>3. o \in DOMAIN program /\ Opens(o)
    <3>1. PICK k \in DOMAIN program : k = d.at
      BY <1>6, RankOfDeclaration
    <3>2. CASE o \in OpenAt(k)
      <4>1. o \in 1..(k - 1) /\ Opens(o)
        BY <3>2 DEF OpenAt
      <4> QED
        BY <4>1, ProgramDomain
    <3>3. CASE program[k].k \in Heads /\ o = k
      BY <3>3 DEF Opens, Openers, Heads
    <3> QED
      BY <1>6, <2>1, <2>2, <3>1, <3>2, <3>3, RankOfDeclaration
  <2>4. Close(o) \in Nat /\ j <= Close(o)
    BY <1>6, <2>1, <2>2, <2>3, CloseFacts, ProgramDomain
  <2> QED
    BY <1>2, <2>2, <2>4
<1>9. d \in Visible(i, x)
  BY <1>6, <1>7, <1>8 DEF Visible
<1> QED
  BY <1>9

\* An expression in which lint_expr() finds no error has none of the faults.
LEMMA NodesFound ==
  ASSUME KnownRight, NEW i, NEW scopes, \A x : Holding(scopes, x) # {} => Visible(i, x) # {},
         NEW expr, \A e \in LintExpr(scopes, expr) : e.level # "error"
  PROVE  NodesSound(i, expr)
<1>1. SUFFICES ASSUME NEW j \in DOMAIN expr, NEW x, x = expr[j].name
               PROVE  /\ expr[j].n = "var" => Visible(i, x) # {} \/ Functions(x) # {} \/ x = "alloc"
                      /\ expr[j].n \in {"member", "index"} => Visible(i, x) # {}
                      /\ expr[j].n = "call" => ~Unmet(expr[j])
  BY DEF NodesSound
<1>2. PICK c :
        c = CASE expr[j].n = "var" /\ Holding(scopes, expr[j].name) = {} /\ expr[j].name \notin DOMAIN known ->
                   {Found("error", "undeclared")}
              [] expr[j].n \in {"member", "index"} /\ Holding(scopes, expr[j].name) = {} ->
                   {Found("error", "undeclared")}
              [] expr[j].n = "call" /\ expr[j].name \notin DOMAIN known -> {Found("error", "no such function")}
              [] expr[j].n = "call" /\ expr[j].name \in DOMAIN known /\ WrongArity(expr[j]) ->
                   {Found("error", "arguments")}
              [] OTHER -> {}
  OBVIOUS
<1>3. c \subseteq LintExpr(scopes, expr)
  BY <1>2, Zenon DEF LintExpr
<1>4. \A what : c # {Found("error", what)}
  <2>1. SUFFICES ASSUME NEW what, c = {Found("error", what)} PROVE FALSE
    OBVIOUS
  <2>2. Found("error", what) \in LintExpr(scopes, expr)
    BY <1>3, <2>1
  <2> QED
    BY <2>2 DEF Found
<1>5. ~(expr[j].n = "var" /\ Holding(scopes, x) = {} /\ x \notin DOMAIN known)
  BY <1>1, <1>2, <1>4
<1>6. ~(expr[j].n \in {"member", "index"} /\ Holding(scopes, x) = {})
  BY <1>1, <1>2, <1>4
<1>7. ~(expr[j].n = "call" /\ x \notin DOMAIN known)
  BY <1>1, <1>2, <1>4
<1>8. ~(expr[j].n = "call" /\ x \in DOMAIN known /\ WrongArity(expr[j]))
  BY <1>1, <1>2, <1>4
<1>9. ASSUME expr[j].n = "var" PROVE Visible(i, x) # {} \/ Functions(x) # {} \/ x = "alloc"
  <2>1. CASE Holding(scopes, x) # {}
    BY <2>1
  <2>2. CASE x \in DOMAIN known
    BY <2>2 DEF KnownRight, Functions
  <2> QED
    BY <1>5, <1>9, <2>1, <2>2
<1>10. ASSUME expr[j].n = "call" PROVE ~Unmet(expr[j])
  <2>1. SUFFICES ASSUME Functions(x) = {} => ~(x = "alloc" /\ expr[j].given = 1), \A f \in Functions(x) :
                          LET params == program[f].params
                              variadic == params # <<>> /\ Last(params).name = "__varargs"
                          IN  IF variadic THEN expr[j].given < Len(params) - 1 ELSE expr[j].given # Len(params)
                 PROVE  FALSE
    BY <1>1 DEF Unmet
  <2>2. x \in DOMAIN known /\ ~WrongArity(expr[j])
    BY <1>7, <1>8, <1>10
  <2>3. Functions(x) # {}
    <3>1. SUFFICES ASSUME Functions(x) = {} PROVE FALSE
      OBVIOUS
    <3>2. x = "alloc"
      BY <2>2, <3>1 DEF KnownRight, Functions
    <3>3. ~known[x].variadic /\ known[x].min = 1
      BY <2>2, <3>1 DEF KnownRight
    <3>4. expr[j].given = 1
      BY <1>1, <2>2, <3>3 DEF WrongArity
    <3> QED
      BY <2>1, <3>1, <3>2, <3>4
  <2>4. PICK f \in Functions(x) : LET params == program[f].params IN
          IF params # <<>> /\ Last(params).name = "__varargs"
          THEN known[x].variadic /\ known[x].min = Len(params) - 1
          ELSE ~known[x].variadic /\ known[x].min = Len(params)
    BY <2>2, <2>3 DEF KnownRight
  <2>5. IF known[x].variadic THEN ~(expr[j].given < known[x].min) ELSE expr[j].given = known[x].min
    BY <1>1, <2>2 DEF WrongArity
  <2> QED
    BY <2>1, <2>4, <2>5
<1> QED
  BY <1>6, <1>9, <1>10

\* The constants behind a statement.
LEMMA ConstantsNext ==
  ASSUME program \in Program, NEW i \in DOMAIN program, NEW names, NEW more, ConstantsIn(i, names),
         names \subseteq more,
         program[i].k \in Block /\ program[i].k # "array" /\ program[i].const => program[i].name \in more
  PROVE  ConstantsIn(i + 1, more)
<1>1. ASSUME NEW d \in Declarations, d.at < i + 1, Constant(d) PROVE d.name \in more
  <2>1. d.at \in Nat /\ i \in Nat
    BY RankOfDeclaration, ProgramDomain
  <2>2. CASE d.at < i
    BY <1>1, <2>2 DEF ConstantsIn
  <2>3. CASE d.at = i
    <3>1. program[i].k # "array" /\ d.const
      BY <1>1, <2>3 DEF Constant
    <3>2. program[i].k \in Block
      <4>1. program[i].k \in Block \/ program[i].k \in Heads
        BY <2>3, DeclarationKinds
      <4>2. program[i].k \in Heads => d.const = FALSE
        BY <2>3, DeclarationKinds
      <4> QED
        BY <3>1, <4>1, <4>2
    <3>3. d.const = program[i].const
      BY <2>3, <3>2, DeclarationKinds
    <3>4. d.name = program[i].name
      <4>1. program[i].k # "function"
        BY <3>2 DEF Block
      <4> QED
        BY <2>3, <4>1, DeclarationKinds
    <3> QED
      BY <3>1, <3>2, <3>3, <3>4
  <2> QED
    BY <1>1, <2>1, <2>2, <2>3
<1> QED
  BY <1>1 DEF ConstantsIn

\* What makes a statement sound.
LEMMA SoundWhen ==
  ASSUME program \in Program, NEW i \in DOMAIN program,
         program[i].k # "global" => \A expr \in Expressions(program[i]) : NodesSound(i, expr),
         program[i].k = "assign" =>
           Visible(i, program[i].name) # {} /\ ~Constant(Meaning(i, program[i].name)),
         program[i].k \in {"for", "forassign"} => StepSound(i),
         program[i].k \in {"global", "declare"} /\ program[i].const => program[i].init # <<>>
  PROVE  Sound(i)
<1>1. ASSUME NEW d \in Declarations, d.at = i, Constant(d), ~d.stored, program[i].k # "struct" PROVE FALSE
  <2>1. program[i].k # "array" /\ d.const
    BY <1>1 DEF Constant
  <2>2. program[i].k \in Block
    <3>1. program[i].k \in Block \/ program[i].k \in Heads
      BY <1>1, DeclarationKinds
    <3>2. program[i].k \in Heads => d.const = FALSE
      BY <1>1, DeclarationKinds
    <3> QED
      BY <2>1, <3>1, <3>2
  <2>3. program[i].k \in {"global", "declare"}
    BY <1>1, <2>1, <2>2 DEF Block
  <2>4. d.const = program[i].const /\ d.stored = (program[i].init # <<>>)
    BY <1>1, <2>2, DeclarationKinds
  <2> QED
    BY <1>1, <2>1, <2>3, <2>4
<1> QED
  BY <1>1 DEF Sound

\* A name that is assigned to, and none of the constants.
LEMMA AssignedSound ==
  ASSUME program \in Program, NEW i \in DOMAIN program, program[i].k = "assign",
         NEW scopes, Lexical(scopes, i), NEW x, Holding(scopes, x) # {},
         NEW names, ConstantsIn(i, names), x \notin names
  PROVE  Visible(i, x) # {} /\ ~Constant(Meaning(i, x))
<1>1. i \in Nat /\ i \in 1..Len(program) + 1 /\ \A d \in Declarations : d.at \in Nat
  BY ProgramDomain, RankOfDeclaration
<1>2. \A d \in Declarations : d.at # i
  <2>1. program[i].k \notin Block \cup Heads
    BY DEF Block, Heads
  <2> QED
    BY <2>1, NothingDeclared
<1>3. PICK before : before = {d \in Visible(i, x) : d.at < i}
  OBVIOUS
<1>4. \A d \in Visible(i, x) : d \in Declarations /\ d.name = x /\ d.at < i
  BY <1>1, <1>2 DEF Visible
<1>5. before = Visible(i, x)
  BY <1>3, <1>4
<1>6. before # {} /\ \E d \in before : \A e \in before : e.at <= d.at
  BY <1>1, <1>3, LexicalLookup
<1>7. Meaning(i, x) \in Visible(i, x)
  BY <1>5, <1>6 DEF Meaning
<1>8. ~Constant(Meaning(i, x))
  BY <1>4, <1>7 DEF ConstantsIn
<1> QED
  BY <1>5, <1>6, <1>8

\* When every statement is sound there is no fault.
LEMMA NoFault ==
  ASSUME program \in Program, \A i \in DOMAIN program : Sound(i), DeclaredOnce(Len(program) + 1)
  PROVE  ~Faulty
<1>1. ASSUME NEW i \in DOMAIN program, NEW expr \in Expressions(program[i]), program[i].k # "global",
             NEW j \in DOMAIN expr
      PROVE  ~ \/ /\ expr[j].n = "var" /\ Undeclared(i, expr[j].name)
                  /\ Functions(expr[j].name) = {} /\ expr[j].name # "alloc"
               \/ expr[j].n \in {"member", "index"} /\ Undeclared(i, expr[j].name)
               \/ expr[j].n = "call" /\ Unmet(expr[j])
  <2>1. NodesSound(i, expr)
    BY <1>1 DEF Sound
  <2> QED
    BY <2>1 DEF NodesSound, Undeclared
<1>2. ASSUME NEW i \in DOMAIN program, program[i].k = "assign"
      PROVE  ~ \/ Undeclared(i, program[i].name)
               \/ Visible(i, program[i].name) # {} /\ Constant(Meaning(i, program[i].name))
  BY <1>2 DEF Sound, Undeclared
<1>3. ASSUME NEW i \in DOMAIN program, program[i].k \in {"for", "forassign"}
      PROVE  ~ /\ Undeclared(i, program[i].step.name)
               /\ Functions(program[i].step.name) = {} /\ program[i].step.name # "alloc"
  BY <1>3 DEF Sound, StepSound, Undeclared
<1>4. ASSUME NEW d \in Declarations, NEW e \in Declarations, d.name = e.name, d.scope = e.scope
      PROVE  d = e
  <2>1. PICK n \in Nat : n = Len(program) /\ DOMAIN program = 1..n
    BY ProgramDomain
  <2>2. d.at \in 1..n /\ e.at \in 1..n
    BY <2>1, RankOfDeclaration
  <2>3. d.at < n + 1 /\ e.at < n + 1
    BY <2>1, <2>2
  <2>4. Rank(d.scope) = Rank(e.scope)
    BY <1>4
  <2> QED
    BY <1>4, <2>1, <2>3, <2>4 DEF DeclaredOnce
<1>5. ASSUME NEW d \in Declarations PROVE ~(Constant(d) /\ ~d.stored /\ program[d.at].k # "struct")
  <2>1. Sound(d.at)
    BY DeclarationKinds
  <2> QED
    BY <2>1 DEF Sound
<1> QED
  BY <1>1, <1>2, <1>3, <1>4, <1>5 DEF Faulty

\* The faults of a program are there whatever the linter has seen.
LEMMA SameFaults ==
  ASSUME program' = program
  PROVE  /\ \A i : Sound(i)' = Sound(i)
         /\ \A i, names : ConstantsIn(i, names)' = ConstantsIn(i, names)
         /\ Faulty' = Faulty
         /\ known' = known => KnownRight' = KnownRight
<1>1. Declarations' = Declarations
  BY SameProgram
<1>2. \A o : Close(o)' = Close(o)
  BY DEF Close
<1>3. \A i, x : Visible(i, x)' = Visible(i, x)
  BY <1>1, <1>2 DEF Visible
<1>4. \A i, x : Meaning(i, x)' = Meaning(i, x)
  BY <1>3 DEF Meaning
<1>5. \A f : Functions(f)' = Functions(f)
  BY DEF Functions
<1>6. \A d : Constant(d)' = Constant(d)
  BY DEF Constant
<1>7. \A node : Unmet(node)' = Unmet(node)
  BY <1>5 DEF Unmet
<1>8. \A i, expr : NodesSound(i, expr)' = NodesSound(i, expr)
  BY <1>3, <1>5, <1>7 DEF NodesSound
<1>9. \A i : Sound(i)' = Sound(i)
  <2>1. \A i : StepSound(i)' = StepSound(i)
    BY <1>3, <1>5 DEF StepSound
  <2> QED
    BY <1>1, <1>3, <1>4, <1>6, <1>8, <2>1 DEF Sound
<1>10. \A i, names : ConstantsIn(i, names)' = ConstantsIn(i, names)
  BY <1>1, <1>6 DEF ConstantsIn
<1>11. \A i, x : Undeclared(i, x)' = Undeclared(i, x)
  BY <1>3 DEF Undeclared, Aggregate
<1>12. Faulty' = Faulty
  BY <1>1, <1>3, <1>4, <1>5, <1>6, <1>7, <1>11 DEF Faulty
<1>13. known' = known => KnownRight' = KnownRight
  BY <1>5 DEF KnownRight
<1> QED
  BY <1>9, <1>10, <1>12, <1>13

\* A statement that has no fault goes to those in front of it.
LEMMA SoundStatement ==
  ASSUME SoundInv, ScopesInv', pass = "lint", NEW i \in DOMAIN program, at = i,
         NEW found, errors' = errors \cup found, program' = program, pass' = pass, at' = at + 1,
         known' = known, NEW more, more = const_variables', ConstantsIn(i + 1, more),
         NEW old, old = scope_stack, NEW new, new = scope_stack',
         (\A e \in found : e.level # "error") /\ DeclaredOnce(i) /\ Lexical(old, i) /\ Lexical(new, i + 1) =>
           Sound(i)
  PROVE  SoundInv'
<1>1. program \in Program /\ pass' = "lint"
  BY DEF SoundInv, ScopesInv
<1>2. i \in Nat
  BY <1>1, ProgramDomain
<1>3. PICK m : m = i + 1 /\ m = at'
  OBVIOUS
<1>4. ConstantsIn(at, const_variables)'
  <2>1. ConstantsIn(m, more)'
    BY <1>3, SameFaults
  <2> QED
    BY <1>3, <2>1
<1>5. ASSUME Accepted' PROVE \A j \in 1..i : Sound(j)
  <2>1. Accepted /\ \A e \in found : e.level # "error"
    BY <1>5 DEF Accepted
  <2>2. DeclaredOnce(i) /\ Lexical(old, i) /\ \A j \in 1..(i - 1) : Sound(j)
    BY <2>1 DEF SoundInv, ScopesInv
  <2>3. Lexical(new, i + 1)
    <3>1. Lexical(scope_stack, at)'
      BY <1>1, <1>5 DEF ScopesInv
    <3>2. Lexical(new, m)'
      BY <1>3, <3>1
    <3>3. Lexical(new, m)
      BY <3>2, SameProgram
    <3> QED
      BY <1>3, <3>3
  <2>4. Sound(i)
    BY <2>1, <2>2, <2>3
  <2>5. \A j \in 1..i : j \in 1..(i - 1) \/ j = i
    BY <1>2
  <2> QED
    BY <2>2, <2>4, <2>5
<1>6. Accepted' => \A j \in 1..i : Sound(j)'
  BY <1>5, SameFaults
<1>7. (Accepted => \A j \in 1..at - 1 : Sound(j))'
  <2>1. at' - 1 = i
    BY <1>2
  <2> QED
    BY <1>6, <2>1
<1>8. KnownRight'
  BY SameFaults DEF SoundInv
<1> QED
  BY <1>1, <1>4, <1>7, <1>8 DEF SoundInv

\* A statement with one expression, for which no more than its scopes is needed.
LEMMA SoundSimple ==
  ASSUME program \in Program, KnownRight, NEW i \in DOMAIN program,
         NEW expr, Expressions(program[i]) \subseteq {expr},
         NEW scopes, Lexical(scopes, i) \/ Lexical(scopes, i + 1),
         \A e \in LintExpr(scopes, expr) : e.level # "error",
         program[i].k \notin {"assign", "for", "forassign"},
         program[i].k \in {"global", "declare"} /\ program[i].const => program[i].init # <<>>
  PROVE  Sound(i)
<1>1. \A x : Holding(scopes, x) # {} => Visible(i, x) # {}
  BY SeenIsVisible
<1>2. NodesSound(i, expr)
  BY <1>1, NodesFound
<1> QED
  BY <1>2, SoundWhen

\* The scopes in which a for is linted: with its counter, if it has one.
LoopScopes(i, scopes) ==
  IF program[i].k = "for" THEN Declare(PushScope(scopes), program[i].name, program[i].type)
                          ELSE PushScope(scopes)

\* A for, with a counter of its own or without one.
LEMMA LoopLint ==
  ASSUME LintFor \/ LintForAssign, NEW i, i = at, NEW scopes, scopes = LoopScopes(i, scope_stack)
  PROVE  /\ pass = "lint" /\ at <= Len(program) /\ pass' = pass /\ at' = at + 1
         /\ known' = known /\ const_variables' = const_variables
         /\ program[i].k \in {"for", "forassign"} /\ scope_stack' = PushScope(scopes)
         /\ \E found :
              /\ errors' = errors \cup found /\ StepName(scopes) \subseteq found
              /\ \A expr \in Expressions(program[i]) : LintExpr(scopes, expr) \subseteq found
              /\ \A e \in found :
                   \/ e = Found("error", "float counter")
                   \/ e \in Initialised(scopes, program[i]) \cup Condition(scopes, program[i].expr)
                   \/ \E expr \in Expressions(program[i]) : e \in LintExpr(scopes, expr)
                   \/ e \in StepName(scopes)
<1>1. PICK init, expr : init = program[i].init /\ expr = program[i].expr
  OBVIOUS
<1>2. CASE LintFor
  <2>1. program[i].k = "for"
    BY <1>2 DEF LintFor, Lint, Here
  <2>2. scopes = Declare(PushScope(scope_stack), program[i].name, program[i].type)
    BY <2>1 DEF LoopScopes
  <2>3. /\ pass = "lint" /\ at <= Len(program) /\ pass' = pass /\ at' = at + 1
        /\ known' = known /\ const_variables' = const_variables /\ scope_stack' = PushScope(scopes)
    BY <1>2, <2>2 DEF LintFor, Lint, Go, Here, NoConst
  <2>4. PICK counter : counter = IF program[i].type \in FloatTypes THEN {Found("error", "float counter")} ELSE {}
    OBVIOUS
  <2>5. PICK found : found = counter \cup Initialised(scopes, program[i]) \cup LintExpr(scopes, init)
                             \cup Condition(scopes, expr) \cup LintExpr(scopes, expr) \cup StepName(scopes)
    OBVIOUS
  <2>6. errors' = errors \cup found
    BY <1>1, <1>2, <2>2, <2>4, <2>5, Zenon DEF LintFor, Go, Here
  <2>7. Expressions(program[i]) = {init, expr}
    BY <1>1, <2>1 DEF Expressions
  <2>8. /\ StepName(scopes) \subseteq found
        /\ \A ex \in Expressions(program[i]) : LintExpr(scopes, ex) \subseteq found
    BY <2>5, <2>7
  <2>9. ASSUME NEW e \in found
        PROVE  \/ e = Found("error", "float counter")
               \/ e \in Initialised(scopes, program[i]) \cup Condition(scopes, program[i].expr)
               \/ \E ex \in Expressions(program[i]) : e \in LintExpr(scopes, ex)
               \/ e \in StepName(scopes)
    <3>1. CASE e \in counter
      BY <2>4, <3>1
    <3>2. CASE e \in LintExpr(scopes, init) \cup LintExpr(scopes, expr)
      BY <2>7, <3>2
    <3>3. CASE e \in Initialised(scopes, program[i]) \cup Condition(scopes, expr) \cup StepName(scopes)
      BY <1>1, <3>3
    <3> QED
      BY <2>5, <3>1, <3>2, <3>3
  <2> QED
    BY <2>1, <2>3, <2>6, <2>8, <2>9
<1>3. CASE LintForAssign
  <2>1. program[i].k = "forassign"
    BY <1>3 DEF LintForAssign, Lint, Here
  <2>2. scopes = PushScope(scope_stack)
    BY <2>1 DEF LoopScopes
  <2>3. /\ pass = "lint" /\ at <= Len(program) /\ pass' = pass /\ at' = at + 1
        /\ known' = known /\ const_variables' = const_variables /\ scope_stack' = PushScope(scopes)
    BY <1>3, <2>2 DEF LintForAssign, Lint, Go, Here, NoConst
  <2>4. PICK found : found = Condition(scopes, expr) \cup LintExpr(scopes, expr) \cup StepName(scopes)
    OBVIOUS
  <2>5. errors' = errors \cup found
    BY <1>1, <1>3, <2>2, <2>4, Zenon DEF LintForAssign, Go, Here
  <2>6. Expressions(program[i]) = {expr}
    BY <1>1, <2>1 DEF Expressions
  <2>7. /\ StepName(scopes) \subseteq found
        /\ \A ex \in Expressions(program[i]) : LintExpr(scopes, ex) \subseteq found
        /\ \A e \in found :
             \/ e \in Condition(scopes, program[i].expr)
             \/ \E ex \in Expressions(program[i]) : e \in LintExpr(scopes, ex)
             \/ e \in StepName(scopes)
    BY <1>1, <2>4, <2>6
  <2> QED
    BY <2>1, <2>3, <2>5, <2>7
<1> QED
  BY <1>2, <1>3

\* The innermost of the two scopes a for opens is empty yet.
LEMMA LoopLexical ==
  ASSUME program \in Program, NEW i \in DOMAIN program, program[i].k \in {"for", "forassign"},
         NEW old, Lexical(old, i), DeclaredOnce(i), NEW scopes, scopes = LoopScopes(i, old)
  PROVE  /\ Lexical(PushScope(scopes), i + 1)
         /\ \A x : Holding(PushScope(scopes), x) # {} <=> Holding(scopes, x) # {}
<1>1. PICK S : Lexical(PushScope(scopes), i + 1) /\ scopes \in Seq(S)
  <2>1. CASE program[i].k = "for"
    BY <2>1, LexicalFor DEF LoopScopes
  <2>2. CASE program[i].k # "for"
    <3>1. program[i].k = "forassign" /\ scopes = PushScope(old)
      BY <2>2 DEF LoopScopes
    <3> QED
      BY <3>1, LexicalForAssign
  <2> QED
    BY <2>1, <2>2
<1>2. PICK new : new = PushScope(scopes)
  OBVIOUS
<1>3. /\ DOMAIN new = 1..Len(scopes) + 1 /\ DOMAIN scopes = 1..Len(scopes) /\ Len(scopes) \in Nat
      /\ (\A t \in 1..Len(scopes) : new[t] = scopes[t]) /\ new[Len(scopes) + 1] = <<>>
  <2>1. scopes \in Seq(S \cup {<<>>})
    BY <1>1
  <2> QED
    BY <1>2, <2>1, AppendFacts DEF PushScope
<1>4. ASSUME NEW x, NEW s \in DOMAIN scopes, x \in DOMAIN scopes[s] PROVE s \in DOMAIN new /\ x \in DOMAIN new[s]
  BY <1>3, <1>4
<1>5. ASSUME NEW x, NEW s \in DOMAIN new, x \in DOMAIN new[s] PROVE s \in DOMAIN scopes /\ x \in DOMAIN scopes[s]
  <2>1. s # Len(scopes) + 1
    BY <1>3, <1>5
  <2> QED
    BY <1>3, <1>5, <2>1
<1>6. \A x : Holding(new, x) # {} <=> Holding(scopes, x) # {}
  BY <1>4, <1>5 DEF Holding
<1> QED
  BY <1>1, <1>2, <1>6

\* What is found there is visible.
LEMMA LoopSeen ==
  ASSUME program \in Program, NEW i \in DOMAIN program, program[i].k \in {"for", "forassign"},
         NEW old, Lexical(old, i), DeclaredOnce(i), NEW x, Holding(LoopScopes(i, old), x) # {}
  PROVE  Visible(i, x) # {}
<1>1. PICK scopes, new : scopes = LoopScopes(i, old) /\ new = PushScope(scopes)
  OBVIOUS
<1>2. Lexical(new, i + 1) /\ Holding(new, x) # {}
  BY <1>1, LoopLexical
<1> QED
  BY <1>2, SeenIsVisible

\* Every case of lint_block() finds an error in a statement that is not sound.
LEMMA SoundLint ==
  ASSUME SoundInv, LintNext
  PROVE  SoundInv'
<1>1. program \in Program /\ ScopesInv' /\ program' = program
  <2>1. ScopesInv
    BY DEF SoundInv
  <2>2. program' = program
    BY DEF LintNext, CollectFunctions, LintUnheeded, LintGlobal, LintFunction, LintDeclaration, LintArray,
         LintAssignment, LintExpression, LintConditional, LintPlainBlock, LintFor, LintForAssign, LintSwitch, LintCase,
         LintEnd, LintDone, Go
  <2> QED
    BY <2>1, <2>2, ScopesLint DEF ScopesInv
<1>2. ASSUME pass = "lint", at <= Len(program)
      PROVE  /\ at \in DOMAIN program /\ KnownRight
             /\ \E i \in DOMAIN program : i = at /\ ConstantsIn(i, const_variables)
  BY <1>1, <1>2, ProgramDomain DEF SoundInv, ScopesInv
<1>3. CASE CollectFunctions
  <2>1. /\ pass' = "lint" /\ at' = 1 /\ KnownRight' /\ errors' = {} /\ const_variables' = {}
    <3>1. KnownRight'
      BY <1>1, <1>3, KnownCollected
    <3> QED
      BY <1>3, <3>1 DEF SoundInv, ScopesInv, CollectFunctions
  <2>2. ConstantsIn(1, {})
    <3>1. \A d \in Declarations : ~(d.at < 1)
      BY <1>1, RankOfDeclaration
    <3> QED
      BY <3>1 DEF ConstantsIn
  <2>3. ConstantsIn(1, {})'
    BY <1>1, <2>2, SameFaults
  <2>4. ConstantsIn(at, const_variables)'
    BY <2>1, <2>3
  <2>5. (\A i \in 1..at - 1 : Sound(i))'
    <3>1. 1..at' - 1 = {}
      BY <2>1
    <3> QED
      BY <3>1
  <2> QED
    BY <1>1, <2>1, <2>4, <2>5 DEF SoundInv
<1>4. CASE LintUnheeded \/ LintPlainBlock \/ LintEnd \/ LintFunction
  <2>1. /\ pass = "lint" /\ at <= Len(program) /\ pass' = pass /\ at' = at + 1
        /\ known' = known /\ const_variables' = const_variables
        /\ program[at].k \in {"enum", "aggregate", "else", "loop", "default", "end", "function"}
    BY <1>4 DEF LintUnheeded, LintPlainBlock, LintEnd, LintFunction, Lint, Go, Here, NoConst
  <2>2. PICK found : errors' = errors \cup found
    BY <1>4 DEF LintUnheeded, LintPlainBlock, LintEnd, LintFunction, Go
  <2>3. PICK i, more, old, new :
          /\ i \in DOMAIN program /\ i = at /\ more = const_variables /\ ConstantsIn(i, more)
          /\ old = scope_stack /\ new = scope_stack'
    BY <1>2, <2>1
  <2>4. ConstantsIn(i + 1, more)
    BY <1>1, <2>1, <2>3, ConstantsNext DEF Block
  <2>5. Expressions(program[i]) = {}
    BY <2>1, <2>3 DEF Expressions
  <2>6. Sound(i)
    BY <1>1, <2>1, <2>3, <2>5, SoundWhen
  <2> QED
    BY <1>1, <2>1, <2>2, <2>3, <2>4, <2>6, SoundStatement
<1>5. CASE LintExpression \/ LintConditional \/ LintSwitch \/ LintCase
  <2>1. /\ pass = "lint" /\ at <= Len(program) /\ pass' = pass /\ at' = at + 1
        /\ known' = known /\ const_variables' = const_variables
        /\ program[at].k \in {"expression", "if", "elseif", "while", "switch", "case"}
    BY <1>5 DEF LintExpression, LintConditional, LintSwitch, LintCase, Lint, Go, Here, NoConst
  <2>2. PICK found : /\ errors' = errors \cup found
                     /\ LintExpr(scope_stack, program[at].expr) \subseteq found
    BY <1>5 DEF LintExpression, LintConditional, LintSwitch, LintCase, Go, Here
  <2>3. PICK i, more, old, new, expr :
          /\ i \in DOMAIN program /\ i = at /\ more = const_variables /\ ConstantsIn(i, more)
          /\ old = scope_stack /\ new = scope_stack' /\ expr = program[i].expr
    BY <1>2, <2>1
  <2>4. ConstantsIn(i + 1, more)
    BY <1>1, <2>1, <2>3, ConstantsNext DEF Block
  <2>5. Expressions(program[i]) = {expr}
    BY <2>1, <2>3 DEF Expressions
  <2>6. ASSUME \A e \in found : e.level # "error", Lexical(old, i) PROVE Sound(i)
    <3>1. \A e \in LintExpr(old, expr) : e.level # "error"
      BY <2>2, <2>3, <2>6
    <3>2. KnownRight /\ program[i].k \notin {"assign", "for", "forassign", "global", "declare"}
      BY <1>2, <2>1, <2>3
    <3> QED
      BY <1>1, <2>3, <2>5, <2>6, <3>1, <3>2, SoundSimple
  <2> QED
    BY <1>1, <2>1, <2>2, <2>3, <2>4, <2>6, SoundStatement
<1>6. CASE LintGlobal \/ LintDeclaration \/ LintArray
  <2>1. /\ pass = "lint" /\ at <= Len(program) /\ pass' = pass /\ at' = at + 1
        /\ known' = known /\ const_variables \subseteq const_variables'
        /\ program[at].k \in Block
        /\ program[at].k # "array" /\ program[at].const => program[at].name \in const_variables'
    BY <1>6 DEF LintGlobal, LintDeclaration, LintArray, Lint, Go, Here, NoConst, Block
  <2>2. PICK found :
          /\ errors' = errors \cup found
          /\ program[at].k \in {"global", "declare"} => Uninitialised(program[at]) \subseteq found
          /\ program[at].k # "global" => LintExpr(scope_stack', program[at].init) \subseteq found
    <3>1. CASE LintGlobal
      BY <3>1 DEF LintGlobal, Lint, Go, Here
    <3>2. CASE LintDeclaration
      BY <3>2 DEF LintDeclaration, Lint, Go, Here
    <3>3. CASE LintArray
      BY <3>3 DEF LintArray, Lint, Go, Here
    <3> QED
      BY <1>6, <3>1, <3>2, <3>3
  <2>3. PICK i, names, more, old, new, expr :
          /\ i \in DOMAIN program /\ i = at /\ names = const_variables /\ ConstantsIn(i, names)
          /\ more = const_variables' /\ old = scope_stack /\ new = scope_stack' /\ expr = program[i].init
    BY <1>2, <2>1
  <2>4. ConstantsIn(i + 1, more)
    BY <1>1, <2>1, <2>3, ConstantsNext
  <2>5. Expressions(program[i]) = {expr}
    BY <2>1, <2>3 DEF Expressions, Block
  <2>6. ASSUME \A e \in found : e.level # "error", Lexical(new, i + 1) PROVE Sound(i)
    <3>1. program[i].k \in {"global", "declare"} /\ program[i].const => program[i].init # <<>>
      <4>1. SUFFICES ASSUME program[i].k \in {"global", "declare"}, program[i].const, program[i].init = <<>>
                     PROVE  FALSE
        OBVIOUS
      <4>2. Found("error", "const without a value") \in found
        BY <2>2, <2>3, <4>1 DEF Uninitialised
      <4> QED
        BY <2>6, <4>2 DEF Found
    <3>2. KnownRight /\ program[i].k \notin {"assign", "for", "forassign"}
      BY <1>2, <2>1, <2>3 DEF Block
    <3>3. CASE program[i].k # "global"
      <4>1. \A e \in LintExpr(new, expr) : e.level # "error"
        BY <2>2, <2>3, <2>6, <3>3
      <4> QED
        BY <1>1, <2>3, <2>5, <2>6, <3>1, <3>2, <4>1, SoundSimple
    <3>4. CASE program[i].k = "global"
      BY <1>1, <2>3, <3>1, <3>2, <3>4, SoundWhen
    <3> QED
      BY <3>3, <3>4
  <2> QED
    BY <1>1, <2>1, <2>2, <2>3, <2>4, <2>6, SoundStatement
<1>7. CASE LintAssignment
  <2>1. /\ pass = "lint" /\ at <= Len(program) /\ pass' = pass /\ at' = at + 1
        /\ known' = known /\ const_variables' = const_variables /\ program[at].k = "assign"
    BY <1>7 DEF LintAssignment, Lint, Go, Here, NoConst
  <2>2. PICK i, more, old, new, expr, x :
          /\ i \in DOMAIN program /\ i = at /\ more = const_variables /\ ConstantsIn(i, more)
          /\ old = scope_stack /\ new = scope_stack' /\ expr = program[i].expr /\ x = program[i].name
    BY <1>2, <2>1
  <2>3. PICK c : c = CASE Holding(old, x) = {} -> {Found("error", "undeclared")}
                       [] Holding(old, x) # {} /\ x \in more -> {Found("error", "const assigned")}
                       [] OTHER -> {}
    OBVIOUS
  <2>4. PICK found : found = LintExpr(old, expr) \cup c
    OBVIOUS
  <2>5. errors' = errors \cup found
    BY <1>7, <2>2, <2>3, <2>4, Zenon DEF LintAssignment, Go, Here
  <2>6. ConstantsIn(i + 1, more)
    BY <1>1, <2>1, <2>2, ConstantsNext DEF Block
  <2>7. Expressions(program[i]) = {expr}
    BY <2>1, <2>2 DEF Expressions
  <2>8. ASSUME \A e \in found : e.level # "error", Lexical(old, i) PROVE Sound(i)
    <3>1. \A what : Found("error", what) \notin found
      BY <2>8 DEF Found
    <3>2. Holding(old, x) # {} /\ x \notin more
      BY <2>3, <2>4, <3>1
    <3>3. Visible(i, x) # {} /\ ~Constant(Meaning(i, x))
      BY <1>1, <2>1, <2>2, <2>8, <3>2, AssignedSound
    <3>4. NodesSound(i, expr)
      <4>1. \A y : Holding(old, y) # {} => Visible(i, y) # {}
        BY <1>1, <2>2, <2>8, SeenIsVisible
      <4>2. \A e \in LintExpr(old, expr) : e.level # "error"
        BY <2>4, <2>8
      <4> QED
        BY <1>2, <2>1, <4>1, <4>2, NodesFound
    <3> QED
      BY <1>1, <2>1, <2>2, <2>7, <3>3, <3>4, SoundWhen
  <2> QED
    BY <1>1, <2>1, <2>2, <2>5, <2>6, <2>8, SoundStatement
<1>8. CASE LintFor \/ LintForAssign
  <2>1. PICK i, more, old, new, scopes :
          /\ i = at /\ more = const_variables /\ old = scope_stack /\ new = scope_stack'
          /\ scopes = LoopScopes(i, old)
    OBVIOUS
  <2>2. /\ pass = "lint" /\ at <= Len(program) /\ pass' = pass /\ at' = at + 1
        /\ known' = known /\ const_variables' = const_variables
        /\ program[i].k \in {"for", "forassign"} /\ new = PushScope(scopes)
    BY <1>8, <2>1, LoopLint
  <2>3. i \in DOMAIN program /\ ConstantsIn(i, more) /\ KnownRight
    BY <1>2, <2>1, <2>2
  <2>4. PICK found :
          /\ errors' = errors \cup found /\ StepName(scopes) \subseteq found
          /\ \A expr \in Expressions(program[i]) : LintExpr(scopes, expr) \subseteq found
    BY <1>8, <2>1, LoopLint
  <2>5. ConstantsIn(i + 1, more)
    BY <1>1, <2>2, <2>3, ConstantsNext DEF Block
  <2>6. ASSUME \A e \in found : e.level # "error", Lexical(old, i), DeclaredOnce(i) PROVE Sound(i)
    <3>1. \A x : Holding(scopes, x) # {} => Visible(i, x) # {}
      BY <1>1, <2>1, <2>2, <2>3, <2>6, LoopSeen
    <3>2. \A expr \in Expressions(program[i]) : NodesSound(i, expr)
      <4> TAKE expr \in Expressions(program[i])
      <4>1. \A e \in LintExpr(scopes, expr) : e.level # "error"
        BY <2>4, <2>6
      <4> QED
        BY <2>3, <3>1, <4>1, NodesFound
    <3>3. StepSound(i)
      <4>1. Found("error", "undeclared") \notin StepName(scopes)
        BY <2>4, <2>6 DEF Found
      <4>2. PICK x : x = program[i].step.name
        OBVIOUS
      <4>3. Holding(scopes, x) # {} \/ x \in DOMAIN known
        BY <2>1, <4>1, <4>2 DEF StepName, Here
      <4>4. x \in DOMAIN known => Functions(x) # {} \/ x = "alloc"
        BY <2>3 DEF KnownRight, Functions
      <4> QED
        BY <3>1, <4>2, <4>3, <4>4 DEF StepSound
    <3> QED
      BY <1>1, <2>2, <2>3, <3>2, <3>3, SoundWhen
  <2> QED
    BY <1>1, <2>1, <2>2, <2>3, <2>4, <2>5, <2>6, SoundStatement
<1>9. CASE LintDone
  <2>1. pass = "lint" /\ at > Len(program) /\ pass' \in {"lower", "done"} /\ known' = known
    BY <1>9 DEF LintDone
  <2>2. ASSUME pass' = "lower" PROVE ~Faulty /\ \A i \in DOMAIN program : Sound(i)
    <3>1. Accepted
      BY <1>9, <2>2 DEF LintDone
    <3>2. PICK n \in Nat : n = Len(program) /\ DOMAIN program = 1..n
      BY <1>1, ProgramDomain
    <3>3. at = n + 1
      BY <2>1, <3>2 DEF SoundInv, ScopesInv
    <3>4. DeclaredOnce(n + 1)
      BY <2>1, <3>1, <3>3 DEF SoundInv, ScopesInv
    <3>5. \A i \in 1..n : Sound(i)
      <4>1. \A i \in 1..at - 1 : Sound(i)
        BY <2>1, <3>1 DEF SoundInv
      <4>2. at - 1 = n
        BY <3>3
      <4> QED
        BY <4>1, <4>2
    <3> QED
      BY <1>1, <3>2, <3>4, <3>5, NoFault
  <2>3. KnownRight'
    BY <1>1, <2>1, SameFaults DEF SoundInv
  <2>4. pass' = "lower" => ~Faulty' /\ \A i \in DOMAIN program' : Sound(i)'
    BY <1>1, <2>2, SameFaults
  <2> QED
    BY <1>1, <2>1, <2>3, <2>4 DEF SoundInv
<1> QED
  BY <1>3, <1>4, <1>5, <1>6, <1>7, <1>8, <1>9 DEF LintNext

\* Every step of the passes keeps SoundInv.
LEMMA SoundNext == SoundInv /\ [Next]_vars => SoundInv'
<1>1. ASSUME SoundInv, LintNext PROVE SoundInv'
  BY <1>1, SoundLint
<1>2. ASSUME SoundInv, Next, ~LintNext PROVE SoundInv'
  <2>1. program \in Program /\ ScopesInv' /\ ScopesInv
    BY <1>2, ScopesNext DEF SoundInv, ScopesInv
  <2>2. program' = program /\ pass \in {"lower", "emit"} /\ pass' \in {"lower", "emit"}
    BY <1>2, <2>1, BehindTheLinter
  <2>3. known' = known
    BY <1>2 DEF Next, LowerGlobal, LowerFunction, LowerDeclaration, LowerAssignment, LowerExpression,
         LowerConditional, LowerPlainBlock, LowerFor, LowerForAssign, LowerEnd, Emit, LowerDone,
         EmitEnter, EmitStore, EmitLoad, EmitLoadFails, EmitSkip, Emitted, lintVars
  <2>4. KnownRight' /\ ~Faulty' /\ \A i \in DOMAIN program' : Sound(i)'
    BY <1>2, <2>2, <2>3, SameFaults DEF SoundInv
  <2> QED
    BY <2>1, <2>2, <2>4 DEF SoundInv
<1>3. ASSUME SoundInv, UNCHANGED vars PROVE SoundInv'
  <2>1. /\ program' = program /\ pass' = pass /\ at' = at /\ known' = known
        /\ errors' = errors /\ const_variables' = const_variables
    BY <1>3 DEF vars, lintVars
  <2>2. ScopesInv'
    BY <1>3, ScopesNext DEF SoundInv
  <2>3. pass # "collect" => KnownRight'
    BY <1>3, <2>1, SameFaults DEF SoundInv
  <2>4. PICK names, i : names = const_variables /\ i = at
    OBVIOUS
  <2>5. pass = "lint" => ConstantsIn(i, names)'
    BY <1>3, <2>1, <2>4, SameFaults DEF SoundInv
  <2>6. pass = "lint" => ConstantsIn(at, const_variables)'
    BY <2>1, <2>4, <2>5
  <2>7. pass = "lint" /\ Accepted => \A j \in 1..i - 1 : Sound(j)'
    BY <1>3, <2>1, <2>4, SameFaults DEF SoundInv
  <2>8. pass = "lint" => (Accepted => \A j \in 1..at - 1 : Sound(j))'
    BY <2>1, <2>4, <2>7 DEF Accepted
  <2>9. pass \in {"lower", "emit"} => ~Faulty' /\ \A j \in DOMAIN program' : Sound(j)'
    BY <1>3, <2>1, SameFaults DEF SoundInv
  <2> QED
    BY <2>1, <2>2, <2>3, <2>6, <2>8, <2>9 DEF SoundInv
<1> QED
  BY <1>1, <1>2, <1>3

\* Code is made only for programs in which every name is declared, once in its
\* scope, every call fits its function, and no assignment that is a statement of its
\* own has a constant on its left.  Of the step of a for no more is claimed than that
\* it names something: the code does not look whether that is a constant.
THEOREM AcceptedProgramsAreSound == Spec => []AcceptedIsSound
<1>1. Init => SoundInv
  BY ScopesInit DEF Init, LintInit, SoundInv
<1>2. SoundInv => AcceptedIsSound
  BY DEF SoundInv, AcceptedIsSound
<1> QED
  BY <1>1, <1>2, SoundNext, PTL DEF Spec

-------------------------------------------------------------------------------
(* What is refused is refused for a cause. *)

\* What is visible at a statement is on the stack, behind it or, when the
\* statement declares nothing, in front of it.
LEMMA VisibleIsSeen ==
  ASSUME program \in Program, NEW i \in DOMAIN program, NEW scopes,
         \/ Lexical(scopes, i + 1) /\ ~Ends(i)
         \/ Lexical(scopes, i) /\ \A d \in Declarations : d.at # i,
         NEW x, Visible(i, x) # {}
  PROVE  Holding(scopes, x) # {}
<1>0. i \in Nat
  BY ProgramDomain
<1>1. PICK j \in {i, i + 1} : /\ Lexical(scopes, j) /\ (j = i + 1 => ~Ends(i))
                              /\ j = i => \A d \in Declarations : d.at # i
  <2>1. i + 1 # i
    BY <1>0
  <2>2. CASE Lexical(scopes, i + 1) /\ ~Ends(i)
    BY <2>1, <2>2
  <2>3. CASE Lexical(scopes, i) /\ \A d \in Declarations : d.at # i
    BY <2>1, <2>3
  <2> QED
    BY <2>2, <2>3
<1>2. i \in Nat /\ j \in Nat /\ i <= j /\ j <= i + 1 /\ j \in 1..Len(program) + 1
  BY <1>0, <1>1, ProgramDomain
<1>3. PICK before : before = {d \in Visible(j, x) : d.at < j}
  OBVIOUS
<1>4. PICK d \in Visible(i, x) : TRUE
  OBVIOUS
<1>5. d \in Declarations /\ d.name = x /\ d.at <= i /\ (d.scope[1] = 0 \/ i <= Close(d.scope[1]))
  BY <1>4 DEF Visible
<1>6. d.at \in Nat /\ d.at < j
  <2>1. d.at \in Nat
    BY <1>5, RankOfDeclaration
  <2> QED
    BY <1>1, <1>2, <1>5, <2>1
<1>7. d.scope[1] = 0 \/ j <= Close(d.scope[1])
  <2>1. SUFFICES ASSUME d.scope[1] # 0 PROVE j <= Close(d.scope[1])
    OBVIOUS
  <2>2. PICK o : o = d.scope[1]
    OBVIOUS
  <2>3. o \in DOMAIN program /\ Opens(o)
    <3>1. PICK k \in DOMAIN program : k = d.at
      BY <1>5, RankOfDeclaration
    <3>2. CASE o \in OpenAt(k)
      <4>1. o \in 1..(k - 1) /\ Opens(o)
        BY <3>2 DEF OpenAt
      <4> QED
        BY <4>1, ProgramDomain
    <3>3. CASE program[k].k \in Heads /\ o = k
      BY <3>3 DEF Opens, Openers, Heads
    <3> QED
      BY <1>5, <2>1, <2>2, <3>1, <3>2, <3>3, RankOfDeclaration
  <2>4. Close(o) \in Nat /\ i <= Close(o) /\ Ends(Close(o))
    BY <1>5, <2>1, <2>2, <2>3, CloseFacts, ProgramDomain
  <2>5. j = i + 1 => Close(o) # i
    BY <1>1, <2>4
  <2> QED
    BY <1>1, <1>2, <2>2, <2>4, <2>5
<1>8. d \in before
  BY <1>2, <1>3, <1>5, <1>6, <1>7 DEF Visible
<1>9. before = {} <=> Holding(scopes, x) = {}
  BY <1>1, <1>2, <1>3, LexicalLookup
<1> QED
  BY <1>8, <1>9

\* What a program may be refused for that is no fault.
Excused == Shared \/ Unheeded

LEMMA UndeclaredIs ==
  ASSUME ~Excused
  PROVE  \A i, x : Undeclared(i, x) <=> Visible(i, x) = {}
BY DEF Excused, Unheeded, Undeclared, Aggregate

\* lint_expr() finds errors in a program with a fault only.
LEMMA NodesRefused ==
  ASSUME program \in Program, KnownRight, ~Faulty, ~Excused,
         NEW i \in DOMAIN program, program[i].k # "global",
         NEW expr, expr \in Expressions(program[i]),
         NEW scopes, \A x : Visible(i, x) # {} => Holding(scopes, x) # {}
  PROVE  \A e \in LintExpr(scopes, expr) : e.level # "error"
<1>1. SUFFICES ASSUME NEW j \in DOMAIN expr, NEW node, node = expr[j]
               PROVE  /\ ~(node.n = "var" /\ Holding(scopes, node.name) = {} /\ node.name \notin DOMAIN known)
                      /\ ~(node.n \in {"member", "index"} /\ Holding(scopes, node.name) = {})
                      /\ ~(node.n = "call" /\ node.name \notin DOMAIN known)
                      /\ ~(node.n = "call" /\ node.name \in DOMAIN known /\ WrongArity(node))
  <2>1. ASSUME NEW e \in LintExpr(scopes, expr) PROVE FALSE
    <3>1. PICK j \in DOMAIN expr :
            e \in CASE expr[j].n = "var" /\ Holding(scopes, expr[j].name) = {} /\ expr[j].name \notin DOMAIN known ->
                         {Found("error", "undeclared")}
                    [] expr[j].n \in {"member", "index"} /\ Holding(scopes, expr[j].name) = {} ->
                         {Found("error", "undeclared")}
                    [] expr[j].n = "call" /\ expr[j].name \notin DOMAIN known -> {Found("error", "no such function")}
                    [] expr[j].n = "call" /\ expr[j].name \in DOMAIN known /\ WrongArity(expr[j]) ->
                         {Found("error", "arguments")}
                    [] OTHER -> {}
      BY <2>1, Zenon DEF LintExpr
    <3>2. PICK node : node = expr[j]
      OBVIOUS
    <3>3. /\ ~(node.n = "var" /\ Holding(scopes, node.name) = {} /\ node.name \notin DOMAIN known)
          /\ ~(node.n \in {"member", "index"} /\ Holding(scopes, node.name) = {})
          /\ ~(node.n = "call" /\ node.name \notin DOMAIN known)
          /\ ~(node.n = "call" /\ node.name \in DOMAIN known /\ WrongArity(node))
      BY <1>1, <3>2
    <3> QED
      BY <3>1, <3>2, <3>3
  <2> QED
    BY <2>1
<1>2. /\ ~(/\ node.n = "var" /\ Undeclared(i, node.name)
           /\ Functions(node.name) = {} /\ node.name # "alloc")
      /\ ~(node.n \in {"member", "index"} /\ Undeclared(i, node.name))
      /\ ~(node.n = "call" /\ Unmet(node))
  BY <1>1 DEF Faulty
<1>3. \A x : Undeclared(i, x) <=> Visible(i, x) = {}
  BY UndeclaredIs
<1>4. node.name \notin DOMAIN known => Functions(node.name) = {} /\ node.name # "alloc"
  BY DEF KnownRight, Functions
<1>5. ASSUME node.n = "var", Holding(scopes, node.name) = {}, node.name \notin DOMAIN known PROVE FALSE
  BY <1>2, <1>4, <1>5, <1>3
<1>6. ASSUME node.n \in {"member", "index"}, Holding(scopes, node.name) = {} PROVE FALSE
  BY <1>2, <1>6, <1>3
<1>7. ASSUME node.n = "call", node.name \notin DOMAIN known PROVE FALSE
  BY <1>2, <1>4, <1>7 DEF Unmet
<1>8. ASSUME node.n = "call", node.name \in DOMAIN known, WrongArity(node) PROVE FALSE
  <2>1. CASE Functions(node.name) = {}
    <3>1. ~known[node.name].variadic /\ known[node.name].min = 1
      BY <1>8, <2>1 DEF KnownRight
    <3>2. node.given # 1
      BY <1>8, <3>1 DEF WrongArity
    <3> QED
      BY <1>2, <1>8, <2>1, <3>2 DEF Unmet
  <2>2. CASE Functions(node.name) # {}
    <3>1. PICK f \in Functions(node.name) : LET params == program[f].params IN
            IF params # <<>> /\ Last(params).name = "__varargs"
            THEN known[node.name].variadic /\ known[node.name].min = Len(params) - 1
            ELSE ~known[node.name].variadic /\ known[node.name].min = Len(params)
      BY <1>8, <2>2 DEF KnownRight
    <3>2. \A g \in Functions(node.name) : g = f
      BY DEF Excused, Shared, Functions
    <3>3. IF known[node.name].variadic THEN node.given < known[node.name].min
                                       ELSE node.given # known[node.name].min
      BY <1>8 DEF WrongArity
    <3>4. LET params == program[f].params
              variadic == params # <<>> /\ Last(params).name = "__varargs"
          IN  IF variadic THEN node.given < Len(params) - 1 ELSE node.given # Len(params)
      BY <3>1, <3>3
    <3> QED
      BY <1>2, <1>8, <2>2, <3>2, <3>4 DEF Unmet
  <2> QED
    BY <2>1, <2>2
<1> QED
  BY <1>5, <1>6, <1>7, <1>8

\* The causes that are not faults of the names: types that do not go together.
OfTypes(e) == e.what \in {"comparison", "assignment", "float counter"}

RefusedInv ==
  /\ SoundInv
  /\ pass = "lint" => \A x \in const_variables : \E d \in Declarations : Constant(d) /\ d.name = x
  /\ pass \in {"lint", "done"} => Accepted \/ Faulty \/ Excused \/ \E e \in errors : OfTypes(e)

LEMMA FoundKinds ==
  ASSUME NEW e, NEW what
  PROVE  /\ e = Found("warning", what) => e.level # "error"
         /\ e = Found("error", what) /\ what \in {"comparison", "assignment", "float counter"} => OfTypes(e)
<1>1. e = Found("warning", what) => e.level = "warning"
  BY DEF Found
<1>2. e = Found("error", what) => e.what = what
  BY DEF Found
<1> QED
  BY <1>1, <1>2 DEF OfTypes

\* Typing an expression, a condition or an initial value finds no other errors.
LEMMA InferFinds ==
  ASSUME NEW scopes, NEW expr, NEW e, e \in Infer(scopes, expr).found
  PROVE  e.level # "error" \/ OfTypes(e)
<1>1. PICK top : top = SelectSeq(expr, LAMBDA node : node.top)
  OBVIOUS
<1>2. PICK r : r = Stacks(scopes, top)
  OBVIOUS
<1>3. PICK result, all :
        /\ result = r[Len(top)].stk
        /\ all = UNION {IF TakenAlong(top, j) THEN {} ELSE Complaint(r[j - 1], top[j].n) : j \in DOMAIN top}
  OBVIOUS
<1>4. Infer(scopes, expr) = [type |-> IF result = <<>> THEN Unknown ELSE Last(result), found |-> all]
  BY <1>1, <1>2, <1>3, Zenon DEF Infer
<1>5. e \in all
  BY <1>4
<1>6. PICK j \in DOMAIN top : e \in Complaint(r[j - 1], top[j].n)
  BY <1>3, <1>5
<1>7. e \in {Found("error", "comparison"), Found("warning", "division by zero")}
  BY <1>6 DEF Complaint
<1> QED
  BY <1>7, FoundKinds

LEMMA InitialisedFinds ==
  ASSUME NEW scopes, NEW s, NEW e, e \in Initialised(scopes, s)
  PROVE  e.level # "error" \/ OfTypes(e)
<1>1. e \in Infer(scopes, s.init).found \/ e = Found("error", "assignment")
  BY DEF Initialised
<1> QED
  BY <1>1, InferFinds, FoundKinds

LEMMA ConditionFinds ==
  ASSUME NEW scopes, NEW expr, NEW e, e \in Condition(scopes, expr)
  PROVE  e.level # "error" \/ OfTypes(e)
<1>1. e \in Infer(scopes, expr).found \/ e = Found("warning", "bare condition")
  BY DEF Condition
<1> QED
  BY <1>1, InferFinds, FoundKinds

LEMMA SameExcused ==
  ASSUME program' = program
  PROVE  Excused' = Excused
<1>1. Declarations' = Declarations
  BY SameProgram
<1>2. \A d : Constant(d)' = Constant(d)
  BY DEF Constant
<1> QED
  BY <1>1, <1>2 DEF Excused, Shared, Unheeded

\* A cause stays one.
LEMMA RefusedStatement ==
  ASSUME RefusedInv, SoundInv', pass = "lint", NEW i \in DOMAIN program, at = i,
         NEW found, errors' = errors \cup found, program' = program, pass' = pass,
         \A x \in const_variables' : x \in const_variables \/ \E d \in Declarations : Constant(d) /\ d.name = x,
         NEW old, old = scope_stack,
         ~Faulty /\ ~Excused /\ DeclaredOnce(i) /\ Lexical(old, i) => \A e \in found : e.level # "error" \/ OfTypes(e)
  PROVE  RefusedInv'
<1>1. \A x \in const_variables' : \E d \in Declarations : Constant(d) /\ d.name = x
  BY DEF RefusedInv
<1>2. \A x \in const_variables' : \E d \in Declarations' : Constant(d)' /\ d.name = x
  <2>1. Declarations' = Declarations
    BY SameProgram
  <2>2. \A d : Constant(d)' = Constant(d)
    BY DEF Constant
  <2> QED
    BY <1>1, <2>1, <2>2
<1>3. Accepted' \/ Faulty \/ Excused \/ \E e \in errors' : OfTypes(e)
  <2>1. SUFFICES ASSUME ~Faulty, ~Excused, \A e \in errors' : ~OfTypes(e) PROVE Accepted'
    OBVIOUS
  <2>2. Accepted
    BY <2>1 DEF RefusedInv
  <2>3. DeclaredOnce(i) /\ Lexical(old, i)
    BY <2>2 DEF RefusedInv, SoundInv, ScopesInv
  <2>4. \A e \in found : e.level # "error"
    BY <2>1, <2>3
  <2> QED
    BY <2>2, <2>4 DEF Accepted
<1>4. Faulty' = Faulty /\ Excused' = Excused
  BY SameFaults, SameExcused
<1>5. Accepted' \/ Faulty' \/ Excused' \/ \E e \in errors' : OfTypes(e)'
  BY <1>3, <1>4 DEF OfTypes
<1> QED
  BY <1>2, <1>5 DEF RefusedInv

\* What a statement declares in its block is not declared there before.
LEMMA BlockUnfaulted ==
  ASSUME program \in Program, ~Faulty, NEW i \in DOMAIN program, program[i].k \in Block,
         NEW scopes, Lexical(scopes, i)
  PROVE  program[i].name \notin DOMAIN Last(scopes)
<1>1. PICK ranks \in Seq(Nat) : Stacked(scopes, ranks, i) /\ Range(ranks) = RanksAt(i)
  BY DEF Lexical
<1>2. PICK d \in Declarations :
        /\ d.at = i /\ d.name = program[i].name /\ d.scope = <<Around(i), "block">>
        /\ IsScope(Last(scopes), Rank(d.scope), i)
  BY <1>1, BlockTop
<1>3. ASSUME NEW e \in Met(Rank(d.scope), i), e.name = d.name PROVE FALSE
  <2>1. e \in Declarations /\ e.at < i /\ Rank(e.scope) = Rank(d.scope)
    BY DEF Met
  <2>2. e # d
    BY <1>2, <2>1, ProgramDomain
  <2>3. e.scope = d.scope
    BY <2>1, SameRank
  <2> QED
    BY <1>3, <2>1, <2>2, <2>3 DEF Faulty
<1> QED
  BY <1>2, <1>3 DEF IsScope

\* What a name means where it is visible.
LEMMA MeaningVisible ==
  ASSUME program \in Program, NEW i \in DOMAIN program, NEW x, Visible(i, x) # {}
  PROVE  Meaning(i, x) \in Visible(i, x) /\ \A e \in Visible(i, x) : e.at <= Meaning(i, x).at
<1>1. PICK T : T = {d.at : d \in Visible(i, x)}
  OBVIOUS
<1>2. T \in SUBSET (0..Len(program)) /\ T # {}
  <2>1. \A d \in Visible(i, x) : d.at \in 1..Len(program)
    BY RankOfDeclaration, ProgramDomain DEF Visible
  <2>2. \A k \in T : k \in 0..Len(program)
    BY <1>1, <2>1, ProgramDomain
  <2> QED
    BY <1>1, <2>2
<1>3. Max(T) \in T /\ \A m \in T : m <= Max(T)
  BY <1>2, MaxFacts, ProgramDomain
<1>4. \E d \in Visible(i, x) : \A e \in Visible(i, x) : e.at <= d.at
  BY <1>1, <1>3
<1> QED
  BY <1>4 DEF Meaning

\* A constant is in const_variables because it was declared.
LEMMA ConstantsDeclared ==
  ASSUME program \in Program, NEW i \in DOMAIN program, program[i].k \in Block \ {"array"}, program[i].const
  PROVE  \E d \in Declarations : d.at = i /\ Constant(d) /\ d.name = program[i].name
                                 /\ d.stored = (program[i].init # <<>>)
<1>1. PICK d \in Declarations : d.at = i
  BY DeclarationsAt
<1>2. "function" \notin Block
  BY DEF Block
<1>3. d.const = program[i].const /\ d.name = program[i].name /\ d.stored = (program[i].init # <<>>)
  <2>1. program[i].k # "function" /\ program[i].k \in Block
    BY <1>2
  <2> QED
    BY <1>1, <2>1, DeclarationKinds, Zenon
<1>4. Constant(d)
  BY <1>1, <1>3 DEF Constant
<1> QED
  BY <1>1, <1>3, <1>4

\* The declaring statements, when nothing is wrong with what they declare.
LEMMA BlockRefused ==
  ASSUME program \in Program, ~Faulty, NEW i \in DOMAIN program, program[i].k \in Block,
         NEW scopes, Lexical(scopes, i), DeclaredOnce(i)
  PROVE  /\ Redeclared(scopes, program[i].name) = {}
         /\ program[i].k \in {"global", "declare"} => Uninitialised(program[i]) = {}
         /\ \A x : Visible(i, x) # {} => Holding(Declare(scopes, program[i].name, program[i].type), x) # {}
<1>1. program[i].name \notin DOMAIN Last(scopes)
  BY BlockUnfaulted
<1>2. Redeclared(scopes, program[i].name) = {}
  BY <1>1 DEF Redeclared
<1>3. ASSUME program[i].k \in {"global", "declare"}, program[i].const, program[i].init = <<>> PROVE FALSE
  <2>1. PICK d \in Declarations : d.at = i /\ Constant(d) /\ d.stored = (program[i].init # <<>>)
    BY <1>3, ConstantsDeclared
  <2>2. program[d.at].k # "struct" /\ ~d.stored
    BY <1>3, <2>1
  <2> QED
    BY <2>1, <2>2 DEF Faulty
<1>4. Lexical(Declare(scopes, program[i].name, program[i].type), i + 1)
  BY <1>1, LexicalBlock
<1>5. ~Ends(i)
  BY DEF Ends, Block
<1> QED
  BY <1>2, <1>3, <1>4, <1>5, VisibleIsSeen DEF Uninitialised

\* Every case of lint_block() finds an error in a program with a fault only.
LEMMA RefusedLint ==
  ASSUME RefusedInv, LintNext
  PROVE  RefusedInv'
<1>1. program \in Program /\ SoundInv' /\ program' = program
  <2>1. SoundInv /\ program \in Program
    BY DEF RefusedInv, SoundInv, ScopesInv
  <2>2. program' = program
    BY DEF LintNext, CollectFunctions, LintUnheeded, LintGlobal, LintFunction, LintDeclaration, LintArray,
         LintAssignment, LintExpression, LintConditional, LintPlainBlock, LintFor, LintForAssign, LintSwitch, LintCase,
         LintEnd, LintDone, Go
  <2> QED
    BY <2>1, <2>2, SoundLint
<1>2. ASSUME pass = "lint", at <= Len(program)
      PROVE  /\ at \in DOMAIN program /\ KnownRight
             /\ \E i, old : i \in DOMAIN program /\ i = at /\ old = scope_stack
  BY <1>1, <1>2, ProgramDomain DEF RefusedInv, SoundInv, ScopesInv
<1>3. CASE CollectFunctions
  <2>1. pass' = "lint" /\ errors' = {} /\ const_variables' = {}
    BY <1>3 DEF RefusedInv, SoundInv, ScopesInv, CollectFunctions
  <2> QED
    BY <1>1, <2>1 DEF RefusedInv, Accepted
<1>4. CASE LintUnheeded \/ LintPlainBlock \/ LintEnd
  <2>1. /\ pass = "lint" /\ at <= Len(program) /\ pass' = pass
        /\ const_variables' = const_variables /\ errors' = errors \cup {}
    BY <1>4 DEF LintUnheeded, LintPlainBlock, LintEnd, Lint, Go, Here, NoConst
  <2>2. PICK i, old : i \in DOMAIN program /\ i = at /\ old = scope_stack
    BY <1>2, <2>1
  <2> QED
    BY <1>1, <2>1, <2>2, RefusedStatement
<1>5. CASE LintFunction
  <2>1. /\ pass = "lint" /\ at <= Len(program) /\ pass' = pass /\ const_variables' = const_variables
        /\ program[at].k = "function"
    BY <1>5 DEF LintFunction, Lint, Go, Here, NoConst
  <2>2. PICK i, old, params :
          i \in DOMAIN program /\ i = at /\ old = scope_stack /\ params = program[i].params
    BY <1>2, <2>1
  <2>3. PICK Q, found :
          /\ Q = {p \in DOMAIN params : p # Min({q \in DOMAIN params : params[q].name = params[p].name})}
          /\ found = {Found("error", "redeclared") : p \in Q}
    OBVIOUS
  <2>4. errors' = errors \cup found
    <3>1. errors' = errors \cup {Found("error", "redeclared") : p \in
                      {p \in DOMAIN Here.params :
                         p # Min({q \in DOMAIN Here.params : Here.params[q].name = Here.params[p].name})}}
      BY <1>5, Zenon DEF LintFunction, Go
    <3>2. Here.params = params
      BY <2>2 DEF Here
    <3> QED
      BY <2>3, <3>1, <3>2, Zenon
  <2>5. ASSUME ~Faulty, NEW p \in Q PROVE FALSE
    <3>1. PICK T : T = {q \in DOMAIN params : params[q].name = params[p].name}
      OBVIOUS
    <3>2. p \in DOMAIN params /\ p \in T /\ p # Min(T)
      BY <2>3, <3>1
    <3>3. DOMAIN params \subseteq Nat
      <4>1. PICK pr \in Program : pr = program
        BY <1>1
      <4>2. params \in Seq(Range(params))
        BY <2>1, <2>2, <4>1, TreeAssumption
      <4> QED
        BY <4>2, OwnElements
    <3>4. Min(T) \in T
      BY <3>1, <3>2, <3>3, MinFacts
    <3>5. PICK q \in DOMAIN params : q # p /\ params[q].name = params[p].name
      BY <3>1, <3>2, <3>4
    <3>6. PICK d \in Declarations : d.name = params[p].name /\ d.scope = <<i, "head">> /\ d.place = p
      BY <2>1, <2>2, <3>2, DeclarationsAt
    <3>7. PICK e \in Declarations : e.name = params[q].name /\ e.scope = <<i, "head">> /\ e.place = q
      BY <2>1, <2>2, <3>5, DeclarationsAt
    <3> QED
      BY <2>5, <3>5, <3>6, <3>7 DEF Faulty
  <2>6. ~Faulty => \A e \in found : e.level # "error" \/ OfTypes(e)
    BY <2>3, <2>5
  <2> QED
    BY <1>1, <2>1, <2>2, <2>4, <2>6, RefusedStatement
<1>6. CASE LintExpression \/ LintConditional \/ LintSwitch \/ LintCase
  <2>1. /\ pass = "lint" /\ at <= Len(program) /\ pass' = pass /\ const_variables' = const_variables
        /\ program[at].k \in {"expression", "if", "elseif", "while", "switch", "case"}
    BY <1>6 DEF LintExpression, LintConditional, LintSwitch, LintCase, Lint, Go, Here, NoConst
  <2>2. PICK i, old, expr :
          i \in DOMAIN program /\ i = at /\ old = scope_stack /\ expr = program[i].expr
    BY <1>2, <2>1
  <2>3. PICK found : /\ errors' = errors \cup found
                     /\ found \subseteq LintExpr(old, expr) \cup Condition(old, expr)
    <3>1. CASE LintConditional
      BY <2>2, <3>1, Zenon DEF LintConditional, Go, Here
    <3>2. CASE ~LintConditional
      BY <1>6, <2>2, <3>2, Zenon DEF LintExpression, LintSwitch, LintCase, Go, Here
    <3> QED
      BY <3>1, <3>2
  <2>4. ASSUME ~Faulty, ~Excused, Lexical(old, i), NEW e \in found PROVE e.level # "error" \/ OfTypes(e)
    <3>1. \A d \in Declarations : d.at # i
      BY <1>1, <2>1, <2>2, NothingDeclared DEF Block, Heads
    <3>2. \A x : Visible(i, x) # {} => Holding(old, x) # {}
      BY <1>1, <2>2, <2>4, <3>1, VisibleIsSeen
    <3>3. expr \in Expressions(program[i]) /\ program[i].k # "global"
      BY <2>1, <2>2 DEF Expressions
    <3>4. \A f \in LintExpr(old, expr) : f.level # "error"
      BY <1>1, <1>2, <2>1, <2>2, <2>4, <3>2, <3>3, NodesRefused
    <3> QED
      BY <2>3, <2>4, <3>4, ConditionFinds
  <2> QED
    BY <1>1, <2>1, <2>2, <2>3, <2>4, RefusedStatement
<1>7. CASE LintGlobal \/ LintDeclaration \/ LintArray
  <2>1. /\ pass = "lint" /\ at <= Len(program) /\ pass' = pass /\ program[at].k \in Block
        /\ \/ const_variables' = const_variables
           \/ /\ program[at].k # "array"
              /\ const_variables' = const_variables \cup IF program[at].const THEN {program[at].name} ELSE {}
    BY <1>7 DEF LintGlobal, LintDeclaration, LintArray, Lint, Go, Here, NoConst, Block
  <2>2. PICK i, old, expr, scopes :
          /\ i \in DOMAIN program /\ i = at /\ old = scope_stack /\ expr = program[i].init
          /\ scopes = Declare(old, program[i].name, program[i].type)
    BY <1>2, <2>1
  <2>3. PICK found :
          /\ errors' = errors \cup found
          /\ found \subseteq Redeclared(old, program[i].name)
                             \cup (IF program[i].k \in {"global", "declare"} THEN Uninitialised(program[i]) ELSE {})
                             \cup (IF program[i].k # "global" THEN LintExpr(scopes, expr) ELSE {})
                             \cup Initialised(scopes, program[i])
    <3>1. CASE LintGlobal
      BY <2>2, <3>1 DEF LintGlobal, Lint, Go, Here
    <3>2. CASE LintDeclaration
      <4>1. PICK found :
              found = Redeclared(old, program[i].name)
                      \cup (IF program[i].k = "declare" THEN Uninitialised(program[i]) ELSE {})
                      \cup LintExpr(scopes, expr) \cup Initialised(scopes, program[i])
        OBVIOUS
      <4>2. errors' = errors \cup found
        BY <2>2, <3>2, <4>1, Zenon DEF LintDeclaration, Go, Here
      <4>3. program[i].k \in {"declare", "struct"}
        BY <2>2, <3>2 DEF LintDeclaration, Lint, Here
      <4> QED
        BY <4>1, <4>2, <4>3
    <3>3. CASE LintArray
      BY <2>2, <3>3 DEF LintArray, Lint, Go, Here
    <3> QED
      BY <1>7, <3>1, <3>2, <3>3
  <2>4. \A x \in const_variables' : x \in const_variables \/ \E d \in Declarations : Constant(d) /\ d.name = x
    BY <1>1, <2>1, <2>2, ConstantsDeclared
  <2>5. ASSUME ~Faulty, ~Excused, Lexical(old, i), DeclaredOnce(i), NEW e \in found
        PROVE  e.level # "error" \/ OfTypes(e)
    <3>1. /\ Redeclared(old, program[i].name) = {}
          /\ program[i].k \in {"global", "declare"} => Uninitialised(program[i]) = {}
          /\ \A x : Visible(i, x) # {} => Holding(scopes, x) # {}
      BY <1>1, <2>1, <2>2, <2>5, BlockRefused
    <3>2. expr \in Expressions(program[i])
      BY <2>1, <2>2 DEF Expressions, Block
    <3>3. program[i].k # "global" => \A f \in LintExpr(scopes, expr) : f.level # "error"
      BY <1>1, <1>2, <2>1, <2>2, <2>5, <3>1, <3>2, NodesRefused
    <3> QED
      BY <2>3, <2>5, <3>1, <3>3, InitialisedFinds
  <2> QED
    BY <1>1, <2>1, <2>2, <2>3, <2>4, <2>5, RefusedStatement
<1>8. CASE LintAssignment
  <2>1. /\ pass = "lint" /\ at <= Len(program) /\ pass' = pass /\ const_variables' = const_variables
        /\ program[at].k = "assign"
    BY <1>8 DEF LintAssignment, Lint, Go, Here, NoConst
  <2>2. PICK i, old, expr, x, names :
          /\ i \in DOMAIN program /\ i = at /\ old = scope_stack /\ expr = program[i].expr
          /\ x = program[i].name /\ names = const_variables
    BY <1>2, <2>1
  <2>3. PICK c : c = CASE Holding(old, x) = {} -> {Found("error", "undeclared")}
                       [] Holding(old, x) # {} /\ x \in names -> {Found("error", "const assigned")}
                       [] OTHER -> {}
    OBVIOUS
  <2>4. PICK found : found = LintExpr(old, expr) \cup c
    OBVIOUS
  <2>5. errors' = errors \cup found
    BY <1>8, <2>2, <2>3, <2>4, Zenon DEF LintAssignment, Go, Here
  <2>6. ASSUME ~Faulty, ~Excused, Lexical(old, i), NEW e \in found PROVE e.level # "error"
    <3>1. \A d \in Declarations : d.at # i
      BY <1>1, <2>1, <2>2, NothingDeclared DEF Block, Heads
    <3>2. \A y : Visible(i, y) # {} => Holding(old, y) # {}
      BY <1>1, <2>2, <2>6, <3>1, VisibleIsSeen
    <3>3. expr \in Expressions(program[i]) /\ program[i].k # "global"
      BY <2>1, <2>2 DEF Expressions
    <3>4. \A f \in LintExpr(old, expr) : f.level # "error"
      BY <1>1, <1>2, <2>1, <2>2, <2>6, <3>2, <3>3, NodesRefused
    <3>5. Visible(i, x) # {} /\ ~Constant(Meaning(i, x))
      BY <2>1, <2>2, <2>6, UndeclaredIs DEF Faulty
    <3>6. x \notin names
      <4>1. SUFFICES ASSUME x \in names PROVE FALSE
        OBVIOUS
      <4>2. PICK d \in Declarations : Constant(d) /\ d.name = x
        BY <2>1, <2>2, <4>1 DEF RefusedInv
      <4>3. Meaning(i, x) \in Visible(i, x)
        BY <1>1, <2>2, <3>5, MeaningVisible
      <4>4. Meaning(i, x) \in Declarations /\ Meaning(i, x).name = x
        BY <4>3 DEF Visible
      <4> QED
        BY <2>6, <3>5, <4>2, <4>4 DEF Excused, Shared
    <3>7. c = {}
      BY <2>3, <3>2, <3>5, <3>6
    <3> QED
      BY <2>4, <2>6, <3>4, <3>7
  <2> QED
    BY <1>1, <2>1, <2>2, <2>5, <2>6, RefusedStatement
<1>9. CASE LintFor \/ LintForAssign
  <2>1. PICK i, old, scopes : i = at /\ old = scope_stack /\ scopes = LoopScopes(i, old)
    OBVIOUS
  <2>2. /\ pass = "lint" /\ at <= Len(program) /\ pass' = pass /\ const_variables' = const_variables
        /\ program[i].k \in {"for", "forassign"}
    BY <1>9, <2>1, LoopLint
  <2>3. i \in DOMAIN program /\ KnownRight
    BY <1>2, <2>1, <2>2
  <2>4. PICK found :
          /\ errors' = errors \cup found
          /\ \A e \in found :
               \/ e = Found("error", "float counter")
               \/ e \in Initialised(scopes, program[i]) \cup Condition(scopes, program[i].expr)
               \/ \E expr \in Expressions(program[i]) : e \in LintExpr(scopes, expr)
               \/ e \in StepName(scopes)
    BY <1>9, <2>1, LoopLint
  <2>5. ASSUME ~Faulty, ~Excused, Lexical(old, i), DeclaredOnce(i), NEW e \in found
        PROVE  e.level # "error" \/ OfTypes(e)
    <3>1. ASSUME NEW x, Visible(i, x) # {} PROVE Holding(scopes, x) # {}
      <4>1. PICK new : new = PushScope(scopes)
        OBVIOUS
      <4>2. Lexical(new, i + 1) /\ (Holding(new, x) # {} => Holding(scopes, x) # {})
        BY <1>1, <2>1, <2>2, <2>3, <2>5, <4>1, LoopLexical
      <4>3. ~Ends(i)
        BY <2>2 DEF Ends
      <4> QED
        BY <1>1, <2>3, <3>1, <4>2, <4>3, VisibleIsSeen
    <3>2. ASSUME NEW expr \in Expressions(program[i]) PROVE \A f \in LintExpr(scopes, expr) : f.level # "error"
      <4>1. program[i].k # "global"
        BY <2>2
      <4> QED
        BY <1>1, <2>3, <2>5, <3>1, <4>1, NodesRefused
    <3>3. StepName(scopes) = {}
      <4>1. PICK x : x = program[i].step.name
        OBVIOUS
      <4>2. Visible(i, x) # {} \/ Functions(x) # {} \/ x = "alloc"
        BY <2>2, <2>3, <2>5, <4>1, UndeclaredIs DEF Faulty
      <4>3. Functions(x) # {} \/ x = "alloc" => x \in DOMAIN known
        BY <2>3 DEF KnownRight, Functions
      <4> QED
        BY <2>1, <3>1, <4>1, <4>2, <4>3 DEF StepName, Here
    <3> QED
      BY <2>4, <2>5, <3>2, <3>3, InitialisedFinds, ConditionFinds, FoundKinds
  <2> QED
    BY <1>1, <2>1, <2>2, <2>3, <2>4, <2>5, RefusedStatement
<1>10. CASE LintDone
  <2>1. pass = "lint" /\ errors' = errors /\ pass' \in {"lower", "done"}
    BY <1>10 DEF LintDone
  <2>2. Accepted' \/ Faulty' \/ Excused' \/ \E e \in errors' : OfTypes(e)'
    <3>1. Accepted \/ Faulty \/ Excused \/ \E e \in errors : OfTypes(e)
      BY <2>1 DEF RefusedInv
    <3>2. Faulty' = Faulty /\ Excused' = Excused
      BY <1>1, SameFaults, SameExcused
    <3> QED
      BY <2>1, <3>1, <3>2 DEF Accepted, OfTypes
  <2> QED
    BY <1>1, <2>1, <2>2 DEF RefusedInv
<1> QED
  BY <1>3, <1>4, <1>5, <1>6, <1>7, <1>8, <1>9, <1>10 DEF LintNext

\* Behind the linter nothing more is found.
LEMMA RefusedNext == RefusedInv /\ [Next]_vars => RefusedInv'
<1>1. ASSUME RefusedInv, LintNext PROVE RefusedInv'
  BY <1>1, RefusedLint
<1>2. ASSUME RefusedInv, Next, ~LintNext PROVE RefusedInv'
  <2>1. program \in Program /\ SoundInv'
    BY <1>2, SoundNext DEF RefusedInv, SoundInv, ScopesInv
  <2>2. pass' \in {"lower", "emit"}
    BY <1>2, <2>1, BehindTheLinter
  <2> QED
    BY <2>1, <2>2 DEF RefusedInv
<1>3. ASSUME RefusedInv, UNCHANGED vars PROVE RefusedInv'
  <2>1. program' = program /\ pass' = pass /\ errors' = errors /\ const_variables' = const_variables
    BY <1>3 DEF vars, lintVars
  <2>2. SoundInv'
    BY <1>3, SoundNext DEF RefusedInv
  <2>3. Faulty' = Faulty /\ Excused' = Excused /\ Declarations' = Declarations
    BY <2>1, SameFaults, SameExcused, SameProgram
  <2>4. \A d : Constant(d)' = Constant(d)
    BY <2>1 DEF Constant
  <2> QED
    BY <1>3, <2>1, <2>2, <2>3, <2>4 DEF RefusedInv, Accepted, OfTypes
<1> QED
  BY <1>1, <1>2, <1>3

\* A program is refused only for a fault it has, for its types, for a name that is
\* shared by a constant and a variable or by two functions, or for arrays and
\* structures outside of functions, which the linter passes over.
THEOREM RefusedOnlyForCause == Spec => []RefusedForCause
<1>1. Init => RefusedInv
  <2>1. Init => SoundInv
    BY ScopesInit DEF Init, LintInit, SoundInv
  <2> QED
    BY <2>1 DEF Init, LintInit, RefusedInv
<1>2. RefusedInv => RefusedForCause
  BY DEF RefusedInv, RefusedForCause, OfTypes, Excused
<1> QED
  BY <1>1, <1>2, RefusedNext, PTL DEF Spec
===============================================================================
