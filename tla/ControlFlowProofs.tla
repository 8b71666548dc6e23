--------------------------- MODULE ControlFlowProofs ---------------------------
(***************************************************************************)
(* Proofs about ControlFlow for every program: labels, the places they     *)
(* get, the jumps that are patched with them, and the frame.               *)
(*                                                                         *)
(* A label is placed by the instruction that names it.  Before that it is  *)
(* promised by a call the IR generator has still to make (Places), and     *)
(* before that it has no number yet.  The argument about the worklist is   *)
(* local: a handler keeps the promises of the call it is called for,       *)
(* promises new labels only from the numbers it takes, each once, and lets *)
(* its code jump only to what it promises and to what its call was given   *)
(* (Uses): the labels of the innermost loop, and these only when there is  *)
(* a break or a continue for them in the statement.                        *)
(***************************************************************************)
EXTENDS ControlFlow, SequenceFacts

CodeOps == {"do", "test", "eval", "case", "ret"}
JumpOps == {"jmp", "jnz"}

IrInstr == [op : CodeOps \cup JumpOps \cup {"label"}, id : Nat, label : Nat]

InstrPlaces(i) == IF i.op = "label" THEN {i.label} ELSE {}
InstrUses(i)   == IF i.op \in JumpOps THEN {i.label} ELSE {}

-------------------------------------------------------------------------------
(* Entries of the worklist. *)

EmitEntry == [call : {"emit"}, instr : IrInstr]

\* A call for a statement, or for what is left of an if or a switch.
CallEntry ==
  {e \in [call : StatementKinds \cup {"elseif", "case"}, stmt : Statement, k : Nat \ {0},
          labels : Seq(Nat), current_break_label : Nat, current_loop_start : Nat] :
     /\ WellFormed(e.stmt)
     /\ \/ e.call = e.stmt.kind
        \/ e.call = "elseif" /\ e.stmt.kind = "if" /\ e.labels # <<>>
        \/ e.call = "case" /\ e.stmt.kind = "switch" /\ e.labels # <<>>}

Entry == EmitEntry \cup CallEntry

CasesOf(stmt)   == {k \in DOMAIN stmt.parts : stmt.parts[k].test # 0}
DefaultOf(stmt) == {k \in DOMAIN stmt.parts : stmt.parts[k].test = 0}

\* The labels a switch has still to place from its k-th part on, where t is
\* the number of its variable.
CasePlaces(stmt, k, t) ==
  {t - 1}
  \cup {t + 2 * j - 1 : j \in {j \in CasesOf(stmt) : j >= k /\ stmt.parts[j].present}}
  \cup {t + 2 * j : j \in {j \in CasesOf(stmt) : j >= k}}
  \cup {t + 2 * Cardinality(CasesOf(stmt)) + 1 : j \in {j \in DefaultOf(stmt) : j >= k}}

\* What an entry promises to place, and what it may jump to.
Places(e) ==
  CASE e.call = "emit"   -> InstrPlaces(e.instr)
    [] e.call = "elseif" -> {e.labels[1]}
    [] e.call = "case"   -> CasePlaces(e.stmt, e.k, e.labels[1])
    [] OTHER             -> {}

Uses(e) ==
  IF e.call = "emit" THEN InstrUses(e.instr)
  ELSE IF Closed(e.stmt) THEN {}
  ELSE {e.current_break_label, e.current_loop_start}

PlacesOf(s) == UNION {Places(s[i]) : i \in DOMAIN s}
UsesOf(s)   == UNION {Uses(s[i]) : i \in DOMAIN s}
PlacedOnce(s) == \A i, j \in DOMAIN s : i # j => Places(s[i]) \cap Places(s[j]) = {}

\* Entries that place each of the labels P once, and jump to nothing but U.
Chunk(s, P, U) ==
  s \in Seq(Entry) /\ PlacedOnce(s) /\ PlacesOf(s) = P /\ UsesOf(s) \subseteq U
-------------------------------------------------------------------------------
(* Chunks. *)

\* A call makes entries of the worklist one after the other.
LEMMA ChunkConcat ==
  ASSUME NEW s, NEW t, NEW P, NEW Q, NEW U, NEW V,
         Chunk(s, P, U), Chunk(t, Q, V), P \cap Q = {}
  PROVE  Chunk(s \o t, P \cup Q, U \cup V)
<1>1. /\ s \in Seq(Entry) /\ t \in Seq(Entry)
      /\ PlacedOnce(s) /\ PlacedOnce(t)
      /\ PlacesOf(s) = P /\ PlacesOf(t) = Q /\ UsesOf(s) \subseteq U /\ UsesOf(t) \subseteq V
  BY DEF Chunk
<1> HIDE DEF Entry
<1>2. /\ s \o t \in Seq(Entry) /\ Len(s \o t) = Len(s) + Len(t)
      /\ Len(s) \in Nat /\ Len(t) \in Nat
      /\ \A i \in 1..Len(s) : (s \o t)[i] = s[i]
      /\ \A i \in 1..Len(t) : (s \o t)[Len(s) + i] = t[i]
      /\ DOMAIN s = 1..Len(s) /\ DOMAIN t = 1..Len(t) /\ DOMAIN (s \o t) = 1..Len(s) + Len(t)
  <2>1. t \in [1..Len(t) -> Entry] /\ Len(t) \in Nat /\ DOMAIN t = 1..Len(t)
    BY <1>1, LenProperties
  <2>2. /\ s \o t \in Seq(Entry) /\ Len(s \o t) = Len(s) + Len(t) /\ Len(s) \in Nat
        /\ \A i \in 1..Len(s) : (s \o t)[i] = s[i]
        /\ \A i \in 1..Len(t) : (s \o t)[Len(s) + i] = t[i]
    BY <1>1, <2>1, ConcatFacts
  <2> QED
    BY <1>1, <2>1, <2>2, LenProperties
<1>3. \A i \in DOMAIN (s \o t) :
        \/ i \in DOMAIN s /\ (s \o t)[i] = s[i]
        \/ i - Len(s) \in DOMAIN t /\ (s \o t)[i] = t[i - Len(s)]
  <2> SUFFICES ASSUME NEW i \in 1..Len(s) + Len(t), ~(i \in 1..Len(s))
               PROVE  i - Len(s) \in 1..Len(t) /\ (s \o t)[i] = t[i - Len(s)]
    BY <1>2
  <2>1. i - Len(s) \in 1..Len(t) /\ Len(s) + (i - Len(s)) = i
    BY <1>2
  <2> QED
    BY <1>2, <2>1
<1>4. /\ \A i \in DOMAIN s : i \in DOMAIN (s \o t) /\ (s \o t)[i] = s[i]
      /\ \A i \in DOMAIN t : Len(s) + i \in DOMAIN (s \o t) /\ (s \o t)[Len(s) + i] = t[i]
  BY <1>2
<1>5. PlacesOf(s \o t) = P \cup Q /\ UsesOf(s \o t) \subseteq U \cup V
  <2>0. /\ \A x \in DOMAIN s : Places(s[x]) \subseteq P
        /\ \A x \in DOMAIN t : Places(t[x]) \subseteq Q
    BY <1>1 DEF PlacesOf
  <2>1. PlacesOf(s \o t) \subseteq P \cup Q
    <3>1. \A i \in DOMAIN (s \o t) : Places((s \o t)[i]) \subseteq P \cup Q
      BY <1>3, <2>0
    <3> QED
      BY <3>1 DEF PlacesOf
  <2>2. P \subseteq PlacesOf(s \o t) /\ Q \subseteq PlacesOf(s \o t)
    <3>1. \A i \in DOMAIN (s \o t) : Places((s \o t)[i]) \subseteq PlacesOf(s \o t)
      BY DEF PlacesOf
    <3>2. /\ \A x \in DOMAIN s : Places(s[x]) \subseteq PlacesOf(s \o t)
          /\ \A x \in DOMAIN t : Places(t[x]) \subseteq PlacesOf(s \o t)
      <4>1. ASSUME NEW x \in DOMAIN s PROVE Places(s[x]) \subseteq PlacesOf(s \o t)
        BY <1>4, <3>1
      <4>2. ASSUME NEW x \in DOMAIN t PROVE Places(t[x]) \subseteq PlacesOf(s \o t)
        <5>1. Len(s) + x \in DOMAIN (s \o t) /\ (s \o t)[Len(s) + x] = t[x]
          BY <1>4
        <5>2. Places((s \o t)[Len(s) + x]) \subseteq PlacesOf(s \o t)
          BY <5>1, <3>1
        <5> QED
          BY <5>1, <5>2
      <4> QED
        BY <4>1, <4>2
    <3>3. PlacesOf(s) \subseteq PlacesOf(s \o t) /\ PlacesOf(t) \subseteq PlacesOf(s \o t)
      BY <3>2 DEF PlacesOf
    <3> QED
      BY <3>3, <1>1
  <2>3. UsesOf(s \o t) \subseteq U \cup V
    <3>1. /\ \A x \in DOMAIN s : Uses(s[x]) \subseteq U
          /\ \A x \in DOMAIN t : Uses(t[x]) \subseteq V
      BY <1>1 DEF UsesOf
    <3>2. \A i \in DOMAIN (s \o t) : Uses((s \o t)[i]) \subseteq U \cup V
      BY <1>3, <3>1
    <3> QED
      BY <3>2 DEF UsesOf
  <2> QED
    BY <2>1, <2>2, <2>3
<1>6. PlacedOnce(s \o t)
  <2> SUFFICES ASSUME NEW i \in DOMAIN (s \o t), NEW j \in DOMAIN (s \o t), i # j
               PROVE  Places((s \o t)[i]) \cap Places((s \o t)[j]) = {}
    BY DEF PlacedOnce
  <2>0. /\ \A x \in DOMAIN s : Places(s[x]) \subseteq P
        /\ \A x \in DOMAIN t : Places(t[x]) \subseteq Q
    BY <1>1 DEF PlacesOf
  <2>1. CASE i \in DOMAIN s /\ (s \o t)[i] = s[i] /\ j \in DOMAIN s /\ (s \o t)[j] = s[j]
    BY <2>1, <1>1 DEF PlacedOnce
  <2>2. CASE /\ i \in DOMAIN s /\ (s \o t)[i] = s[i]
             /\ j - Len(s) \in DOMAIN t /\ (s \o t)[j] = t[j - Len(s)]
    BY <2>2, <2>0
  <2>3. CASE /\ j \in DOMAIN s /\ (s \o t)[j] = s[j]
             /\ i - Len(s) \in DOMAIN t /\ (s \o t)[i] = t[i - Len(s)]
    BY <2>3, <2>0
  <2>4. CASE /\ i - Len(s) \in DOMAIN t /\ (s \o t)[i] = t[i - Len(s)]
             /\ j - Len(s) \in DOMAIN t /\ (s \o t)[j] = t[j - Len(s)]
    <3>1. i - Len(s) # j - Len(s)
      BY <1>2
    <3> QED
      BY <2>4, <3>1, <1>1 DEF PlacedOnce
  <2> QED
    BY <1>3, <2>1, <2>2, <2>3, <2>4
<1> QED
  BY <1>2, <1>5, <1>6 DEF Chunk

\* A chunk may be allowed more jumps.
LEMMA ChunkWiden ==
  ASSUME NEW s, NEW P, NEW U, NEW V, Chunk(s, P, U), U \subseteq V
  PROVE  Chunk(s, P, V)
BY DEF Chunk

LEMMA ChunkOne ==
  ASSUME NEW e \in Entry
  PROVE  Chunk(<<e>>, Places(e), Uses(e))
<1> HIDE DEF Entry
<1>1. <<e>> \in Seq(Entry) /\ DOMAIN <<e>> = {1} /\ <<e>>[1] = e
  OBVIOUS
<1> QED
  BY <1>1 DEF Chunk, PlacedOnce, PlacesOf, UsesOf

LEMMA ChunkTwo ==
  ASSUME NEW e \in Entry, NEW f \in Entry, Places(e) \cap Places(f) = {}
  PROVE  Chunk(<<e, f>>, Places(e) \cup Places(f), Uses(e) \cup Uses(f))
<1> HIDE DEF Entry
<1>1. <<e, f>> \in Seq(Entry) /\ DOMAIN <<e, f>> = {1, 2} /\ <<e, f>>[1] = e /\ <<e, f>>[2] = f
  OBVIOUS
<1>2. PlacedOnce(<<e, f>>)
  BY <1>1 DEF PlacedOnce
<1>3. PlacesOf(<<e, f>>) = Places(e) \cup Places(f) /\ UsesOf(<<e, f>>) = Uses(e) \cup Uses(f)
  BY <1>1 DEF PlacesOf, UsesOf
<1> QED
  BY <1>1, <1>2, <1>3 DEF Chunk

-------------------------------------------------------------------------------
(* What the handlers put into a chunk. *)

LEMMA BodyFacts ==
  ASSUME NEW body \in Bodies
  PROVE  /\ body \in Seq(Statement) /\ Len(body) \in Nat /\ DOMAIN body = 1..Len(body)
         /\ \A i \in DOMAIN body : body[i] \in Statement /\ WellFormed(body[i])
         /\ body \in ClosedBodies => \A i \in DOMAIN body : Closed(body[i])
<1>1. body \in Seq(Statement)
  BY ProgramAssumption
<1>2. Len(body) \in Nat /\ DOMAIN body = 1..Len(body) /\ \A i \in 1..Len(body) : body[i] \in Statement
  BY <1>1, LenProperties, ElementOfSeq
<1> QED
  BY <1>1, <1>2, ProgramAssumption

LEMMA StatementFacts ==
  ASSUME NEW stmt \in Statement
  PROVE  /\ stmt.kind \in StatementKinds /\ stmt.id \in Nat
         /\ Len(stmt.parts) \in Nat /\ DOMAIN stmt.parts = 1..Len(stmt.parts)
         /\ \A k \in DOMAIN stmt.parts :
              /\ stmt.parts[k].test \in Nat
              /\ stmt.parts[k].present \in BOOLEAN
              /\ stmt.parts[k].body \in Bodies
<1> DEFINE Block_ == [test : Nat, present : BOOLEAN, body : Bodies]
<1>1. stmt.kind \in StatementKinds /\ stmt.id \in Nat /\ stmt.parts \in Seq(Block_)
  BY DEF Statement
<1> HIDE DEF Block_
<1>2. /\ Len(stmt.parts) \in Nat /\ DOMAIN stmt.parts = 1..Len(stmt.parts)
      /\ \A k \in DOMAIN stmt.parts : stmt.parts[k] \in Block_
  BY <1>1, LenProperties, ElementOfSeq
<1> QED
  BY <1>1, <1>2 DEF Block_

\* An instruction.
LEMMA EmitFacts ==
  ASSUME NEW op \in CodeOps \cup JumpOps \cup {"label"}, NEW id \in Nat, NEW label \in Nat
  PROVE  LET e == Emit(op, id, label) IN
         /\ e \in Entry
         /\ Places(e) = IF op = "label" THEN {label} ELSE {}
         /\ Uses(e) = IF op \in JumpOps THEN {label} ELSE {}
BY DEF Emit, Instr, Entry, EmitEntry, IrInstr, Places, Uses, InstrPlaces, InstrUses

LEMMA EmitPlain ==
  ASSUME NEW op \in CodeOps, NEW id \in Nat, NEW label \in Nat
  PROVE  Chunk(<<Emit(op, id, label)>>, {}, {})
<1> DEFINE e == Emit(op, id, label)
<1>1. e \in Entry /\ Places(e) = {} /\ Uses(e) = {}
  BY EmitFacts DEF CodeOps, JumpOps
<1> HIDE DEF e
<1>2. Chunk(<<e>>, Places(e), Uses(e))
  BY <1>1, ChunkOne
<1> QED
  BY <1>1, <1>2 DEF e

LEMMA PlaceLabelFacts ==
  ASSUME NEW label \in Nat
  PROVE  Chunk(<<PlaceLabel(label)>>, {label}, {})
<1> DEFINE e == PlaceLabel(label)
<1>1. e \in Entry /\ Places(e) = {label} /\ Uses(e) = {}
  BY EmitFacts DEF PlaceLabel, JumpOps
<1> HIDE DEF e
<1>2. Chunk(<<e>>, Places(e), Uses(e))
  BY <1>1, ChunkOne
<1> QED
  BY <1>1, <1>2 DEF e

LEMMA JumpFacts ==
  ASSUME NEW label \in Nat
  PROVE  Chunk(<<Jump(label)>>, {}, {label})
<1> DEFINE e == Jump(label)
<1>1. e \in Entry /\ Places(e) = {} /\ Uses(e) = {label}
  BY EmitFacts DEF Jump, JumpOps
<1> HIDE DEF e
<1>2. Chunk(<<e>>, Places(e), Uses(e))
  BY <1>1, ChunkOne
<1> QED
  BY <1>1, <1>2 DEF e

\* A jump to one label and the place of another.
LEMMA JumpPlaceFacts ==
  ASSUME NEW to \in Nat, NEW label \in Nat
  PROVE  Chunk(<<Jump(to), PlaceLabel(label)>>, {label}, {to})
<1> DEFINE e == Jump(to)
           f == PlaceLabel(label)
<1>1. e \in Entry /\ Places(e) = {} /\ Uses(e) = {to}
  BY EmitFacts DEF Jump, JumpOps
<1>2. f \in Entry /\ Places(f) = {label} /\ Uses(f) = {}
  BY EmitFacts DEF PlaceLabel, JumpOps
<1> HIDE DEF e, f
<1>3. Chunk(<<e, f>>, Places(e) \cup Places(f), Uses(e) \cup Uses(f))
  BY <1>1, <1>2, ChunkTwo
<1>4. Places(e) \cup Places(f) = {label} /\ Uses(e) \cup Uses(f) = {to}
  BY <1>1, <1>2
<1> QED
  BY <1>3, <1>4 DEF e, f

\* A comparison of either kind and its jump to the false label.
LEMMA TestFacts ==
  ASSUME NEW op \in {"test", "case"}, NEW id \in Nat, NEW tmp \in Nat, NEW false_label \in Nat
  PROVE  Chunk(<<Emit(op, id, tmp), Emit("jnz", 0, false_label)>>, {}, {false_label})
<1> DEFINE e == Emit(op, id, tmp)
           f == Emit("jnz", 0, false_label)
<1>1. e \in Entry /\ Places(e) = {} /\ Uses(e) = {}
  BY EmitFacts DEF JumpOps, CodeOps
<1>2. f \in Entry /\ Places(f) = {} /\ Uses(f) = {false_label}
  BY EmitFacts DEF JumpOps
<1> HIDE DEF e, f
<1>3. Chunk(<<e, f>>, Places(e) \cup Places(f), Uses(e) \cup Uses(f))
  BY <1>1, <1>2, ChunkTwo
<1>4. Places(e) \cup Places(f) = {} /\ Uses(e) \cup Uses(f) = {false_label}
  BY <1>1, <1>2
<1> QED
  BY <1>3, <1>4 DEF e, f

\* The calls for the statements of a block promise no label yet, and jump to the
\* labels of the loop around it if the block does not keep to itself.
LEMMA BlockFacts ==
  ASSUME NEW body \in Bodies, NEW brk \in Nat, NEW start \in Nat
  PROVE  Chunk(Block(body, brk, start), {}, IF body \in ClosedBodies THEN {} ELSE {brk, start})
<1> DEFINE s == Block(body, brk, start)
<1>1. ASSUME NEW i \in DOMAIN body
      PROVE  /\ s[i] \in Entry /\ Places(s[i]) = {}
             /\ Uses(s[i]) \subseteq {brk, start}
             /\ body \in ClosedBodies => Uses(s[i]) = {}
  <2>1. s[i] = Call(body[i].kind, body[i], 1, <<>>, brk, start)
    BY <1>1 DEF Block
  <2>2. /\ body[i] \in Statement /\ WellFormed(body[i]) /\ body[i].kind \in StatementKinds
        /\ body \in ClosedBodies => Closed(body[i])
    BY BodyFacts, StatementFacts
  <2> DEFINE e == s[i]
  <2>3. /\ e.call = body[i].kind /\ e.stmt = body[i] /\ e.k = 1 /\ e.labels = <<>>
        /\ e.current_break_label = brk /\ e.current_loop_start = start
    BY <2>1 DEF Call
  <2>4. <<>> \in Seq(Nat)
    OBVIOUS
  <2>5. e \in CallEntry
    BY <2>1, <2>2, <2>4 DEF Call, CallEntry
  <2>6. e.call # "emit" /\ e.call # "elseif" /\ e.call # "case"
    BY <2>2, <2>3 DEF StatementKinds
  <2> HIDE DEF e, s
  <2>7. Places(e) = {}
    BY <2>6 DEF Places
  <2>8. Uses(e) = IF Closed(body[i]) THEN {} ELSE {brk, start}
    BY <2>3, <2>6 DEF Uses
  <2>9. s[i] = e
    BY DEF e
  <2> QED
    BY <2>2, <2>5, <2>7, <2>8, <2>9 DEF Entry
<1>2. DOMAIN s = DOMAIN body
  BY DEF Block
<1> HIDE DEF s
<1>3. s \in Seq(Entry)
  <2>1. s = [i \in DOMAIN body |-> s[i]]
    BY <1>2 DEF s, Block
  <2>2. s \in [1..Len(body) -> Entry]
    BY <1>1, <2>1, BodyFacts
  <2> QED
    BY <2>2, BodyFacts, FunctionIsSeq
<1>4. PlacedOnce(s) /\ PlacesOf(s) = {}
  BY <1>1, <1>2 DEF PlacedOnce, PlacesOf
<1>5. UsesOf(s) \subseteq IF body \in ClosedBodies THEN {} ELSE {brk, start}
  BY <1>1, <1>2 DEF UsesOf
<1> QED
  BY <1>3, <1>4, <1>5 DEF Chunk, s

\* An entry of the worklist that is no instruction.
LEMMA CallFacts ==
  ASSUME NEW e \in Entry, e.call # "emit"
  PROVE  /\ e \in CallEntry
         /\ e.stmt \in Statement /\ WellFormed(e.stmt) /\ e.k \in Nat \ {0}
         /\ e.labels \in Seq(Nat)
         /\ e.current_break_label \in Nat /\ e.current_loop_start \in Nat
         /\ \/ e.call = e.stmt.kind
            \/ e.call = "elseif" /\ e.stmt.kind = "if" /\ e.labels # <<>>
            \/ e.call = "case" /\ e.stmt.kind = "switch" /\ e.labels # <<>>
         /\ e.stmt.kind \in StatementKinds
         /\ e.labels # <<>> => e.labels[1] \in Nat
         /\ Uses(e) = IF Closed(e.stmt) THEN {} ELSE {e.current_break_label, e.current_loop_start}
<1>1. e \in CallEntry
  BY DEF Entry, EmitEntry
<1>2. e.stmt \in Statement /\ WellFormed(e.stmt) /\ e.k \in Nat \ {0} /\ e.labels \in Seq(Nat)
      /\ e.current_break_label \in Nat /\ e.current_loop_start \in Nat
      /\ \/ e.call = e.stmt.kind
         \/ e.call = "elseif" /\ e.stmt.kind = "if" /\ e.labels # <<>>
         \/ e.call = "case" /\ e.stmt.kind = "switch" /\ e.labels # <<>>
  BY <1>1 DEF CallEntry
<1>3. e.stmt.kind \in StatementKinds
  BY <1>2, StatementFacts
<1>4. e.labels # <<>> => e.labels[1] \in Nat
  BY <1>2, TailFacts
<1> QED
  BY <1>1, <1>2, <1>3, <1>4 DEF Uses

\* The block of an if or a switch jumps out of it only if the statement does.
LEMMA InnerFacts ==
  ASSUME NEW e \in Entry, e.stmt.kind \in {"if", "switch"}, e.call # "emit",
         NEW k \in DOMAIN e.stmt.parts
  PROVE  Chunk(Block(e.stmt.parts[k].body, e.current_break_label, e.current_loop_start),
               {}, Uses(e))
<1>1. /\ e.stmt \in Statement /\ e.current_break_label \in Nat /\ e.current_loop_start \in Nat
      /\ Uses(e) = IF Closed(e.stmt) THEN {} ELSE {e.current_break_label, e.current_loop_start}
  BY CallFacts
<1>2. e.stmt.parts[k].body \in Bodies
  BY <1>1, StatementFacts
<1>3. Closed(e.stmt) => e.stmt.parts[k].body \in ClosedBodies
  BY DEF Closed
<1> DEFINE body == e.stmt.parts[k].body
           s == Block(body, e.current_break_label, e.current_loop_start)
           V == IF body \in ClosedBodies THEN {} ELSE {e.current_break_label, e.current_loop_start}
<1> HIDE DEF body
<1>4. Chunk(s, {}, V)
  BY <1>1, <1>2, BlockFacts DEF body
<1>5. V \subseteq Uses(e)
  BY <1>1, <1>3 DEF body
<1> HIDE DEF s, V
<1>6. Chunk(s, {}, Uses(e))
  BY <1>4, <1>5, ChunkWiden
<1> QED
  BY <1>6 DEF s, body

\* What is left of an if promises the label at its end.
LEMMA RestIfFacts ==
  ASSUME NEW e \in Entry, e.stmt.kind = "if", e.call # "emit",
         NEW k \in Nat \ {0}, NEW labels \in Seq(Nat), labels # <<>>
  PROVE  Chunk(<<Call("elseif", e.stmt, k, labels, e.current_break_label, e.current_loop_start)>>,
               {labels[1]}, Uses(e))
<1> DEFINE f == Call("elseif", e.stmt, k, labels, e.current_break_label, e.current_loop_start)
<1>1. /\ e.stmt \in Statement /\ WellFormed(e.stmt)
      /\ e.current_break_label \in Nat /\ e.current_loop_start \in Nat
      /\ Uses(e) = IF Closed(e.stmt) THEN {} ELSE {e.current_break_label, e.current_loop_start}
  BY CallFacts
<1>2. f \in Entry
  BY <1>1 DEF Call, Entry, CallEntry
<1>3. Places(f) = {labels[1]}
  BY DEF Call, Places
<1>4. Uses(f) = Uses(e)
  BY <1>1 DEF Call, Uses
<1> HIDE DEF f
<1>5. Chunk(<<f>>, Places(f), Uses(f))
  BY <1>2, ChunkOne
<1> QED
  BY <1>3, <1>4, <1>5 DEF f

\* What is left of a switch promises the labels of the parts that are left.
LEMMA RestSwitchFacts ==
  ASSUME NEW e \in Entry, e.stmt.kind = "switch", e.call # "emit",
         NEW k \in Nat \ {0}, NEW labels \in Seq(Nat), labels # <<>>
  PROVE  Chunk(<<Call("case", e.stmt, k, labels, e.current_break_label, e.current_loop_start)>>,
               CasePlaces(e.stmt, k, labels[1]), Uses(e))
<1> DEFINE f == Call("case", e.stmt, k, labels, e.current_break_label, e.current_loop_start)
<1>1. /\ e.stmt \in Statement /\ WellFormed(e.stmt)
      /\ e.current_break_label \in Nat /\ e.current_loop_start \in Nat
      /\ Uses(e) = IF Closed(e.stmt) THEN {} ELSE {e.current_break_label, e.current_loop_start}
  BY CallFacts
<1>2. f \in Entry
  BY <1>1 DEF Call, Entry, CallEntry
<1>3. Places(f) = CasePlaces(e.stmt, k, labels[1])
  BY DEF Call, Places
<1>4. Uses(f) = Uses(e)
  BY <1>1 DEF Call, Uses
<1> HIDE DEF f
<1>5. Chunk(<<f>>, Places(f), Uses(f))
  BY <1>2, ChunkOne
<1> QED
  BY <1>3, <1>4, <1>5 DEF f

-------------------------------------------------------------------------------
(* Promises. *)

\* The calls made for e keep its promises, with n labels from m on for those of
\* their own, each placed once; their jumps go where e may jump, or to a label
\* they promise.
KeepsPromises(e, calls, m, n) ==
  /\ calls \in Seq(Entry) /\ PlacedOnce(calls) /\ n \in Nat
  /\ Places(e) \subseteq PlacesOf(calls)
  /\ PlacesOf(calls) \subseteq Places(e) \cup m..m + n - 1
  /\ UsesOf(calls) \subseteq Uses(e) \cup PlacesOf(calls)

LEMMA ChunkKeeps ==
  ASSUME NEW e, NEW calls, NEW m, NEW n \in Nat, NEW P, NEW U, Chunk(calls, P, U),
         Places(e) \subseteq P, P \subseteq Places(e) \cup m..m + n - 1,
         U \subseteq Uses(e) \cup P
  PROVE  KeepsPromises(e, calls, m, n)
BY DEF KeepsPromises, Chunk

\* What the head of the worklist promises, and what the rest of it does.
LEMMA TailChunk ==
  ASSUME NEW s \in Seq(Entry), s # <<>>, PlacedOnce(s)
  PROVE  /\ Head(s) \in Entry
         /\ Chunk(Tail(s), PlacesOf(Tail(s)), UsesOf(Tail(s)))
         /\ PlacesOf(s) = Places(Head(s)) \cup PlacesOf(Tail(s))
         /\ Places(Head(s)) \cap PlacesOf(Tail(s)) = {}
         /\ UsesOf(s) = Uses(Head(s)) \cup UsesOf(Tail(s))
<1> HIDE DEF Entry
<1>1. /\ Tail(s) \in Seq(Entry) /\ Head(s) = s[1] /\ Head(s) \in Entry
      /\ DOMAIN Tail(s) = 1..(Len(s) - 1) /\ DOMAIN s = 1..Len(s) /\ Len(s) \in Nat \ {0}
      /\ \A i \in 1..(Len(s) - 1) : Tail(s)[i] = s[i + 1]
  BY TailFacts
<1>2. \A i \in DOMAIN s : i = 1 \/ (i - 1 \in DOMAIN Tail(s) /\ Tail(s)[i - 1] = s[i])
  <2> SUFFICES ASSUME NEW i \in 1..Len(s), i # 1
               PROVE  i - 1 \in 1..(Len(s) - 1) /\ Tail(s)[i - 1] = s[i]
    BY <1>1
  <2>1. i - 1 \in 1..(Len(s) - 1) /\ (i - 1) + 1 = i
    BY <1>1
  <2> QED
    BY <2>1, <1>1
<1>3. \A i \in DOMAIN Tail(s) : i + 1 \in DOMAIN s /\ i + 1 # 1 /\ Tail(s)[i] = s[i + 1]
  BY <1>1
<1>4. 1 \in DOMAIN s
  BY <1>1
<1>5. PlacedOnce(Tail(s))
  <2> SUFFICES ASSUME NEW i \in DOMAIN Tail(s), NEW j \in DOMAIN Tail(s), i # j
               PROVE  Places(Tail(s)[i]) \cap Places(Tail(s)[j]) = {}
    BY DEF PlacedOnce
  <2>1. i + 1 # j + 1
    BY <1>1
  <2> QED
    BY <2>1, <1>3 DEF PlacedOnce
<1>6. PlacesOf(s) = Places(Head(s)) \cup PlacesOf(Tail(s))
  <2>1. \A i \in DOMAIN s : Places(s[i]) \subseteq Places(Head(s)) \cup PlacesOf(Tail(s))
    BY <1>1, <1>2 DEF PlacesOf
  <2>2. \A i \in DOMAIN Tail(s) : Places(Tail(s)[i]) \subseteq PlacesOf(s)
    BY <1>3 DEF PlacesOf
  <2>3. Places(Head(s)) \subseteq PlacesOf(s)
    BY <1>1, <1>4 DEF PlacesOf
  <2>4. PlacesOf(s) \subseteq Places(Head(s)) \cup PlacesOf(Tail(s))
    BY <2>1 DEF PlacesOf
  <2>5. PlacesOf(Tail(s)) \subseteq PlacesOf(s)
    BY <2>2 DEF PlacesOf
  <2> QED
    BY <2>3, <2>4, <2>5
<1>7. Places(Head(s)) \cap PlacesOf(Tail(s)) = {}
  <2>1. \A i \in DOMAIN Tail(s) : Places(Head(s)) \cap Places(Tail(s)[i]) = {}
    BY <1>1, <1>3, <1>4 DEF PlacedOnce
  <2> QED
    BY <2>1 DEF PlacesOf
<1>8. UsesOf(s) = Uses(Head(s)) \cup UsesOf(Tail(s))
  <2>1. \A i \in DOMAIN s : Uses(s[i]) \subseteq Uses(Head(s)) \cup UsesOf(Tail(s))
    BY <1>1, <1>2 DEF UsesOf
  <2>2. \A i \in DOMAIN Tail(s) : Uses(Tail(s)[i]) \subseteq UsesOf(s)
    BY <1>3 DEF UsesOf
  <2>3. Uses(Head(s)) \subseteq UsesOf(s)
    BY <1>1, <1>4 DEF UsesOf
  <2>4. UsesOf(s) \subseteq Uses(Head(s)) \cup UsesOf(Tail(s))
    BY <2>1 DEF UsesOf
  <2>5. UsesOf(Tail(s)) \subseteq UsesOf(s)
    BY <2>2 DEF UsesOf
  <2> QED
    BY <2>3, <2>4, <2>5
<1> QED
  BY <1>1, <1>5, <1>6, <1>7, <1>8 DEF Chunk

-------------------------------------------------------------------------------
(* The invariants. *)

InstrPlacesOf(s) == UNION {InstrPlaces(s[i]) : i \in DOMAIN s}
InstrUsesOf(s)   == UNION {InstrUses(s[i]) : i \in DOMAIN s}
IrPlaces == InstrPlacesOf(ir)
IrUses   == InstrUsesOf(ir)
JumpUses == {jump_instructions[i].instr.label : i \in DOMAIN jump_instructions}

PendingJump == [instr : {i \in IrInstr : i.op \in JumpOps}, location : Nat]

\* Labels that have a place or will have one, and those that are jumped to.
Known  == DOMAIN label_map \cup IrPlaces \cup PlacesOf(work)
Wanted == JumpUses \cup IrUses \cup UsesOf(work)

\* The function being compiled has a break or continue outside of every loop.
OnStray == cont[1].rest \in {ImplicitReturn(body) : body \in Stray}

LabelTypes ==
  /\ phase \in {"lower", "emit", "patch", "run", "abandoned", "off"}
  /\ work \in Seq(Entry) /\ ir \in Seq(IrInstr) /\ jump_instructions \in Seq(PendingJump)
  /\ label_count \in Nat \ {0} /\ size \in Nat
  /\ (phase # "lower" => work = <<>>) /\ (phase \notin {"lower", "emit"} => ir = <<>>)

\* Every label has one place, or one is promised for it.
OnePlace ==
  /\ PlacedOnce(work)
  /\ \A i, j \in DOMAIN ir : i # j => InstrPlaces(ir[i]) \cap InstrPlaces(ir[j]) = {}
  /\ IrPlaces \cap PlacesOf(work) = {}
  /\ DOMAIN label_map \cap (IrPlaces \cup PlacesOf(work)) = {}
  /\ Known \subseteq 1..label_count - 1

\* No jump goes to a label that will have none, unless the program is at fault.
NoneMissing ==
  /\ phase \in {"lower", "emit", "patch"} => OnStray \/ Wanted \subseteq Known
  /\ phase = "abandoned" => OnStray

LabelInv == LabelTypes /\ OnePlace /\ NoneMissing

MachineCode ==
  [op : CodeOps \cup JumpOps \cup {"nop"}, id : Nat, tmp : Nat, len : Nat \ {0},
   offset : Seq(0..255)]

\* Instructions lie one behind the other up to the end of the code.
Boundaries == DOMAIN code \cup {size}
Tiled ==
  /\ size \in Nat /\ Prologue <= size /\ Prologue \in Boundaries
  /\ DOMAIN code \subseteq Prologue..size - 1
  /\ \A a \in DOMAIN code : code[a] \in MachineCode /\ a + code[a].len \in Boundaries

\* The room left for a jump is as long as the jump, and nothing else is to be filled.
RoomForJumps ==
  /\ \A i \in DOMAIN jump_instructions :
       LET jump == jump_instructions[i] IN
       /\ jump.location \in DOMAIN code
       /\ code[jump.location].op = "nop"
       /\ code[jump.location].len = JumpLength(jump.instr.op)
  /\ \A i, j \in DOMAIN jump_instructions :
       i # j => jump_instructions[i].location # jump_instructions[j].location
  /\ \A a \in DOMAIN code : code[a].op = "nop" =>
       \E i \in DOMAIN jump_instructions : jump_instructions[i].location = a

\* Labels are boundaries, and a jump that is filled in counts from its end to one.
JumpsPatched ==
  /\ \A l \in DOMAIN label_map : label_map[l] \in Boundaries
  /\ \A a \in DOMAIN code : code[a].op \in JumpOps =>
       /\ phase \notin {"lower", "emit"}
       /\ \E l \in DOMAIN label_map : code[a].offset = Bytes(label_map[l] - (a + code[a].len))

Framed ==
  /\ totalsizes \in Nat /\ frame_size \in Nat
  /\ phase \in {"run", "off"} =>
       /\ jump_instructions = <<>>
       /\ frame_size = totalsizes /\ frame_size % 16 = 0

\* What fits into a file fits into the 32 bits of an offset.
Fits == size <= 2147483647
Processor ==
  /\ flag \in BOOLEAN /\ \A t \in DOMAIN tmps : tmps[t] \in CaseValue
  /\ phase \notin {"run", "off"} => rip = Prologue
  /\ Fits => rip \in Boundaries

LayoutInv == Tiled /\ RoomForJumps /\ JumpsPatched /\ Framed /\ Processor

-------------------------------------------------------------------------------
(* The handlers of the IR generator keep the promises of their calls. *)

LEMMA TodoFacts ==
  ASSUME LabelInv, work # <<>>
  PROVE  Todo \in Entry /\ label_count \in Nat \ {0} /\ Places(Todo) \subseteq 1..label_count - 1
<1>1. work \in Seq(Entry) /\ label_count \in Nat \ {0} /\ PlacedOnce(work)
      /\ PlacesOf(work) \subseteq 1..label_count - 1
  BY DEF LabelInv, LabelTypes, OnePlace, Known
<1>2. Head(work) \in Entry /\ PlacesOf(work) = Places(Head(work)) \cup PlacesOf(Tail(work))
  BY <1>1, TailChunk
<1> QED
  BY <1>1, <1>2 DEF Todo

LEMMA ConditionFacts ==
  ASSUME NEW id \in Nat, NEW false_label \in Nat
  PROVE  Chunk(Condition(id, false_label), {}, {false_label})
BY TestFacts DEF Condition

LEMMA StatementKeeps ==
  ASSUME LabelInv, GenerateStatement
  PROVE  \E calls, n : KeepsPromises(Todo, calls, label_count, n) /\ Makes(calls, n)
<1>1. PICK e : e = Todo
  OBVIOUS
<1>2. PICK m : m = label_count
  OBVIOUS
<1>3. /\ e \in Entry /\ m \in Nat \ {0} /\ e.call = "do"
      /\ Makes(<<Emit("do", e.stmt.id, 0)>>, 0)
  BY <1>1, <1>2, TodoFacts DEF GenerateStatement, Lowering, Todo
<1>4. e.stmt.id \in Nat
  BY <1>3, CallFacts, StatementFacts
<1> DEFINE A == <<Emit("do", e.stmt.id, 0)>>
<1>5. Chunk(A, {}, {})
  BY <1>4, EmitPlain DEF CodeOps
<1>6. Places(e) = {}
  BY <1>3 DEF Places
<1> HIDE DEF A
<1>7. KeepsPromises(e, A, m, 0)
  BY <1>3, <1>5, <1>6, ChunkKeeps
<1> QED
  BY <1>1, <1>2, <1>3, <1>7 DEF A

LEMMA ReturnKeeps ==
  ASSUME LabelInv, GenerateReturn
  PROVE  \E calls, n : KeepsPromises(Todo, calls, label_count, n) /\ Makes(calls, n)
<1>1. PICK e : e = Todo
  OBVIOUS
<1>2. PICK m : m = label_count
  OBVIOUS
<1>3. /\ e \in Entry /\ m \in Nat \ {0} /\ e.call = "return"
      /\ Makes(<<Emit("ret", 0, 0)>>, 0)
  BY <1>1, <1>2, TodoFacts DEF GenerateReturn, Lowering, Todo
<1> DEFINE A == <<Emit("ret", 0, 0)>>
<1>5. Chunk(A, {}, {})
  BY EmitPlain DEF CodeOps
<1>6. Places(e) = {}
  BY <1>3 DEF Places
<1> HIDE DEF A
<1>7. KeepsPromises(e, A, m, 0)
  BY <1>3, <1>5, <1>6, ChunkKeeps
<1> QED
  BY <1>1, <1>2, <1>3, <1>7 DEF A

\* generate_if: the else if parts come next, with the label at the end.
LEMMA IfKeeps ==
  ASSUME LabelInv, GenerateIf
  PROVE  \E calls, n : KeepsPromises(Todo, calls, label_count, n) /\ Makes(calls, n)
<1>1. PICK e : e = Todo
  OBVIOUS
<1>2. PICK m : m = label_count
  OBVIOUS
<1>3. e \in Entry /\ m \in Nat \ {0} /\ e.call = "if"
  BY <1>1, <1>2, TodoFacts DEF GenerateIf, Lowering, Todo
<1>4. e.stmt \in Statement /\ e.stmt.kind = "if" /\ WellFormed(e.stmt)
  BY <1>3, CallFacts
<1>5. 1 \in DOMAIN e.stmt.parts /\ e.stmt.parts[1].test \in Nat
  BY <1>4, StatementFacts DEF WellFormed
<1> DEFINE A == Condition(e.stmt.parts[1].test, m)
           B == <<PlaceLabel(m + 1)>>
           C == Block(e.stmt.parts[1].body, e.current_break_label, e.current_loop_start)
           D == <<Jump(m + 2), PlaceLabel(m)>>
           E == <<Call("elseif", e.stmt, 2, <<m + 2>>, e.current_break_label, e.current_loop_start)>>
           calls == A \o B \o C \o D \o E
<1>6. Makes(calls, 3)
  BY <1>1, <1>2 DEF GenerateIf, Inner, Rest
<1>7. Chunk(A, {}, {m})
  BY <1>3, <1>5, ConditionFacts
<1>8. Chunk(B, {m + 1}, {})
  BY <1>3, PlaceLabelFacts
<1>9. Chunk(C, {}, Uses(e))
  BY <1>3, <1>4, <1>5, InnerFacts
<1>10. Chunk(D, {m}, {m + 2})
  BY <1>3, JumpPlaceFacts
<1>11. Chunk(E, {m + 2}, Uses(e))
  <2>1. PICK labels : labels = <<m + 2>>
    OBVIOUS
  <2>2. labels \in Seq(Nat) /\ labels # <<>> /\ labels[1] = m + 2
    BY <2>1, <1>3
  <2>3. Chunk(<<Call("elseif", e.stmt, 2, labels, e.current_break_label, e.current_loop_start)>>,
              {labels[1]}, Uses(e))
    BY <2>2, <1>3, <1>4, RestIfFacts
  <2> QED
    BY <2>1, <2>2, <2>3
<1> HIDE DEF A, B, C, D, E
<1>12. Chunk(A \o B, {} \cup {m + 1}, {m} \cup {})
  BY <1>7, <1>8, ChunkConcat
<1>13. Chunk(A \o B \o C, ({} \cup {m + 1}) \cup {}, ({m} \cup {}) \cup Uses(e))
  BY <1>12, <1>9, ChunkConcat
<1>14. Chunk(A \o B \o C \o D, (({} \cup {m + 1}) \cup {}) \cup {m},
             (({m} \cup {}) \cup Uses(e)) \cup {m + 2})
  <2>1. (({} \cup {m + 1}) \cup {}) \cap {m} = {}
    BY <1>3
  <2> QED
    BY <2>1, <1>13, <1>10, ChunkConcat
<1>15. Chunk(calls, ((({} \cup {m + 1}) \cup {}) \cup {m}) \cup {m + 2},
             ((({m} \cup {}) \cup Uses(e)) \cup {m + 2}) \cup Uses(e))
  <2>1. ((({} \cup {m + 1}) \cup {}) \cup {m}) \cap {m + 2} = {}
    BY <1>3
  <2> QED
    BY <2>1, <1>14, <1>11, ChunkConcat
<1>16. Places(e) = {}
  BY <1>3 DEF Places
<1> HIDE DEF calls
<1>17. ((({} \cup {m + 1}) \cup {}) \cup {m}) \cup {m + 2} \subseteq m..m + 3 - 1
  BY <1>3
<1>18. KeepsPromises(e, calls, m, 3)
  BY <1>15, <1>16, <1>17, ChunkKeeps
<1> QED
  BY <1>1, <1>2, <1>6, <1>18

\* An else if ends like the if, at the label it was given.
LEMMA ElseifKeeps ==
  ASSUME LabelInv, GenerateElseif
  PROVE  \E calls, n : KeepsPromises(Todo, calls, label_count, n) /\ Makes(calls, n)
<1>1. PICK e : e = Todo
  OBVIOUS
<1>2. PICK m : m = label_count
  OBVIOUS
<1>3. e \in Entry /\ m \in Nat \ {0} /\ e.call = "elseif" /\ Places(e) \subseteq 1..m - 1
  BY <1>1, <1>2, TodoFacts DEF GenerateElseif, Lowering, Todo
<1>4. /\ e.stmt \in Statement /\ e.stmt.kind = "if" /\ e.k \in Nat \ {0}
      /\ e.labels \in Seq(Nat) /\ e.labels # <<>> /\ e.labels[1] \in Nat
  BY <1>3, CallFacts DEF StatementKinds
<1>5. PICK k : k = e.k
  OBVIOUS
<1>6. k \in DOMAIN e.stmt.parts /\ k \in Nat \ {0} /\ e.stmt.parts[k].test \in Nat
  <2>1. k <= Len(e.stmt.parts)
    BY <1>1, <1>5 DEF GenerateElseif
  <2> QED
    BY <2>1, <1>4, <1>5, StatementFacts
<1> DEFINE A == Condition(e.stmt.parts[k].test, m + 1)
           B == <<PlaceLabel(m)>>
           C == Block(e.stmt.parts[k].body, e.current_break_label, e.current_loop_start)
           D == <<Jump(e.labels[1]), PlaceLabel(m + 1)>>
           E == <<Call("elseif", e.stmt, k + 1, e.labels, e.current_break_label, e.current_loop_start)>>
           calls == A \o B \o C \o D \o E
<1>7. Makes(calls, 2)
  BY <1>1, <1>2, <1>5 DEF GenerateElseif, Inner, Rest
<1>8. Chunk(A, {}, {m + 1})
  BY <1>3, <1>6, ConditionFacts
<1>9. Chunk(B, {m}, {})
  BY <1>3, PlaceLabelFacts
<1>10. Chunk(C, {}, Uses(e))
  BY <1>3, <1>4, <1>6, InnerFacts
<1>11. Chunk(D, {m + 1}, {e.labels[1]})
  BY <1>3, <1>4, JumpPlaceFacts
<1>12. Chunk(E, {e.labels[1]}, Uses(e))
  BY <1>3, <1>4, <1>6, RestIfFacts, SMTT(30)
<1>13. PICK l : l = e.labels[1]
  OBVIOUS
<1>14. Places(e) = {l} /\ l \in 1..m - 1
  <2>1. Places(e) = {l}
    BY <1>3, <1>13 DEF Places
  <2> QED
    BY <2>1, <1>3
<1> HIDE DEF A, B, C, D, E
<1>15. Chunk(A \o B, {} \cup {m}, {m + 1} \cup {})
  BY <1>8, <1>9, ChunkConcat
<1>16. Chunk(A \o B \o C, ({} \cup {m}) \cup {}, ({m + 1} \cup {}) \cup Uses(e))
  BY <1>15, <1>10, ChunkConcat
<1>17. Chunk(A \o B \o C \o D, (({} \cup {m}) \cup {}) \cup {m + 1},
             (({m + 1} \cup {}) \cup Uses(e)) \cup {l})
  <2>1. (({} \cup {m}) \cup {}) \cap {m + 1} = {}
    BY <1>3
  <2> QED
    BY <2>1, <1>13, <1>16, <1>11, ChunkConcat
<1>18. Chunk(calls, ((({} \cup {m}) \cup {}) \cup {m + 1}) \cup {l},
             ((({m + 1} \cup {}) \cup Uses(e)) \cup {l}) \cup Uses(e))
  <2>1. ((({} \cup {m}) \cup {}) \cup {m + 1}) \cap {l} = {}
    BY <1>3, <1>14
  <2> QED
    BY <2>1, <1>13, <1>17, <1>12, ChunkConcat
<1> HIDE DEF calls
<1>19. ((({} \cup {m}) \cup {}) \cup {m + 1}) \cup {l} \subseteq {l} \cup m..m + 2 - 1
  BY <1>3
<1>20. KeepsPromises(e, calls, m, 2)
  BY <1>14, <1>18, <1>19, ChunkKeeps
<1> QED
  BY <1>1, <1>2, <1>7, <1>20

LEMMA ElseKeeps ==
  ASSUME LabelInv, GenerateElse
  PROVE  \E calls, n : KeepsPromises(Todo, calls, label_count, n) /\ Makes(calls, n)
<1>1. PICK e : e = Todo
  OBVIOUS
<1>2. PICK m : m = label_count
  OBVIOUS
<1>3. e \in Entry /\ m \in Nat \ {0} /\ e.call = "elseif" /\ Places(e) \subseteq 1..m - 1
  BY <1>1, <1>2, TodoFacts DEF GenerateElse, Lowering, Todo
<1>4. /\ e.stmt \in Statement /\ e.stmt.kind = "if" /\ e.k \in Nat \ {0}
      /\ e.labels \in Seq(Nat) /\ e.labels # <<>>
  BY <1>3, CallFacts DEF StatementKinds
<1>5. PICK k : k = e.k
  OBVIOUS
<1>6. k \in DOMAIN e.stmt.parts /\ k \in Nat \ {0}
  <2>1. k <= Len(e.stmt.parts)
    BY <1>1, <1>5 DEF GenerateElse
  <2> QED
    BY <2>1, <1>4, <1>5, StatementFacts
<1> DEFINE C == Block(e.stmt.parts[k].body, e.current_break_label, e.current_loop_start)
           E == <<Call("elseif", e.stmt, k + 1, e.labels, e.current_break_label, e.current_loop_start)>>
<1>7. Makes(C \o E, 0)
  BY <1>1, <1>5 DEF GenerateElse, Inner, Rest
<1>8. Chunk(C, {}, Uses(e))
  BY <1>3, <1>4, <1>6, InnerFacts
<1>9. Chunk(E, {e.labels[1]}, Uses(e))
  BY <1>3, <1>4, <1>6, RestIfFacts
<1>10. Places(e) = {e.labels[1]}
  BY <1>3 DEF Places
<1> HIDE DEF C, E
<1>11. Chunk(C \o E, {} \cup {e.labels[1]}, Uses(e) \cup Uses(e))
  BY <1>8, <1>9, ChunkConcat
<1>12. KeepsPromises(e, C \o E, m, 0)
  BY <1>10, <1>11, ChunkKeeps
<1> QED
  BY <1>1, <1>2, <1>7, <1>12

LEMMA EndIfKeeps ==
  ASSUME LabelInv, EndIf
  PROVE  \E calls, n : KeepsPromises(Todo, calls, label_count, n) /\ Makes(calls, n)
<1>1. PICK e : e = Todo
  OBVIOUS
<1>2. PICK m : m = label_count
  OBVIOUS
<1>3. e \in Entry /\ m \in Nat \ {0} /\ e.call = "elseif" /\ Places(e) \subseteq 1..m - 1
  BY <1>1, <1>2, TodoFacts DEF EndIf, Lowering, Todo
<1>4. e.labels[1] \in Nat
  BY <1>3, CallFacts DEF StatementKinds
<1> DEFINE A == <<PlaceLabel(e.labels[1])>>
<1>5. Makes(A, 0)
  BY <1>1 DEF EndIf
<1>6. Chunk(A, {e.labels[1]}, {})
  BY <1>4, PlaceLabelFacts
<1>7. Places(e) = {e.labels[1]}
  BY <1>3 DEF Places
<1> HIDE DEF A
<1>8. KeepsPromises(e, A, m, 0)
  BY <1>6, <1>7, ChunkKeeps
<1> QED
  BY <1>1, <1>2, <1>5, <1>8

LEMMA LoopBodyFacts ==
  ASSUME NEW body \in Bodies, NEW brk \in Nat, NEW start \in Nat
  PROVE  /\ Chunk(Block(body, brk, start), {}, {brk, start})
         /\ body \in ClosedBodies => Chunk(Block(body, brk, start), {}, {})
<1> DEFINE s == Block(body, brk, start)
           V == IF body \in ClosedBodies THEN {} ELSE {brk, start}
<1>1. Chunk(s, {}, V)
  BY BlockFacts
<1>2. V \subseteq {brk, start} /\ (body \in ClosedBodies => V = {})
  OBVIOUS
<1> HIDE DEF s, V
<1>3. Chunk(s, {}, {brk, start})
  BY <1>1, <1>2, ChunkWiden
<1> QED
  BY <1>1, <1>2, <1>3 DEF s

\* A loop promises the two labels its body may jump to.
LEMMA LoopKeeps ==
  ASSUME LabelInv, GenerateLoop
  PROVE  \E calls, n : KeepsPromises(Todo, calls, label_count, n) /\ Makes(calls, n)
<1>1. PICK e : e = Todo
  OBVIOUS
<1>2. PICK m : m = label_count
  OBVIOUS
<1>3. e \in Entry /\ m \in Nat \ {0} /\ e.call = "loop" /\ Places(e) \subseteq 1..m - 1
  BY <1>1, <1>2, TodoFacts DEF GenerateLoop, Lowering, Todo
<1>4. e.stmt \in Statement /\ e.stmt.kind = "loop" /\ WellFormed(e.stmt)
  BY <1>3, CallFacts
<1>5. e.stmt.parts[1].body \in Bodies
  BY <1>4, StatementFacts DEF WellFormed
<1> DEFINE A == <<PlaceLabel(m)>>
           C == Block(e.stmt.parts[1].body, m + 1, m)
           D == <<Jump(m), PlaceLabel(m + 1)>>
           calls == A \o C \o D
<1>6. Makes(calls, 2)
  BY <1>1, <1>2 DEF GenerateLoop
<1>7. Chunk(A, {m}, {})
  BY <1>3, PlaceLabelFacts
<1>8. Chunk(C, {}, {m + 1, m})
  BY <1>3, <1>5, LoopBodyFacts
<1>9. Chunk(D, {m + 1}, {m})
  BY <1>3, JumpPlaceFacts
<1> HIDE DEF A, C, D
<1>10. Chunk(A \o C, {m} \cup {}, {} \cup {m + 1, m})
  BY <1>7, <1>8, ChunkConcat
<1>11. Chunk(calls, ({m} \cup {}) \cup {m + 1}, ({} \cup {m + 1, m}) \cup {m})
  <2>1. ({m} \cup {}) \cap {m + 1} = {}
    BY <1>3
  <2> QED
    BY <2>1, <1>10, <1>9, ChunkConcat
<1>12. Places(e) = {}
  BY <1>3 DEF Places
<1> HIDE DEF calls
<1>13. ({m} \cup {}) \cup {m + 1} \subseteq m..m + 2 - 1
  BY <1>3
<1>14. KeepsPromises(e, calls, m, 2)
  BY <1>11, <1>12, <1>13, ChunkKeeps
<1> QED
  BY <1>1, <1>2, <1>6, <1>14

LEMMA WhileKeeps ==
  ASSUME LabelInv, GenerateWhile
  PROVE  \E calls, n : KeepsPromises(Todo, calls, label_count, n) /\ Makes(calls, n)
<1>1. PICK e : e = Todo
  OBVIOUS
<1>2. PICK m : m = label_count
  OBVIOUS
<1>3. e \in Entry /\ m \in Nat \ {0} /\ e.call = "while" /\ Places(e) \subseteq 1..m - 1
  BY <1>1, <1>2, TodoFacts DEF GenerateWhile, Lowering, Todo
<1>4. e.stmt \in Statement /\ e.stmt.kind = "while" /\ WellFormed(e.stmt)
  BY <1>3, CallFacts
<1>5. e.stmt.parts[1].body \in Bodies /\ e.stmt.parts[1].test \in Nat
  BY <1>4, StatementFacts DEF WellFormed
<1> DEFINE A == <<PlaceLabel(m)>>
           B == Condition(e.stmt.parts[1].test, m + 1)
           C == Block(e.stmt.parts[1].body, m + 1, m)
           D == <<Jump(m), PlaceLabel(m + 1)>>
           calls == A \o B \o C \o D
<1>6. Makes(calls, 2)
  BY <1>1, <1>2 DEF GenerateWhile
<1>7. Chunk(A, {m}, {})
  BY <1>3, PlaceLabelFacts
<1>8. Chunk(B, {}, {m + 1})
  BY <1>3, <1>5, ConditionFacts
<1>9. Chunk(C, {}, {m + 1, m})
  BY <1>3, <1>5, LoopBodyFacts
<1>10. Chunk(D, {m + 1}, {m})
  BY <1>3, JumpPlaceFacts
<1> HIDE DEF A, B, C, D
<1>11. Chunk(A \o B, {m} \cup {}, {} \cup {m + 1})
  BY <1>7, <1>8, ChunkConcat
<1>12. Chunk(A \o B \o C, ({m} \cup {}) \cup {}, ({} \cup {m + 1}) \cup {m + 1, m})
  BY <1>11, <1>9, ChunkConcat
<1>13. Chunk(calls, (({m} \cup {}) \cup {}) \cup {m + 1}, (({} \cup {m + 1}) \cup {m + 1, m}) \cup {m})
  <2>1. (({m} \cup {}) \cup {}) \cap {m + 1} = {}
    BY <1>3
  <2> QED
    BY <2>1, <1>12, <1>10, ChunkConcat
<1>14. Places(e) = {}
  BY <1>3 DEF Places
<1> HIDE DEF calls
<1>15. (({m} \cup {}) \cup {}) \cup {m + 1} \subseteq m..m + 2 - 1
  BY <1>3
<1>16. KeepsPromises(e, calls, m, 2)
  BY <1>13, <1>14, <1>15, ChunkKeeps
<1> QED
  BY <1>1, <1>2, <1>6, <1>16

\* The step of a for has no loop to break, and needs none.
LEMMA ForLoopChunk ==
  ASSUME LabelInv, Lowering("for") \/ Lowering("forassign"), NEW m, m = label_count
  PROVE  Chunk(ForLoop, m..m + 2, m..m + 2)
<1>1. PICK e : e = Todo
  OBVIOUS
<1>2. e \in Entry /\ m \in Nat \ {0} /\ e.call \in {"for", "forassign"}
  BY <1>1, TodoFacts DEF Lowering, Todo
<1>3. e.stmt \in Statement /\ e.stmt.kind \in {"for", "forassign"} /\ WellFormed(e.stmt)
  BY <1>2, CallFacts
<1>4. /\ e.stmt.parts[1].body \in Bodies /\ e.stmt.parts[1].test \in Nat
      /\ e.stmt.parts[2].body \in Bodies /\ e.stmt.parts[2].body \in ClosedBodies
  <2>1. 1 \in DOMAIN e.stmt.parts /\ 2 \in DOMAIN e.stmt.parts /\ e.stmt.parts[2].body \in ClosedBodies
    BY <1>3, StatementFacts DEF WellFormed
  <2> QED
    BY <1>3, <2>1, StatementFacts
<1> DEFINE A == <<PlaceLabel(m)>>
           B == Condition(e.stmt.parts[1].test, m + 1)
           C == Block(e.stmt.parts[1].body, m + 1, m + 2)
           D == <<PlaceLabel(m + 2)>>
           E == Block(e.stmt.parts[2].body, NoLabel, NoLabel)
           F == <<Jump(m), PlaceLabel(m + 1)>>
           calls == A \o B \o C \o D \o E \o F
<1>5. ForLoop = calls
  BY <1>1 DEF ForLoop
<1>6. Chunk(A, {m}, {})
  BY <1>2, PlaceLabelFacts
<1>7. Chunk(B, {}, {m + 1})
  BY <1>2, <1>4, ConditionFacts
<1>8. Chunk(C, {}, {m + 1, m + 2})
  BY <1>2, <1>4, LoopBodyFacts
<1>9. Chunk(D, {m + 2}, {})
  BY <1>2, PlaceLabelFacts
<1>10. Chunk(E, {}, {})
  BY <1>4, LoopBodyFacts DEF NoLabel
<1>11. Chunk(F, {m + 1}, {m})
  BY <1>2, JumpPlaceFacts
<1> HIDE DEF A, B, C, D, E, F
<1>12. Chunk(A \o B, {m} \cup {}, {} \cup {m + 1})
  BY <1>6, <1>7, ChunkConcat
<1>13. Chunk(A \o B \o C, ({m} \cup {}) \cup {}, ({} \cup {m + 1}) \cup {m + 1, m + 2})
  BY <1>12, <1>8, ChunkConcat
<1>14. Chunk(A \o B \o C \o D, (({m} \cup {}) \cup {}) \cup {m + 2},
             (({} \cup {m + 1}) \cup {m + 1, m + 2}) \cup {})
  <2>1. (({m} \cup {}) \cup {}) \cap {m + 2} = {}
    BY <1>2
  <2> QED
    BY <2>1, <1>13, <1>9, ChunkConcat
<1>15. Chunk(A \o B \o C \o D \o E, ((({m} \cup {}) \cup {}) \cup {m + 2}) \cup {},
             ((({} \cup {m + 1}) \cup {m + 1, m + 2}) \cup {}) \cup {})
  BY <1>14, <1>10, ChunkConcat
<1>16. Chunk(calls, (((({m} \cup {}) \cup {}) \cup {m + 2}) \cup {}) \cup {m + 1},
             (((({} \cup {m + 1}) \cup {m + 1, m + 2}) \cup {}) \cup {}) \cup {m})
  <2>1. (((({m} \cup {}) \cup {}) \cup {m + 2}) \cup {}) \cap {m + 1} = {}
    BY <1>2
  <2> QED
    BY <2>1, <1>15, <1>11, ChunkConcat
<1> HIDE DEF calls
<1>17. /\ (((({m} \cup {}) \cup {}) \cup {m + 2}) \cup {}) \cup {m + 1} = m..m + 2
       /\ (((({} \cup {m + 1}) \cup {m + 1, m + 2}) \cup {}) \cup {}) \cup {m} = m..m + 2
  BY <1>2
<1>18. Chunk(calls, m..m + 2, m..m + 2)
  BY <1>16, <1>17
<1> QED
  BY <1>5, <1>18

LEMMA ForKeeps ==
  ASSUME LabelInv, GenerateFor
  PROVE  \E calls, n : KeepsPromises(Todo, calls, label_count, n) /\ Makes(calls, n)
<1>1. PICK e : e = Todo
  OBVIOUS
<1>2. PICK m : m = label_count
  OBVIOUS
<1>3. e \in Entry /\ m \in Nat \ {0} /\ e.call = "for" /\ Places(e) \subseteq 1..m - 1
  BY <1>1, <1>2, TodoFacts DEF GenerateFor, Lowering, Todo
<1>4. e.stmt.id \in Nat
  BY <1>3, CallFacts, StatementFacts
<1> DEFINE X == Emit("do", e.stmt.id, 0)
           calls == <<X>> \o ForLoop
<1>5. Makes(calls, 3)
  BY <1>1 DEF GenerateFor
<1>6. Chunk(<<X>>, {}, {})
  BY <1>4, EmitPlain DEF CodeOps
<1>7. Chunk(ForLoop, m..m + 2, m..m + 2)
  BY <1>2, ForLoopChunk DEF GenerateFor
<1> HIDE DEF X
<1>8. Chunk(calls, {} \cup m..m + 2, {} \cup m..m + 2)
  BY <1>6, <1>7, ChunkConcat
<1>9. Places(e) = {}
  BY <1>3 DEF Places
<1> HIDE DEF calls
<1>10. {} \cup m..m + 2 \subseteq m..m + 3 - 1
  BY <1>3
<1>11. KeepsPromises(e, calls, m, 3)
  BY <1>8, <1>9, <1>10, ChunkKeeps
<1> QED
  BY <1>1, <1>2, <1>5, <1>11

\* A for whose first part is dropped.
LEMMA ForAssignKeeps ==
  ASSUME LabelInv, GenerateForAssign
  PROVE  \E calls, n : KeepsPromises(Todo, calls, label_count, n) /\ Makes(calls, n)
<1>1. PICK e : e = Todo
  OBVIOUS
<1>2. PICK m : m = label_count
  OBVIOUS
<1>3. e \in Entry /\ m \in Nat \ {0} /\ e.call = "forassign" /\ Places(e) \subseteq 1..m - 1
  BY <1>1, <1>2, TodoFacts DEF GenerateForAssign, Lowering, Todo
<1>4. PICK calls : calls = ForLoop
  OBVIOUS
<1>5. Makes(calls, 3)
  BY <1>4 DEF GenerateForAssign
<1>6. Chunk(calls, m..m + 2, m..m + 2)
  BY <1>2, <1>4, ForLoopChunk DEF GenerateForAssign
<1>7. Places(e) = {}
  BY <1>3 DEF Places
<1>8. m..m + 2 \subseteq m..m + 3 - 1
  BY <1>3
<1>9. KeepsPromises(e, calls, m, 3)
  BY <1>6, <1>7, <1>8, ChunkKeeps
<1> QED
  BY <1>1, <1>2, <1>5, <1>9

\* A continue or break is allowed the labels of the loop it is in.
LEMMA ContinueKeeps ==
  ASSUME LabelInv, GenerateContinue
  PROVE  \E calls, n : KeepsPromises(Todo, calls, label_count, n) /\ Makes(calls, n)
<1>1. PICK e : e = Todo
  OBVIOUS
<1>2. PICK m : m = label_count
  OBVIOUS
<1>3. e \in Entry /\ m \in Nat \ {0} /\ e.call = "continue" /\ Places(e) \subseteq 1..m - 1
  BY <1>1, <1>2, TodoFacts DEF GenerateContinue, Lowering, Todo
<1>4. e.current_loop_start \in Nat /\ e.current_loop_start \in Uses(e)
  <2>1. /\ e.current_loop_start \in Nat
        /\ Uses(e) = IF Closed(e.stmt) THEN {} ELSE {e.current_break_label, e.current_loop_start}
        /\ e.stmt.kind = "continue"
    BY <1>3, CallFacts
  <2> QED
    BY <2>1 DEF Closed
<1> DEFINE A == <<Jump(e.current_loop_start)>>
<1>5. Makes(A, 0)
  BY <1>1 DEF GenerateContinue
<1>6. Chunk(A, {}, {e.current_loop_start})
  BY <1>4, JumpFacts
<1>7. Places(e) = {}
  BY <1>3 DEF Places
<1> HIDE DEF A
<1>8. KeepsPromises(e, A, m, 0)
  BY <1>4, <1>6, <1>7, ChunkKeeps
<1> QED
  BY <1>1, <1>2, <1>5, <1>8

LEMMA BreakKeeps ==
  ASSUME LabelInv, GenerateBreak
  PROVE  \E calls, n : KeepsPromises(Todo, calls, label_count, n) /\ Makes(calls, n)
<1>1. PICK e : e = Todo
  OBVIOUS
<1>2. PICK m : m = label_count
  OBVIOUS
<1>3. e \in Entry /\ m \in Nat \ {0} /\ e.call = "break" /\ Places(e) \subseteq 1..m - 1
  BY <1>1, <1>2, TodoFacts DEF GenerateBreak, Lowering, Todo
<1>4. e.current_break_label \in Nat /\ e.current_break_label \in Uses(e)
  <2>1. /\ e.current_break_label \in Nat
        /\ Uses(e) = IF Closed(e.stmt) THEN {} ELSE {e.current_break_label, e.current_loop_start}
        /\ e.stmt.kind = "break"
    BY <1>3, CallFacts
  <2> QED
    BY <2>1 DEF Closed
<1> DEFINE A == <<Jump(e.current_break_label)>>
<1>5. Makes(A, 0)
  BY <1>1 DEF GenerateBreak
<1>6. Chunk(A, {}, {e.current_break_label})
  BY <1>4, JumpFacts
<1>7. Places(e) = {}
  BY <1>3 DEF Places
<1> HIDE DEF A
<1>8. KeepsPromises(e, A, m, 0)
  BY <1>4, <1>6, <1>7, ChunkKeeps
<1> QED
  BY <1>1, <1>2, <1>5, <1>8

\* The cases of a switch come first, its default block last.
LEMMA SwitchShape ==
  ASSUME NEW stmt \in Statement, stmt.kind = "switch", WellFormed(stmt)
  PROVE  LET len == Len(stmt.parts) IN
         /\ len \in Nat /\ DOMAIN stmt.parts = 1..len
         /\ \/ /\ DefaultOf(stmt) = {} /\ CasesOf(stmt) = 1..len
               /\ Cardinality(CasesOf(stmt)) = len
            \/ /\ len >= 1 /\ DefaultOf(stmt) = {len} /\ CasesOf(stmt) = 1..(len - 1)
               /\ Cardinality(CasesOf(stmt)) = len - 1
<1>1. PICK len \in Nat : len = Len(stmt.parts) /\ DOMAIN stmt.parts = 1..len
  BY StatementFacts
<1>2. \A k \in 1..len : stmt.parts[k].test = 0 => k = len
  BY <1>1 DEF WellFormed
<1>3. CASE len >= 1 /\ stmt.parts[len].test = 0
  <2>1. DefaultOf(stmt) = {len} /\ CasesOf(stmt) = 1..(len - 1)
    BY <1>1, <1>2, <1>3 DEF DefaultOf, CasesOf
  <2>2. Cardinality(1..(len - 1)) = IF 1 > len - 1 THEN 0 ELSE (len - 1) - 1 + 1
    <3>1. 1 \in Int /\ len - 1 \in Int
      BY <1>1
    <3> QED
      BY <3>1, FS_Interval, Zenon
  <2> QED
    BY <1>1, <1>3, <2>1, <2>2
<1>4. CASE ~(len >= 1 /\ stmt.parts[len].test = 0)
  <2>1. DefaultOf(stmt) = {} /\ CasesOf(stmt) = 1..len
    BY <1>1, <1>2, <1>4 DEF DefaultOf, CasesOf
  <2>2. Cardinality(1..len) = IF 1 > len THEN 0 ELSE len - 1 + 1
    <3>1. 1 \in Int /\ len \in Int
      BY <1>1
    <3> QED
      BY <3>1, FS_Interval, Zenon
  <2> QED
    BY <1>1, <2>1, <2>2
<1> QED
  BY <1>3, <1>4

\* A switch needs as many labels as it takes numbers.
LEMMA SwitchPlaces ==
  ASSUME NEW stmt \in Statement, stmt.kind = "switch", WellFormed(stmt), NEW m \in Nat
  PROVE  LET c == Cardinality(CasesOf(stmt)) IN
         /\ c \in Nat
         /\ CasePlaces(stmt, 1, m + 1) \subseteq
              m..m + (2 + 2 * c + IF DefaultOf(stmt) # {} THEN 1 ELSE 0) - 1
<1>1. PICK len : len = Len(stmt.parts)
  OBVIOUS
<1>2. PICK c : c = Cardinality(CasesOf(stmt))
  OBVIOUS
<1>3. /\ len \in Nat
      /\ \/ DefaultOf(stmt) = {} /\ CasesOf(stmt) = 1..len /\ c = len
         \/ len >= 1 /\ DefaultOf(stmt) = {len} /\ CasesOf(stmt) = 1..(len - 1) /\ c = len - 1
  BY <1>1, <1>2, SwitchShape
<1>4. c \in Nat
  BY <1>3
<1>5. PICK last : last = m + (2 + 2 * c + IF DefaultOf(stmt) # {} THEN 1 ELSE 0) - 1
  OBVIOUS
<1>6. \A x \in CasePlaces(stmt, 1, m + 1) :
        \/ x = m
        \/ \E j \in CasesOf(stmt) : x = (m + 1) + 2 * j - 1 \/ x = (m + 1) + 2 * j
        \/ DefaultOf(stmt) # {} /\ x = (m + 1) + 2 * c + 1
  BY <1>2 DEF CasePlaces
<1>7. CasesOf(stmt) = 1..c
  BY <1>3
<1>8. last >= m + 2 * c + 1 /\ last \in Nat /\ (DefaultOf(stmt) # {} => last = m + 2 * c + 2)
  BY <1>4, <1>5
<1>9. \A x \in CasePlaces(stmt, 1, m + 1) : x \in m..last
  BY <1>4, <1>6, <1>7, <1>8
<1> QED
  BY <1>2, <1>4, <1>5, <1>9

\* What one case promises, and what the parts after it do.
LEMMA CaseStep ==
  ASSUME NEW stmt \in Statement, stmt.kind = "switch", WellFormed(stmt),
         NEW k \in CasesOf(stmt), NEW t \in Nat
  PROVE  LET own == (IF stmt.parts[k].present THEN {t + 2 * k - 1} ELSE {}) \cup {t + 2 * k} IN
         /\ CasePlaces(stmt, k, t) = own \cup CasePlaces(stmt, k + 1, t)
         /\ t >= 1 => {t + 2 * k - 1, t + 2 * k} \cap CasePlaces(stmt, k + 1, t) = {}
<1>1. PICK len : len = Len(stmt.parts)
  OBVIOUS
<1>2. PICK c : c = Cardinality(CasesOf(stmt))
  OBVIOUS
<1>3. /\ len \in Nat
      /\ \/ DefaultOf(stmt) = {} /\ CasesOf(stmt) = 1..len /\ c = len
         \/ len >= 1 /\ DefaultOf(stmt) = {len} /\ CasesOf(stmt) = 1..(len - 1) /\ c = len - 1
  BY <1>1, <1>2, SwitchShape
<1>4. k \in 1..c /\ c \in Nat /\ CasesOf(stmt) = 1..c
  BY <1>3
<1>5. \A j \in CasesOf(stmt) : j >= k <=> j = k \/ j >= k + 1
  BY <1>4
<1>6. \A j \in DefaultOf(stmt) : j >= k /\ j >= k + 1
  BY <1>3
<1> DEFINE B(i) == {t + 2 * j - 1 : j \in {j \in CasesOf(stmt) : j >= i /\ stmt.parts[j].present}}
           F(i) == {t + 2 * j : j \in {j \in CasesOf(stmt) : j >= i}}
           G(i) == {t + 2 * c + 1 : j \in {j \in DefaultOf(stmt) : j >= i}}
<1>7. \A i : CasePlaces(stmt, i, t) = {t - 1} \cup B(i) \cup F(i) \cup G(i)
  BY <1>2 DEF CasePlaces
<1>8. B(k) = (IF stmt.parts[k].present THEN {t + 2 * k - 1} ELSE {}) \cup B(k + 1)
  BY <1>5
<1>9. F(k) = {t + 2 * k} \cup F(k + 1)
  BY <1>5
<1>10. G(k) = G(k + 1)
  BY <1>6
<1>11. \A x \in B(k + 1) : x # t + 2 * k - 1 /\ x # t + 2 * k
  BY <1>4
<1>12. \A x \in F(k + 1) : x # t + 2 * k - 1 /\ x # t + 2 * k
  BY <1>4
<1>13. \A x \in G(k + 1) : x # t + 2 * k - 1 /\ x # t + 2 * k
  BY <1>4
<1>14. t - 1 # t + 2 * k - 1 /\ t - 1 # t + 2 * k
  BY <1>4
<1> HIDE DEF B, F, G
<1>15. CasePlaces(stmt, k, t) = {t - 1} \cup B(k) \cup F(k) \cup G(k)
  BY <1>7
<1>16. CasePlaces(stmt, k + 1, t) = {t - 1} \cup B(k + 1) \cup F(k + 1) \cup G(k + 1)
  BY <1>7
<1> QED
  BY <1>8, <1>9, <1>10, <1>11, <1>12, <1>13, <1>14, <1>15, <1>16

LEMMA DefaultStep ==
  ASSUME NEW stmt \in Statement, stmt.kind = "switch", WellFormed(stmt),
         NEW k \in DefaultOf(stmt), NEW t \in Nat
  PROVE  LET default_label == t + 2 * Cardinality(CasesOf(stmt)) + 1 IN
         /\ default_label \in Nat
         /\ CasePlaces(stmt, k, t) = {default_label} \cup CasePlaces(stmt, k + 1, t)
         /\ default_label \notin CasePlaces(stmt, k + 1, t)
<1>1. PICK len : len = Len(stmt.parts)
  OBVIOUS
<1>2. PICK c : c = Cardinality(CasesOf(stmt))
  OBVIOUS
<1>3. len \in Nat /\ len >= 1 /\ DefaultOf(stmt) = {len} /\ CasesOf(stmt) = 1..(len - 1) /\ c = len - 1
  <2>1. /\ len \in Nat
        /\ \/ DefaultOf(stmt) = {} /\ CasesOf(stmt) = 1..len /\ c = len
           \/ len >= 1 /\ DefaultOf(stmt) = {len} /\ CasesOf(stmt) = 1..(len - 1) /\ c = len - 1
    BY <1>1, <1>2, SwitchShape
  <2> QED
    BY <2>1
<1>4. k = len /\ c \in Nat
  BY <1>3
<1>5. \A j \in CasesOf(stmt) : ~(j >= k) /\ ~(j >= k + 1)
  BY <1>3, <1>4
<1>6. {j \in DefaultOf(stmt) : j >= k} = {k} /\ {j \in DefaultOf(stmt) : j >= k + 1} = {}
  BY <1>3, <1>4
<1>7. CasePlaces(stmt, k, t) = {t - 1} \cup {t + 2 * c + 1}
  BY <1>2, <1>5, <1>6 DEF CasePlaces
<1>8. CasePlaces(stmt, k + 1, t) = {t - 1}
  BY <1>5, <1>6 DEF CasePlaces
<1>9. t - 1 # t + 2 * c + 1 /\ t + 2 * c + 1 \in Nat
  BY <1>4
<1> QED
  BY <1>2, <1>7, <1>8, <1>9

\* The names the handlers of a switch use, for the call they are called for.
LEMMA SwitchNames ==
  ASSUME NEW e, e = Todo
  PROVE  /\ CaseParts = CasesOf(e.stmt)
         /\ HasDefault <=> DefaultOf(e.stmt) # {}
         /\ DOMAIN Parts \ CaseParts = DefaultOf(e.stmt) /\ Len(Parts) = Len(e.stmt.parts)
         /\ SwitchTmp = e.labels[1] /\ EndLabel = e.labels[1] - 1
         /\ \A k : BodyLabel(k) = e.labels[1] + 2 * k - 1
         /\ \A k : FalseLabel(k) = e.labels[1] + 2 * k - 1 + 1
         /\ DefaultLabel = e.labels[1] + 2 * Cardinality(CasesOf(e.stmt)) + 1
<1>1. CaseParts = CasesOf(e.stmt)
  BY DEF CaseParts, Parts, CasesOf
<1>2. HasDefault <=> DefaultOf(e.stmt) # {}
  BY DEF HasDefault, Parts, DefaultOf
<1>3. DOMAIN Parts \ CaseParts = DefaultOf(e.stmt)
  BY DEF CaseParts, Parts, DefaultOf
<1>4. DefaultLabel = e.labels[1] + 2 * Cardinality(CasesOf(e.stmt)) + 1
  BY <1>1 DEF DefaultLabel
<1> QED
  BY <1>1, <1>2, <1>3, <1>4 DEF Parts, SwitchTmp, EndLabel, BodyLabel, FalseLabel

\* A switch takes a number for its variable and one for each of its labels.
LEMMA SwitchKeeps ==
  ASSUME LabelInv, GenerateSwitch
  PROVE  \E calls, n : KeepsPromises(Todo, calls, label_count, n) /\ Makes(calls, n)
<1>1. PICK e : e = Todo
  OBVIOUS
<1>2. PICK m : m = label_count
  OBVIOUS
<1>3. e \in Entry /\ m \in Nat \ {0} /\ e.call = "switch" /\ Places(e) \subseteq 1..m - 1
  BY <1>1, <1>2, TodoFacts DEF GenerateSwitch, Lowering, Todo
<1>4. e.stmt \in Statement /\ e.stmt.kind = "switch" /\ WellFormed(e.stmt) /\ e.stmt.id \in Nat
  BY <1>3, CallFacts, StatementFacts
<1>5. PICK n : n = 2 + 2 * Cardinality(CasesOf(e.stmt)) + IF DefaultOf(e.stmt) # {} THEN 1 ELSE 0
  OBVIOUS
<1> DEFINE A == <<Emit("eval", e.stmt.id, m + 1)>>
           E == <<Call("case", e.stmt, 1, <<m + 1>>, e.current_break_label, e.current_loop_start)>>
<1>6. Makes(A \o E, n)
  <2>1. HasDefault <=> DefaultOf(e.stmt) # {}
    BY <1>1, SwitchNames
  <2>2. CaseParts = CasesOf(e.stmt)
    BY <1>1, SwitchNames
  <2>3. n = 2 + 2 * Cardinality(CaseParts) + IF HasDefault THEN 1 ELSE 0
    BY <1>5, <2>1, <2>2
  <2>4. Makes(<<Emit("eval", Todo.stmt.id, label_count + 1)>>
              \o Rest("case", 1, <<label_count + 1>>), n)
    BY <2>3 DEF GenerateSwitch
  <2> QED
    BY <2>4, <1>1, <1>2 DEF Rest
<1>7. Chunk(A, {}, {})
  BY <1>3, <1>4, EmitPlain DEF CodeOps
<1>8. Chunk(E, CasePlaces(e.stmt, 1, m + 1), Uses(e))
  <2>1. PICK labels : labels = <<m + 1>>
    OBVIOUS
  <2>2. labels \in Seq(Nat) /\ labels # <<>> /\ labels[1] = m + 1
    BY <2>1, <1>3
  <2>3. Chunk(<<Call("case", e.stmt, 1, labels, e.current_break_label, e.current_loop_start)>>,
              CasePlaces(e.stmt, 1, labels[1]), Uses(e))
    BY <2>2, <1>3, <1>4, RestSwitchFacts
  <2> QED
    BY <2>1, <2>2, <2>3
<1>9. n \in Nat /\ CasePlaces(e.stmt, 1, m + 1) \subseteq m..m + n - 1
  <2>1. Cardinality(CasesOf(e.stmt)) \in Nat
    BY <1>3, <1>4, SwitchPlaces
  <2>2. CasePlaces(e.stmt, 1, m + 1) \subseteq
          m..m + (2 + 2 * Cardinality(CasesOf(e.stmt)) + IF DefaultOf(e.stmt) # {} THEN 1 ELSE 0) - 1
    BY <1>3, <1>4, SwitchPlaces
  <2>3. n \in Nat
    BY <2>1, <1>5
  <2> QED
    BY <2>2, <2>3, <1>5
<1>10. Places(e) = {}
  BY <1>3 DEF Places
<1> HIDE DEF A, E
<1>11. Chunk(A \o E, {} \cup CasePlaces(e.stmt, 1, m + 1), {} \cup Uses(e))
  BY <1>7, <1>8, ChunkConcat
<1>12. KeepsPromises(e, A \o E, m, n)
  BY <1>9, <1>10, <1>11, ChunkKeeps
<1> QED
  BY <1>1, <1>2, <1>6, <1>12

\* A case places its labels and goes on, without a block of its own, at one that
\* is still to be placed.
LEMMA CaseKeeps ==
  ASSUME LabelInv, GenerateCase
  PROVE  \E calls, n : KeepsPromises(Todo, calls, label_count, n) /\ Makes(calls, n)
<1>1. PICK e : e = Todo
  OBVIOUS
<1>2. PICK m : m = label_count
  OBVIOUS
<1>3. e \in Entry /\ m \in Nat \ {0} /\ e.call = "case" /\ Places(e) \subseteq 1..m - 1
  BY <1>1, <1>2, TodoFacts DEF GenerateCase, Lowering, Todo
<1>4. /\ e.stmt \in Statement /\ e.stmt.kind = "switch" /\ WellFormed(e.stmt) /\ e.k \in Nat \ {0}
      /\ e.labels \in Seq(Nat) /\ e.labels # <<>> /\ e.labels[1] \in Nat
  BY <1>3, CallFacts DEF StatementKinds
<1>5. PICK k : k = e.k
  OBVIOUS
<1>6. PICK t \in Nat : t = e.labels[1]
  BY <1>4
<1>7. Places(e) = CasePlaces(e.stmt, k, t) /\ t >= 1
  <2>1. Places(e) = CasePlaces(e.stmt, k, t)
    BY <1>3, <1>5, <1>6 DEF Places
  <2>2. t - 1 \in Places(e)
    BY <2>1 DEF CasePlaces
  <2> QED
    BY <2>1, <2>2, <1>3
<1>8. k \in CasesOf(e.stmt) /\ k \in DOMAIN e.stmt.parts /\ e.stmt.parts[k].test \in Nat
  <2>1. k \in CasesOf(e.stmt)
    BY <1>1, <1>5, SwitchNames DEF GenerateCase
  <2> QED
    BY <2>1, <1>4, StatementFacts DEF CasesOf
<1>9. PICK next : next = FindNextBodyLabel(k)
  OBVIOUS
<1> DEFINE A == <<Emit("case", e.stmt.parts[k].test, t), Emit("jnz", 0, t + 2 * k - 1 + 1)>>
           B == <<PlaceLabel(t + 2 * k - 1)>>
           C == Block(e.stmt.parts[k].body, e.current_break_label, e.current_loop_start)
           D == <<Jump(t - 1)>>
           N == <<Jump(next)>>
           X == IF e.stmt.parts[k].present THEN B \o C \o D ELSE N
           F == <<PlaceLabel(t + 2 * k - 1 + 1)>>
           E == <<Call("case", e.stmt, k + 1, e.labels, e.current_break_label, e.current_loop_start)>>
           calls == A \o X \o F \o E
           later == CasePlaces(e.stmt, k + 1, t)
<1>10. Makes(calls, 0)
  <2>1. /\ BodyLabel(k) = t + 2 * k - 1 /\ FalseLabel(k) = t + 2 * k - 1 + 1
        /\ EndLabel = t - 1 /\ SwitchTmp = t
    BY <1>1, <1>6, SwitchNames
  <2>2. Makes(<<Emit("case", Parts[k].test, SwitchTmp), Emit("jnz", 0, FalseLabel(k))>>
           \o (IF Parts[k].present
               THEN <<PlaceLabel(BodyLabel(k))>> \o Inner(Parts[k].body) \o <<Jump(EndLabel)>>
               ELSE <<Jump(FindNextBodyLabel(k))>>)
           \o <<PlaceLabel(FalseLabel(k))>> \o Rest("case", k + 1, Todo.labels), 0)
    BY <1>1, <1>5 DEF GenerateCase
  <2>3. Parts[k] = e.stmt.parts[k]
    BY <1>1 DEF Parts
  <2>4. Inner(Parts[k].body) = C /\ Rest("case", k + 1, Todo.labels) = E
    BY <2>3, <1>1 DEF Inner, Rest
  <2> HIDE DEF C, E
  <2> QED
    BY <2>1, <2>2, <2>3, <2>4, <1>9
<1>11. k \in Nat /\ k >= 1 /\ t + 2 * k - 1 \in Nat /\ t + 2 * k - 1 + 1 = t + 2 * k /\ t - 1 \in Nat
  BY <1>4, <1>5, <1>7, SMTT(30)
<1>12. next \in later /\ next \in Nat
  <2> DEFINE W == {j \in CasesOf(e.stmt) : j > k /\ e.stmt.parts[j].present}
  <2>1. CasesOf(e.stmt) \subseteq Nat
    BY <1>4, StatementFacts DEF CasesOf
  <2>2. next = CASE W # {} -> t + 2 * Min(W) - 1
                 [] W = {} /\ DefaultOf(e.stmt) # {} -> t + 2 * Cardinality(CasesOf(e.stmt)) + 1
                 [] OTHER -> t - 1
    <3>1. /\ CaseParts = CasesOf(e.stmt) /\ (HasDefault <=> DefaultOf(e.stmt) # {})
          /\ EndLabel = t - 1 /\ DefaultLabel = t + 2 * Cardinality(CasesOf(e.stmt)) + 1
          /\ \A i : BodyLabel(i) = t + 2 * i - 1
      BY <1>1, <1>6, SwitchNames
    <3>2. {j \in CaseParts : j > k /\ Parts[j].present} = W
      BY <3>1, <1>1 DEF Parts
    <3>3. BodyLabel(Min(W)) = t + 2 * Min(W) - 1
      BY <3>1
    <3> HIDE DEF W
    <3>4. CASE W # {}
      BY <3>2, <3>3, <3>4, <1>9 DEF FindNextBodyLabel
    <3>5. CASE W = {} /\ DefaultOf(e.stmt) # {}
      BY <3>1, <3>2, <3>5, <1>9 DEF FindNextBodyLabel
    <3>6. CASE W = {} /\ DefaultOf(e.stmt) = {}
      BY <3>1, <3>2, <3>6, <1>9 DEF FindNextBodyLabel
    <3> QED
      BY <3>4, <3>5, <3>6
  <2>3. CASE W # {}
    <3>1. W \in SUBSET Nat
      BY <2>1
    <3>2. Min(W) \in W
      BY <3>1, <2>3, MinFacts
    <3>3. PICK j : j = Min(W)
      OBVIOUS
    <3>4. j \in CasesOf(e.stmt) /\ j \in Nat /\ j >= k + 1 /\ e.stmt.parts[j].present
      BY <3>2, <3>3, <2>1, <1>11
    <3>5. next = t + 2 * j - 1
      BY <2>2, <2>3, <3>3
    <3>6. next \in later
      BY <3>4, <3>5 DEF CasePlaces
    <3>7. next \in Nat
      BY <3>4, <3>5, <1>11
    <3> QED
      BY <3>6, <3>7
  <2>4. CASE W = {} /\ DefaultOf(e.stmt) # {}
    <3>1. PICK j : j \in DefaultOf(e.stmt)
      BY <2>4
    <3>2. j >= k + 1 /\ Cardinality(CasesOf(e.stmt)) \in Nat
      <4>1. PICK len : len = Len(e.stmt.parts)
        OBVIOUS
      <4>2. /\ len \in Nat /\ len >= 1 /\ DefaultOf(e.stmt) = {len} /\ CasesOf(e.stmt) = 1..(len - 1)
            /\ Cardinality(CasesOf(e.stmt)) = len - 1
        BY <2>4, <4>1, <1>4, SwitchShape
      <4> QED
        BY <4>2, <3>1, <1>8
    <3>3. next = t + 2 * Cardinality(CasesOf(e.stmt)) + 1
      BY <2>2, <2>4
    <3>4. next \in later
      BY <3>1, <3>2, <3>3 DEF CasePlaces
    <3>5. next \in Nat
      BY <3>2, <3>3
    <3> QED
      BY <3>4, <3>5
  <2>5. CASE W = {} /\ DefaultOf(e.stmt) = {}
    <3>1. next = t - 1
      BY <2>2, <2>5
    <3> QED
      BY <3>1, <1>11 DEF CasePlaces
  <2> QED
    BY <2>3, <2>4, <2>5
<1>13. Chunk(A, {}, {t + 2 * k})
  BY <1>8, <1>11, TestFacts
<1>14. Chunk(B, {t + 2 * k - 1}, {})
  BY <1>11, PlaceLabelFacts
<1>15. Chunk(C, {}, Uses(e))
  BY <1>3, <1>4, <1>8, InnerFacts
<1>16. Chunk(D, {}, {t - 1})
  BY <1>11, JumpFacts
<1>17. Chunk(N, {}, {next})
  BY <1>12, JumpFacts
<1>18. Chunk(F, {t + 2 * k}, {})
  <2>1. t + 2 * k \in Nat
    BY <1>11
  <2>2. Chunk(<<PlaceLabel(t + 2 * k)>>, {t + 2 * k}, {})
    BY <2>1, PlaceLabelFacts
  <2> QED
    BY <2>2, <1>11
<1>19. Chunk(E, later, Uses(e))
  <2>1. k + 1 \in Nat \ {0}
    BY <1>11
  <2> QED
    BY <2>1, <1>3, <1>4, <1>6, RestSwitchFacts
<1>20. /\ CasePlaces(e.stmt, k, t) =
             ((IF e.stmt.parts[k].present THEN {t + 2 * k - 1} ELSE {}) \cup {t + 2 * k}) \cup later
       /\ {t + 2 * k - 1, t + 2 * k} \cap later = {}
  BY <1>4, <1>7, <1>8, CaseStep
<1>21. t - 1 \in later
  BY DEF CasePlaces
<1>22. PICK own : own = IF e.stmt.parts[k].present THEN {t + 2 * k - 1} ELSE {}
  OBVIOUS
<1> HIDE DEF A, B, C, D, N, F, E, later
<1>23. Chunk(X, own, Uses(e) \cup later)
  <2>1. CASE e.stmt.parts[k].present
    <3>1. Chunk(B \o C, {t + 2 * k - 1} \cup {}, {} \cup Uses(e))
      BY <1>14, <1>15, ChunkConcat
    <3>2. Chunk(B \o C \o D, ({t + 2 * k - 1} \cup {}) \cup {}, ({} \cup Uses(e)) \cup {t - 1})
      BY <3>1, <1>16, ChunkConcat
    <3>3. Chunk(B \o C \o D, own, ({} \cup Uses(e)) \cup {t - 1})
      <4>1. ({t + 2 * k - 1} \cup {}) \cup {} = own
        BY <2>1, <1>22
      <4> QED
        BY <3>2, <4>1
    <3>4. ({} \cup Uses(e)) \cup {t - 1} \subseteq Uses(e) \cup later
      BY <1>21
    <3>5. Chunk(B \o C \o D, own, Uses(e) \cup later)
      BY <3>3, <3>4, ChunkWiden
    <3> QED
      BY <3>5, <2>1
  <2>2. CASE ~e.stmt.parts[k].present
    <3>1. {next} \subseteq Uses(e) \cup later /\ own = {}
      BY <1>12, <1>22, <2>2
    <3>2. Chunk(N, own, Uses(e) \cup later)
      BY <3>1, <1>17, ChunkWiden
    <3> QED
      BY <3>2, <2>2
  <2> QED
    BY <2>1, <2>2
<1> HIDE DEF X
<1>24. Chunk(A \o X, {} \cup own, {t + 2 * k} \cup (Uses(e) \cup later))
  BY <1>13, <1>23, ChunkConcat
<1>25. Chunk(A \o X \o F, ({} \cup own) \cup {t + 2 * k}, ({t + 2 * k} \cup (Uses(e) \cup later)) \cup {})
  <2>1. ({} \cup own) \cap {t + 2 * k} = {}
    BY <1>11, <1>22
  <2> QED
    BY <2>1, <1>24, <1>18, ChunkConcat
<1>26. Chunk(calls, (({} \cup own) \cup {t + 2 * k}) \cup later,
             (({t + 2 * k} \cup (Uses(e) \cup later)) \cup {}) \cup Uses(e))
  <2>1. (({} \cup own) \cup {t + 2 * k}) \cap later = {}
    BY <1>20, <1>22
  <2> QED
    BY <2>1, <1>25, <1>19, ChunkConcat
<1>27. Places(e) = (({} \cup own) \cup {t + 2 * k}) \cup later
  BY <1>7, <1>20, <1>22
<1> HIDE DEF calls
<1>28. KeepsPromises(e, calls, m, 0)
  BY <1>26, <1>27, ChunkKeeps
<1> QED
  BY <1>1, <1>2, <1>10, <1>28

LEMMA DefaultKeeps ==
  ASSUME LabelInv, GenerateDefault
  PROVE  \E calls, n : KeepsPromises(Todo, calls, label_count, n) /\ Makes(calls, n)
<1>1. PICK e : e = Todo
  OBVIOUS
<1>2. PICK m : m = label_count
  OBVIOUS
<1>3. e \in Entry /\ m \in Nat \ {0} /\ e.call = "case" /\ Places(e) \subseteq 1..m - 1
  BY <1>1, <1>2, TodoFacts DEF GenerateDefault, Lowering, Todo
<1>4. /\ e.stmt \in Statement /\ e.stmt.kind = "switch" /\ WellFormed(e.stmt) /\ e.k \in Nat \ {0}
      /\ e.labels \in Seq(Nat) /\ e.labels # <<>> /\ e.labels[1] \in Nat
  BY <1>3, CallFacts DEF StatementKinds
<1>5. PICK k : k = e.k
  OBVIOUS
<1>6. PICK t \in Nat : t = e.labels[1]
  BY <1>4
<1>7. Places(e) = CasePlaces(e.stmt, k, t) /\ t >= 1
  <2>1. Places(e) = CasePlaces(e.stmt, k, t)
    BY <1>3, <1>5, <1>6 DEF Places
  <2>2. t - 1 \in Places(e)
    BY <2>1 DEF CasePlaces
  <2> QED
    BY <2>1, <2>2, <1>3
<1>8. k \in DefaultOf(e.stmt) /\ k \in DOMAIN e.stmt.parts /\ k \in Nat
  <2>1. k \in DefaultOf(e.stmt)
    BY <1>1, <1>5, SwitchNames DEF GenerateDefault
  <2> QED
    BY <2>1, <1>4, <1>5, StatementFacts DEF DefaultOf
<1>9. PICK d : d = t + 2 * Cardinality(CasesOf(e.stmt)) + 1
  OBVIOUS
<1> DEFINE B == <<PlaceLabel(d)>>
           C == Block(e.stmt.parts[k].body, e.current_break_label, e.current_loop_start)
           E == <<Call("case", e.stmt, k + 1, e.labels, e.current_break_label, e.current_loop_start)>>
           later == CasePlaces(e.stmt, k + 1, t)
<1>10. Makes(B \o C \o E, 0)
  <2>1. DefaultLabel = d
    BY <1>1, <1>6, <1>9, SwitchNames
  <2>2. Makes(<<PlaceLabel(DefaultLabel)>> \o Inner(Parts[k].body)
              \o Rest("case", k + 1, Todo.labels), 0)
    BY <1>1, <1>5 DEF GenerateDefault
  <2>3. Inner(Parts[k].body) = C /\ Rest("case", k + 1, Todo.labels) = E
    BY <1>1 DEF Inner, Rest, Parts
  <2> HIDE DEF C, E
  <2> QED
    BY <2>1, <2>2, <2>3
<1>11. d \in Nat /\ CasePlaces(e.stmt, k, t) = {d} \cup later /\ d \notin later
  BY <1>4, <1>8, <1>9, DefaultStep, ZenonT(30)
<1>12. Chunk(B, {d}, {})
  BY <1>11, PlaceLabelFacts
<1>13. Chunk(C, {}, Uses(e))
  BY <1>3, <1>4, <1>8, InnerFacts
<1>14. Chunk(E, later, Uses(e))
  <2>1. k + 1 \in Nat \ {0}
    BY <1>8
  <2> QED
    BY <2>1, <1>3, <1>4, <1>6, RestSwitchFacts
<1> HIDE DEF B, C, E, later
<1>15. Chunk(B \o C, {d} \cup {}, {} \cup Uses(e))
  BY <1>12, <1>13, ChunkConcat
<1>16. Chunk(B \o C \o E, ({d} \cup {}) \cup later, ({} \cup Uses(e)) \cup Uses(e))
  <2>1. ({d} \cup {}) \cap later = {}
    BY <1>11
  <2> QED
    BY <2>1, <1>15, <1>14, ChunkConcat
<1>17. Places(e) = ({d} \cup {}) \cup later
  BY <1>7, <1>11
<1>18. KeepsPromises(e, B \o C \o E, m, 0)
  BY <1>16, <1>17, ChunkKeeps
<1> QED
  BY <1>1, <1>2, <1>10, <1>18

LEMMA EndSwitchKeeps ==
  ASSUME LabelInv, EndSwitch
  PROVE  \E calls, n : KeepsPromises(Todo, calls, label_count, n) /\ Makes(calls, n)
<1>1. PICK e : e = Todo
  OBVIOUS
<1>2. PICK m : m = label_count
  OBVIOUS
<1>3. e \in Entry /\ m \in Nat \ {0} /\ e.call = "case" /\ Places(e) \subseteq 1..m - 1
  BY <1>1, <1>2, TodoFacts DEF EndSwitch, Lowering, Todo
<1>4. /\ e.stmt \in Statement /\ e.stmt.kind = "switch" /\ WellFormed(e.stmt) /\ e.k \in Nat \ {0}
      /\ e.labels \in Seq(Nat) /\ e.labels # <<>> /\ e.labels[1] \in Nat
  BY <1>3, CallFacts DEF StatementKinds
<1>5. PICK k : k = e.k
  OBVIOUS
<1>6. PICK t \in Nat : t = e.labels[1]
  BY <1>4
<1>7. Places(e) = CasePlaces(e.stmt, k, t) /\ t >= 1
  <2>1. Places(e) = CasePlaces(e.stmt, k, t)
    BY <1>3, <1>5, <1>6 DEF Places
  <2>2. t - 1 \in Places(e)
    BY <2>1 DEF CasePlaces
  <2> QED
    BY <2>1, <2>2, <1>3
<1>8. CasePlaces(e.stmt, k, t) = {t - 1}
  <2>1. k > Len(e.stmt.parts)
    BY <1>1, <1>5 DEF EndSwitch, Parts
  <2>2. \A j \in DOMAIN e.stmt.parts : ~(j >= k)
    BY <2>1, <1>4, <1>5, StatementFacts
  <2>3. (\A j \in CasesOf(e.stmt) : ~(j >= k)) /\ (\A j \in DefaultOf(e.stmt) : ~(j >= k))
    BY <2>2 DEF CasesOf, DefaultOf
  <2> QED
    BY <2>3 DEF CasePlaces
<1> DEFINE A == <<PlaceLabel(t - 1)>>
<1>9. Makes(A, 0)
  BY <1>1, <1>6, SwitchNames DEF EndSwitch
<1>10. Chunk(A, {t - 1}, {})
  <2>1. t - 1 \in Nat
    BY <1>7
  <2> QED
    BY <2>1, PlaceLabelFacts
<1> HIDE DEF A
<1>11. KeepsPromises(e, A, m, 0)
  BY <1>7, <1>8, <1>10, ChunkKeeps
<1> QED
  BY <1>1, <1>2, <1>9, <1>11

-------------------------------------------------------------------------------
(* Labels: every step keeps LabelInv. *)

\* What the codegen's state contributes does not change while the IR is made.
LEMMA MakesStep ==
  ASSUME LabelInv, phase = "lower", work # <<>>,
         NEW calls, NEW n, KeepsPromises(Todo, calls, label_count, n), Makes(calls, n)
  PROVE  LabelInv'
<1>1. /\ work \in Seq(Entry) /\ PlacedOnce(work) /\ label_count \in Nat \ {0}
      /\ IrPlaces \cap PlacesOf(work) = {}
      /\ DOMAIN label_map \cap (IrPlaces \cup PlacesOf(work)) = {}
      /\ Known \subseteq 1..label_count - 1
  BY DEF LabelInv, LabelTypes, OnePlace
<1>2. /\ calls \in Seq(Entry) /\ PlacedOnce(calls) /\ n \in Nat
      /\ Places(Todo) \subseteq PlacesOf(calls)
      /\ PlacesOf(calls) \subseteq Places(Todo) \cup label_count..label_count + n - 1
      /\ UsesOf(calls) \subseteq Uses(Todo) \cup PlacesOf(calls)
  BY DEF KeepsPromises
<1>3. PICK rest : rest = Tail(work)
  OBVIOUS
<1>4. /\ Chunk(rest, PlacesOf(rest), UsesOf(rest))
      /\ PlacesOf(work) = Places(Todo) \cup PlacesOf(rest)
      /\ Places(Todo) \cap PlacesOf(rest) = {}
      /\ UsesOf(work) = Uses(Todo) \cup UsesOf(rest)
  BY <1>1, <1>3, TailChunk DEF Todo
<1>5. PlacesOf(work) \subseteq 1..label_count - 1
  BY <1>1 DEF Known
<1>6. PlacesOf(calls) \cap PlacesOf(rest) = {}
  BY <1>1, <1>2, <1>4, <1>5
<1>7. Chunk(calls, PlacesOf(calls), UsesOf(calls))
  BY <1>2 DEF Chunk
<1>8. PICK s : s = calls \o rest
  OBVIOUS
<1>9. Chunk(s, PlacesOf(calls) \cup PlacesOf(rest), UsesOf(calls) \cup UsesOf(rest))
  BY <1>4, <1>6, <1>7, <1>8, ChunkConcat
<1>10. /\ s \in Seq(Entry) /\ PlacedOnce(s) /\ PlacesOf(s) = PlacesOf(calls) \cup PlacesOf(rest)
       /\ UsesOf(s) \subseteq UsesOf(calls) \cup UsesOf(rest)
  BY <1>9 DEF Chunk
<1>11. /\ work' = s /\ label_count' = label_count + n
       /\ UNCHANGED <<phase, ir, size, label_map, jump_instructions, cont>>
  BY <1>3, <1>8 DEF Makes, runVars
<1>12. /\ PlacesOf(work)' = PlacesOf(s) /\ UsesOf(work)' = UsesOf(s) /\ PlacedOnce(work)'
  BY <1>10, <1>11 DEF PlacesOf, UsesOf, PlacedOnce
<1>13. /\ IrPlaces' = IrPlaces /\ IrUses' = IrUses /\ JumpUses' = JumpUses
       /\ (DOMAIN label_map)' = DOMAIN label_map
       /\ OnStray' = OnStray
  BY <1>11 DEF IrPlaces, IrUses, InstrPlacesOf, InstrUsesOf, JumpUses, OnStray
<1>14. /\ PlacesOf(work) \subseteq PlacesOf(s)
       /\ PlacesOf(s) \subseteq PlacesOf(work) \cup label_count..label_count + n - 1
       /\ UsesOf(s) \subseteq UsesOf(work) \cup PlacesOf(s)
  BY <1>2, <1>4, <1>10
<1>15. LabelTypes'
  BY <1>1, <1>2, <1>10, <1>11 DEF LabelInv, LabelTypes
<1>16. OnePlace'
  <2>1. /\ IrPlaces \subseteq 1..label_count - 1 /\ DOMAIN label_map \subseteq 1..label_count - 1
    BY <1>1 DEF Known
  <2>2. IrPlaces \cap PlacesOf(s) = {} /\ DOMAIN label_map \cap (IrPlaces \cup PlacesOf(s)) = {}
    BY <1>1, <1>14, <2>1
  <2>3. PlacesOf(s) \subseteq 1..(label_count + n) - 1
    BY <1>1, <1>2, <1>5, <1>14
  <2>4. IrPlaces \subseteq 1..(label_count + n) - 1 /\ DOMAIN label_map \subseteq 1..(label_count + n) - 1
    BY <1>1, <1>2, <2>1
  <2>5. (\A i, j \in DOMAIN ir : i # j => InstrPlaces(ir[i]) \cap InstrPlaces(ir[j]) = {})'
    BY <1>11 DEF LabelInv, OnePlace, InstrPlaces
  <2>6. Known' \subseteq 1..(label_count + n) - 1
    BY <1>12, <1>13, <2>3, <2>4 DEF Known
  <2> QED
    BY <1>11, <1>12, <1>13, <2>2, <2>5, <2>6 DEF OnePlace
<1>17. NoneMissing'
  <2>1. OnStray \/ Wanted \subseteq Known
    BY DEF LabelInv, NoneMissing
  <2>2. Wanted \subseteq Known => Wanted' \subseteq Known'
    BY <1>12, <1>13, <1>14 DEF Wanted, Known
  <2> QED
    BY <2>1, <2>2, <1>11, <1>13 DEF NoneMissing
<1> QED
  BY <1>15, <1>16, <1>17 DEF LabelInv

LEMMA LabelInit ==
  ASSUME CFInit
  PROVE  LabelInv
<1>1. PICK source \in Program :
        cont = <<Frame(ImplicitReturn(source))>> /\ work = Block(ImplicitReturn(source), NoLabel, NoLabel)
  BY DEF CFInit
<1>2. PICK body : body = ImplicitReturn(source)
  OBVIOUS
<1>3. body \in Bodies /\ (source \notin Stray => body \in ClosedBodies)
  BY <1>2, ProgramAssumption
<1>4. Chunk(work, {}, IF body \in ClosedBodies THEN {} ELSE {NoLabel})
  <2>1. Chunk(Block(body, NoLabel, NoLabel), {}, IF body \in ClosedBodies THEN {} ELSE {NoLabel, NoLabel})
    BY <1>3, BlockFacts DEF NoLabel
  <2> QED
    BY <2>1, <1>1, <1>2
<1>5. work \in Seq(Entry) /\ PlacedOnce(work) /\ PlacesOf(work) = {}
      /\ (body \in ClosedBodies => UsesOf(work) = {})
  BY <1>4 DEF Chunk
<1>6. /\ phase = "lower" /\ label_count = 1 /\ ir = <<>> /\ label_map = <<>> /\ jump_instructions = <<>>
      /\ size \in Nat
  BY ControlFlowAssumption DEF CFInit
<1>7. DOMAIN ir = {} /\ DOMAIN label_map = {} /\ DOMAIN jump_instructions = {}
      /\ ir \in Seq(IrInstr) /\ jump_instructions \in Seq(PendingJump)
  BY <1>6
<1>8. IrPlaces = {} /\ IrUses = {} /\ JumpUses = {}
  BY <1>7 DEF IrPlaces, IrUses, InstrPlacesOf, InstrUsesOf, JumpUses
<1>9. source \in Stray => OnStray
  BY <1>1 DEF OnStray, Frame
<1>10. LabelTypes
  BY <1>5, <1>6, <1>7 DEF LabelTypes
<1>11. OnePlace
  BY <1>5, <1>7, <1>8 DEF OnePlace, Known
<1>12. NoneMissing
  BY <1>3, <1>5, <1>6, <1>8, <1>9 DEF NoneMissing, Wanted, Known
<1> QED
  BY <1>10, <1>11, <1>12 DEF LabelInv

\* An instruction moves from the worklist to the IR, and its promise with it.
LEMMA EmitInstructionLabels ==
  ASSUME LabelInv, EmitInstruction
  PROVE  LabelInv'
<1>1. /\ work \in Seq(Entry) /\ PlacedOnce(work) /\ label_count \in Nat \ {0}
      /\ ir \in Seq(IrInstr) /\ jump_instructions \in Seq(PendingJump)
      /\ IrPlaces \cap PlacesOf(work) = {}
      /\ DOMAIN label_map \cap (IrPlaces \cup PlacesOf(work)) = {}
      /\ Known \subseteq 1..label_count - 1
      /\ \A i, j \in DOMAIN ir : i # j => InstrPlaces(ir[i]) \cap InstrPlaces(ir[j]) = {}
  BY DEF LabelInv, LabelTypes, OnePlace
<1>2. /\ phase = "lower" /\ work # <<>> /\ Todo.call = "emit"
      /\ ir' = Append(ir, Todo.instr) /\ work' = Tail(work)
      /\ UNCHANGED <<phase, label_count, size, label_map, jump_instructions, cont>>
  BY DEF EmitInstruction, Lowering, Todo, runVars
<1>3. PICK rest : rest = Tail(work)
  OBVIOUS
<1>4. /\ Todo \in Entry
      /\ Chunk(rest, PlacesOf(rest), UsesOf(rest))
      /\ PlacesOf(work) = Places(Todo) \cup PlacesOf(rest)
      /\ Places(Todo) \cap PlacesOf(rest) = {}
      /\ UsesOf(work) = Uses(Todo) \cup UsesOf(rest)
  BY <1>1, <1>2, <1>3, TailChunk DEF Todo
<1>5. PICK x : x = Todo.instr
  OBVIOUS
<1>6. x \in IrInstr /\ Places(Todo) = InstrPlaces(x) /\ Uses(Todo) = InstrUses(x)
  <2>1. Todo \in EmitEntry
    BY <1>2, <1>4 DEF Entry, CallEntry, StatementKinds
  <2> QED
    BY <2>1, <1>2, <1>5 DEF EmitEntry, Places, Uses
<1>7. /\ PlacesOf(work)' = PlacesOf(rest) /\ UsesOf(work)' = UsesOf(rest) /\ PlacedOnce(work)'
      /\ rest \in Seq(Entry) /\ work' = rest
  <2>1. rest \in Seq(Entry) /\ PlacedOnce(rest)
    BY <1>4 DEF Chunk
  <2>2. work' = rest
    BY <1>2, <1>3
  <2> QED
    BY <2>1, <2>2 DEF PlacesOf, UsesOf, PlacedOnce
<1>8. PICK s : s = Append(ir, x)
  OBVIOUS
<1>9. /\ s \in Seq(IrInstr) /\ DOMAIN s = 1..Len(ir) + 1 /\ Len(ir) \in Nat /\ DOMAIN ir = 1..Len(ir)
      /\ \A i \in DOMAIN ir : s[i] = ir[i]
      /\ s[Len(ir) + 1] = x
  BY <1>1, <1>6, <1>8, AppendFacts
<1>10. \A i \in DOMAIN s : (i \in DOMAIN ir /\ s[i] = ir[i]) \/ (i = Len(ir) + 1 /\ s[i] = x)
  BY <1>9
<1>11. ir' = s
  BY <1>2, <1>5, <1>8
<1>12. IrPlaces' = IrPlaces \cup InstrPlaces(x) /\ IrUses' = IrUses \cup InstrUses(x)
  <2>1. UNION {InstrPlaces(s[i]) : i \in DOMAIN s} = IrPlaces \cup InstrPlaces(x)
    <3>1. \A i \in DOMAIN s : InstrPlaces(s[i]) \subseteq IrPlaces \cup InstrPlaces(x)
      BY <1>10 DEF IrPlaces, InstrPlacesOf
    <3>2. \A i \in DOMAIN ir : i \in DOMAIN s /\ s[i] = ir[i]
      BY <1>9
    <3>3. Len(ir) + 1 \in DOMAIN s
      BY <1>9
    <3>4. IrPlaces \subseteq UNION {InstrPlaces(s[i]) : i \in DOMAIN s}
      BY <3>2 DEF IrPlaces, InstrPlacesOf
    <3>5. InstrPlaces(x) \subseteq UNION {InstrPlaces(s[i]) : i \in DOMAIN s}
      BY <3>3, <1>9
    <3> QED
      BY <3>1, <3>4, <3>5
  <2>2. UNION {InstrUses(s[i]) : i \in DOMAIN s} = IrUses \cup InstrUses(x)
    <3>1. \A i \in DOMAIN s : InstrUses(s[i]) \subseteq IrUses \cup InstrUses(x)
      BY <1>10 DEF IrUses, InstrUsesOf
    <3>2. \A i \in DOMAIN ir : i \in DOMAIN s /\ s[i] = ir[i]
      BY <1>9
    <3>3. Len(ir) + 1 \in DOMAIN s
      BY <1>9
    <3>4. IrUses \subseteq UNION {InstrUses(s[i]) : i \in DOMAIN s}
      BY <3>2 DEF IrUses, InstrUsesOf
    <3>5. InstrUses(x) \subseteq UNION {InstrUses(s[i]) : i \in DOMAIN s}
      BY <3>3, <1>9
    <3> QED
      BY <3>1, <3>4, <3>5
  <2> QED
    BY <2>1, <2>2, <1>11 DEF IrPlaces, IrUses, InstrPlacesOf, InstrUsesOf, InstrPlaces, InstrUses
<1>13. JumpUses' = JumpUses /\ (DOMAIN label_map)' = DOMAIN label_map /\ OnStray' = OnStray
  BY <1>2 DEF JumpUses, OnStray
<1>14. Known' = Known /\ Wanted' = Wanted
  BY <1>4, <1>6, <1>7, <1>12, <1>13 DEF Known, Wanted
<1>15. LabelTypes'
  BY <1>2, <1>7, <1>9, <1>11 DEF LabelInv, LabelTypes
<1>16. OnePlace'
  <2>1. \A i, j \in DOMAIN s : i # j => InstrPlaces(s[i]) \cap InstrPlaces(s[j]) = {}
    <3>1. \A i \in DOMAIN ir : InstrPlaces(ir[i]) \subseteq IrPlaces
      BY DEF IrPlaces, InstrPlacesOf
    <3>2. IrPlaces \cap InstrPlaces(x) = {}
      BY <1>1, <1>4, <1>6
    <3> QED
      BY <1>1, <1>10, <3>1, <3>2
  <2>2. (\A i, j \in DOMAIN ir : i # j => InstrPlaces(ir[i]) \cap InstrPlaces(ir[j]) = {})'
    BY <2>1, <1>11 DEF InstrPlaces
  <2>3. (IrPlaces \cap PlacesOf(work) = {})'
    BY <1>1, <1>4, <1>6, <1>7, <1>12
  <2>4. (DOMAIN label_map \cap (IrPlaces \cup PlacesOf(work)) = {})'
    BY <1>1, <1>4, <1>6, <1>7, <1>12, <1>13
  <2>5. (Known \subseteq 1..label_count - 1)'
    BY <1>1, <1>2, <1>14
  <2> QED
    BY <1>7, <2>2, <2>3, <2>4, <2>5 DEF OnePlace
<1>17. NoneMissing'
  BY <1>2, <1>13, <1>14 DEF LabelInv, NoneMissing
<1> QED
  BY <1>15, <1>16, <1>17 DEF LabelInv

\* What is left of the IR when its first instruction is read.
LEMMA IrTail ==
  ASSUME LabelInv, ir # <<>>, NEW rest, rest = Tail(ir)
  PROVE  /\ Instruction \in IrInstr /\ rest \in Seq(IrInstr)
         /\ IrPlaces = InstrPlaces(Instruction) \cup InstrPlacesOf(rest)
         /\ InstrPlaces(Instruction) \cap InstrPlacesOf(rest) = {}
         /\ IrUses = InstrUses(Instruction) \cup InstrUsesOf(rest)
         /\ \A i, j \in DOMAIN rest : i # j => InstrPlaces(rest[i]) \cap InstrPlaces(rest[j]) = {}
<1>1. /\ ir \in Seq(IrInstr)
      /\ \A i, j \in DOMAIN ir : i # j => InstrPlaces(ir[i]) \cap InstrPlaces(ir[j]) = {}
  BY DEF LabelInv, LabelTypes, OnePlace
<1>3. /\ rest \in Seq(IrInstr) /\ DOMAIN rest = 1..(Len(ir) - 1)
      /\ DOMAIN ir = 1..Len(ir) /\ Len(ir) \in Nat \ {0}
      /\ \A i \in 1..(Len(ir) - 1) : rest[i] = ir[i + 1]
      /\ Instruction = ir[1] /\ Instruction \in IrInstr
  BY <1>1, TailFacts DEF Instruction
<1>4. \A i \in DOMAIN rest : i + 1 \in DOMAIN ir /\ i + 1 # 1 /\ rest[i] = ir[i + 1]
  BY <1>3
<1>5. \A i \in DOMAIN ir : i = 1 \/ (i - 1 \in DOMAIN rest /\ rest[i - 1] = ir[i])
  <2> SUFFICES ASSUME NEW i \in 1..Len(ir), i # 1
               PROVE  i - 1 \in 1..(Len(ir) - 1) /\ rest[i - 1] = ir[i]
    BY <1>3
  <2>1. i - 1 \in 1..(Len(ir) - 1) /\ (i - 1) + 1 = i
    BY <1>3
  <2> QED
    BY <2>1, <1>3
<1>6. 1 \in DOMAIN ir
  BY <1>3
<1>7. IrPlaces = InstrPlaces(Instruction) \cup InstrPlacesOf(rest)
  <2>1. \A i \in DOMAIN ir : InstrPlaces(ir[i]) \subseteq InstrPlaces(Instruction) \cup InstrPlacesOf(rest)
    <3>1. \A i \in DOMAIN rest : InstrPlaces(rest[i]) \subseteq InstrPlacesOf(rest)
      BY DEF InstrPlacesOf
    <3>2. \A i \in DOMAIN ir : i # 1 => InstrPlaces(ir[i]) \subseteq InstrPlacesOf(rest)
      BY <1>5, <3>1
    <3> QED
      BY <1>3, <3>2
  <2>2. \A i \in DOMAIN rest : InstrPlaces(rest[i]) \subseteq IrPlaces
    BY <1>4 DEF IrPlaces, InstrPlacesOf
  <2>3. InstrPlaces(Instruction) \subseteq IrPlaces
    BY <1>3, <1>6 DEF IrPlaces, InstrPlacesOf
  <2>4. IrPlaces \subseteq InstrPlaces(Instruction) \cup InstrPlacesOf(rest)
    BY <2>1 DEF IrPlaces, InstrPlacesOf
  <2>5. InstrPlacesOf(rest) \subseteq IrPlaces
    BY <2>2 DEF InstrPlacesOf
  <2> QED
    BY <2>3, <2>4, <2>5
<1>8. IrUses = InstrUses(Instruction) \cup InstrUsesOf(rest)
  <2>1. \A i \in DOMAIN ir : InstrUses(ir[i]) \subseteq InstrUses(Instruction) \cup InstrUsesOf(rest)
    <3>1. \A i \in DOMAIN rest : InstrUses(rest[i]) \subseteq InstrUsesOf(rest)
      BY DEF InstrUsesOf
    <3>2. \A i \in DOMAIN ir : i # 1 => InstrUses(ir[i]) \subseteq InstrUsesOf(rest)
      BY <1>5, <3>1
    <3> QED
      BY <1>3, <3>2
  <2>2. \A i \in DOMAIN rest : InstrUses(rest[i]) \subseteq IrUses
    BY <1>4 DEF IrUses, InstrUsesOf
  <2>3. InstrUses(Instruction) \subseteq IrUses
    BY <1>3, <1>6 DEF IrUses, InstrUsesOf
  <2>4. IrUses \subseteq InstrUses(Instruction) \cup InstrUsesOf(rest)
    BY <2>1 DEF IrUses, InstrUsesOf
  <2>5. InstrUsesOf(rest) \subseteq IrUses
    BY <2>2 DEF InstrUsesOf
  <2> QED
    BY <2>3, <2>4, <2>5
<1>9. InstrPlaces(Instruction) \cap InstrPlacesOf(rest) = {}
  <2>1. \A i \in DOMAIN rest : InstrPlaces(Instruction) \cap InstrPlaces(rest[i]) = {}
    BY <1>1, <1>3, <1>4, <1>6
  <2> QED
    BY <2>1 DEF InstrPlacesOf
<1>10. \A i, j \in DOMAIN rest : i # j => InstrPlaces(rest[i]) \cap InstrPlaces(rest[j]) = {}
  <2> SUFFICES ASSUME NEW i \in DOMAIN rest, NEW j \in DOMAIN rest, i # j
               PROVE  InstrPlaces(rest[i]) \cap InstrPlaces(rest[j]) = {}
    OBVIOUS
  <2>1. i + 1 # j + 1
    BY <1>3
  <2> QED
    BY <2>1, <1>1, <1>4
<1> QED
  BY <1>3, <1>7, <1>8, <1>9, <1>10

\* Reading an instruction, when its label goes into the map or the list of jumps.
LEMMA ReadInstruction ==
  ASSUME LabelInv, ir # <<>>, phase = "emit", ir' = Tail(ir),
         UNCHANGED <<phase, work, label_count, cont>>, size' \in Nat,
         jump_instructions' \in Seq(PendingJump),
         (DOMAIN label_map)' = DOMAIN label_map \cup InstrPlaces(Instruction),
         JumpUses' = JumpUses \cup InstrUses(Instruction)
  PROVE  LabelInv'
<1>1. PICK rest : rest = Tail(ir)
  OBVIOUS
<1>2. /\ Instruction \in IrInstr /\ rest \in Seq(IrInstr)
      /\ IrPlaces = InstrPlaces(Instruction) \cup InstrPlacesOf(rest)
      /\ InstrPlaces(Instruction) \cap InstrPlacesOf(rest) = {}
      /\ IrUses = InstrUses(Instruction) \cup InstrUsesOf(rest)
      /\ \A i, j \in DOMAIN rest : i # j => InstrPlaces(rest[i]) \cap InstrPlaces(rest[j]) = {}
  BY <1>1, IrTail
<1>3. ir' = rest
  BY <1>1
<1>4. IrPlaces' = InstrPlacesOf(rest) /\ IrUses' = InstrUsesOf(rest)
  BY <1>3 DEF IrPlaces, IrUses, InstrPlacesOf, InstrUsesOf, InstrPlaces, InstrUses
<1>5. /\ PlacesOf(work)' = PlacesOf(work) /\ UsesOf(work)' = UsesOf(work)
      /\ PlacedOnce(work)' = PlacedOnce(work) /\ OnStray' = OnStray
  BY DEF PlacesOf, UsesOf, PlacedOnce, OnStray
<1>6. Known' = Known
  BY <1>2, <1>4, <1>5 DEF Known
<1>7. Wanted' = Wanted
  BY <1>2, <1>4, <1>5 DEF Wanted
<1>8. LabelTypes'
  BY <1>2, <1>3 DEF LabelInv, LabelTypes
<1>9. OnePlace'
  <2>1. (\A i, j \in DOMAIN ir : i # j => InstrPlaces(ir[i]) \cap InstrPlaces(ir[j]) = {})'
    BY <1>2, <1>3 DEF InstrPlaces
  <2>2. PlacedOnce(work)'
    BY <1>5, Zenon DEF LabelInv, OnePlace
  <2>3. /\ IrPlaces \cap PlacesOf(work) = {} /\ DOMAIN label_map \cap (IrPlaces \cup PlacesOf(work)) = {}
        /\ Known \subseteq 1..label_count - 1
    BY DEF LabelInv, OnePlace
  <2>4. /\ (IrPlaces \cap PlacesOf(work) = {})'
        /\ (DOMAIN label_map \cap (IrPlaces \cup PlacesOf(work)) = {})'
    BY <2>3, <1>2, <1>4, <1>5
  <2>5. (Known \subseteq 1..label_count - 1)'
    BY <2>3, <1>6
  <2> QED
    BY <2>1, <2>2, <2>4, <2>5 DEF OnePlace
<1>10. NoneMissing'
  <2>1. OnStray \/ Wanted \subseteq Known
    BY DEF LabelInv, NoneMissing
  <2>2. OnStray' \/ Wanted' \subseteq Known'
    BY <2>1, <1>5, <1>6, <1>7, Zenon
  <2> QED
    BY <2>2 DEF NoneMissing
<1> QED
  BY <1>8, <1>9, <1>10 DEF LabelInv

LEMMA EmitCodeLabels ==
  ASSUME LabelInv, EmitCode
  PROVE  LabelInv'
<1>1. /\ phase = "emit" /\ ir # <<>> /\ Instruction.op \in CodeOps /\ ir' = Tail(ir)
      /\ UNCHANGED <<phase, work, label_count, label_map, jump_instructions, cont>>
      /\ size' = size + CodeSize
  BY DEF EmitCode, Emitting, Instruction, CodeOps, runVars
<1>2. InstrPlaces(Instruction) = {} /\ InstrUses(Instruction) = {}
  BY <1>1 DEF InstrPlaces, InstrUses, CodeOps, JumpOps
<1>3. JumpUses' = JumpUses
  BY <1>1 DEF JumpUses
<1>4. jump_instructions \in Seq(PendingJump) /\ size \in Nat
  BY DEF LabelInv, LabelTypes
<1>5. size' \in Nat
  BY <1>1, <1>4, ControlFlowAssumption
<1> QED
  BY <1>1, <1>2, <1>3, <1>4, <1>5, ReadInstruction

LEMMA EmitLabelLabels ==
  ASSUME LabelInv, EmitLabel
  PROVE  LabelInv'
<1>1. /\ phase = "emit" /\ ir # <<>> /\ Instruction.op = "label" /\ ir' = Tail(ir)
      /\ UNCHANGED <<phase, work, label_count, size, jump_instructions, cont>>
      /\ DOMAIN label_map' = DOMAIN label_map \cup {Instruction.label}
  BY DEF EmitLabel, Emitting, Instruction, runVars
<1>2. InstrPlaces(Instruction) = {Instruction.label} /\ InstrUses(Instruction) = {}
  BY <1>1 DEF InstrPlaces, InstrUses, JumpOps
<1>3. JumpUses' = JumpUses
  BY <1>1 DEF JumpUses
<1>4. jump_instructions \in Seq(PendingJump) /\ size \in Nat
  BY DEF LabelInv, LabelTypes
<1> QED
  BY <1>1, <1>2, <1>3, <1>4, ReadInstruction

LEMMA EmitJumpLabels ==
  ASSUME LabelInv, EmitJump
  PROVE  LabelInv'
<1>1. /\ phase = "emit" /\ ir # <<>> /\ Instruction.op \in JumpOps /\ ir' = Tail(ir)
      /\ UNCHANGED <<phase, work, label_count, label_map, cont>>
      /\ jump_instructions' = Append(jump_instructions, [instr |-> Instruction, location |-> size])
      /\ size' = size + JumpLength(Instruction.op)
  BY DEF EmitJump, Emitting, Instruction, JumpOps, runVars
<1>2. Instruction \in IrInstr
  <2>1. PICK rest : rest = Tail(ir)
    OBVIOUS
  <2> QED
    BY <1>1, <2>1, IrTail
<1>3. InstrPlaces(Instruction) = {} /\ InstrUses(Instruction) = {Instruction.label}
  BY <1>1 DEF InstrPlaces, InstrUses, JumpOps
<1>4. jump_instructions \in Seq(PendingJump) /\ size \in Nat
  BY DEF LabelInv, LabelTypes
<1>5. PICK x : x = [instr |-> Instruction, location |-> size]
  OBVIOUS
<1>6. x \in PendingJump /\ x.instr.label = Instruction.label
  BY <1>1, <1>2, <1>4, <1>5 DEF PendingJump
<1>7. PICK s : s = Append(jump_instructions, x)
  OBVIOUS
<1>8. /\ s \in Seq(PendingJump) /\ DOMAIN s = 1..Len(jump_instructions) + 1
      /\ Len(jump_instructions) \in Nat /\ DOMAIN jump_instructions = 1..Len(jump_instructions)
      /\ \A i \in DOMAIN jump_instructions : s[i] = jump_instructions[i]
      /\ s[Len(jump_instructions) + 1] = x
  BY <1>4, <1>6, <1>7, AppendFacts
<1>9. {s[i].instr.label : i \in DOMAIN s} = JumpUses \cup {Instruction.label}
  <2>1. \A i \in DOMAIN s : \/ i \in DOMAIN jump_instructions /\ s[i] = jump_instructions[i]
                            \/ s[i] = x
    BY <1>8
  <2>2. \A i \in DOMAIN jump_instructions : i \in DOMAIN s /\ s[i] = jump_instructions[i]
    BY <1>8
  <2>3. Len(jump_instructions) + 1 \in DOMAIN s
    BY <1>8
  <2>4. \A i \in DOMAIN s : s[i].instr.label \in JumpUses \cup {Instruction.label}
    BY <2>1, <1>6 DEF JumpUses
  <2>5. \A l \in JumpUses : l \in {s[i].instr.label : i \in DOMAIN s}
    BY <2>2 DEF JumpUses
  <2>6. Instruction.label \in {s[i].instr.label : i \in DOMAIN s}
    BY <2>3, <1>6, <1>8
  <2> QED
    BY <2>4, <2>5, <2>6
<1>10. jump_instructions' = s
  BY <1>1, <1>5, <1>7
<1>11. JumpUses' = JumpUses \cup InstrUses(Instruction)
  BY <1>3, <1>9, <1>10 DEF JumpUses
<1>12. (DOMAIN label_map)' = DOMAIN label_map \cup InstrPlaces(Instruction)
  BY <1>1, <1>3
<1>13. jump_instructions' \in Seq(PendingJump)
  BY <1>8, <1>10
<1>14. size' \in Nat
  BY <1>1, <1>4 DEF JumpLength
<1> QED
  BY <1>1, <1>11, <1>12, <1>13, <1>14, ReadInstruction

\* Steps that leave the worklist, the IR and the labels alone: the list of jumps
\* gets no longer, and the phase is one that the steps before it allow.
LEMMA LabelsUntouched ==
  ASSUME LabelInv, UNCHANGED <<work, label_count, ir, size, label_map>>,
         jump_instructions' \in Seq(PendingJump), JumpUses' \subseteq JumpUses,
         phase' \in {"lower", "emit", "patch", "run", "abandoned", "off"},
         phase' # "lower" => work = <<>>,
         phase' \notin {"lower", "emit"} => ir = <<>>,
         phase' \in {"lower", "emit", "patch"} => phase \in {"lower", "emit", "patch"} /\ cont' = cont,
         phase' = "abandoned" => OnStray /\ cont' = cont
  PROVE  LabelInv'
<1>1. /\ PlacesOf(work)' = PlacesOf(work) /\ UsesOf(work)' = UsesOf(work)
      /\ PlacedOnce(work)' = PlacedOnce(work)
      /\ IrPlaces' = IrPlaces /\ IrUses' = IrUses
  BY DEF PlacesOf, UsesOf, PlacedOnce, IrPlaces, IrUses, InstrPlacesOf, InstrUsesOf
<1>2. Known' = Known /\ Wanted' \subseteq Wanted
  BY <1>1 DEF Known, Wanted
<1>3. LabelTypes'
  BY DEF LabelInv, LabelTypes
<1>4. OnePlace'
  <2>1. (\A i, j \in DOMAIN ir : i # j => InstrPlaces(ir[i]) \cap InstrPlaces(ir[j]) = {})'
    BY DEF LabelInv, OnePlace, InstrPlaces
  <2>2. PlacedOnce(work)'
    BY <1>1, Zenon DEF LabelInv, OnePlace
  <2>3. (IrPlaces \cap PlacesOf(work) = {} /\ DOMAIN label_map \cap (IrPlaces \cup PlacesOf(work)) = {})'
    BY <1>1 DEF LabelInv, OnePlace
  <2>4. (Known \subseteq 1..label_count - 1)'
    BY <1>2 DEF LabelInv, OnePlace
  <2> QED
    BY <2>1, <2>2, <2>3, <2>4 DEF OnePlace
<1>5. NoneMissing'
  <2>1. cont' = cont /\ OnStray => OnStray'
    BY DEF OnStray
  <2>2. phase \in {"lower", "emit", "patch"} => OnStray \/ Wanted \subseteq Known
    BY DEF LabelInv, NoneMissing
  <2>3. phase' \in {"lower", "emit", "patch"} => OnStray' \/ Wanted' \subseteq Known'
    BY <2>1, <2>2, <1>2
  <2> QED
    BY <2>1, <2>3 DEF NoneMissing
<1> QED
  BY <1>3, <1>4, <1>5 DEF LabelInv

LEMMA BackpatchJumpLabels ==
  ASSUME LabelInv, BackpatchJump
  PROVE  LabelInv'
<1>1. /\ phase = "patch" /\ jump_instructions # <<>> /\ jump_instructions' = Tail(jump_instructions)
      /\ UNCHANGED <<phase, work, label_count, ir, size, label_map, cont>>
  BY DEF BackpatchJump, Patching, runVars
<1>2. jump_instructions \in Seq(PendingJump) /\ work = <<>> /\ ir = <<>>
  BY <1>1 DEF LabelInv, LabelTypes
<1>3. PICK rest : rest = Tail(jump_instructions)
  OBVIOUS
<1>4. /\ rest \in Seq(PendingJump) /\ DOMAIN rest = 1..(Len(jump_instructions) - 1)
      /\ DOMAIN jump_instructions = 1..Len(jump_instructions) /\ Len(jump_instructions) \in Nat
      /\ \A i \in 1..(Len(jump_instructions) - 1) : rest[i] = jump_instructions[i + 1]
  BY <1>1, <1>2, <1>3, TailFacts
<1>5. \A i \in DOMAIN rest : i + 1 \in DOMAIN jump_instructions /\ rest[i] = jump_instructions[i + 1]
  BY <1>4
<1>6. \A i \in DOMAIN rest : rest[i].instr.label \in JumpUses
  BY <1>5 DEF JumpUses
<1>7. jump_instructions' = rest
  BY <1>1, <1>3
<1>8. JumpUses' \subseteq JumpUses
  BY <1>6, <1>7 DEF JumpUses
<1> QED
  BY <1>1, <1>2, <1>4, <1>7, <1>8, LabelsUntouched

\* When all the code is there a label has its place or never gets one.
LEMMA LabelNotFoundLabels ==
  ASSUME LabelInv, LabelNotFound
  PROVE  LabelInv'
<1>1. /\ phase = "patch" /\ jump_instructions # <<>> /\ phase' = "abandoned"
      /\ ToPatch.instr.label \notin DOMAIN label_map
      /\ UNCHANGED <<work, label_count, ir, size, label_map, jump_instructions, cont>>
  BY DEF LabelNotFound, Patching, compileVars, runVars
<1>2. jump_instructions \in Seq(PendingJump) /\ work = <<>> /\ ir = <<>>
  BY <1>1 DEF LabelInv, LabelTypes
<1>3. ToPatch.instr.label \in JumpUses
  <2>1. /\ DOMAIN jump_instructions = 1..Len(jump_instructions) /\ Len(jump_instructions) \in Nat \ {0}
        /\ ToPatch = jump_instructions[1]
    BY <1>1, <1>2, TailFacts DEF ToPatch
  <2> QED
    BY <2>1 DEF JumpUses
<1>4. Known = DOMAIN label_map
  <2>1. DOMAIN work = {} /\ DOMAIN ir = {}
    BY <1>2
  <2> QED
    BY <2>1 DEF Known, IrPlaces, InstrPlacesOf, PlacesOf
<1>5. OnStray
  <2>1. OnStray \/ Wanted \subseteq Known
    BY <1>1 DEF LabelInv, NoneMissing
  <2> QED
    BY <2>1, <1>1, <1>3, <1>4 DEF Wanted
<1>6. JumpUses' \subseteq JumpUses
  BY <1>1 DEF JumpUses
<1> QED
  BY <1>1, <1>2, <1>5, <1>6, LabelsUntouched

LEMMA OtherLabels ==
  ASSUME LabelInv, Lowered \/ Emitted \/ PatchFrame \/ RunStep \/ UNCHANGED cfVars
  PROVE  LabelInv'
<1>1. jump_instructions \in Seq(PendingJump)
  BY DEF LabelInv, LabelTypes
<1>2. /\ UNCHANGED <<work, label_count, ir, size, label_map, jump_instructions>>
      /\ \/ phase' = phase /\ cont' = cont
         \/ phase = "lower" /\ phase' = "emit" /\ work = <<>> /\ cont' = cont
         \/ phase = "emit" /\ phase' = "patch" /\ ir = <<>> /\ cont' = cont
         \/ phase = "patch" /\ phase' = "run"
         \/ phase = "run" /\ phase' \in {"run", "off"}
  <2>1. CASE Lowered \/ Emitted
    BY <2>1 DEF Lowered, Emitted, compileVars, runVars
  <2>2. CASE PatchFrame
    BY <2>2 DEF PatchFrame
  <2>3. CASE RunStep
    BY <2>3 DEF RunStep, RunSource, RunJump, RunCase, RunDo, RunDropped, RunTest, RunSwitch, RunReturn, Running, compileVars
  <2>4. CASE UNCHANGED cfVars
    BY <2>4 DEF cfVars, compileVars, runVars
  <2> QED
    BY <2>1, <2>2, <2>3, <2>4
<1>3. JumpUses' \subseteq JumpUses
  BY <1>2 DEF JumpUses
<1>4. LabelTypes /\ (phase = "abandoned" => OnStray)
  BY DEF LabelInv, NoneMissing
<1>5. phase \in {"lower", "emit", "patch", "run", "abandoned", "off"}
      /\ (phase # "lower" => work = <<>>) /\ (phase \notin {"lower", "emit"} => ir = <<>>)
  BY <1>4 DEF LabelTypes
<1> QED
  BY <1>1, <1>2, <1>3, <1>4, <1>5, LabelsUntouched

LEMMA LabelNext ==
  ASSUME LabelInv, [CFNext]_cfVars
  PROVE  LabelInv'
<1>1. ASSUME NEW calls, NEW n, KeepsPromises(Todo, calls, label_count, n), Makes(calls, n),
             work # <<>>, phase = "lower"
      PROVE  LabelInv'
  BY <1>1, MakesStep
<1>2. CASE GenerateStatement
  <2>1. phase = "lower" /\ work # <<>>
    BY <1>2 DEF GenerateStatement, Lowering
  <2> QED
    BY <1>1, <1>2, <2>1, StatementKeeps
<1>3. CASE GenerateReturn
  <2>1. phase = "lower" /\ work # <<>>
    BY <1>3 DEF GenerateReturn, Lowering
  <2> QED
    BY <1>1, <1>3, <2>1, ReturnKeeps
<1>4. CASE GenerateIf
  <2>1. phase = "lower" /\ work # <<>>
    BY <1>4 DEF GenerateIf, Lowering
  <2> QED
    BY <1>1, <1>4, <2>1, IfKeeps
<1>5. CASE GenerateElseif
  <2>1. phase = "lower" /\ work # <<>>
    BY <1>5 DEF GenerateElseif, Lowering
  <2> QED
    BY <1>1, <1>5, <2>1, ElseifKeeps
<1>6. CASE GenerateElse
  <2>1. phase = "lower" /\ work # <<>>
    BY <1>6 DEF GenerateElse, Lowering
  <2> QED
    BY <1>1, <1>6, <2>1, ElseKeeps
<1>7. CASE EndIf
  <2>1. phase = "lower" /\ work # <<>>
    BY <1>7 DEF EndIf, Lowering
  <2> QED
    BY <1>1, <1>7, <2>1, EndIfKeeps
<1>8. CASE GenerateLoop
  <2>1. phase = "lower" /\ work # <<>>
    BY <1>8 DEF GenerateLoop, Lowering
  <2> QED
    BY <1>1, <1>8, <2>1, LoopKeeps
<1>9. CASE GenerateWhile
  <2>1. phase = "lower" /\ work # <<>>
    BY <1>9 DEF GenerateWhile, Lowering
  <2> QED
    BY <1>1, <1>9, <2>1, WhileKeeps
<1>10. CASE GenerateFor
  <2>1. phase = "lower" /\ work # <<>>
    BY <1>10 DEF GenerateFor, Lowering
  <2> QED
    BY <1>1, <1>10, <2>1, ForKeeps
<1>11. CASE GenerateForAssign
  <2>1. phase = "lower" /\ work # <<>>
    BY <1>11 DEF GenerateForAssign, Lowering
  <2> QED
    BY <1>1, <1>11, <2>1, ForAssignKeeps
<1>12. CASE GenerateContinue
  <2>1. phase = "lower" /\ work # <<>>
    BY <1>12 DEF GenerateContinue, Lowering
  <2> QED
    BY <1>1, <1>12, <2>1, ContinueKeeps
<1>13. CASE GenerateBreak
  <2>1. phase = "lower" /\ work # <<>>
    BY <1>13 DEF GenerateBreak, Lowering
  <2> QED
    BY <1>1, <1>13, <2>1, BreakKeeps
<1>14. CASE GenerateSwitch
  <2>1. phase = "lower" /\ work # <<>>
    BY <1>14 DEF GenerateSwitch, Lowering
  <2> QED
    BY <1>1, <1>14, <2>1, SwitchKeeps
<1>15. CASE GenerateCase
  <2>1. phase = "lower" /\ work # <<>>
    BY <1>15 DEF GenerateCase, Lowering
  <2> QED
    BY <1>1, <1>15, <2>1, CaseKeeps
<1>16. CASE GenerateDefault
  <2>1. phase = "lower" /\ work # <<>>
    BY <1>16 DEF GenerateDefault, Lowering
  <2> QED
    BY <1>1, <1>16, <2>1, DefaultKeeps
<1>17. CASE EndSwitch
  <2>1. phase = "lower" /\ work # <<>>
    BY <1>17 DEF EndSwitch, Lowering
  <2> QED
    BY <1>1, <1>17, <2>1, EndSwitchKeeps
<1>18. CASE EmitInstruction
  BY <1>18, EmitInstructionLabels
<1>19. CASE CodegenStep
  BY <1>19, EmitCodeLabels, EmitLabelLabels, EmitJumpLabels, BackpatchJumpLabels,
     LabelNotFoundLabels, OtherLabels DEF CodegenStep
<1>20. CASE Lowered \/ RunStep \/ UNCHANGED cfVars
  BY <1>20, OtherLabels
<1> QED
  BY <1>2, <1>3, <1>4, <1>5, <1>6, <1>7, <1>8, <1>9, <1>10, <1>11, <1>12, <1>13, <1>14, <1>15,
     <1>16, <1>17, <1>18, <1>19, <1>20 DEF CFNext, LoweringStep

\* For every program, while it is compiled and after: each label is placed at
\* most once, and as long as no break or continue is outside of a loop every
\* label that is jumped to is placed or will be.
THEOREM LabelInvariant == CFSpec => []LabelInv
<1>1. CFInit => LabelInv
  BY LabelInit
<1>2. LabelInv /\ [CFNext]_cfVars => LabelInv'
  BY LabelNext
<1> QED
  BY <1>1, <1>2, PTL DEF CFSpec

\* generate_code gives a function up for a label that was not found only if the
\* function has a break or continue outside of every loop: FailsOnlyOnStray,
\* for every program.
THEOREM NoLabelMissing == CFSpec => []FailsOnlyOnStray
<1>1. LabelInv => FailsOnlyOnStray
  BY DEF LabelInv, NoneMissing, FailsOnlyOnStray, OnStray
<1> QED
  BY <1>1, LabelInvariant, PTL

\* label_map never loses a label and never moves one: a second placement would
\* overwrite the address that jumps in front of it were meant for.
LabelsStay == \A l \in DOMAIN label_map : l \in DOMAIN label_map' /\ label_map'[l] = label_map[l]

THEOREM LabelsNeverMove == CFSpec => [][LabelsStay]_cfVars
<1>1. ASSUME LabelInv, CFNext
      PROVE  LabelsStay
  <2>1. CASE EmitLabel
    <3>1. ir # <<>> /\ Instruction.op = "label"
      BY <2>1 DEF EmitLabel, Emitting, Instruction
    <3>2. PICK rest : rest = Tail(ir)
      OBVIOUS
    <3>3. IrPlaces = InstrPlaces(Instruction) \cup InstrPlacesOf(rest)
      BY <1>1, <3>1, <3>2, IrTail
    <3>4. Instruction.label \notin DOMAIN label_map
      BY <1>1, <3>1, <3>3 DEF LabelInv, OnePlace, InstrPlaces
    <3> QED
      BY <2>1, <3>4 DEF EmitLabel, LabelsStay
  <2>2. CASE ~EmitLabel
    <3>1. UNCHANGED label_map
      <4>1. CASE LoweringStep
        BY <4>1 DEF LoweringStep, EmitInstruction, GenerateStatement, GenerateReturn, GenerateIf,
           GenerateElseif, GenerateElse, EndIf, GenerateLoop, GenerateWhile, GenerateFor,
           GenerateForAssign, GenerateContinue, GenerateBreak, GenerateSwitch, GenerateCase, GenerateDefault,
           EndSwitch, Lowered, Makes, compileVars
      <4>2. CASE CodegenStep
        BY <4>2, <2>2 DEF CodegenStep, EmitCode, EmitJump, Emitted, BackpatchJump, LabelNotFound,
           PatchFrame, compileVars
      <4>3. CASE RunStep
        BY <4>3 DEF RunStep, RunSource, RunJump, RunCase, RunDo, RunDropped, RunTest, RunSwitch, RunReturn,
           compileVars
      <4> QED
        BY <1>1, <4>1, <4>2, <4>3 DEF CFNext
    <3> QED
      BY <3>1 DEF LabelsStay
  <2> QED
    BY <2>1, <2>2
<1>2. LabelInv /\ [CFNext]_cfVars => [LabelsStay]_cfVars
  BY <1>1
<1> QED
  BY <1>2, LabelInvariant, PTL DEF CFSpec

-------------------------------------------------------------------------------
(* Bytes of an offset. *)

\* backpatch_jump() writes the offset byte by byte, and the processor reads it
\* back: what fits into 32 bits comes back as it was, negative or not.
LEMMA BytesFacts ==
  ASSUME NEW n \in Int
  PROVE  /\ Bytes(n) \in Seq(0..255)
         /\ -2147483648 <= n /\ n <= 2147483647 => FromBytes(Bytes(n)) = n
<1> DEFINE b1 == n % 256
           b2 == (n \div 256) % 256
           b3 == (n \div 65536) % 256
           b4 == (n \div 16777216) % 256
<1>1. b1 \in 0..255 /\ b2 \in 0..255 /\ b3 \in 0..255 /\ b4 \in 0..255
  OBVIOUS
<1>2. Bytes(n) = <<b1, b2, b3, b4>>
  BY DEF Bytes
<1>3. PICK q1 \in Int : q1 = n \div 256
  OBVIOUS
<1>4. PICK q2 \in Int : q2 = n \div 65536
  OBVIOUS
<1>5. PICK q3 \in Int : q3 = n \div 16777216
  OBVIOUS
<1>6. n = 256 * q1 + b1
  BY <1>3
<1>7. q1 = 256 * q2 + b2
  <2>1. 65536 * q2 <= n /\ n < 65536 * q2 + 65536
    BY <1>4
  <2>2. 256 * q1 <= n /\ n < 256 * q1 + 256
    BY <1>3
  <2>3. 256 * q2 <= q1 /\ q1 < 256 * q2 + 256
    BY <2>1, <2>2
  <2> QED
    BY <2>3, <1>3
<1>8. q2 = 256 * q3 + b3
  <2>1. 16777216 * q3 <= n /\ n < 16777216 * q3 + 16777216
    BY <1>5
  <2>2. 65536 * q2 <= n /\ n < 65536 * q2 + 65536
    BY <1>4
  <2>3. 256 * q3 <= q2 /\ q2 < 256 * q3 + 256
    BY <2>1, <2>2
  <2> QED
    BY <2>3, <1>4
<1>9. -2147483648 <= n /\ n <= 2147483647 => q3 = IF b4 > 127 THEN b4 - 256 ELSE b4
  <2>1. 16777216 * q3 <= n /\ n < 16777216 * q3 + 16777216
    BY <1>5
  <2>2. -2147483648 <= n /\ n <= 2147483647 => -128 <= q3 /\ q3 <= 127
    BY <2>1
  <2> QED
    BY <2>2, <1>5
<1> HIDE DEF b1, b2, b3, b4
<1>10. Bytes(n) \in Seq(0..255)
  BY <1>1, <1>2
<1>11. FromBytes(Bytes(n)) = b1 + 256 * b2 + 65536 * b3 + 16777216 * (IF b4 > 127 THEN b4 - 256 ELSE b4)
  <2>1. /\ <<b1, b2, b3, b4>>[1] = b1 /\ <<b1, b2, b3, b4>>[2] = b2
        /\ <<b1, b2, b3, b4>>[3] = b3 /\ <<b1, b2, b3, b4>>[4] = b4
    OBVIOUS
  <2> QED
    BY <2>1, <1>2 DEF FromBytes
<1>12. -2147483648 <= n /\ n <= 2147483647 => FromBytes(Bytes(n)) = n
  <2>1. PICK h \in Int : h = IF b4 > 127 THEN b4 - 256 ELSE b4
    BY <1>1
  <2>2. FromBytes(Bytes(n)) = b1 + 256 * b2 + 65536 * b3 + 16777216 * h
    BY <1>11, <2>1
  <2>3. -2147483648 <= n /\ n <= 2147483647 => q3 = h
    BY <1>9, <2>1
  <2>4. b1 \in Int /\ b2 \in Int /\ b3 \in Int
    BY <1>1
  <2> QED
    BY <2>2, <2>3, <2>4, <1>6, <1>7, <1>8
<1> QED
  BY <1>10, <1>12

\* The frame is rounded up to the next multiple of 16.
LEMMA RoundedUp ==
  ASSUME NEW t \in Nat
  PROVE  /\ t + ((16 - (t % 16)) % 16) \in Nat
         /\ (t + ((16 - (t % 16)) % 16)) % 16 = 0
OBVIOUS

-------------------------------------------------------------------------------
(* Layout: every step keeps LayoutInv. *)

\* An instruction behind the others.
LEMMA PlacedAtEnd ==
  ASSUME Tiled, NEW instr \in MachineCode, code' = Placed(size, instr), size' = size + instr.len
  PROVE  /\ Tiled' /\ Boundaries \subseteq Boundaries' /\ size \in Boundaries
         /\ DOMAIN code' = DOMAIN code \cup {size} /\ size \notin DOMAIN code
         /\ \A a \in DOMAIN code : code'[a] = code[a]
         /\ code'[size] = instr
<1>1. /\ size \in Nat /\ Prologue <= size /\ Prologue \in DOMAIN code \cup {size}
      /\ DOMAIN code \subseteq Prologue..size - 1
      /\ \A a \in DOMAIN code : code[a] \in MachineCode /\ a + code[a].len \in DOMAIN code \cup {size}
  BY DEF Tiled, Boundaries
<1>2. size \notin DOMAIN code /\ Prologue \in Nat
  BY <1>1, ControlFlowAssumption
<1>3. /\ DOMAIN code' = DOMAIN code \cup {size}
      /\ \A a \in DOMAIN code : code'[a] = code[a]
      /\ code'[size] = instr
  BY <1>2 DEF Placed
<1>4. instr.len \in Nat \ {0}
  BY DEF MachineCode
<1>5. size' \in Nat /\ Prologue <= size' /\ size \in Prologue..size' - 1 /\ size <= size'
  BY <1>1, <1>2, <1>4
<1>6. DOMAIN code' \subseteq Prologue..size' - 1
  BY <1>1, <1>2, <1>3, <1>5
<1>7. \A a \in DOMAIN code' : code'[a] \in MachineCode /\ a + code'[a].len \in DOMAIN code' \cup {size'}
  <2>1. \A a \in DOMAIN code : code'[a] \in MachineCode /\ a + code'[a].len \in DOMAIN code'
    BY <1>1, <1>3
  <2>2. code'[size] \in MachineCode /\ size + code'[size].len = size'
    BY <1>3
  <2> QED
    BY <2>1, <2>2, <1>3
<1>8. Prologue \in DOMAIN code' \cup {size'}
  BY <1>1, <1>3
<1>9. Tiled'
  BY <1>5, <1>6, <1>7, <1>8 DEF Tiled, Boundaries
<1> QED
  BY <1>2, <1>3, <1>9 DEF Boundaries

LEMMA EmitCodeLayout ==
  ASSUME LabelInv, LayoutInv, EmitCode
  PROVE  LayoutInv'
<1>1. /\ phase = "emit" /\ ir # <<>> /\ Instruction.op \in CodeOps
      /\ code' = Placed(size, MachineInstr(Instruction.op, Instruction.id, Instruction.label, CodeSize, <<>>))
      /\ size' = size + CodeSize
      /\ totalsizes' = totalsizes + IF Instruction.op = "eval" THEN 8 ELSE 0
      /\ UNCHANGED <<phase, label_map, jump_instructions, frame_size, rip, flag, tmps>>
  BY DEF EmitCode, Emitting, Instruction, CodeOps, runVars
<1>2. Instruction \in IrInstr
  <2>1. PICK rest : rest = Tail(ir)
    OBVIOUS
  <2> QED
    BY <1>1, <2>1, IrTail
<1>3. PICK instr : instr = MachineInstr(Instruction.op, Instruction.id, Instruction.label, CodeSize, <<>>)
  OBVIOUS
<1>4. instr \in MachineCode /\ instr.len = CodeSize /\ instr.op \in CodeOps
  BY <1>1, <1>2, <1>3, ControlFlowAssumption DEF MachineInstr, MachineCode, IrInstr
<1>5. Tiled /\ RoomForJumps /\ JumpsPatched /\ Framed /\ Processor
  BY DEF LayoutInv
<1>6. /\ Tiled' /\ Boundaries \subseteq Boundaries'
      /\ DOMAIN code' = DOMAIN code \cup {size} /\ size \notin DOMAIN code
      /\ \A a \in DOMAIN code : code'[a] = code[a]
      /\ code'[size] = instr
  BY <1>1, <1>3, <1>4, <1>5, PlacedAtEnd
<1>7. code'[size].op \notin JumpOps /\ code'[size].op # "nop"
  BY <1>4, <1>6 DEF CodeOps, JumpOps
<1>8. RoomForJumps'
  BY <1>1, <1>5, <1>6, <1>7 DEF RoomForJumps
<1>9. JumpsPatched'
  BY <1>1, <1>5, <1>6, <1>7 DEF JumpsPatched
<1>10. Framed'
  BY <1>1, <1>5 DEF Framed
<1>11. Processor'
  <2>1. rip' = Prologue /\ Prologue \in Boundaries'
    BY <1>1, <1>5, <1>6 DEF Processor, Tiled
  <2> QED
    BY <1>1, <1>5, <2>1 DEF Processor
<1> QED
  BY <1>6, <1>8, <1>9, <1>10, <1>11 DEF LayoutInv

LEMMA EmitLabelLayout ==
  ASSUME LabelInv, LayoutInv, EmitLabel
  PROVE  LayoutInv'
<1>1. /\ phase = "emit"
      /\ label_map' = [l \in DOMAIN label_map \cup {Instruction.label} |->
                         IF l = Instruction.label THEN size ELSE label_map[l]]
      /\ UNCHANGED <<phase, code, size, jump_instructions, totalsizes, frame_size, rip, flag, tmps>>
  BY DEF EmitLabel, Emitting, runVars
<1>2. Tiled /\ RoomForJumps /\ JumpsPatched /\ Framed /\ Processor
  BY DEF LayoutInv
<1>3. Tiled' /\ RoomForJumps' /\ Framed' /\ Processor' /\ Boundaries' = Boundaries
  BY <1>1, <1>2 DEF Tiled, RoomForJumps, Framed, Processor, Boundaries, Fits, MachineCode
<1>4. JumpsPatched'
  <2>1. \A l \in DOMAIN label_map' : label_map'[l] \in Boundaries
    BY <1>1, <1>2 DEF JumpsPatched, Boundaries
  <2>2. \A a \in DOMAIN code : code[a].op \notin JumpOps
    BY <1>1, <1>2 DEF JumpsPatched
  <2> QED
    BY <1>1, <1>3, <2>1, <2>2 DEF JumpsPatched
<1> QED
  BY <1>3, <1>4 DEF LayoutInv

LEMMA EmitJumpLayout ==
  ASSUME LabelInv, LayoutInv, EmitJump
  PROVE  LayoutInv'
<1>1. /\ phase = "emit" /\ ir # <<>> /\ Instruction.op \in JumpOps
      /\ code' = Placed(size, MachineInstr("nop", 0, 0, JumpLength(Instruction.op), <<>>))
      /\ size' = size + JumpLength(Instruction.op)
      /\ jump_instructions' = Append(jump_instructions, [instr |-> Instruction, location |-> size])
      /\ UNCHANGED <<phase, label_map, totalsizes, frame_size, rip, flag, tmps>>
  BY DEF EmitJump, Emitting, Instruction, JumpOps, runVars
<1>2. Instruction \in IrInstr
  <2>1. PICK rest : rest = Tail(ir)
    OBVIOUS
  <2> QED
    BY <1>1, <2>1, IrTail
<1>3. PICK instr : instr = MachineInstr("nop", 0, 0, JumpLength(Instruction.op), <<>>)
  OBVIOUS
<1>4. instr \in MachineCode /\ instr.len = JumpLength(Instruction.op) /\ instr.op = "nop"
  BY <1>3 DEF MachineInstr, MachineCode, JumpLength
<1>5. Tiled /\ RoomForJumps /\ JumpsPatched /\ Framed /\ Processor
  BY DEF LayoutInv
<1>6. /\ Tiled' /\ Boundaries \subseteq Boundaries'
      /\ DOMAIN code' = DOMAIN code \cup {size} /\ size \notin DOMAIN code
      /\ \A a \in DOMAIN code : code'[a] = code[a]
      /\ code'[size] = instr
  BY <1>1, <1>3, <1>4, <1>5, PlacedAtEnd
<1>7. jump_instructions \in Seq(PendingJump) /\ size \in Nat
  BY DEF LabelInv, LabelTypes
<1>8. PICK x : x = [instr |-> Instruction, location |-> size]
  OBVIOUS
<1>9. x \in PendingJump /\ x.location = size /\ x.instr = Instruction
  BY <1>1, <1>2, <1>7, <1>8 DEF PendingJump
<1>10. PICK s : s = Append(jump_instructions, x)
  OBVIOUS
<1>11. PICK n : n = Len(jump_instructions)
  OBVIOUS
<1>12. /\ DOMAIN s = 1..n + 1 /\ n \in Nat /\ DOMAIN jump_instructions = 1..n
       /\ \A i \in DOMAIN jump_instructions : s[i] = jump_instructions[i]
       /\ s[n + 1] = x
  BY <1>7, <1>9, <1>10, <1>11, AppendFacts
<1>13. jump_instructions' = s
  BY <1>1, <1>8, <1>10
<1>14. \A i \in DOMAIN s : \/ i \in DOMAIN jump_instructions /\ s[i] = jump_instructions[i]
                           \/ i = n + 1 /\ s[i] = x
  BY <1>12
<1>15. \A i \in DOMAIN jump_instructions :
         /\ jump_instructions[i].location \in DOMAIN code
         /\ code[jump_instructions[i].location].op = "nop"
         /\ code[jump_instructions[i].location].len = JumpLength(jump_instructions[i].instr.op)
  BY <1>5 DEF RoomForJumps
<1>16. RoomForJumps'
  <2>1. \A i \in DOMAIN s :
          /\ s[i].location \in DOMAIN code'
          /\ code'[s[i].location].op = "nop"
          /\ code'[s[i].location].len = JumpLength(s[i].instr.op)
    <3> TAKE i \in DOMAIN s
    <3>1. CASE i \in DOMAIN jump_instructions /\ s[i] = jump_instructions[i]
      BY <3>1, <1>6, <1>15
    <3>2. CASE i = n + 1 /\ s[i] = x
      BY <3>2, <1>4, <1>6, <1>9
    <3> QED
      BY <3>1, <3>2, <1>14
  <2>2. \A i, j \in DOMAIN s : i # j => s[i].location # s[j].location
    BY <1>5, <1>6, <1>9, <1>14, <1>15 DEF RoomForJumps
  <2>3. \A a \in DOMAIN code' : code'[a].op = "nop" => \E i \in DOMAIN s : s[i].location = a
    <3> SUFFICES ASSUME NEW a \in DOMAIN code', code'[a].op = "nop"
                 PROVE  \E i \in DOMAIN s : s[i].location = a
      OBVIOUS
    <3>1. CASE a = size
      <4>1. n + 1 \in DOMAIN s /\ s[n + 1].location = a
        BY <3>1, <1>9, <1>12
      <4> QED
        BY <4>1
    <3>2. CASE a \in DOMAIN code
      <4>1. code[a].op = "nop"
        BY <3>2, <1>6
      <4>2. PICK i \in DOMAIN jump_instructions : jump_instructions[i].location = a
        BY <3>2, <4>1, <1>5 DEF RoomForJumps
      <4>3. i \in DOMAIN s /\ s[i] = jump_instructions[i]
        BY <1>12
      <4> QED
        BY <4>2, <4>3
    <3> QED
      BY <3>1, <3>2, <1>6
  <2> QED
    BY <2>1, <2>2, <2>3, <1>13 DEF RoomForJumps, JumpLength
<1>17. JumpsPatched'
  <2>1. code'[size].op \notin JumpOps
    BY <1>4, <1>6 DEF JumpOps
  <2> QED
    BY <2>1, <1>1, <1>5, <1>6 DEF JumpsPatched
<1>18. Framed'
  BY <1>1, <1>5 DEF Framed
<1>19. Processor'
  <2>1. rip' = Prologue /\ Prologue \in Boundaries'
    BY <1>1, <1>5, <1>6 DEF Processor, Tiled
  <2> QED
    BY <1>1, <1>5, <2>1 DEF Processor
<1> QED
  BY <1>6, <1>16, <1>17, <1>18, <1>19 DEF LayoutInv

\* A jump is filled in where there is room for exactly this one, with the way
\* from its end to its label.
LEMMA BackpatchJumpLayout ==
  ASSUME LabelInv, LayoutInv, BackpatchJump
  PROVE  LayoutInv'
<1>1. PICK j : j = ToPatch
  OBVIOUS
<1>2. PICK at : at = j.location
  OBVIOUS
<1>3. PICK offset : offset = label_map[j.instr.label] - (at + JumpLength(j.instr.op))
  OBVIOUS
<1>4. PICK instr : instr = MachineInstr(j.instr.op, 0, 0, JumpLength(j.instr.op), Bytes(offset))
  OBVIOUS
<1>5. /\ phase = "patch" /\ jump_instructions # <<>> /\ j.instr.label \in DOMAIN label_map
      /\ code' = Placed(at, instr)
      /\ jump_instructions' = Tail(jump_instructions)
      /\ UNCHANGED <<phase, size, label_map, totalsizes, frame_size, rip, flag, tmps>>
  BY <1>1, <1>2, <1>3, <1>4 DEF BackpatchJump, Patching, runVars
<1>6. jump_instructions \in Seq(PendingJump)
  BY DEF LabelInv, LabelTypes
<1>7. PICK n : n = Len(jump_instructions)
  OBVIOUS
<1>8. PICK s : s = Tail(jump_instructions)
  OBVIOUS
<1>9. /\ n \in Nat \ {0} /\ DOMAIN s = 1..(n - 1) /\ DOMAIN jump_instructions = 1..n
      /\ \A i \in 1..(n - 1) : s[i] = jump_instructions[i + 1]
      /\ j = jump_instructions[1] /\ j \in PendingJump
  BY <1>1, <1>5, <1>6, <1>7, <1>8, TailFacts DEF ToPatch
<1>10. jump_instructions' = s
  BY <1>5, <1>8
<1>11. Tiled /\ RoomForJumps /\ JumpsPatched /\ Framed /\ Processor
  BY DEF LayoutInv
<1>12. 1 \in DOMAIN jump_instructions
  BY <1>9
<1>13. /\ at \in DOMAIN code /\ code[at].op = "nop" /\ code[at].len = JumpLength(j.instr.op)
  BY <1>2, <1>9, <1>11, <1>12 DEF RoomForJumps
<1>14. /\ DOMAIN code' = DOMAIN code /\ code'[at] = instr
       /\ \A a \in DOMAIN code : a # at => code'[a] = code[a]
  BY <1>5, <1>13 DEF Placed
<1>15. \A i \in DOMAIN s :
         /\ i + 1 \in DOMAIN jump_instructions /\ i + 1 # 1 /\ s[i] = jump_instructions[i + 1]
  BY <1>9
<1>16. \A i \in DOMAIN s : s[i].location # at
  BY <1>2, <1>9, <1>11, <1>12, <1>15 DEF RoomForJumps
<1>17. at \in Nat /\ size \in Nat /\ label_map[j.instr.label] \in Nat /\ offset \in Int
  <2>1. size \in Nat /\ DOMAIN code \subseteq Prologue..size - 1 /\ Prologue \in Nat
    BY <1>11, ControlFlowAssumption DEF Tiled
  <2>2. Boundaries \subseteq Nat
    BY <2>1 DEF Boundaries
  <2>3. label_map[j.instr.label] \in Boundaries /\ at \in Boundaries
    BY <1>5, <1>11, <1>13 DEF JumpsPatched, Boundaries
  <2>4. label_map[j.instr.label] \in Nat /\ at \in Nat
    BY <2>2, <2>3
  <2>5. JumpLength(j.instr.op) \in Nat
    BY DEF JumpLength
  <2> QED
    BY <2>1, <2>4, <2>5, <1>3
<1>18. /\ instr \in MachineCode /\ instr.op = j.instr.op /\ instr.op \in JumpOps
       /\ instr.len = JumpLength(j.instr.op) /\ instr.offset = Bytes(offset)
  <2>1. j.instr.op \in JumpOps
    BY <1>9 DEF PendingJump
  <2>2. Bytes(offset) \in Seq(0..255)
    BY <1>17, BytesFacts
  <2> QED
    BY <2>1, <2>2, <1>4 DEF MachineInstr, MachineCode, JumpLength
<1>19. Boundaries' = Boundaries
  BY <1>5, <1>14 DEF Boundaries
<1>20. \A a \in DOMAIN code : code'[a].len = code[a].len
  BY <1>13, <1>14, <1>18
<1>21. Tiled'
  <2>1. \A a \in DOMAIN code : code'[a] \in MachineCode /\ a + code'[a].len \in Boundaries
    <3>1. \A a \in DOMAIN code : code'[a] \in MachineCode
      BY <1>11, <1>14, <1>18 DEF Tiled
    <3>2. \A a \in DOMAIN code : a + code'[a].len \in Boundaries
      BY <1>11, <1>20 DEF Tiled
    <3> QED
      BY <3>1, <3>2
  <2> QED
    BY <2>1, <1>5, <1>11, <1>14, <1>19 DEF Tiled, MachineCode
<1>22. RoomForJumps'
  <2>1. \A i \in DOMAIN s :
          /\ s[i].location \in DOMAIN code'
          /\ code'[s[i].location].op = "nop"
          /\ code'[s[i].location].len = JumpLength(s[i].instr.op)
    BY <1>11, <1>14, <1>15, <1>16 DEF RoomForJumps
  <2>2. \A i, k \in DOMAIN s : i # k => s[i].location # s[k].location
    <3> SUFFICES ASSUME NEW i \in DOMAIN s, NEW k \in DOMAIN s, i # k
                 PROVE  s[i].location # s[k].location
      OBVIOUS
    <3>1. i + 1 # k + 1
      BY <1>9
    <3> QED
      BY <3>1, <1>11, <1>15 DEF RoomForJumps
  <2>3. \A a \in DOMAIN code' : code'[a].op = "nop" => \E i \in DOMAIN s : s[i].location = a
    <3> SUFFICES ASSUME NEW a \in DOMAIN code', code'[a].op = "nop"
                 PROVE  \E i \in DOMAIN s : s[i].location = a
      OBVIOUS
    <3>1. a # at
      BY <1>14, <1>18 DEF JumpOps
    <3>2. a \in DOMAIN code /\ code[a].op = "nop"
      BY <3>1, <1>14
    <3>3. PICK i \in DOMAIN jump_instructions : jump_instructions[i].location = a
      BY <3>2, <1>11 DEF RoomForJumps
    <3>4. i # 1
      BY <3>1, <3>3, <1>2, <1>9
    <3>5. i - 1 \in DOMAIN s /\ (i - 1) + 1 = i
      BY <3>4, <1>9
    <3>6. s[i - 1] = jump_instructions[i]
      BY <3>5, <1>15
    <3> QED
      BY <3>3, <3>5, <3>6
  <2> QED
    BY <2>1, <2>2, <2>3, <1>10 DEF RoomForJumps, JumpLength
<1>23. JumpsPatched'
  <2>1. \A l \in DOMAIN label_map : label_map[l] \in Boundaries
    BY <1>11 DEF JumpsPatched
  <2>2. \A a \in DOMAIN code : code'[a].op \in JumpOps =>
          \E l \in DOMAIN label_map : code'[a].offset = Bytes(label_map[l] - (a + code'[a].len))
    <3> SUFFICES ASSUME NEW a \in DOMAIN code, code'[a].op \in JumpOps
                 PROVE  \E l \in DOMAIN label_map :
                          code'[a].offset = Bytes(label_map[l] - (a + code'[a].len))
      OBVIOUS
    <3>1. CASE a = at
      <4>1. PICK l \in DOMAIN label_map : l = j.instr.label
        BY <1>5
      <4>2. offset = label_map[l] - (a + code'[a].len)
        BY <4>1, <3>1, <1>3, <1>14, <1>18
      <4>3. code'[a].offset = Bytes(offset)
        BY <3>1, <1>14, <1>18
      <4> QED
        BY <4>2, <4>3
    <3>2. CASE a # at
      <4>1. code'[a] = code[a]
        BY <3>2, <1>14
      <4> QED
        BY <4>1, <1>11 DEF JumpsPatched
    <3> QED
      BY <3>1, <3>2
  <2> QED
    BY <2>1, <2>2, <1>5, <1>14, <1>19 DEF JumpsPatched, Bytes
<1>24. Framed'
  BY <1>5, <1>11 DEF Framed
<1>25. Processor'
  BY <1>5, <1>11, <1>19 DEF Processor, Fits
<1> QED
  BY <1>21, <1>22, <1>23, <1>24, <1>25 DEF LayoutInv

\* Steps that neither write code nor place a label.
LEMMA LayoutUntouched ==
  ASSUME LayoutInv, UNCHANGED <<code, size, label_map, jump_instructions>>,
         phase' \in {"lower", "emit"} => phase \in {"lower", "emit"},
         Framed', Processor'
  PROVE  LayoutInv'
<1>1. Tiled' /\ RoomForJumps'
  BY DEF LayoutInv, Tiled, RoomForJumps, Boundaries, MachineCode, JumpLength
<1>2. JumpsPatched'
  BY DEF LayoutInv, JumpsPatched, Boundaries, Bytes
<1> QED
  BY <1>1, <1>2 DEF LayoutInv

LEMMA CompilingLayout ==
  ASSUME LayoutInv, LoweringStep \/ Emitted \/ LabelNotFound \/ UNCHANGED cfVars
  PROVE  LayoutInv'
<1>1. /\ UNCHANGED <<code, size, label_map, jump_instructions, totalsizes, frame_size, rip, flag, tmps>>
      /\ \/ phase' = phase
         \/ phase = "lower" /\ phase' = "emit"
         \/ phase = "emit" /\ phase' = "patch"
         \/ phase = "patch" /\ phase' = "abandoned"
  <2>1. CASE LoweringStep
    <3>1. CASE Lowered
      BY <3>1 DEF Lowered, compileVars, runVars
    <3>2. CASE EmitInstruction
      BY <3>2 DEF EmitInstruction, runVars
    <3>3. CASE \E calls, n : Makes(calls, n)
      BY <3>3 DEF Makes, runVars
    <3> QED
      BY <2>1, <3>1, <3>2, <3>3 DEF LoweringStep, GenerateStatement, GenerateReturn, GenerateIf,
         GenerateElseif, GenerateElse, EndIf, GenerateLoop, GenerateWhile, GenerateFor,
         GenerateForAssign, GenerateContinue, GenerateBreak, GenerateSwitch, GenerateCase, GenerateDefault, EndSwitch
  <2>2. CASE Emitted \/ LabelNotFound
    BY <2>2 DEF Emitted, LabelNotFound, Patching, compileVars, runVars
  <2>3. CASE UNCHANGED cfVars
    BY <2>3 DEF cfVars, compileVars, runVars
  <2> QED
    BY <2>1, <2>2, <2>3
<1>2. Framed'
  BY <1>1 DEF LayoutInv, Framed
<1>3. Processor'
  BY <1>1 DEF LayoutInv, Processor, Fits, Boundaries
<1>4. phase' \in {"lower", "emit"} => phase \in {"lower", "emit"}
  BY <1>1
<1> QED
  BY <1>1, <1>2, <1>3, <1>4, LayoutUntouched

LEMMA PatchFrameLayout ==
  ASSUME LayoutInv, PatchFrame
  PROVE  LayoutInv'
<1>1. /\ phase = "patch" /\ jump_instructions = <<>> /\ phase' = "run"
      /\ totalsizes' = totalsizes + ((16 - (totalsizes % 16)) % 16)
      /\ frame_size' = totalsizes'
      /\ UNCHANGED <<code, size, label_map, jump_instructions, rip, flag, tmps>>
  BY DEF PatchFrame, runVars
<1>2. totalsizes \in Nat
  BY DEF LayoutInv, Framed
<1>3. totalsizes' \in Nat /\ totalsizes' % 16 = 0
  BY <1>1, <1>2, RoundedUp
<1>4. Framed'
  BY <1>1, <1>3 DEF Framed
<1>5. Processor'
  BY <1>1 DEF LayoutInv, Processor, Fits, Boundaries
<1> QED
  BY <1>1, <1>4, <1>5, LayoutUntouched

\* Where a jump that is filled in goes, if the code fits into an offset.
LEMMA JumpTarget ==
  ASSUME LayoutInv, Fits, NEW a \in DOMAIN code, code[a].op \in JumpOps
  PROVE  \E l \in DOMAIN label_map :
           /\ a + code[a].len + FromBytes(code[a].offset) = label_map[l]
           /\ label_map[l] \in Boundaries
<1>1. PICK l \in DOMAIN label_map : code[a].offset = Bytes(label_map[l] - (a + code[a].len))
  BY DEF LayoutInv, JumpsPatched
<1>2. /\ size \in Nat /\ Prologue \in Nat /\ DOMAIN code \subseteq Prologue..size - 1
      /\ a + code[a].len \in Boundaries
  BY ControlFlowAssumption DEF LayoutInv, Tiled
<1>3. label_map[l] \in Boundaries
  BY DEF LayoutInv, JumpsPatched
<1>4. Boundaries \subseteq 0..size
  BY <1>2 DEF Boundaries
<1>5. PICK to \in 0..size : to = label_map[l]
  BY <1>3, <1>4
<1>6. PICK from \in 0..size : from = a + code[a].len
  BY <1>2, <1>4
<1>7. to - from \in Int /\ -2147483648 <= to - from /\ to - from <= 2147483647
  BY <1>2 DEF Fits
<1>8. FromBytes(Bytes(to - from)) = to - from
  BY <1>7, BytesFacts
<1>9. FromBytes(code[a].offset) = to - from
  BY <1>1, <1>5, <1>6, <1>8
<1>10. from + (to - from) = to
  BY <1>2
<1> QED
  BY <1>3, <1>5, <1>6, <1>9, <1>10

LEMMA RunLayout ==
  ASSUME LayoutInv, RunStep
  PROVE  LayoutInv'
<1>1. /\ phase = "run" /\ phase' \in {"run", "off"}
      /\ UNCHANGED <<code, size, label_map, jump_instructions, totalsizes, frame_size>>
  BY DEF RunStep, RunSource, RunJump, RunCase, RunDo, RunDropped, RunTest, RunSwitch, RunReturn, Running, compileVars
<1>2. Framed'
  BY <1>1 DEF LayoutInv, Framed
<1>3. Boundaries' = Boundaries /\ Fits' = Fits
  BY <1>1 DEF Boundaries, Fits
<1>4. rip \in DOMAIN code => Following \in Boundaries
  BY DEF LayoutInv, Tiled, Following, Current
<1>5. /\ flag \in BOOLEAN /\ \A t \in DOMAIN tmps : tmps[t] \in CaseValue
      /\ Fits => rip \in Boundaries
  BY DEF LayoutInv, Processor
<1>6. Processor'
  <2>1. CASE RunSource \/ RunDropped \/ RunReturn
    BY <2>1, <1>1, <1>3, <1>5 DEF RunSource, RunDropped, RunReturn, Processor
  <2>2. CASE RunDo
    BY <2>2, <1>1, <1>3, <1>4, <1>5 DEF RunDo, Running, Processor
  <2>3. CASE RunCase
    <3>1. rip' = Following /\ rip \in DOMAIN code /\ UNCHANGED tmps
      BY <2>3 DEF RunCase, Running
    <3>2. flag' \in BOOLEAN
      <4>1. flag' = (tmps[Current.tmp] = Current.id)
        BY <2>3 DEF RunCase
      <4> QED
        BY <4>1, Zenon
    <3> QED
      BY <3>1, <3>2, <1>1, <1>3, <1>4, <1>5 DEF Processor
  <2>4. CASE \E holds \in BOOLEAN : RunTest(holds)
    <3>1. PICK holds \in BOOLEAN : RunTest(holds)
      BY <2>4
    <3> QED
      BY <3>1, <1>1, <1>3, <1>4, <1>5 DEF RunTest, Running, Processor
  <2>5. CASE \E v \in CaseValue : RunSwitch(v)
    <3>1. PICK v \in CaseValue : RunSwitch(v)
      BY <2>5
    <3>2. /\ rip' = Following /\ rip \in DOMAIN code /\ UNCHANGED flag
          /\ tmps' = [t \in DOMAIN tmps \cup {Current.tmp} |-> IF t = Current.tmp THEN v ELSE tmps[t]]
      BY <3>1 DEF RunSwitch, Running
    <3>3. \A t \in DOMAIN tmps' : tmps'[t] \in CaseValue
      BY <3>2, <1>5
    <3> QED
      BY <3>2, <3>3, <1>1, <1>3, <1>4, <1>5 DEF Processor
  <2>6. CASE RunJump
    <3>1. /\ rip \in DOMAIN code /\ code[rip].op \in JumpOps /\ UNCHANGED <<flag, tmps>>
          /\ rip' = Following + IF Current.op = "jnz" /\ flag THEN 0 ELSE FromBytes(Current.offset)
      BY <2>6 DEF RunJump, Running, JumpOps
    <3>2. Fits => rip' \in Boundaries
      <4> SUFFICES ASSUME Fits PROVE rip' \in Boundaries
        OBVIOUS
      <4>1. PICK l \in DOMAIN label_map :
              /\ rip + code[rip].len + FromBytes(code[rip].offset) = label_map[l]
              /\ label_map[l] \in Boundaries
        BY <3>1, JumpTarget
      <4>2. CASE Current.op = "jnz" /\ flag
        <5>1. Boundaries \subseteq Int
          BY ControlFlowAssumption DEF LayoutInv, Tiled, Boundaries
        <5>2. rip' = Following + 0
          BY <4>2, <3>1
        <5>3. PICK f \in Int : f = Following /\ f \in Boundaries
          BY <5>1, <3>1, <1>4
        <5>4. f + 0 = f
          OBVIOUS
        <5> QED
          BY <5>2, <5>3, <5>4
      <4>3. CASE ~(Current.op = "jnz" /\ flag)
        <5>1. rip' = Following + FromBytes(Current.offset)
          BY <4>3, <3>1
        <5> QED
          BY <5>1, <4>1 DEF Following, Current
      <4> QED
        BY <4>2, <4>3
    <3> QED
      BY <3>1, <3>2, <1>1, <1>3, <1>5 DEF Processor
  <2> QED
    BY <2>1, <2>2, <2>3, <2>4, <2>5, <2>6 DEF RunStep
<1> QED
  BY <1>1, <1>2, <1>6, LayoutUntouched

LEMMA LayoutInit ==
  ASSUME CFInit
  PROVE  LayoutInv
<1>1. /\ phase = "lower" /\ code = <<>> /\ size = Prologue /\ label_map = <<>>
      /\ jump_instructions = <<>> /\ totalsizes \in Nat /\ frame_size = 0
      /\ rip = Prologue /\ flag = FALSE /\ tmps = <<>> /\ Prologue \in Nat
  BY ControlFlowAssumption DEF CFInit
<1>2. DOMAIN code = {} /\ DOMAIN label_map = {} /\ DOMAIN jump_instructions = {} /\ DOMAIN tmps = {}
  BY <1>1
<1>3. Tiled
  BY <1>1, <1>2 DEF Tiled, Boundaries
<1>4. RoomForJumps
  BY <1>2 DEF RoomForJumps
<1>5. JumpsPatched /\ Framed
  BY <1>1, <1>2 DEF JumpsPatched, Framed
<1>6. Processor
  BY <1>1, <1>2 DEF Processor, Boundaries
<1> QED
  BY <1>3, <1>4, <1>5, <1>6 DEF LayoutInv

LEMMA LayoutNext ==
  ASSUME LabelInv, LayoutInv, [CFNext]_cfVars
  PROVE  LayoutInv'
<1>1. CASE LoweringStep \/ Emitted \/ LabelNotFound \/ UNCHANGED cfVars
  BY <1>1, CompilingLayout
<1>2. CASE RunStep
  BY <1>2, RunLayout
<1> QED
  BY <1>1, <1>2, EmitCodeLayout, EmitLabelLayout, EmitJumpLayout, BackpatchJumpLayout, PatchFrameLayout
     DEF CFNext, CodegenStep

\* Instructions tile the code, labels are boundaries between them, and every
\* jump has had exactly the room it takes.
THEOREM LayoutInvariant == CFSpec => []LayoutInv
<1>1. CFInit => LayoutInv
  BY LayoutInit
<1>2. LabelInv /\ LayoutInv /\ [CFNext]_cfVars => LayoutInv'
  BY LayoutNext
<1> QED
  BY <1>1, <1>2, LabelInvariant, PTL DEF CFSpec

\* CFTypeOK, for every program: labels only of those given out, each at an
\* address of the code, and instructions one behind the other.
THEOREM CFTypeCorrect == CFSpec => []CFTypeOK
<1>1. ASSUME LabelInv, LayoutInv PROVE CFTypeOK
  <2>1. DOMAIN label_map \subseteq 1..label_count - 1 /\ label_count \in Nat
        /\ phase \in {"lower", "emit", "patch", "run", "abandoned", "off"}
    BY <1>1 DEF LabelInv, LabelTypes, OnePlace, Known
  <2>2. /\ size \in Nat /\ Prologue \in Nat /\ Prologue <= size /\ DOMAIN code \subseteq Prologue..size - 1
        /\ \A a \in DOMAIN code : a + code[a].len \in Boundaries
    BY <1>1, ControlFlowAssumption DEF LayoutInv, Tiled
  <2>3. Boundaries \subseteq Prologue..size
    BY <2>2 DEF Boundaries
  <2>4. \A l \in DOMAIN label_map : label_map[l] \in Prologue..size
    BY <1>1, <2>3 DEF LayoutInv, JumpsPatched
  <2>5. /\ totalsizes \in Nat /\ frame_size \in Nat
        /\ flag \in BOOLEAN /\ \A t \in DOMAIN tmps : tmps[t] \in CaseValue
    BY <1>1 DEF LayoutInv, Framed, Processor
  <2> QED
    BY <2>1, <2>2, <2>4, <2>5 DEF CFTypeOK, Boundaries
<1>2. LabelInv /\ LayoutInv => CFTypeOK
  BY <1>1
<1> QED
  BY <1>2, LabelInvariant, LayoutInvariant, PTL

\* FrameHolds, for every program and whatever its variables need.
THEOREM FrameIsLargeEnough == CFSpec => []FrameHolds
<1>1. LayoutInv => FrameHolds
  BY DEF LayoutInv, Framed, FrameHolds
<1> QED
  BY <1>1, LayoutInvariant, PTL

\* Code that runs has no room left for a jump that was forgotten; each of its
\* jumps leads, over the bytes of its offset, to the place of a label, which is
\* an instruction or the end; and the processor is never inside of one.
JumpsLand ==
  phase = "run" /\ Fits =>
    /\ rip \in Boundaries
    /\ \A a \in DOMAIN code :
         /\ code[a].op # "nop"
         /\ code[a].op \in JumpOps =>
              \E l \in DOMAIN label_map :
                /\ a + code[a].len + FromBytes(code[a].offset) = label_map[l]
                /\ label_map[l] \in Boundaries

THEOREM EveryJumpLands == CFSpec => []JumpsLand
<1>1. ASSUME LayoutInv, phase = "run", Fits
      PROVE  /\ rip \in Boundaries
             /\ \A a \in DOMAIN code :
                  /\ code[a].op # "nop"
                  /\ code[a].op \in JumpOps =>
                       \E l \in DOMAIN label_map :
                         /\ a + code[a].len + FromBytes(code[a].offset) = label_map[l]
                         /\ label_map[l] \in Boundaries
  <2>1. jump_instructions = <<>> /\ rip \in Boundaries
    BY <1>1 DEF LayoutInv, Framed, Processor
  <2>2. DOMAIN jump_instructions = {}
    BY <2>1
  <2>3. \A a \in DOMAIN code : code[a].op # "nop"
    BY <1>1, <2>2 DEF LayoutInv, RoomForJumps
  <2> QED
    BY <1>1, <2>1, <2>3, JumpTarget
<1>2. LayoutInv => JumpsLand
  BY <1>1 DEF JumpsLand
<1> QED
  BY <1>2, LayoutInvariant, PTL
===============================================================================
