-------------------------- MODULE RegisterPoolProofs --------------------------
(***************************************************************************)
(* Proofs about RegisterPool, for every register file, slot size, set of   *)
(* values and bound.                                                       *)
(*                                                                         *)
(* The inductive invariant IInv is type correctness together with the      *)
(* invariants of RegisterPool.  All the work is in alloc(): AllocFacts     *)
(* says once what it returns, keeps and moves, for the stack `stk' it runs *)
(* on (the whole stack, or what pop() has left of it).                     *)
(*                                                                         *)
(* At the end it is proved that the pool implements ValueStack: operands   *)
(* keep their values wherever they are moved.                              *)
(***************************************************************************)
EXTENDS RegisterPool, SequenceFacts

\* The first k entries of a stack are spilled and the others are not.  (An
\* explicit k is what gives a stack with an unspilled entry an oldest one.)
SpilledPrefix(stk, k) ==
  \A i \in DOMAIN stk : stk[i].is_spilled <=> i <= k

SlotsOrdered(stk) ==
  \A i, j \in DOMAIN stk :
    i < j /\ stk[j].is_spilled => stk[i].offset + RegSize <= stk[j].offset

SlotsOf(stk, slots, total) ==
  \A i \in DOMAIN stk :
    stk[i].is_spilled => stk[i].offset \in slots /\ stk[i].offset <= total

RegsDistinct(stk) ==
  \A i, j \in Unspilled(stk) : stk[i].reg = stk[j].reg => i = j

\* What the invariants say of a stack, given the slots and the size of the frame.
StackOK(stk, slots, total) ==
  /\ stk \in Seq(StackValue)
  /\ \E k \in 0..Len(stk) : SpilledPrefix(stk, k)
  /\ SlotsOrdered(stk)
  /\ SlotsOf(stk, slots, total)
  /\ RegsDistinct(stk)

IInv ==
  /\ TypeOK
  /\ StackOK(reg_stack, DOMAIN frame, total_stack_size)
  /\ Ownership
  /\ NothingLost
  /\ ThrowsOnlyWhenExhausted

-------------------------------------------------------------------------------

\* The entries of a stack have the type of a stack_value.
LEMMA EntryTyped ==
  ASSUME NEW stk \in Seq(StackValue), NEW i \in DOMAIN stk
  PROVE  /\ stk[i] \in StackValue
         /\ stk[i].is_spilled \in BOOLEAN
         /\ stk[i].reg \in Reg
         /\ stk[i].offset \in Nat
<1>1. DOMAIN stk = 1..Len(stk)
  BY LenProperties
<1>2. stk[i] \in StackValue
  BY <1>1, ElementOfSeq
<1> QED
  BY <1>2 DEF StackValue

\* A stack with an unspilled entry has an oldest one, which alloc() picks.
LEMMA VictimIsOldest ==
  ASSUME NEW stk \in Seq(StackValue), Unspilled(stk) # {},
         NEW k \in 0..Len(stk), SpilledPrefix(stk, k)
  PROVE  Victim(stk) = k + 1 /\ k + 1 \in DOMAIN stk
<1> DEFINE U == Unspilled(stk)
<1>1. DOMAIN stk = 1..Len(stk) /\ Len(stk) \in Nat
  BY LenProperties
<1>2. U = {i \in 1..Len(stk) : ~(i <= k)}
  BY <1>1 DEF Unspilled, SpilledPrefix
<1>3. k + 1 \in U /\ \A y \in U : k + 1 =< y
  BY <1>1, <1>2
<1>4. U \subseteq Nat
  BY <1>2
<1>5. Victim(stk) \in U /\ \A y \in U : Victim(stk) =< y
  BY <1>3 DEF Victim, Min
<1> QED
  BY <1>1, <1>3, <1>4, <1>5, <1>2

-------------------------------------------------------------------------------

\* A prefix of a sound stack is sound: pop() may call alloc() on what is left.
LEMMA FrontStackOK ==
  ASSUME NEW stk, NEW slots, NEW total, StackOK(stk, slots, total), stk # <<>>
  PROVE  /\ StackOK(Front(stk), slots, total)
         /\ Unspilled(Front(stk)) = Unspilled(stk) \ {Len(stk)}
<1>1. stk \in Seq(StackValue)
  BY DEF StackOK
<1>2. /\ Front(stk) \in Seq(StackValue)
      /\ Len(Front(stk)) = Len(stk) - 1
      /\ DOMAIN Front(stk) = 1..(Len(stk) - 1)
      /\ DOMAIN stk = 1..Len(stk)
      /\ Len(stk) \in Nat \ {0}
      /\ \A i \in DOMAIN Front(stk) : Front(stk)[i] = stk[i]
  BY <1>1, FrontFacts
<1>3. PICK k \in 0..Len(stk) : SpilledPrefix(stk, k)
  BY DEF StackOK
<1>4. \E j \in 0..Len(Front(stk)) : SpilledPrefix(Front(stk), j)
  <2>1. CASE k = Len(stk)
    <3>1. SpilledPrefix(Front(stk), k - 1)
      BY <1>2, <1>3, <2>1 DEF SpilledPrefix
    <3> QED
      BY <1>2, <2>1, <3>1
  <2>2. CASE k < Len(stk)
    <3>1. SpilledPrefix(Front(stk), k)
      BY <1>2, <1>3 DEF SpilledPrefix
    <3> QED
      BY <1>2, <2>2, <3>1
  <2> QED
    BY <1>2, <2>1, <2>2
<1>5. Unspilled(Front(stk)) = Unspilled(stk) \ {Len(stk)}
  BY <1>2 DEF Unspilled
<1>6. SlotsOrdered(Front(stk)) /\ SlotsOf(Front(stk), slots, total) /\ RegsDistinct(Front(stk))
  BY <1>2, <1>5 DEF StackOK, SlotsOrdered, SlotsOf, RegsDistinct, Unspilled
<1> QED
  BY <1>2, <1>4, <1>5, <1>6 DEF StackOK

-------------------------------------------------------------------------------

\* alloc() with a free register changes neither the stack nor the frame.
LEMMA AllocFromFreeList ==
  ASSUME TypeOK, NEW stk, NEW v \in Value, AllocStep(stk, v), ~Spills,
         IsInjective(free_regs)
  PROVE  /\ AllocReg(stk) \in Range(free_regs) /\ AllocReg(stk) \in Reg
         /\ free_regs' \in Seq(Reg) /\ IsInjective(free_regs')
         /\ Range(free_regs') = Range(free_regs) \ {AllocReg(stk)}
         /\ AllocStack(stk) = stk
         /\ total_stack_size' = total_stack_size /\ frame' = frame
<1>1. free_regs \in Seq(Reg) /\ free_regs # <<>>
  BY DEF TypeOK, Spills
<1>2. /\ AllocReg(stk) = Last(free_regs)
      /\ free_regs' = Front(free_regs)
      /\ AllocStack(stk) = stk
      /\ total_stack_size' = total_stack_size /\ frame' = frame
  BY DEF AllocStep, AllocReg, AllocFree, AllocStack, AllocTotal, AllocFrame
<1>3. Front(free_regs) \in Seq(Reg) /\ Last(free_regs) \in Reg
  BY <1>1, FrontFacts
<1>4. /\ IsInjective(Front(free_regs))
      /\ Range(Front(free_regs)) = Range(free_regs) \ {Last(free_regs)}
      /\ Last(free_regs) \in Range(free_regs)
  BY <1>1, FrontRange
<1> QED
  BY <1>2, <1>3, <1>4

\* alloc() without a free register spills the oldest entry that is in a register.
LEMMA AllocSpills ==
  ASSUME TypeOK, NEW stk, NEW v \in Value, AllocStep(stk, v), Spills,
         StackOK(stk, DOMAIN frame, total_stack_size)
  PROVE  /\ AllocReg(stk) \in RegsOf(stk) /\ AllocReg(stk) \in Reg
         /\ free_regs' = <<>>
         /\ StackOK(AllocStack(stk), DOMAIN frame', total_stack_size')
         /\ RegsOf(AllocStack(stk)) = RegsOf(stk) \ {AllocReg(stk)}
         /\ total_stack_size' \in Nat
         /\ total_stack_size <= total_stack_size'
         /\ DOMAIN frame' \subseteq Nat
         /\ \A slot \in DOMAIN frame' : frame'[slot] \in Value
         /\ DOMAIN AllocStack(stk) = DOMAIN stk
         /\ Len(AllocStack(stk)) = Len(stk)
<1> DEFINE n == Victim(stk)
           new == AllocStack(stk)
<1>1. /\ stk \in Seq(StackValue) /\ Unspilled(stk) # {}
      /\ DOMAIN stk = 1..Len(stk) /\ Len(stk) \in Nat
  BY LenProperties DEF StackOK, AllocStep, CanAlloc
<1>2. PICK k \in 0..Len(stk) : SpilledPrefix(stk, k)
  BY DEF StackOK
<1>3. n = k + 1 /\ k + 1 \in DOMAIN stk
  BY <1>1, <1>2, VictimIsOldest
<1>4. NewSlot \in Nat /\ total_stack_size \in Nat /\ NewSlot = total_stack_size + RegSize /\ RegSize \in Nat \ {0}
  BY PoolAssumption DEF TypeOK, NewSlot
<1>5. stk[n] \in StackValue /\ stk[n].reg \in Reg
  BY <1>1, <1>3, EntryTyped
<1> DEFINE e == [is_spilled |-> TRUE, reg |-> stk[n].reg, offset |-> NewSlot]
<1>6. new = [stk EXCEPT ![n] = e] /\ e \in StackValue
  BY <1>4, <1>5 DEF AllocStack, StackValue
<1>7. /\ new \in Seq(StackValue) /\ Len(new) = Len(stk) /\ DOMAIN new = DOMAIN stk
      /\ \A i \in DOMAIN stk : new[i] = IF i = n THEN e ELSE stk[i]
  BY <1>1, <1>3, <1>6, ExceptSeq
<1>8. /\ AllocReg(stk) = stk[n].reg
      /\ free_regs' = <<>>
      /\ total_stack_size' = NewSlot
      /\ DOMAIN frame' = DOMAIN frame \cup {NewSlot}
      /\ \A slot \in DOMAIN frame' :
           frame'[slot] = IF slot = NewSlot THEN contents[stk[n].reg] ELSE frame[slot]
  BY DEF AllocStep, AllocReg, AllocFree, AllocTotal, AllocFrame, Spills
<1>9. SpilledPrefix(new, k + 1) /\ k + 1 \in 0..Len(new)
  BY <1>1, <1>2, <1>3, <1>7 DEF SpilledPrefix
<1>10. n \in Unspilled(stk) /\ Unspilled(new) = Unspilled(stk) \ {n}
  BY <1>1, <1>2, <1>3, <1>7 DEF Unspilled, SpilledPrefix
<1>11. RegsDistinct(new) /\ RegsOf(new) = RegsOf(stk) \ {stk[n].reg}
  BY <1>7, <1>10 DEF StackOK, RegsDistinct, RegsOf, Unspilled
<1>12. SlotsOf(new, DOMAIN frame', total_stack_size')
  <2> SUFFICES ASSUME NEW i \in DOMAIN new, new[i].is_spilled
               PROVE  new[i].offset \in DOMAIN frame' /\ new[i].offset <= NewSlot
    BY <1>8 DEF SlotsOf
  <2>1. CASE i = n
    BY <2>1, <1>4, <1>7, <1>8
  <2>2. CASE i # n
    <3>1. stk[i].is_spilled /\ new[i] = stk[i] /\ i \in DOMAIN stk
      BY <2>2, <1>7
    <3>2. stk[i].offset \in DOMAIN frame /\ stk[i].offset <= total_stack_size
      BY <3>1 DEF StackOK, SlotsOf
    <3>3. stk[i].offset \in Nat
      BY <1>1, <3>1, EntryTyped
    <3> QED
      BY <3>1, <3>2, <3>3, <1>4, <1>8
  <2> QED
    BY <2>1, <2>2
<1>13. SlotsOrdered(new)
  <2> SUFFICES ASSUME NEW i \in DOMAIN new, NEW j \in DOMAIN new, i < j, new[j].is_spilled
               PROVE  new[i].offset + RegSize <= new[j].offset
    BY DEF SlotsOrdered
  <2>1. j <= k + 1 /\ i <= k /\ i # n
    BY <1>1, <1>3, <1>7, <1>9 DEF SpilledPrefix
  <2>2. stk[i].is_spilled /\ new[i] = stk[i]
    BY <2>1, <1>1, <1>2, <1>7 DEF SpilledPrefix
  <2>3. CASE j = n
    <3>1. stk[i].offset <= total_stack_size
      BY <1>7, <2>2 DEF StackOK, SlotsOf
    <3>2. stk[i].offset \in Nat
      BY <1>1, <1>7, EntryTyped
    <3> QED
      BY <2>2, <2>3, <3>1, <3>2, <1>4, <1>7
  <2>4. CASE j # n
    BY <2>2, <2>4, <1>7 DEF StackOK, SlotsOrdered
  <2> QED
    BY <2>3, <2>4
<1>14. \A slot \in DOMAIN frame' : slot \in Nat /\ frame'[slot] \in Value
  BY <1>4, <1>5, <1>8 DEF TypeOK
<1>15. AllocReg(stk) \in RegsOf(stk)
  BY <1>8, <1>10 DEF RegsOf
<1>16. StackOK(new, DOMAIN frame', total_stack_size')
  BY <1>7, <1>9, <1>11, <1>12, <1>13 DEF StackOK
<1> HIDE DEF new, n, e
<1>17. new = AllocStack(stk)
  BY DEF new
<1> QED
  BY <1>4, <1>5, <1>7, <1>8, <1>11, <1>14, <1>15, <1>16, <1>17

\* alloc() hands out a register no one else has, and keeps the pool sound.
LEMMA AllocFacts ==
  ASSUME TypeOK, NEW stk, NEW v \in Value, AllocStep(stk, v),
         StackOK(stk, DOMAIN frame, total_stack_size),
         IsInjective(free_regs),
         Range(free_regs) \cap held = {},
         Range(free_regs) \cap RegsOf(stk) = {},
         held \cap RegsOf(stk) = {}
  PROVE  /\ AllocReg(stk) \in Reg \ held
         /\ AllocReg(stk) \in Range(free_regs) \cup RegsOf(stk)
         /\ Range(free_regs') \cup RegsOf(AllocStack(stk)) =
              (Range(free_regs) \cup RegsOf(stk)) \ {AllocReg(stk)}
         /\ Range(free_regs') \cap RegsOf(AllocStack(stk)) = {}
         /\ free_regs' \in Seq(Reg) /\ IsInjective(free_regs')
         /\ StackOK(AllocStack(stk), DOMAIN frame', total_stack_size')
         /\ total_stack_size' \in Nat
         /\ contents' \in [Reg -> Value]
         /\ DOMAIN frame' \subseteq Nat
         /\ \A slot \in DOMAIN frame' : frame'[slot] \in Value
         /\ Len(AllocStack(stk)) = Len(stk)
         /\ DOMAIN AllocStack(stk) = DOMAIN stk
<1>1. contents' \in [Reg -> Value]
  BY DEF AllocStep, TypeOK
<1>2. CASE ~Spills
  BY <1>1, <1>2, AllocFromFreeList DEF TypeOK
<1>3. CASE Spills
  <2>1. Range(free_regs) = {} /\ free_regs = <<>>
    BY <1>3 DEF Spills, Range
  <2>2. free_regs' = <<>>
    BY <1>3, AllocSpills
  <2>3. DOMAIN free_regs' = {} /\ free_regs' \in Seq(Reg)
    BY <2>2, EmptySeq
  <2>4. Range(free_regs') = {} /\ IsInjective(free_regs')
    BY <2>3 DEF Range, IsInjective
  <2> QED
    BY <1>1, <1>3, <2>1, <2>2, AllocSpills
<1> QED
  BY <1>2, <1>3

-------------------------------------------------------------------------------

\* StackOK of the pool's own stack is what the two slot invariants say.
LEMMA StackOKGivesInvariants ==
  ASSUME StackOK(reg_stack, DOMAIN frame, total_stack_size)
  PROVE  SpilledBelow /\ SlotsInFrame
<1>1. PICK k \in 0..Len(reg_stack) : SpilledPrefix(reg_stack, k)
  BY DEF StackOK
<1>2. DOMAIN reg_stack = 1..Len(reg_stack) /\ Len(reg_stack) \in Nat
  BY LenProperties DEF StackOK
<1> QED
  BY <1>1, <1>2 DEF StackOK, SpilledPrefix, SlotsOrdered, SlotsOf, SpilledBelow, SlotsInFrame

\* The constructor puts every register on the free list.
LEMMA InitEstablishesIInv == Init => IInv
<1> SUFFICES ASSUME Init PROVE IInv
  OBVIOUS
<1>1. reg_stack = <<>> /\ DOMAIN reg_stack = {} /\ Len(reg_stack) = 0 /\ reg_stack \in Seq(StackValue)
  BY EmptySeq DEF Init
<1>2. Unspilled(reg_stack) = {} /\ ActiveRegisters = {}
  BY <1>1 DEF Unspilled, ActiveRegisters, RegsOf
<1>3. StackOK(reg_stack, DOMAIN frame, total_stack_size)
  BY <1>1, <1>2 DEF StackOK, SpilledPrefix, SlotsOrdered, SlotsOf, RegsDistinct
<1>4. TypeOK
  BY <1>1, PoolAssumption DEF Init, TypeOK
<1>5. Range(free_regs) = Reg /\ IsInjective(free_regs)
  BY PoolAssumption DEF Init, Reg
<1> QED
  BY <1>1, <1>2, <1>3, <1>4, <1>5 DEF IInv, Ownership, NothingLost, ThrowsOnlyWhenExhausted, Init

-------------------------------------------------------------------------------

\* The free list, the handler's registers and the stack's partition the registers.
Partition(freed, hands, onStack) ==
  /\ freed \cap hands = {} /\ freed \cap onStack = {} /\ hands \cap onStack = {}
  /\ Reg = freed \cup hands \cup onStack

\* Steps that take a register with alloc(), for the stack `stk' it is called on;
\* the register ends up with the handler or, for top(), back on the stack.
LEMMA AllocPartition ==
  ASSUME IInv, NEW stk, NEW v \in Value, AllocStep(stk, v),
         StackOK(stk, DOMAIN frame, total_stack_size),
         RegsOf(stk) = ActiveRegisters
  PROVE  /\ Partition(Range(free_regs'), held \cup {AllocReg(stk)}, RegsOf(AllocStack(stk)))
         /\ AllocReg(stk) \in Reg \ held
         /\ free_regs' \in Seq(Reg) /\ IsInjective(free_regs')
         /\ StackOK(AllocStack(stk), DOMAIN frame', total_stack_size')
         /\ total_stack_size' \in Nat
         /\ contents' \in [Reg -> Value]
         /\ DOMAIN frame' \subseteq Nat
         /\ \A slot \in DOMAIN frame' : frame'[slot] \in Value
         /\ Len(AllocStack(stk)) = Len(stk)
         /\ DOMAIN AllocStack(stk) = DOMAIN stk
         /\ thrown' = thrown
<1>1. /\ TypeOK /\ IsInjective(free_regs)
      /\ Range(free_regs) \cap held = {}
      /\ Range(free_regs) \cap RegsOf(stk) = {}
      /\ held \cap RegsOf(stk) = {}
      /\ Reg = Range(free_regs) \cup held \cup RegsOf(stk)
  BY DEF IInv, Ownership, NothingLost
<1>2. thrown' = thrown
  BY DEF AllocStep
<1>3. /\ AllocReg(stk) \in Reg \ held
      /\ AllocReg(stk) \in Range(free_regs) \cup RegsOf(stk)
      /\ Range(free_regs') \cup RegsOf(AllocStack(stk)) =
           (Range(free_regs) \cup RegsOf(stk)) \ {AllocReg(stk)}
      /\ Range(free_regs') \cap RegsOf(AllocStack(stk)) = {}
  BY <1>1, AllocFacts
<1>4. Partition(Range(free_regs'), held \cup {AllocReg(stk)}, RegsOf(AllocStack(stk)))
  BY <1>1, <1>3 DEF Partition
<1> QED
  BY <1>1, <1>2, <1>3, <1>4, AllocFacts

\* IInv' from its parts: what each case of the induction has to show.
LEMMA IInvFromParts ==
  ASSUME /\ free_regs' \in Seq(Reg) /\ IsInjective(free_regs')
         /\ StackOK(reg_stack', DOMAIN frame', total_stack_size')
         /\ total_stack_size' \in Nat
         /\ held' \subseteq Reg
         /\ contents' \in [Reg -> Value]
         /\ DOMAIN frame' \subseteq Nat
         /\ \A slot \in DOMAIN frame' : frame'[slot] \in Value
         /\ thrown' \in BOOLEAN /\ (thrown' => held' = Reg \/ reg_stack' = <<>>)
         /\ Partition(Range(free_regs'), held', RegsOf(reg_stack'))
  PROVE  IInv'
<1>1. TypeOK'
  BY DEF TypeOK, StackOK
<1>2. RegsDistinct(reg_stack')
  BY DEF StackOK
<1>3. Ownership' /\ NothingLost'
  BY <1>2 DEF Ownership, NothingLost, ActiveRegisters, RegsDistinct, Partition
<1> QED
  BY <1>1, <1>3 DEF IInv, ThrowsOnlyWhenExhausted

\* The parts of IInv, in the same form.
LEMMA PartsOfIInv ==
  ASSUME IInv
  PROVE  /\ free_regs \in Seq(Reg) /\ IsInjective(free_regs)
         /\ StackOK(reg_stack, DOMAIN frame, total_stack_size)
         /\ reg_stack \in Seq(StackValue)
         /\ total_stack_size \in Nat
         /\ held \subseteq Reg
         /\ contents \in [Reg -> Value]
         /\ DOMAIN frame \subseteq Nat
         /\ \A slot \in DOMAIN frame : frame[slot] \in Value
         /\ thrown \in BOOLEAN /\ (thrown => held = Reg \/ reg_stack = <<>>)
         /\ Partition(Range(free_regs), held, RegsOf(reg_stack))
BY DEF IInv, TypeOK, Ownership, NothingLost, ThrowsOnlyWhenExhausted, ActiveRegisters, Partition

-------------------------------------------------------------------------------
(* How push(), pop() and top() change a sound stack. *)

\* push() puts an unspilled entry on top of a sound stack.
LEMMA PushStackOK ==
  ASSUME NEW stk, NEW slots, NEW total, StackOK(stk, slots, total),
         NEW r \in Reg, r \notin RegsOf(stk), NEW e,
         e = [is_spilled |-> FALSE, reg |-> r, offset |-> 0]
  PROVE  /\ StackOK(Append(stk, e), slots, total)
         /\ RegsOf(Append(stk, e)) = RegsOf(stk) \cup {r}
<1> DEFINE new == Append(stk, e)
<1>1. stk \in Seq(StackValue) /\ Len(stk) \in Nat /\ DOMAIN stk = 1..Len(stk)
  BY LenProperties DEF StackOK
<1>2. e \in StackValue /\ ~e.is_spilled /\ e.reg = r
  BY DEF StackValue
<1>3. /\ new \in Seq(StackValue) /\ Len(new) = Len(stk) + 1
      /\ \A i \in 1..Len(stk) : new[i] = stk[i]
      /\ new[Len(stk) + 1] = e
  BY <1>1, <1>2, AppendProperties
<1>4. DOMAIN new = 1..(Len(stk) + 1)
  BY <1>3, LenProperties
<1> HIDE DEF new
<1>5. PICK k \in 0..Len(stk) : SpilledPrefix(stk, k)
  BY DEF StackOK
<1>6. SpilledPrefix(new, k) /\ k \in 0..Len(new)
  BY <1>1, <1>2, <1>3, <1>4, <1>5 DEF SpilledPrefix
<1>7. Unspilled(new) = Unspilled(stk) \cup {Len(stk) + 1}
  BY <1>1, <1>2, <1>3, <1>4 DEF Unspilled
<1>8. RegsOf(new) = RegsOf(stk) \cup {r}
  <2>1. \A i \in Unspilled(stk) : i \in 1..Len(stk) /\ new[i] = stk[i]
    BY <1>1, <1>3 DEF Unspilled
  <2> QED
    BY <2>1, <1>2, <1>3, <1>7 DEF RegsOf
<1>9. RegsDistinct(new)
  <2>1. \A i \in Unspilled(stk) : i \in 1..Len(stk) /\ new[i] = stk[i] /\ stk[i].reg # r
    BY <1>1, <1>3 DEF Unspilled, RegsOf
  <2>2. \A i, j \in Unspilled(stk) : stk[i].reg = stk[j].reg => i = j
    BY DEF StackOK, RegsDistinct
  <2> QED
    BY <2>1, <2>2, <1>2, <1>3, <1>7 DEF RegsDistinct
<1>10. SlotsOrdered(new) /\ SlotsOf(new, slots, total)
  <2>1. \A i \in DOMAIN new : new[i].is_spilled => i \in DOMAIN stk
    BY <1>1, <1>2, <1>3, <1>4
  <2>2. \A i, j \in DOMAIN new : i < j /\ j \in DOMAIN stk => i \in DOMAIN stk
    BY <1>1, <1>4
  <2>3. \A i \in DOMAIN stk : new[i] = stk[i]
    BY <1>1, <1>3
  <2> QED
    BY <2>1, <2>2, <2>3 DEF StackOK, SlotsOrdered, SlotsOf
<1> QED
  BY <1>3, <1>6, <1>8, <1>9, <1>10 DEF StackOK, new

\* pop() removes the top entry's register from the stack, if it is in one.
LEMMA FrontRegs ==
  ASSUME NEW stk, NEW slots, NEW total, StackOK(stk, slots, total), stk # <<>>
  PROVE  /\ Last(stk).reg \in Reg
         /\ Last(stk).is_spilled => RegsOf(Front(stk)) = RegsOf(stk)
         /\ ~Last(stk).is_spilled => /\ Last(stk).reg \in RegsOf(stk)
                                     /\ RegsOf(Front(stk)) = RegsOf(stk) \ {Last(stk).reg}
<1> DEFINE n == Len(stk)
<1>1. stk \in Seq(StackValue)
  BY DEF StackOK
<1>2. /\ DOMAIN Front(stk) = 1..(n - 1) /\ DOMAIN stk = 1..n /\ n \in Nat \ {0}
      /\ \A i \in DOMAIN Front(stk) : Front(stk)[i] = stk[i]
      /\ Last(stk) = stk[n]
  BY <1>1, FrontFacts
<1>2a. Last(stk).reg \in Reg
  BY <1>1, <1>2, EntryTyped
<1>3. Unspilled(Front(stk)) = Unspilled(stk) \ {n}
  BY FrontStackOK
<1>4. \A i \in Unspilled(Front(stk)) : i \in Unspilled(stk) /\ i # n /\ Front(stk)[i] = stk[i]
  BY <1>2, <1>3 DEF Unspilled
<1>5. CASE Last(stk).is_spilled
  <2>1. n \notin Unspilled(stk)
    BY <1>2, <1>5 DEF Unspilled
  <2> QED
    BY <1>3, <1>4, <1>5, <1>2a, <2>1 DEF RegsOf
<1>6. CASE ~Last(stk).is_spilled
  <2>1. n \in Unspilled(stk)
    BY <1>2, <1>6 DEF Unspilled
  <2>2. \A i \in Unspilled(stk) : i # n => stk[i].reg # stk[n].reg
    BY <2>1 DEF StackOK, RegsDistinct
  <2>3. RegsOf(Front(stk)) = RegsOf(stk) \ {stk[n].reg}
    BY <2>1, <2>2, <1>3, <1>4 DEF RegsOf
  <2>4. stk[n].reg \in RegsOf(stk)
    BY <2>1 DEF RegsOf
  <2> QED
    BY <1>2, <1>2a, <1>6, <2>3, <2>4
<1> QED
  BY <1>5, <1>6

\* A spilled top entry means that no entry is in a register.
LEMMA SpilledTop ==
  ASSUME NEW stk, NEW slots, NEW total, StackOK(stk, slots, total),
         stk # <<>>, Last(stk).is_spilled
  PROVE  Unspilled(stk) = {} /\ RegsOf(stk) = {} /\ SpilledPrefix(stk, Len(stk))
<1>1. stk \in Seq(StackValue)
  BY DEF StackOK
<1>2. DOMAIN stk = 1..Len(stk) /\ Len(stk) \in Nat \ {0} /\ Last(stk) = stk[Len(stk)]
  BY <1>1, FrontFacts
<1>3. PICK k \in 0..Len(stk) : SpilledPrefix(stk, k)
  BY DEF StackOK
<1>4. k = Len(stk)
  <2>1. Len(stk) \in DOMAIN stk /\ stk[Len(stk)].is_spilled
    BY <1>2
  <2>2. Len(stk) <= k
    BY <1>3, <2>1 DEF SpilledPrefix
  <2>3. Len(stk) \in Int
    BY <1>2
  <2>4. k \in Int /\ k <= Len(stk)
    BY <2>3
  <2> QED
    BY <2>2, <2>3, <2>4
<1> QED
  BY <1>2, <1>3, <1>4 DEF SpilledPrefix, Unspilled, RegsOf

\* top() leaves a sound stack: all entries but the reloaded one stay spilled.
LEMMA TopStackOK ==
  ASSUME NEW stk, NEW slots, NEW total, StackOK(stk, slots, total),
         stk # <<>>, Last(stk).is_spilled, NEW r \in Reg, NEW new,
         new = [stk EXCEPT ![Len(stk)] =
                 [is_spilled |-> FALSE, reg |-> r, offset |-> @.offset]]
  PROVE  StackOK(new, slots, total) /\ RegsOf(new) = {r}
<1> DEFINE n == Len(stk)
           e == [is_spilled |-> FALSE, reg |-> r, offset |-> stk[n].offset]
<1>1. stk \in Seq(StackValue) /\ SpilledPrefix(stk, n)
  BY SpilledTop DEF StackOK
<1>2. DOMAIN stk = 1..n /\ n \in Nat \ {0}
  BY <1>1, FrontFacts
<1>3. e \in StackValue /\ ~e.is_spilled /\ e.reg = r
  <2>1. n \in DOMAIN stk
    BY <1>2
  <2>2. stk[n].offset \in Nat
    BY <1>1, <2>1, EntryTyped
  <2> QED
    BY <2>2 DEF StackValue
<1>4. /\ new \in Seq(StackValue) /\ Len(new) = n /\ DOMAIN new = 1..n
      /\ \A i \in 1..n : new[i] = IF i = n THEN e ELSE stk[i]
  <2>1. new = [stk EXCEPT ![n] = e]
    OBVIOUS
  <2>2. /\ new \in Seq(StackValue) /\ Len(new) = n
        /\ \A i \in 1..n : new[i] = IF i = n THEN e ELSE stk[i]
    BY <1>1, <1>2, <1>3, <2>1, ExceptSeq
  <2> QED
    BY <2>2, LenProperties
<1> HIDE DEF e
<1>5. SpilledPrefix(new, n - 1) /\ n - 1 \in 0..Len(new)
  BY <1>1, <1>2, <1>3, <1>4 DEF SpilledPrefix
<1>6. Unspilled(new) = {n}
  BY <1>2, <1>4, <1>5 DEF Unspilled, SpilledPrefix
<1>7. RegsOf(new) = {r} /\ RegsDistinct(new)
  <2>1. new[n] = e
    BY <1>2, <1>4
  <2>2. RegsOf(new) = {r}
    BY <1>3, <1>6, <2>1 DEF RegsOf
  <2>3. RegsDistinct(new)
    BY <1>6 DEF RegsDistinct
  <2> QED
    BY <2>2, <2>3
<1>8. SlotsOrdered(new) /\ SlotsOf(new, slots, total)
  <2>1. \A i \in DOMAIN new : new[i].is_spilled => i # n /\ new[i] = stk[i] /\ i \in DOMAIN stk
    BY <1>2, <1>3, <1>4
  <2>2. \A i, j \in DOMAIN new : i < j /\ j # n => i # n
    BY <1>2, <1>4
  <2> QED
    BY <2>1, <2>2, <1>2, <1>4 DEF StackOK, SlotsOrdered, SlotsOf
<1> QED
  BY <1>4, <1>5, <1>7, <1>8 DEF StackOK

-------------------------------------------------------------------------------
(* The induction: one lemma per kind of operation. *)

\* alloc() takes a register nobody owns, so the handler becomes its only owner.
LEMMA AllocPreserves ==
  ASSUME IInv, NEW v \in Value, Alloc(v)
  PROVE  IInv'
<1>1. AllocStep(reg_stack, v) /\ reg_stack' = AllocStack(reg_stack)
      /\ held' = held \cup {AllocReg(reg_stack)}
  BY DEF Alloc
<1>2. /\ StackOK(reg_stack, DOMAIN frame, total_stack_size)
      /\ held \subseteq Reg /\ thrown \in BOOLEAN /\ ~thrown
  BY PartsOfIInv DEF Alloc
<1>3. /\ Partition(Range(free_regs'), held', RegsOf(reg_stack'))
      /\ AllocReg(reg_stack) \in Reg \ held
      /\ free_regs' \in Seq(Reg) /\ IsInjective(free_regs')
      /\ StackOK(reg_stack', DOMAIN frame', total_stack_size')
      /\ total_stack_size' \in Nat
      /\ contents' \in [Reg -> Value]
      /\ DOMAIN frame' \subseteq Nat
      /\ \A slot \in DOMAIN frame' : frame'[slot] \in Value
      /\ thrown' = thrown
  BY <1>1, <1>2, AllocPartition DEF ActiveRegisters
<1> QED
  BY <1>1, <1>2, <1>3, IInvFromParts

\* Popping a spilled operand reloads it into a register nobody owns.
LEMMA PopSpilledPreserves ==
  ASSUME IInv, PopSpilled
  PROVE  IInv'
<1> DEFINE stk == Front(reg_stack)
           v == frame[Last(reg_stack).offset]
<1>1. /\ AllocStep(stk, v) /\ reg_stack' = AllocStack(stk)
      /\ held' = held \cup {AllocReg(stk)}
      /\ reg_stack # <<>> /\ Last(reg_stack).is_spilled /\ ~thrown
  BY DEF PopSpilled
<1>2. /\ StackOK(reg_stack, DOMAIN frame, total_stack_size)
      /\ reg_stack \in Seq(StackValue)
      /\ held \subseteq Reg /\ thrown \in BOOLEAN
      /\ \A slot \in DOMAIN frame : frame[slot] \in Value
  BY PartsOfIInv
<1>3. StackOK(stk, DOMAIN frame, total_stack_size) /\ RegsOf(stk) = ActiveRegisters
  BY <1>1, <1>2, FrontStackOK, FrontRegs DEF ActiveRegisters
<1>4. v \in Value
  <2>1. /\ DOMAIN reg_stack = 1..Len(reg_stack) /\ Len(reg_stack) \in Nat \ {0}
        /\ Last(reg_stack) = reg_stack[Len(reg_stack)]
    BY <1>1, <1>2, FrontFacts
  <2>2. Len(reg_stack) \in DOMAIN reg_stack
    BY <2>1
  <2> QED
    BY <1>1, <1>2, <2>1, <2>2 DEF StackOK, SlotsOf
<1> HIDE DEF stk, v
<1>5. /\ Partition(Range(free_regs'), held', RegsOf(reg_stack'))
      /\ AllocReg(stk) \in Reg \ held
      /\ free_regs' \in Seq(Reg) /\ IsInjective(free_regs')
      /\ StackOK(reg_stack', DOMAIN frame', total_stack_size')
      /\ total_stack_size' \in Nat
      /\ contents' \in [Reg -> Value]
      /\ DOMAIN frame' \subseteq Nat
      /\ \A slot \in DOMAIN frame' : frame'[slot] \in Value
      /\ thrown' = thrown
  BY <1>1, <1>3, <1>4, AllocPartition
<1> QED
  BY <1>1, <1>2, <1>5, IInvFromParts

\* The register pop() makes up for an empty stack is a free one.
LEMMA PopEmptyPreserves ==
  ASSUME IInv, PopEmpty
  PROVE  IInv'
<1> DEFINE v == IF Zeroes THEN Zero ELSE contents[AllocReg(reg_stack)]
<1>1. /\ AllocStep(reg_stack, v) /\ reg_stack' = reg_stack /\ reg_stack = <<>>
      /\ held' = held \cup {AllocReg(reg_stack)} /\ ~thrown
  BY DEF PopEmpty
<1>2. /\ StackOK(reg_stack, DOMAIN frame, total_stack_size)
      /\ TypeOK /\ IsInjective(free_regs)
      /\ held \subseteq Reg /\ thrown \in BOOLEAN
  BY PartsOfIInv DEF IInv
<1>3. Unspilled(reg_stack) = {}
  <2>1. DOMAIN reg_stack = {}
    BY <1>1, EmptySeq
  <2> QED
    BY <2>1 DEF Unspilled
<1>4. ~Spills
  BY <1>1, <1>3 DEF AllocStep, CanAlloc
<1>5. AllocReg(reg_stack) \in Reg
  <2>1. free_regs \in Seq(Reg) /\ free_regs # <<>>
    BY <1>2, <1>4 DEF TypeOK, Spills
  <2> QED
    BY <1>4, <2>1, FrontFacts DEF AllocReg
<1>6. v \in Value
  BY <1>2, <1>5, PoolAssumption DEF TypeOK
<1> HIDE DEF v
<1>7. AllocStack(reg_stack) = reg_stack
  BY <1>4 DEF AllocStack
<1>8. /\ Partition(Range(free_regs'), held', RegsOf(reg_stack'))
      /\ AllocReg(reg_stack) \in Reg \ held
      /\ free_regs' \in Seq(Reg) /\ IsInjective(free_regs')
      /\ StackOK(reg_stack', DOMAIN frame', total_stack_size')
      /\ total_stack_size' \in Nat
      /\ contents' \in [Reg -> Value]
      /\ DOMAIN frame' \subseteq Nat
      /\ \A slot \in DOMAIN frame' : frame'[slot] \in Value
      /\ thrown' = thrown
  BY <1>1, <1>2, <1>6, <1>7, AllocPartition DEF ActiveRegisters
<1> QED
  BY <1>1, <1>2, <1>8, IInvFromParts

\* A reload by top() moves one free register behind the top entry.
LEMMA TopSpilledPreserves ==
  ASSUME IInv, TopSpilled
  PROVE  IInv'
<1> DEFINE n == Len(reg_stack)
           r == AllocReg(reg_stack)
           v == frame[Last(reg_stack).offset]
<1>1. /\ AllocStep(reg_stack, v) /\ reg_stack # <<>> /\ Last(reg_stack).is_spilled
      /\ reg_stack' = [AllocStack(reg_stack) EXCEPT ![n] =
                         [is_spilled |-> FALSE, reg |-> r, offset |-> @.offset]]
      /\ held' = held /\ ~thrown
  BY DEF TopSpilled
<1>2. /\ StackOK(reg_stack, DOMAIN frame, total_stack_size)
      /\ reg_stack \in Seq(StackValue)
      /\ TypeOK /\ IsInjective(free_regs)
      /\ held \subseteq Reg /\ thrown \in BOOLEAN
      /\ \A slot \in DOMAIN frame : frame[slot] \in Value
  BY PartsOfIInv DEF IInv
<1>3. Unspilled(reg_stack) = {} /\ RegsOf(reg_stack) = {}
  BY <1>1, <1>2, SpilledTop
<1>4. ~Spills /\ AllocStack(reg_stack) = reg_stack
  BY <1>1, <1>3 DEF AllocStep, CanAlloc, AllocStack
<1>5. v \in Value
  <2>1. /\ DOMAIN reg_stack = 1..Len(reg_stack) /\ Len(reg_stack) \in Nat \ {0}
        /\ Last(reg_stack) = reg_stack[Len(reg_stack)]
    BY <1>1, <1>2, FrontFacts
  <2>2. Len(reg_stack) \in DOMAIN reg_stack
    BY <2>1
  <2> QED
    BY <1>1, <1>2, <2>1, <2>2 DEF StackOK, SlotsOf
<1>5a. r \in Reg
  <2>1. free_regs \in Seq(Reg) /\ free_regs # <<>>
    BY <1>2, <1>4 DEF TypeOK, Spills
  <2> QED
    BY <1>4, <2>1, FrontFacts DEF AllocReg
<1> HIDE DEF v, r
<1>6. /\ Partition(Range(free_regs'), held \cup {r}, {})
      /\ r \in Reg \ held
      /\ free_regs' \in Seq(Reg) /\ IsInjective(free_regs')
      /\ StackOK(reg_stack, DOMAIN frame', total_stack_size')
      /\ total_stack_size' \in Nat
      /\ contents' \in [Reg -> Value]
      /\ DOMAIN frame' \subseteq Nat
      /\ \A slot \in DOMAIN frame' : frame'[slot] \in Value
      /\ thrown' = thrown
  BY <1>1, <1>2, <1>3, <1>4, <1>5, AllocPartition DEF ActiveRegisters, r
<1>7. StackOK(reg_stack', DOMAIN frame', total_stack_size') /\ RegsOf(reg_stack') = {r}
  <2>1. reg_stack' = [reg_stack EXCEPT ![Len(reg_stack)] =
                       [is_spilled |-> FALSE, reg |-> r, offset |-> @.offset]]
    BY <1>1, <1>4
  <2> QED
    BY <1>1, <1>5a, <1>6, <2>1, TopStackOK, ZenonT(30)
<1>8. Partition(Range(free_regs'), held', RegsOf(reg_stack'))
  BY <1>1, <1>6, <1>7 DEF Partition
<1> QED
  BY <1>1, <1>2, <1>6, <1>7, <1>8, IInvFromParts

\* A slot of the frame stays one when the frame grows.
LEMMA FrameGrows ==
  ASSUME NEW stk, NEW slots, NEW total \in Nat, StackOK(stk, slots, total),
         NEW more, slots \subseteq more, NEW larger \in Nat, total <= larger
  PROVE  StackOK(stk, more, larger)
<1>1. stk \in Seq(StackValue) /\ SlotsOf(stk, slots, total)
  BY DEF StackOK
<1>2. SlotsOf(stk, more, larger)
  <2> SUFFICES ASSUME NEW i \in DOMAIN stk, stk[i].is_spilled
               PROVE  stk[i].offset \in more /\ stk[i].offset <= larger
    BY DEF SlotsOf
  <2>1. stk[i].offset \in slots /\ stk[i].offset <= total /\ stk[i].offset \in Nat
    BY <1>1, EntryTyped DEF SlotsOf
  <2> QED
    BY <2>1
<1> QED
  BY <1>2 DEF StackOK

\* A handler writes to registers and takes bytes of the frame, and the pool and
\* its operands stay where they are.
LEMMA PoolUntouched ==
  ASSUME IInv,
         /\ free_regs' = free_regs /\ reg_stack' = reg_stack
         /\ held' = held /\ thrown' = thrown,
         contents' \in [Reg -> Value],
         total_stack_size' \in Nat, total_stack_size <= total_stack_size',
         DOMAIN frame \subseteq DOMAIN frame', DOMAIN frame' \subseteq Nat,
         \A slot \in DOMAIN frame' : frame'[slot] \in Value
  PROVE  IInv'
<1>1. StackOK(reg_stack', DOMAIN frame', total_stack_size')
  BY PartsOfIInv, FrameGrows
<1> QED
  BY <1>1, PartsOfIInv, IInvFromParts

\* A handler gives a register back to the end of the free list.
LEMMA RegisterGivenBack ==
  ASSUME IInv, ~thrown, thrown' = thrown, NEW r \in held,
         free_regs' = Append(free_regs, r), held' = held \ {r}, reg_stack' = reg_stack,
         contents' \in [Reg -> Value],
         total_stack_size' \in Nat, total_stack_size <= total_stack_size',
         DOMAIN frame \subseteq DOMAIN frame', DOMAIN frame' \subseteq Nat,
         \A slot \in DOMAIN frame' : frame'[slot] \in Value
  PROVE  IInv'
<1>2. /\ free_regs \in Seq(Reg) /\ IsInjective(free_regs)
      /\ StackOK(reg_stack, DOMAIN frame, total_stack_size)
      /\ total_stack_size \in Nat /\ held \subseteq Reg /\ thrown \in BOOLEAN
      /\ Partition(Range(free_regs), held, RegsOf(reg_stack))
  BY PartsOfIInv
<1>3. r \in Reg /\ r \notin Range(free_regs)
  BY <1>2 DEF Partition
<1>4. /\ free_regs' \in Seq(Reg) /\ Len(free_regs') = Len(free_regs) + 1
      /\ \A i \in 1..Len(free_regs) : free_regs'[i] = free_regs[i]
      /\ free_regs'[Len(free_regs) + 1] = r
  BY <1>2, <1>3, AppendProperties
<1>5. /\ DOMAIN free_regs' = 1..(Len(free_regs) + 1) /\ DOMAIN free_regs = 1..Len(free_regs)
      /\ Len(free_regs) \in Nat
  BY <1>2, <1>4, LenProperties
<1>6. IsInjective(free_regs')
  <2>1. \A i \in 1..Len(free_regs) : free_regs[i] # r
    BY <1>3, <1>5 DEF Range
  <2> QED
    BY <1>2, <1>4, <1>5, <2>1 DEF IsInjective
<1>7. Range(free_regs') = Range(free_regs) \cup {r}
  BY <1>4, <1>5 DEF Range
<1>8. Partition(Range(free_regs'), held', RegsOf(reg_stack'))
  BY <1>2, <1>7 DEF Partition
<1>9. StackOK(reg_stack', DOMAIN frame', total_stack_size')
  BY <1>2, FrameGrows
<1>10. thrown' \in BOOLEAN /\ ~thrown' /\ held' \subseteq Reg
  BY <1>2
<1> QED
  BY <1>4, <1>6, <1>8, <1>9, <1>10, IInvFromParts

\* free() moves a register from the handler to the back of the free list.
LEMMA FreePreserves ==
  ASSUME IInv, NEW r \in held, Free(r)
  PROVE  IInv'
<1>1. /\ free_regs' = Append(free_regs, r) /\ held' = held \ {r}
      /\ reg_stack' = reg_stack /\ total_stack_size' = total_stack_size
      /\ contents' = contents /\ frame' = frame /\ thrown' = thrown /\ ~thrown
  BY DEF Free
<1> QED
  BY <1>1, PartsOfIInv, RegisterGivenBack

\* push() moves a register from the handler to the top of the stack.
LEMMA PushPreserves ==
  ASSUME IInv, NEW r \in held, Push(r)
  PROVE  IInv'
<1> DEFINE e == [is_spilled |-> FALSE, reg |-> r, offset |-> 0]
<1>1. /\ reg_stack' = Append(reg_stack, e) /\ held' = held \ {r}
      /\ free_regs' = free_regs /\ total_stack_size' = total_stack_size
      /\ contents' = contents /\ frame' = frame /\ thrown' = thrown /\ ~thrown
  BY DEF Push
<1>2. /\ free_regs \in Seq(Reg) /\ IsInjective(free_regs)
      /\ StackOK(reg_stack, DOMAIN frame, total_stack_size)
      /\ total_stack_size \in Nat /\ held \subseteq Reg
      /\ contents \in [Reg -> Value]
      /\ DOMAIN frame \subseteq Nat
      /\ \A slot \in DOMAIN frame : frame[slot] \in Value
      /\ thrown \in BOOLEAN
      /\ Partition(Range(free_regs), held, RegsOf(reg_stack))
  BY PartsOfIInv
<1>3. r \in Reg /\ r \notin RegsOf(reg_stack)
  BY <1>2 DEF Partition
<1>4. /\ StackOK(reg_stack', DOMAIN frame', total_stack_size')
      /\ RegsOf(reg_stack') = RegsOf(reg_stack) \cup {r}
  BY <1>1, <1>2, <1>3, PushStackOK
<1>5. Partition(Range(free_regs'), held', RegsOf(reg_stack'))
  BY <1>1, <1>2, <1>4 DEF Partition
<1> QED
  BY <1>1, <1>2, <1>4, <1>5, IInvFromParts

\* Popping an operand that is in a register moves that register to the handler.
LEMMA PopUnspilledPreserves ==
  ASSUME IInv, PopUnspilled
  PROVE  IInv'
<1>1. /\ reg_stack' = Front(reg_stack) /\ held' = held \cup {Last(reg_stack).reg}
      /\ reg_stack # <<>> /\ ~Last(reg_stack).is_spilled
      /\ free_regs' = free_regs /\ total_stack_size' = total_stack_size
      /\ contents' = contents /\ frame' = frame /\ thrown' = thrown /\ ~thrown
  BY DEF PopUnspilled
<1>2. /\ free_regs \in Seq(Reg) /\ IsInjective(free_regs)
      /\ StackOK(reg_stack, DOMAIN frame, total_stack_size)
      /\ total_stack_size \in Nat /\ held \subseteq Reg
      /\ contents \in [Reg -> Value]
      /\ DOMAIN frame \subseteq Nat
      /\ \A slot \in DOMAIN frame : frame[slot] \in Value
      /\ thrown \in BOOLEAN
      /\ Partition(Range(free_regs), held, RegsOf(reg_stack))
  BY PartsOfIInv
<1>3. /\ StackOK(reg_stack', DOMAIN frame', total_stack_size')
      /\ Last(reg_stack).reg \in Reg /\ Last(reg_stack).reg \in RegsOf(reg_stack)
      /\ RegsOf(reg_stack') = RegsOf(reg_stack) \ {Last(reg_stack).reg}
  BY <1>1, <1>2, FrontStackOK, FrontRegs
<1>4. Partition(Range(free_regs'), held', RegsOf(reg_stack'))
  BY <1>1, <1>2, <1>3 DEF Partition
<1> QED
  BY <1>1, <1>2, <1>3, <1>4, IInvFromParts

\* alloc() throws: every register is in the handler's hands, since none is free
\* and, the stack holding no unspilled entry, none is on the stack.
LEMMA FailurePreserves ==
  ASSUME IInv, AllocFails \/ PopFails
  PROVE  IInv' /\ held = Reg
<1>1. PICK stk : /\ AllocThrows(stk) /\ reg_stack' = stk
                 /\ StackOK(stk, DOMAIN frame, total_stack_size)
                 /\ RegsOf(stk) = RegsOf(reg_stack)
  <2>1. CASE AllocFails
    BY <2>1, PartsOfIInv DEF AllocFails
  <2>2. CASE PopFails
    <3>1. AllocThrows(Front(reg_stack)) /\ reg_stack' = Front(reg_stack)
          /\ reg_stack # <<>> /\ Last(reg_stack).is_spilled
      BY <2>2 DEF PopFails
    <3> QED
      BY <3>1, PartsOfIInv, FrontStackOK, FrontRegs
  <2> QED
    BY <2>1, <2>2
<1>2. /\ free_regs = <<>> /\ Unspilled(stk) = {} /\ thrown' = TRUE
      /\ free_regs' = free_regs /\ total_stack_size' = total_stack_size
      /\ held' = held /\ contents' = contents /\ frame' = frame
  BY <1>1 DEF AllocThrows, Spills
<1>3. /\ free_regs \in Seq(Reg) /\ IsInjective(free_regs)
      /\ total_stack_size \in Nat /\ held \subseteq Reg
      /\ contents \in [Reg -> Value]
      /\ DOMAIN frame \subseteq Nat
      /\ \A slot \in DOMAIN frame : frame[slot] \in Value
      /\ Partition(Range(free_regs), held, RegsOf(reg_stack))
  BY PartsOfIInv
<1>4. Range(free_regs) = {} /\ RegsOf(stk) = {}
  BY <1>2, EmptySeq DEF Range, RegsOf
<1>5. held' = Reg
  BY <1>1, <1>2, <1>3, <1>4 DEF Partition
<1> QED
  BY <1>1, <1>2, <1>3, <1>5, IInvFromParts

\* reset() between handlers puts every register back on the free list.
LEMMA ResetPreserves ==
  ASSUME IInv, Reset
  PROVE  IInv'
<1>1. /\ reg_stack' = <<>> /\ free_regs' = InitialRegs /\ held' = {} /\ held = {}
      /\ total_stack_size' = total_stack_size
      /\ contents' = contents /\ frame' = frame /\ thrown' = thrown /\ ~thrown
  BY DEF Reset
<1>2. /\ total_stack_size \in Nat
      /\ contents \in [Reg -> Value]
      /\ DOMAIN frame \subseteq Nat
      /\ \A slot \in DOMAIN frame : frame[slot] \in Value
      /\ thrown \in BOOLEAN
  BY PartsOfIInv
<1>3. DOMAIN reg_stack' = {} /\ Len(reg_stack') = 0 /\ reg_stack' \in Seq(StackValue)
  BY <1>1, EmptySeq
<1>4. Unspilled(reg_stack') = {} /\ RegsOf(reg_stack') = {}
  BY <1>3 DEF Unspilled, RegsOf
<1>5. StackOK(reg_stack', DOMAIN frame', total_stack_size')
  BY <1>3, <1>4 DEF StackOK, SpilledPrefix, SlotsOrdered, SlotsOf, RegsDistinct
<1>6. Range(free_regs') = Reg /\ IsInjective(free_regs') /\ free_regs' \in Seq(Reg)
  BY <1>1, PoolAssumption DEF Reg
<1>7. Partition(Range(free_regs'), held', RegsOf(reg_stack'))
  BY <1>1, <1>4, <1>6 DEF Partition
<1> QED
  BY <1>1, <1>2, <1>5, <1>6, <1>7, IInvFromParts

\* Frame bytes taken by others only move the size tracker up.
LEMMA ReservePreserves ==
  ASSUME IInv, NEW n \in Reservations, Reserve(n)
  PROVE  IInv'
<1>1. /\ total_stack_size' = total_stack_size + n
      /\ free_regs' = free_regs /\ reg_stack' = reg_stack /\ held' = held
      /\ contents' = contents /\ frame' = frame /\ thrown' = thrown /\ ~thrown
  BY DEF Reserve
<1>2. n \in Nat /\ total_stack_size \in Nat
  BY PoolAssumption, PartsOfIInv
<1> QED
  BY <1>1, <1>2, PartsOfIInv, PoolUntouched

\* Every step of the pool preserves the inductive invariant.
LEMMA NextPreservesIInv == IInv /\ [Next]_vars => IInv'
<1> SUFFICES ASSUME IInv, [Next]_vars PROVE IInv'
  OBVIOUS
<1>1. ASSUME NEW v \in Value, Alloc(v) PROVE IInv'
  BY <1>1, AllocPreserves
<1>2. ASSUME NEW r \in held, NEW v \in Value, Compute(r, v) PROVE IInv'
  <2>1. /\ contents' = [contents EXCEPT ![r] = v]
        /\ free_regs' = free_regs /\ reg_stack' = reg_stack /\ held' = held
        /\ total_stack_size' = total_stack_size /\ frame' = frame /\ thrown' = thrown
    BY <1>2 DEF Compute
  <2>2. contents' \in [Reg -> Value]
    BY <2>1, PartsOfIInv
  <2> QED
    BY <2>1, <2>2, PartsOfIInv, PoolUntouched
<1>3. ASSUME NEW r \in held, Free(r) \/ Push(r) PROVE IInv'
  BY <1>3, FreePreserves, PushPreserves
<1>4. CASE PopUnspilled
  BY <1>4, PopUnspilledPreserves
<1>5. CASE PopSpilled
  BY <1>5, PopSpilledPreserves
<1>6. CASE PopEmpty
  BY <1>6, PopEmptyPreserves
<1>7. CASE TopSpilled
  BY <1>7, TopSpilledPreserves
<1>8. CASE AllocFails \/ PopFails \/ TopFails
  <2>1. CASE AllocFails \/ PopFails
    BY <2>1, FailurePreserves
  <2>2. CASE TopFails
    <3>1. /\ free_regs' = free_regs /\ reg_stack' = reg_stack /\ held' = held
          /\ contents' = contents /\ total_stack_size' = total_stack_size
          /\ frame' = frame /\ thrown' = TRUE /\ reg_stack = <<>>
      BY <2>2 DEF TopFails
    <3> QED
      BY <3>1, PartsOfIInv, IInvFromParts
  <2> QED
    BY <1>8, <2>1, <2>2
<1>9. CASE Reset
  BY <1>9, ResetPreserves
<1>10. ASSUME NEW n \in Reservations, Reserve(n) PROVE IInv'
  BY <1>10, ReservePreserves
<1>11. CASE UNCHANGED vars
  <2>1. /\ free_regs' = free_regs /\ reg_stack' = reg_stack /\ held' = held
        /\ contents' = contents
        /\ total_stack_size' = total_stack_size /\ frame' = frame /\ thrown' = thrown
    BY <1>11 DEF vars
  <2> QED
    BY <2>1, PartsOfIInv, IInvFromParts
<1> QED
  BY <1>1, <1>2, <1>3, <1>4, <1>5, <1>6, <1>7, <1>8, <1>9, <1>10, <1>11 DEF Next

\* IInv holds in every reachable state.
THEOREM PoolInvariant == Spec => []IInv
BY InitEstablishesIInv, NextPreservesIInv, PTL DEF Spec

\* Every variable of the pool keeps its type.
THEOREM TypeCorrect == Spec => []TypeOK
<1>1. IInv => TypeOK
  BY DEF IInv
<1> QED
  BY <1>1, PoolInvariant, PTL

\* Each register is free, held or behind one unspilled operand: no two values
\* of the compiled expression ever share a register.
THEOREM RegisterOwnership == Spec => []Ownership
<1>1. IInv => Ownership
  BY DEF IInv
<1> QED
  BY <1>1, PoolInvariant, PTL

\* No register leaks, whatever is spilled and reloaded.
THEOREM NoRegisterLost == Spec => []NothingLost
<1>1. IInv => NothingLost
  BY DEF IInv
<1> QED
  BY <1>1, PoolInvariant, PTL

\* alloc() spills from the bottom: the oldest operands are the spilled ones.
THEOREM SpillOrder == Spec => []SpilledBelow
<1>1. IInv => SpilledBelow
  BY StackOKGivesInvariants DEF IInv
<1> QED
  BY <1>1, PoolInvariant, PTL

\* Every spilled operand has a slot of the frame, and shares it with no other.
THEOREM SlotsDisjoint == Spec => []SlotsInFrame
<1>1. IInv => SlotsInFrame
  BY StackOKGivesInvariants DEF IInv
<1> QED
  BY <1>1, PoolInvariant, PTL

\* alloc() throws only when the running handler itself holds every register,
\* top() only when there is no operand.
THEOREM ThrowMeansExhausted == Spec => []ThrowsOnlyWhenExhausted
<1>1. IInv => ThrowsOnlyWhenExhausted
  BY DEF IInv
<1> QED
  BY <1>1, PoolInvariant, PTL

-------------------------------------------------------------------------------
(* The pool implements ValueStack: spilling and reloading is invisible to  *)
(* the opcode handlers.                                                    *)

\* The run-time value of a stack entry, for a given frame and register file.
EntryValue(e, fr, regs) == IF e.is_spilled THEN fr[e.offset] ELSE regs[e.reg]

StackValues(stk, fr, regs) == [i \in DOMAIN stk |-> EntryValue(stk[i], fr, regs)]

\* The value stack and the hand that the state of the pool stands for.
PoolValues == StackValues(reg_stack, frame, contents)
PoolHand   == [r \in held |-> contents[r]]

\* alloc() disturbs no operand and no held register: a spilled value is where the
\* entry says, and the register it hands out was nobody else's.
LEMMA AllocKeepsValues ==
  ASSUME IInv, NEW stk, NEW v \in Value, AllocStep(stk, v),
         StackOK(stk, DOMAIN frame, total_stack_size),
         RegsOf(stk) = ActiveRegisters
  PROVE  /\ StackValues(AllocStack(stk), frame', contents') = StackValues(stk, frame, contents)
         /\ contents'[AllocReg(stk)] = v
         /\ \A x \in Reg : x # AllocReg(stk) => contents'[x] = contents[x]
         /\ AllocReg(stk) \in Reg \ held
<1>1. /\ AllocReg(stk) \in Reg \ held
      /\ DOMAIN AllocStack(stk) = DOMAIN stk
      /\ StackOK(AllocStack(stk), DOMAIN frame', total_stack_size')
      /\ Partition(Range(free_regs'), held \cup {AllocReg(stk)}, RegsOf(AllocStack(stk)))
  BY AllocPartition
<1>2. /\ contents \in [Reg -> Value] /\ contents' = [contents EXCEPT ![AllocReg(stk)] = v]
      /\ frame' = AllocFrame(stk)
      /\ total_stack_size \in Nat /\ TypeOK
  BY DEF IInv, TypeOK, AllocStep
<1>3. contents'[AllocReg(stk)] = v /\ \A x \in Reg : x # AllocReg(stk) => contents'[x] = contents[x]
  BY <1>1, <1>2
<1>4. stk \in Seq(StackValue)
  BY DEF StackOK
<1>5. ASSUME NEW i \in DOMAIN stk
      PROVE  EntryValue(AllocStack(stk)[i], frame', contents') = EntryValue(stk[i], frame, contents)
  <2> DEFINE e == stk[i]
             f == AllocStack(stk)[i]
  <2>1. e.is_spilled \in BOOLEAN /\ e.reg \in Reg /\ e.offset \in Nat
    BY <1>4, EntryTyped
  <2>2. CASE e.is_spilled
    <3>1. e.offset \in DOMAIN frame /\ e.offset <= total_stack_size
      BY <2>2 DEF StackOK, SlotsOf
    <3>2. CASE ~Spills
      BY <1>2, <2>2, <3>2 DEF AllocFrame, AllocStack, EntryValue
    <3>3. CASE Spills
      <4>1. NewSlot # e.offset
        BY <1>2, <2>1, <3>1, PoolAssumption DEF NewSlot
      <4>2. PICK k \in 0..Len(stk) : SpilledPrefix(stk, k)
        BY DEF StackOK
      <4>3. Victim(stk) = k + 1 /\ k + 1 \in DOMAIN stk
        BY <1>4, <3>3, <4>2, VictimIsOldest DEF AllocStep, CanAlloc
      <4>4. i <= k /\ i # Victim(stk)
        <5>1. DOMAIN stk = 1..Len(stk)
          BY <1>4, LenProperties
        <5> QED
          BY <2>2, <4>2, <4>3, <5>1 DEF SpilledPrefix
      <4>5. f = e
        BY <3>3, <4>4 DEF AllocStack
      <4>6. frame'[e.offset] = frame[e.offset]
        BY <1>2, <3>1, <3>3, <4>1 DEF AllocFrame
      <4> QED
        BY <2>2, <4>5, <4>6 DEF EntryValue
    <3> QED
      BY <3>2, <3>3
  <2>3. CASE ~e.is_spilled /\ (~Spills \/ i # Victim(stk))
    <3>1. f = e
      <4>1. CASE ~Spills
        BY <4>1 DEF AllocStack
      <4>2. CASE Spills /\ i # Victim(stk)
        BY <4>2 DEF AllocStack
      <4> QED
        BY <2>3, <4>1, <4>2
    <3>2. e.reg \in RegsOf(AllocStack(stk))
      BY <1>1, <2>3, <3>1 DEF RegsOf, Unspilled
    <3>3. e.reg # AllocReg(stk)
      BY <1>1, <3>2 DEF Partition
    <3> QED
      BY <1>3, <2>1, <2>3, <3>1, <3>3 DEF EntryValue
  <2>4. CASE ~e.is_spilled /\ Spills /\ i = Victim(stk)
    <3>1. f.is_spilled /\ f.offset = NewSlot
      BY <2>4 DEF AllocStack
    <3>2. frame'[NewSlot] = contents[e.reg]
      BY <1>2, <2>4 DEF AllocFrame
    <3> QED
      BY <2>4, <3>1, <3>2 DEF EntryValue
  <2> QED
    BY <2>1, <2>2, <2>3, <2>4
<1>6. StackValues(AllocStack(stk), frame', contents') = StackValues(stk, frame, contents)
  BY <1>1, <1>5 DEF StackValues
<1> QED
  BY <1>1, <1>3, <1>6

-------------------------------------------------------------------------------
(* The stack of values as a sequence. *)

\* The values of a sound stack are a sequence as long as the stack.
LEMMA StackValuesSeq ==
  ASSUME NEW stk, NEW fr, NEW regs \in [Reg -> Value], NEW total,
         StackOK(stk, DOMAIN fr, total),
         \A slot \in DOMAIN fr : fr[slot] \in Value
  PROVE  /\ StackValues(stk, fr, regs) \in Seq(Value)
         /\ Len(StackValues(stk, fr, regs)) = Len(stk)
         /\ DOMAIN StackValues(stk, fr, regs) = 1..Len(stk)
         /\ DOMAIN stk = 1..Len(stk) /\ Len(stk) \in Nat
<1>1. stk \in Seq(StackValue) /\ DOMAIN stk = 1..Len(stk) /\ Len(stk) \in Nat
  BY LenProperties DEF StackOK
<1>2. ASSUME NEW i \in DOMAIN stk PROVE EntryValue(stk[i], fr, regs) \in Value
  <2>1. stk[i].is_spilled \in BOOLEAN /\ stk[i].reg \in Reg
    BY <1>1, EntryTyped
  <2>2. stk[i].is_spilled => stk[i].offset \in DOMAIN fr
    BY DEF StackOK, SlotsOf
  <2> QED
    BY <2>1, <2>2 DEF EntryValue
<1>3. StackValues(stk, fr, regs) \in [1..Len(stk) -> Value]
  BY <1>1, <1>2 DEF StackValues
<1> QED
  BY <1>1, <1>3

\* Dropping the top entry drops the top value.
LEMMA StackValuesFront ==
  ASSUME NEW stk, NEW fr, NEW regs \in [Reg -> Value], NEW total,
         StackOK(stk, DOMAIN fr, total), stk # <<>>,
         \A slot \in DOMAIN fr : fr[slot] \in Value
  PROVE  StackValues(Front(stk), fr, regs) =
           SubSeq(StackValues(stk, fr, regs), 1, Len(StackValues(stk, fr, regs)) - 1)
<1> DEFINE vs == StackValues(stk, fr, regs)
           fs == StackValues(Front(stk), fr, regs)
<1>1. StackOK(Front(stk), DOMAIN fr, total)
  BY FrontStackOK
<1>2. /\ vs \in Seq(Value) /\ Len(vs) = Len(stk)
      /\ fs \in Seq(Value) /\ Len(fs) = Len(Front(stk))
      /\ DOMAIN vs = 1..Len(stk) /\ DOMAIN fs = 1..Len(Front(stk))
  BY <1>1, StackValuesSeq
<1>3. /\ Len(Front(stk)) = Len(stk) - 1 /\ Len(stk) \in Nat \ {0}
      /\ DOMAIN Front(stk) = 1..(Len(stk) - 1) /\ DOMAIN stk = 1..Len(stk)
      /\ \A i \in DOMAIN Front(stk) : Front(stk)[i] = stk[i]
  BY FrontFacts DEF StackOK
<1>4. \A i \in 1..(Len(stk) - 1) : fs[i] = vs[i]
  BY <1>3 DEF StackValues
<1> HIDE DEF vs, fs
<1>5. \A i \in 1..(Len(vs) - 1) : vs[i] \in Value
  BY <1>2, <1>3
<1>6. /\ SubSeq(vs, 1, Len(vs) - 1) \in Seq(Value)
      /\ Len(SubSeq(vs, 1, Len(vs) - 1)) = Len(vs) - 1
      /\ \A i \in 1..(Len(vs) - 1) : SubSeq(vs, 1, Len(vs) - 1)[i] = vs[i]
  <2>1. /\ SubSeq(vs, 1, Len(vs) - 1) \in Seq(Value)
        /\ Len(SubSeq(vs, 1, Len(vs) - 1)) =
             IF 1 <= Len(vs) - 1 THEN (Len(vs) - 1) - 1 + 1 ELSE 0
        /\ \A i \in 1 .. (Len(vs) - 1) - 1 + 1 : SubSeq(vs, 1, Len(vs) - 1)[i] = vs[1 + i - 1]
    BY <1>2, <1>3, <1>5, SubSeqProperties
  <2> QED
    BY <2>1, <1>2, <1>3
<1>7. fs = SubSeq(vs, 1, Len(vs) - 1)
  BY <1>2, <1>3, <1>4, <1>6, SeqEqual
<1> QED
  BY <1>7 DEF vs, fs

\* Pushing an entry pushes its value.
LEMMA StackValuesAppend ==
  ASSUME NEW stk, NEW fr, NEW regs \in [Reg -> Value], NEW total,
         StackOK(stk, DOMAIN fr, total),
         \A slot \in DOMAIN fr : fr[slot] \in Value,
         NEW e \in StackValue, ~e.is_spilled,
         StackOK(Append(stk, e), DOMAIN fr, total)
  PROVE  StackValues(Append(stk, e), fr, regs) = Append(StackValues(stk, fr, regs), regs[e.reg])
<1> DEFINE r == e.reg
           vs == StackValues(stk, fr, regs)
           ns == StackValues(Append(stk, e), fr, regs)
<1>0. r \in Reg
  BY DEF StackValue
<1>1. /\ vs \in Seq(Value) /\ Len(vs) = Len(stk) /\ Len(stk) \in Nat
      /\ ns \in Seq(Value) /\ Len(ns) = Len(Append(stk, e))
      /\ DOMAIN stk = 1..Len(stk)
      /\ DOMAIN Append(stk, e) = 1..Len(Append(stk, e))
  BY StackValuesSeq
<1>2. /\ Len(Append(stk, e)) = Len(stk) + 1
      /\ \A i \in 1..Len(stk) : Append(stk, e)[i] = stk[i]
      /\ Append(stk, e)[Len(stk) + 1] = e
  BY AppendProperties DEF StackOK
<1>3. \A i \in 1..Len(stk) : ns[i] = vs[i]
  BY <1>1, <1>2 DEF StackValues
<1>4. ns[Len(stk) + 1] = regs[r] /\ regs[r] \in Value
  BY <1>0, <1>1, <1>2 DEF StackValues, EntryValue
<1> HIDE DEF vs, ns
<1>5. /\ Append(vs, regs[r]) \in Seq(Value) /\ Len(Append(vs, regs[r])) = Len(vs) + 1
      /\ \A i \in 1..Len(vs) : Append(vs, regs[r])[i] = vs[i]
      /\ Append(vs, regs[r])[Len(vs) + 1] = regs[r]
  BY <1>1, <1>4, AppendProperties
<1>6. \A i \in 1..Len(ns) : ns[i] = Append(vs, regs[r])[i]
  BY <1>1, <1>2, <1>3, <1>4, <1>5
<1>7. ns = Append(vs, regs[r])
  BY <1>1, <1>2, <1>5, <1>6, SeqEqual
<1> QED
  BY <1>7 DEF vs, ns
-------------------------------------------------------------------------------
(* One lemma per operation of the pool: the value stack takes the step named. *)

\* The variables of the value stack are PoolValues and PoolHand.
LEMMA RefinementMapping ==
  /\ [i \in DOMAIN reg_stack |-> ValueOf(reg_stack[i])] = PoolValues
  /\ [r \in held |-> contents[r]] = PoolHand
  /\ DOMAIN PoolHand = held
BY DEF PoolValues, PoolHand, StackValues, EntryValue, ValueOf

\* The same in the next state.
LEMMA RefinementMappingPrime ==
  /\ [i \in DOMAIN reg_stack' |-> ValueOf(reg_stack[i])'] = PoolValues'
  /\ [r \in held' |-> contents'[r]] = PoolHand'
BY DEF PoolValues, PoolHand, StackValues, EntryValue, ValueOf

\* A handler obtains the register q, with v in it, and no other register changes.
Obtains(q, v) ==
  /\ q \in Reg \ held /\ held' = held \cup {q}
  /\ contents'[q] = v
  /\ \A x \in Reg : x # q => contents'[x] = contents[x]

\* Then it has one more value in its hand.
LEMMA HandGrows ==
  ASSUME IInv, NEW q, NEW v, Obtains(q, v)
  PROVE  PoolHand' = [x \in held \cup {q} |-> IF x = q THEN v ELSE PoolHand[x]]
<1>1. held \subseteq Reg
  BY PartsOfIInv
<1> QED
  BY <1>1 DEF PoolHand, Obtains

\* An instruction changes no operand when it writes to no register or slot of one.
LEMMA StackValuesKept ==
  ASSUME NEW stk \in Seq(StackValue), NEW fr, NEW regs, NEW fr2, NEW regs2,
         \A i \in DOMAIN stk : stk[i].is_spilled => fr2[stk[i].offset] = fr[stk[i].offset],
         \A i \in Unspilled(stk) : regs2[stk[i].reg] = regs[stk[i].reg]
  PROVE  StackValues(stk, fr2, regs2) = StackValues(stk, fr, regs)
<1>1. ASSUME NEW i \in DOMAIN stk PROVE EntryValue(stk[i], fr2, regs2) = EntryValue(stk[i], fr, regs)
  <2>1. stk[i].is_spilled \in BOOLEAN
    BY EntryTyped
  <2> QED
    BY <2>1 DEF EntryValue, Unspilled
<1> QED
  BY <1>1 DEF StackValues

\* alloc() hands a register out and leaves every operand as it was.
LEMMA AllocValues ==
  ASSUME IInv, NEW v \in Value, Alloc(v)
  PROVE  /\ PoolValues' = PoolValues
         /\ Obtains(AllocReg(reg_stack), v)
<1>1. /\ AllocStep(reg_stack, v) /\ reg_stack' = AllocStack(reg_stack)
      /\ held' = held \cup {AllocReg(reg_stack)}
  BY DEF Alloc
<1>2. /\ StackValues(AllocStack(reg_stack), frame', contents') = StackValues(reg_stack, frame, contents)
      /\ contents'[AllocReg(reg_stack)] = v /\ AllocReg(reg_stack) \in Reg \ held
      /\ \A x \in Reg : x # AllocReg(reg_stack) => contents'[x] = contents[x]
  BY <1>1, PartsOfIInv, AllocKeepsValues DEF ActiveRegisters
<1>3. PoolValues' = PoolValues
  BY <1>1, <1>2 DEF PoolValues
<1> QED
  BY <1>1, <1>2, <1>3 DEF Obtains

\* alloc() by a handler is a Load.
LEMMA AllocLoads ==
  ASSUME IInv, NEW v \in Value, Alloc(v)
  PROVE  Abstract!Next
<1>1. PICK q \in Reg : Obtains(q, v) /\ PoolValues' = PoolValues
  BY AllocValues DEF Obtains
<1>2. PoolHand' = [x \in held \cup {q} |-> IF x = q THEN v ELSE PoolHand[x]]
  BY <1>1, HandGrows, ZenonT(30)
<1>3. Abstract!Load(q, v)
  BY <1>1, <1>2, RefinementMapping, RefinementMappingPrime
     DEF Alloc, AllocStep, Abstract!Load, Abstract!Holding, Abstract!Held
<1> QED
  BY <1>3 DEF Abstract!Next

\* A register that a handler holds is no operand's: overwriting it changes none.
LEMMA ComputeValues ==
  ASSUME IInv, NEW r \in held, NEW v, contents' = [contents EXCEPT ![r] = v],
         reg_stack' = reg_stack, frame' = frame
  PROVE  /\ PoolValues' = PoolValues
         /\ contents'[r] = v /\ \A x \in Reg : x # r => contents'[x] = contents[x]
<1>1. /\ held \subseteq Reg /\ contents \in [Reg -> Value]
      /\ reg_stack \in Seq(StackValue)
      /\ held \cap RegsOf(reg_stack) = {}
  BY PartsOfIInv DEF Partition
<1>2. contents'[r] = v /\ \A x \in Reg : x # r => contents'[x] = contents[x]
  BY <1>1
<1>3. ASSUME NEW i \in Unspilled(reg_stack)
      PROVE  contents'[reg_stack[i].reg] = contents[reg_stack[i].reg]
  <2>1. reg_stack[i].reg \in Reg /\ reg_stack[i].reg \in RegsOf(reg_stack)
    BY <1>1, EntryTyped DEF RegsOf, Unspilled
  <2> QED
    BY <1>1, <1>2, <2>1
<1>4. StackValues(reg_stack, frame, contents') = StackValues(reg_stack, frame, contents)
  <2> DEFINE regs2 == contents'
  <2>1. \A i \in Unspilled(reg_stack) : regs2[reg_stack[i].reg] = contents[reg_stack[i].reg]
    BY <1>3
  <2> HIDE DEF regs2
  <2>2. StackValues(reg_stack, frame, regs2) = StackValues(reg_stack, frame, contents)
    BY <1>1, <2>1, StackValuesKept
  <2> QED
    BY <2>2 DEF regs2
<1> QED
  BY <1>2, <1>4 DEF PoolValues

\* So it is a Load.
LEMMA ComputeLoads ==
  ASSUME IInv, NEW r \in held, NEW v \in Value, Compute(r, v)
  PROVE  Abstract!Next
<1>1. /\ contents' = [contents EXCEPT ![r] = v]
      /\ reg_stack' = reg_stack /\ frame' = frame /\ held' = held
      /\ ~thrown /\ thrown' = thrown
  BY DEF Compute
<1>2. /\ PoolValues' = PoolValues
      /\ contents'[r] = v /\ \A x \in Reg : x # r => contents'[x] = contents[x]
  BY <1>1, ComputeValues
<1>3. held \subseteq Reg
  BY PartsOfIInv
<1>4. PoolHand' = [x \in held \cup {r} |-> IF x = r THEN v ELSE PoolHand[x]]
  BY <1>1, <1>2, <1>3 DEF PoolHand
<1>5. Abstract!Load(r, v)
  BY <1>1, <1>2, <1>4, RefinementMapping, RefinementMappingPrime
     DEF Abstract!Load, Abstract!Holding, Abstract!Held
<1> QED
  BY <1>3, <1>5 DEF Abstract!Next

\* free() is a Release.
LEMMA FreeReleases ==
  ASSUME IInv, NEW r \in held, Free(r)
  PROVE  Abstract!Next
<1>1. /\ held' = held \ {r} /\ contents' = contents
      /\ reg_stack' = reg_stack /\ frame' = frame
      /\ ~thrown /\ thrown' = thrown
  BY DEF Free
<1>2. PoolValues' = PoolValues
  BY <1>1 DEF PoolValues
<1>3. PoolHand' = [x \in held \ {r} |-> PoolHand[x]]
  BY <1>1 DEF PoolHand
<1>4. Abstract!Release(r)
  BY <1>1, <1>2, <1>3, RefinementMapping, RefinementMappingPrime
     DEF Abstract!Release, Abstract!Without, Abstract!Held
<1>5. r \in Reg
  BY PartsOfIInv
<1> QED
  BY <1>4, <1>5 DEF Abstract!Next

\* push() puts the value of the register on top of the operands.
LEMMA PushValues ==
  ASSUME IInv, NEW r \in held, Push(r)
  PROVE  PoolValues' = Append(PoolValues, contents[r])
<1> DEFINE e == [is_spilled |-> FALSE, reg |-> r, offset |-> 0]
<1>1. reg_stack' = Append(reg_stack, e) /\ contents' = contents /\ frame' = frame
  BY DEF Push
<1>2. /\ StackOK(reg_stack, DOMAIN frame, total_stack_size)
      /\ contents \in [Reg -> Value] /\ r \in Reg /\ r \notin RegsOf(reg_stack)
      /\ \A slot \in DOMAIN frame : frame[slot] \in Value
  BY PartsOfIInv DEF Partition
<1>3. e \in StackValue /\ ~e.is_spilled /\ e.reg = r
  BY <1>2 DEF StackValue
<1>4. StackOK(Append(reg_stack, e), DOMAIN frame, total_stack_size)
  BY <1>2, PushStackOK
<1> HIDE DEF e
<1>5. StackValues(Append(reg_stack, e), frame, contents) =
        Append(StackValues(reg_stack, frame, contents), contents[e.reg])
  BY <1>2, <1>3, <1>4, StackValuesAppend
<1> QED
  BY <1>1, <1>3, <1>5 DEF PoolValues

\* It is a Push.
LEMMA PushPushes ==
  ASSUME IInv, NEW r \in held, Push(r)
  PROVE  Abstract!Next
<1>1. held' = held \ {r} /\ contents' = contents /\ ~thrown /\ thrown' = thrown /\ r \in Reg
  BY PartsOfIInv DEF Push
<1>2. PoolValues' = Append(PoolValues, PoolHand[r])
  BY PushValues DEF PoolHand
<1>3. PoolHand' = [x \in held \ {r} |-> PoolHand[x]]
  BY <1>1 DEF PoolHand
<1>4. Abstract!Push(r)
  BY <1>1, <1>2, <1>3, RefinementMapping, RefinementMappingPrime
     DEF Abstract!Push, Abstract!Without, Abstract!Held
<1> QED
  BY <1>1, <1>4 DEF Abstract!Next

\* pop() takes the top operand off, into a register the handler did not have.
PopsInto(q) ==
  /\ PoolValues # <<>>
  /\ PoolValues' = SubSeq(PoolValues, 1, Len(PoolValues) - 1)
  /\ Obtains(q, PoolValues[Len(PoolValues)])

LEMMA PopUnspilledValues ==
  ASSUME IInv, PopUnspilled
  PROVE  PopsInto(Last(reg_stack).reg)
<1>1. /\ reg_stack' = Front(reg_stack) /\ held' = held \cup {Last(reg_stack).reg}
      /\ reg_stack # <<>> /\ ~Last(reg_stack).is_spilled
      /\ contents' = contents /\ frame' = frame
  BY DEF PopUnspilled
<1>2. /\ StackOK(reg_stack, DOMAIN frame, total_stack_size)
      /\ reg_stack \in Seq(StackValue)
      /\ contents \in [Reg -> Value] /\ held \cap RegsOf(reg_stack) = {}
      /\ \A slot \in DOMAIN frame : frame[slot] \in Value
  BY PartsOfIInv DEF Partition
<1>3. PICK q \in Reg : q = Last(reg_stack).reg /\ q \in RegsOf(reg_stack)
  BY <1>1, <1>2, FrontRegs
<1>4. /\ Len(reg_stack) \in Nat \ {0} /\ Last(reg_stack) = reg_stack[Len(reg_stack)]
      /\ DOMAIN reg_stack = 1..Len(reg_stack)
  BY <1>1, <1>2, FrontFacts
<1>5. PoolValues' = SubSeq(PoolValues, 1, Len(PoolValues) - 1)
  BY <1>1, <1>2, StackValuesFront DEF PoolValues
<1>6. Len(PoolValues) = Len(reg_stack) /\ PoolValues # <<>>
  <2>1. Len(PoolValues) = Len(reg_stack)
    BY <1>2, StackValuesSeq DEF PoolValues
  <2> QED
    BY <1>4, <2>1
<1>7. PoolValues[Len(PoolValues)] = contents[q]
  BY <1>1, <1>3, <1>4, <1>6 DEF PoolValues, StackValues, EntryValue
<1>8. Obtains(q, PoolValues[Len(PoolValues)])
  BY <1>1, <1>2, <1>3, <1>7 DEF Obtains
<1> QED
  BY <1>3, <1>5, <1>6, <1>8 DEF PopsInto

LEMMA PopSpilledValues ==
  ASSUME IInv, PopSpilled
  PROVE  PopsInto(AllocReg(Front(reg_stack)))
<1>1. /\ AllocStep(Front(reg_stack), frame[Last(reg_stack).offset])
      /\ reg_stack' = AllocStack(Front(reg_stack))
      /\ held' = held \cup {AllocReg(Front(reg_stack))}
      /\ reg_stack # <<>> /\ Last(reg_stack).is_spilled
  BY DEF PopSpilled
<1>2. /\ StackOK(reg_stack, DOMAIN frame, total_stack_size)
      /\ reg_stack \in Seq(StackValue) /\ contents \in [Reg -> Value]
      /\ \A slot \in DOMAIN frame : frame[slot] \in Value
  BY PartsOfIInv
<1>3. PICK v \in Value : v = frame[Last(reg_stack).offset]
  <2>1. Last(reg_stack) = reg_stack[Len(reg_stack)] /\ Len(reg_stack) \in DOMAIN reg_stack
    BY <1>1, <1>2, FrontFacts
  <2> QED
    BY <1>1, <1>2, <2>1 DEF StackOK, SlotsOf
<1>4. /\ StackOK(Front(reg_stack), DOMAIN frame, total_stack_size)
      /\ RegsOf(Front(reg_stack)) = ActiveRegisters
  BY <1>1, <1>2, FrontStackOK, FrontRegs DEF ActiveRegisters
<1>5. PICK q \in Reg :
        /\ q \notin held
        /\ q = AllocReg(Front(reg_stack))
        /\ StackValues(AllocStack(Front(reg_stack)), frame', contents') =
             StackValues(Front(reg_stack), frame, contents)
        /\ contents'[q] = v
        /\ \A x \in Reg : x # q => contents'[x] = contents[x]
  BY <1>1, <1>3, <1>4, AllocKeepsValues
<1>6. PoolValues' = SubSeq(PoolValues, 1, Len(PoolValues) - 1)
  BY <1>1, <1>2, <1>5, StackValuesFront DEF PoolValues
<1>7. /\ Len(PoolValues) = Len(reg_stack) /\ PoolValues # <<>>
      /\ PoolValues[Len(PoolValues)] = v
  <2>1. /\ Len(reg_stack) \in Nat \ {0} /\ Last(reg_stack) = reg_stack[Len(reg_stack)]
        /\ DOMAIN reg_stack = 1..Len(reg_stack)
    BY <1>1, <1>2, FrontFacts
  <2>2. Len(PoolValues) = Len(reg_stack)
    BY <1>2, StackValuesSeq DEF PoolValues
  <2> QED
    BY <1>1, <1>3, <2>1, <2>2 DEF PoolValues, StackValues, EntryValue
<1>8. Obtains(q, PoolValues[Len(PoolValues)])
  BY <1>1, <1>5, <1>7 DEF Obtains
<1> QED
  BY <1>5, <1>6, <1>7, <1>8 DEF PopsInto

\* pop() of an operand is a Pop, wherever the operand was.
LEMMA PopPops ==
  ASSUME IInv, PopUnspilled \/ PopSpilled
  PROVE  Abstract!Next
<1>1. PICK q \in Reg : PopsInto(q)
  BY PopUnspilledValues, PopSpilledValues DEF PopsInto, Obtains
<1>2. ~thrown /\ thrown' = thrown
  BY DEF PopUnspilled, PopSpilled, AllocStep
<1> DEFINE v == PoolValues[Len(PoolValues)]
<1>3. Obtains(q, v)
  BY <1>1 DEF PopsInto
<1> HIDE DEF v
<1>4. PoolHand' = [x \in held \cup {q} |-> IF x = q THEN v ELSE PoolHand[x]]
  BY <1>3, HandGrows, ZenonT(30)
<1>5. Abstract!Pop(q)
  BY <1>1, <1>2, <1>4, RefinementMapping, RefinementMappingPrime
     DEF v, PopsInto, Obtains, Abstract!Pop, Abstract!Holding, Abstract!Held
<1> QED
  BY <1>5 DEF Abstract!Next

\* pop() of the empty stack makes a value up, and there is still no operand.
LEMMA PopEmptyValues ==
  ASSUME IInv, PopEmpty
  PROVE  /\ PoolValues' = PoolValues /\ PoolValues = <<>>
         /\ Obtains(AllocReg(reg_stack), IF Zeroes THEN Zero ELSE contents[AllocReg(reg_stack)])
         /\ (IF Zeroes THEN Zero ELSE contents[AllocReg(reg_stack)]) \in Value
<1>1. /\ AllocStep(reg_stack, IF Zeroes THEN Zero ELSE contents[AllocReg(reg_stack)])
      /\ reg_stack' = reg_stack /\ reg_stack = <<>>
      /\ held' = held \cup {AllocReg(reg_stack)}
  BY DEF PopEmpty
<1>2. /\ free_regs \in Seq(Reg) /\ contents \in [Reg -> Value]
      /\ StackOK(reg_stack, DOMAIN frame, total_stack_size)
  BY PartsOfIInv
<1>3. Unspilled(reg_stack) = {} /\ PoolValues = <<>>
  BY <1>1, EmptySeq DEF Unspilled, PoolValues, StackValues
<1>4. ~Spills
  BY <1>1, <1>3 DEF AllocStep, CanAlloc
<1>5. AllocReg(reg_stack) \in Reg /\ AllocStack(reg_stack) = reg_stack
  BY <1>2, <1>4, FrontFacts DEF Spills, AllocReg, AllocStack
<1>6. PICK v \in Value : v = IF Zeroes THEN Zero ELSE contents[AllocReg(reg_stack)]
  BY <1>2, <1>5, PoolAssumption
<1>7. /\ StackValues(AllocStack(reg_stack), frame', contents') =
           StackValues(reg_stack, frame, contents)
      /\ AllocReg(reg_stack) \in Reg \ held /\ contents'[AllocReg(reg_stack)] = v
      /\ \A x \in Reg : x # AllocReg(reg_stack) => contents'[x] = contents[x]
  <2>1. AllocStep(reg_stack, v)
    BY <1>1, <1>6
  <2> QED
    BY <1>2, <2>1, AllocKeepsValues DEF ActiveRegisters
<1>8. PoolValues' = PoolValues
  BY <1>1, <1>5, <1>7 DEF PoolValues
<1>9. Obtains(AllocReg(reg_stack), v)
  BY <1>1, <1>7 DEF Obtains
<1> QED
  BY <1>3, <1>6, <1>8, <1>9

\* It is a Load.
LEMMA PopEmptyLoads ==
  ASSUME IInv, PopEmpty
  PROVE  Abstract!Next
<1>1. PICK q \in Reg, v \in Value : Obtains(q, v) /\ PoolValues' = PoolValues
  BY PopEmptyValues DEF Obtains
<1>2. ~thrown /\ thrown' = thrown
  BY DEF PopEmpty, AllocStep
<1>3. PoolHand' = [x \in held \cup {q} |-> IF x = q THEN v ELSE PoolHand[x]]
  BY <1>1, HandGrows
<1>4. Abstract!Load(q, v)
  BY <1>1, <1>2, <1>3, RefinementMapping, RefinementMappingPrime
     DEF Abstract!Load, Abstract!Holding, Abstract!Held
<1> QED
  BY <1>4 DEF Abstract!Next

\* top() of a spilled operand moves it and leaves every value as it was.
LEMMA TopSpilledStutters ==
  ASSUME IInv, TopSpilled
  PROVE  PoolValues' = PoolValues /\ PoolHand' = PoolHand /\ thrown' = thrown
<1>1. /\ AllocStep(reg_stack, frame[Last(reg_stack).offset])
      /\ reg_stack' = [AllocStack(reg_stack) EXCEPT ![Len(reg_stack)] =
           [is_spilled |-> FALSE, reg |-> AllocReg(reg_stack), offset |-> @.offset]]
      /\ held' = held
      /\ reg_stack # <<>> /\ Last(reg_stack).is_spilled
      /\ thrown' = thrown
  BY DEF TopSpilled, AllocStep
<1>2. /\ StackOK(reg_stack, DOMAIN frame, total_stack_size)
      /\ reg_stack \in Seq(StackValue) /\ held \subseteq Reg
      /\ \A slot \in DOMAIN frame : frame[slot] \in Value
  BY PartsOfIInv
<1>3. Last(reg_stack) = reg_stack[Len(reg_stack)] /\ Len(reg_stack) \in DOMAIN reg_stack
  <2>1. /\ Last(reg_stack) = reg_stack[Len(reg_stack)]
        /\ DOMAIN reg_stack = 1..Len(reg_stack) /\ Len(reg_stack) \in Nat \ {0}
    BY <1>1, <1>2, FrontFacts
  <2> QED
    BY <2>1
<1>4. PICK v \in Value : v = frame[Last(reg_stack).offset]
  BY <1>1, <1>2, <1>3 DEF StackOK, SlotsOf
<1>5. PICK q \in Reg :
        /\ q \notin held
        /\ q = AllocReg(reg_stack)
        /\ StackValues(AllocStack(reg_stack), frame', contents') =
             StackValues(reg_stack, frame, contents)
        /\ contents'[q] = v
        /\ \A x \in Reg : x # q => contents'[x] = contents[x]
  BY <1>1, <1>2, <1>4, AllocKeepsValues DEF ActiveRegisters
<1>6. Unspilled(reg_stack) = {}
  BY <1>1, <1>2, SpilledTop
<1>7. ~Spills
  BY <1>1, <1>6 DEF AllocStep, CanAlloc
<1>8. AllocStack(reg_stack) = reg_stack /\ frame' = frame
  BY <1>1, <1>7 DEF AllocStack, AllocStep, AllocFrame
<1>9. /\ DOMAIN reg_stack' = DOMAIN reg_stack
      /\ \A i \in DOMAIN reg_stack : i # Len(reg_stack) => reg_stack'[i] = reg_stack[i]
      /\ ~reg_stack'[Len(reg_stack)].is_spilled /\ reg_stack'[Len(reg_stack)].reg = q
  BY <1>1, <1>3, <1>5, <1>8
<1>10. ASSUME NEW i \in DOMAIN reg_stack
       PROVE  EntryValue(reg_stack'[i], frame', contents') = EntryValue(reg_stack[i], frame, contents)
  <2>1. CASE i = Len(reg_stack)
    BY <1>1, <1>3, <1>4, <1>5, <1>9, <2>1 DEF EntryValue
  <2>2. CASE i # Len(reg_stack)
    <3>1. reg_stack[i].is_spilled
      BY <1>6, EntryTyped, <1>2 DEF Unspilled
    <3> QED
      BY <1>8, <1>9, <2>2, <3>1 DEF EntryValue
  <2> QED
    BY <2>1, <2>2
<1>11. PoolValues' = PoolValues
  BY <1>9, <1>10 DEF PoolValues, StackValues
<1>12. PoolHand' = PoolHand
  BY <1>1, <1>2, <1>5 DEF PoolHand
<1> QED
  BY <1>1, <1>11, <1>12

\* reset() between handlers is a Clear.
LEMMA ResetClears ==
  ASSUME IInv, Reset
  PROVE  Abstract!Next
<1>1. /\ reg_stack' = <<>> /\ held' = {} /\ held = {}
      /\ ~thrown /\ thrown' = thrown
  BY DEF Reset
<1>2. PoolValues' = <<>> /\ PoolHand' = <<>>
  BY <1>1, EmptySeq DEF PoolValues, StackValues, PoolHand
<1>3. Abstract!Clear
  BY <1>1, <1>2, RefinementMapping, RefinementMappingPrime DEF Abstract!Clear
<1> QED
  BY <1>3 DEF Abstract!Next

\* An exception of alloc() is a Fail: the handler holds every handle there is.
LEMMA FailureFails ==
  ASSUME IInv, AllocFails \/ PopFails
  PROVE  Abstract!Next
<1>1. /\ held' = held /\ contents' = contents /\ frame' = frame
      /\ ~thrown /\ thrown' = TRUE
  BY DEF AllocFails, PopFails, AllocThrows
<1>2. held = Reg
  BY FailurePreserves
<1>3. PoolHand' = PoolHand
  BY <1>1 DEF PoolHand
<1>4. PoolValues' \in {PoolValues, SubSeq(PoolValues, 1, Len(PoolValues) - 1)}
  <2>1. CASE AllocFails
    <3>1. reg_stack' = reg_stack
      BY <2>1 DEF AllocFails
    <3> QED
      BY <1>1, <3>1 DEF PoolValues
  <2>2. CASE PopFails
    <3>1. reg_stack' = Front(reg_stack) /\ reg_stack # <<>>
      BY <2>2 DEF PopFails
    <3>2. /\ StackOK(reg_stack, DOMAIN frame, total_stack_size)
          /\ contents \in [Reg -> Value]
          /\ \A slot \in DOMAIN frame : frame[slot] \in Value
      BY PartsOfIInv
    <3>3. StackValues(Front(reg_stack), frame, contents) =
            SubSeq(PoolValues, 1, Len(PoolValues) - 1)
      BY <3>1, <3>2, StackValuesFront DEF PoolValues
    <3> QED
      BY <1>1, <3>1, <3>3 DEF PoolValues
  <2> QED
    BY <2>1, <2>2
<1>5. Abstract!Fail
  BY <1>1, <1>2, <1>3, <1>4, RefinementMapping, RefinementMappingPrime
     DEF Abstract!Fail, Abstract!Held
<1> QED
  BY <1>5 DEF Abstract!Next

\* top() of the empty stack is a Fail for want of an operand.
LEMMA EmptyTopFails ==
  ASSUME IInv, TopFails
  PROVE  Abstract!Next
<1>1. /\ reg_stack' = reg_stack /\ held' = held /\ contents' = contents
      /\ frame' = frame /\ ~thrown /\ thrown' = TRUE /\ reg_stack = <<>>
  BY DEF TopFails
<1>2. PoolValues' = PoolValues /\ PoolHand' = PoolHand
  BY <1>1 DEF PoolValues, PoolHand
<1>3. PoolValues = <<>>
  BY <1>1, EmptySeq DEF PoolValues, StackValues
<1>4. Abstract!Fail
  BY <1>1, <1>2, <1>3, RefinementMapping, RefinementMappingPrime DEF Abstract!Fail
<1> QED
  BY <1>4 DEF Abstract!Next

-------------------------------------------------------------------------------

\* The empty pool is the empty value stack.
LEMMA InitMaps == Init => Abstract!Init
<1> SUFFICES ASSUME Init PROVE Abstract!Init
  OBVIOUS
<1>1. reg_stack = <<>> /\ held = {} /\ thrown = FALSE
  BY DEF Init
<1>2. PoolValues = <<>> /\ PoolHand = <<>>
  BY <1>1, EmptySeq DEF PoolValues, StackValues, PoolHand
<1> QED
  BY <1>1, <1>2, RefinementMapping DEF Abstract!Init

\* Every step of the pool is a step of the value stack or leaves it unchanged.
LEMMA NextMaps == IInv /\ [Next]_vars => [Abstract!Next]_(Abstract!vsVars)
<1> SUFFICES ASSUME IInv, [Next]_vars PROVE [Abstract!Next]_(Abstract!vsVars)
  OBVIOUS
<1>1. ASSUME PoolValues' = PoolValues, PoolHand' = PoolHand, thrown' = thrown
      PROVE  UNCHANGED Abstract!vsVars
  BY <1>1, RefinementMapping, RefinementMappingPrime DEF Abstract!vsVars
<1>2. ASSUME NEW v \in Value, Alloc(v) PROVE Abstract!Next
  BY <1>2, AllocLoads
<1>3. ASSUME NEW r \in held, NEW v \in Value, Compute(r, v) PROVE Abstract!Next
  BY <1>3, ComputeLoads
<1>4. ASSUME NEW r \in held, Free(r) \/ Push(r) PROVE Abstract!Next
  BY <1>4, FreeReleases, PushPushes
<1>5. CASE PopUnspilled \/ PopSpilled \/ PopEmpty
  BY <1>5, PopPops, PopEmptyLoads
<1>6. CASE TopSpilled
  BY <1>6, <1>1, TopSpilledStutters
<1>7. CASE AllocFails \/ PopFails \/ TopFails
  BY <1>7, FailureFails, EmptyTopFails
<1>8. CASE Reset
  BY <1>8, ResetClears
<1>9. ASSUME NEW n \in Reservations, Reserve(n) PROVE UNCHANGED Abstract!vsVars
  <2>1. /\ reg_stack' = reg_stack /\ held' = held /\ contents' = contents
        /\ frame' = frame /\ thrown' = thrown
    BY <1>9 DEF Reserve
  <2>2. PoolValues' = PoolValues /\ PoolHand' = PoolHand
    BY <2>1 DEF PoolValues, PoolHand
  <2> QED
    BY <1>1, <2>1, <2>2
<1>10. CASE UNCHANGED vars
  <2>1. /\ reg_stack' = reg_stack /\ held' = held /\ contents' = contents
        /\ frame' = frame /\ thrown' = thrown
    BY <1>10 DEF vars
  <2>2. PoolValues' = PoolValues /\ PoolHand' = PoolHand
    BY <2>1 DEF PoolValues, PoolHand
  <2> QED
    BY <1>1, <2>1, <2>2
<1> QED
  BY <1>2, <1>3, <1>4, <1>5, <1>6, <1>7, <1>8, <1>9, <1>10 DEF Next

\* The register pool implements the value stack: whatever alloc() spills and
\* pop() and top() reload, an opcode handler finds the operands in stack order
\* with the values they were pushed with, and keeps the ones it holds.
THEOREM PoolImplementsValueStack == Spec => ImplementsValueStack
<1>1. Init => Abstract!Init
  BY InitMaps
<1>2. IInv /\ [Next]_vars => [Abstract!Next]_(Abstract!vsVars)
  BY NextMaps
<1> QED
  BY <1>1, <1>2, PoolInvariant, PTL DEF Spec, ImplementsValueStack, Abstract!Spec
================================================================================
