----------------------------- MODULE RegisterPool -----------------------------
(***************************************************************************)
(* class register_pool of x86_64_codegen.hpp: a LIFO free list of machine  *)
(* registers and a compile-time operand stack whose oldest entries are     *)
(* spilled to the frame when the free list runs dry.                       *)
(*                                                                         *)
(* The code emitted for straight-line IR runs in the order it is emitted,  *)
(* so one step is one call of the pool together with the effect of the     *)
(* instructions that call emits: `contents' and `frame' are the machine's  *)
(* registers and stack frame.  `held' is the set of registers handed to    *)
(* the opcode handler that is running; a handler gives each of them back   *)
(* exactly once, by free() or by push().                                   *)
(***************************************************************************)
EXTENDS Integers, SequencesExt

CONSTANTS
  InitialRegs,   \* the initializer list of the pool; back() is allocated first
  RegSize,       \* bytes of a spill slot: 8 for grp, 16 for simd128
  Zeroes,        \* pop() of an empty stack emits xor r,r (grp only)
  Value,         \* run-time values
  Zero,          \* the value xor r,r leaves
  CalleeSavedSpace, \* frame bytes in use when the pool is set up
  Reservations,  \* frame bytes other code takes from the shared size tracker
  MaxDepth,      \* bound: entries on the operand stack
  MaxFrame       \* bound: bytes of the frame

Reg == Range(InitialRegs)

ASSUME PoolAssumption ==
  /\ InitialRegs \in Seq(Reg) /\ IsInjective(InitialRegs)
  /\ RegSize \in Nat \ {0}
  /\ Zeroes \in BOOLEAN
  /\ Zero \in Value
  /\ CalleeSavedSpace \in Nat
  /\ Reservations \subseteq Nat
  /\ MaxDepth \in Nat /\ MaxFrame \in Nat

VARIABLES
  free_regs,         \* sequence of registers, allocation from the back
  reg_stack,         \* sequence of stack_value
  total_stack_size,  \* *total_stack_size: bytes of the frame in use
  held,              \* registers in the hands of the running handler
  contents,          \* [Reg -> Value], the register file
  frame,             \* [spill slots written -> Value], slot at [rbp - slot]
  thrown             \* alloc() or top() threw

vars == <<free_regs, reg_stack, total_stack_size, held, contents, frame, thrown>>

StackValue == [is_spilled : BOOLEAN, reg : Reg, offset : Nat]

\* The free list, the operand stack, and where each operand is.
TypeOK ==
  /\ free_regs \in Seq(Reg)
  /\ reg_stack \in Seq(StackValue)
  /\ total_stack_size \in Nat
  /\ held \in SUBSET Reg
  /\ contents \in [Reg -> Value]
  /\ DOMAIN frame \subseteq Nat
  /\ \A slot \in DOMAIN frame : frame[slot] \in Value
  /\ thrown \in BOOLEAN

Unspilled(stk) == {i \in DOMAIN stk : ~stk[i].is_spilled}

RegsOf(stk) == {stk[i].reg : i \in Unspilled(stk)}

\* get_active_registers()
ActiveRegisters == RegsOf(reg_stack)

Init ==
  /\ free_regs = InitialRegs
  /\ reg_stack = <<>>
  /\ total_stack_size = CalleeSavedSpace
  /\ held = {}
  /\ contents \in [Reg -> Value]
  /\ frame = <<>>
  /\ thrown = FALSE

(***************************************************************************)
(* alloc() on the stack `stk': the back of the free list or, when that is  *)
(* empty, the register of the oldest unspilled entry, after its value has  *)
(* been stored in a fresh slot of the frame.                               *)
(***************************************************************************)
Spills == free_regs = <<>>

\* Mutant: the newest unspilled entry is spilled.
VictimNewest(stk) == Max(Unspilled(stk))

Victim(stk) == Min(Unspilled(stk))

\* Mutant: the offset is taken before the tracker is advanced.
NewSlotUnadvanced == total_stack_size

NewSlot == total_stack_size + RegSize

CanAlloc(stk) == Spills => /\ Unspilled(stk) # {}
                           /\ NewSlot <= MaxFrame

AllocReg(stk) == IF Spills THEN stk[Victim(stk)].reg ELSE Last(free_regs)

AllocFree == IF Spills THEN free_regs ELSE Front(free_regs)

AllocStack(stk) ==
  IF Spills
  THEN [stk EXCEPT ![Victim(stk)] =
          [is_spilled |-> TRUE, reg |-> @.reg, offset |-> NewSlot]]
  ELSE stk

\* Mutant: the tracker follows the sign of the offset.
AllocTotalSigned == IF Spills THEN total_stack_size - RegSize ELSE total_stack_size

\* Mutant: the tracker is not advanced past the slot.
AllocTotalUnadvanced == total_stack_size

AllocTotal == IF Spills THEN NewSlot ELSE total_stack_size

AllocFrame(stk) ==
  IF Spills
  THEN [slot \in DOMAIN frame \cup {NewSlot} |->
          IF slot = NewSlot THEN contents[stk[Victim(stk)].reg] ELSE frame[slot]]
  ELSE frame

\* alloc() is called with `stk' on the stack, and the instruction emitted next
\* puts v into the register it returns.
AllocStep(stk, v) ==
  /\ CanAlloc(stk)
  /\ free_regs' = AllocFree
  /\ total_stack_size' = AllocTotal
  /\ frame' = AllocFrame(stk)
  /\ contents' = [contents EXCEPT ![AllocReg(stk)] = v]
  /\ UNCHANGED thrown

\* Mutant: alloc() gives up without looking for an entry to spill.
AllocThrowsEarly(stk) ==
  /\ Spills
  /\ thrown' = TRUE
  /\ UNCHANGED <<free_regs, total_stack_size, held, contents, frame>>

\* alloc() finds no free register and nothing to spill.
AllocThrows(stk) ==
  /\ Spills /\ Unspilled(stk) = {}
  /\ thrown' = TRUE
  /\ UNCHANGED <<free_regs, total_stack_size, held, contents, frame>>

-------------------------------------------------------------------------------
(* The public operations, called by the opcode handlers. *)

\* alloc(), then the handler loads v: op_push, op_load, the temporaries.
Alloc(v) ==
  /\ ~thrown
  /\ AllocStep(reg_stack, v)
  /\ reg_stack' = AllocStack(reg_stack)
  /\ held' = held \cup {AllocReg(reg_stack)}

\* alloc() throws "no registers free / cannot spill", called by a handler, by
\* pop() of the empty stack or by top().
AllocFails == ~thrown /\ AllocThrows(reg_stack) /\ UNCHANGED reg_stack

\* A handler emits an instruction whose destination is a register it holds.
Compute(r, v) ==
  /\ ~thrown /\ r \in held
  /\ contents' = [contents EXCEPT ![r] = v]
  /\ UNCHANGED <<free_regs, reg_stack, total_stack_size, held, frame, thrown>>

\* free()
Free(r) ==
  /\ ~thrown /\ r \in held
  /\ free_regs' = Append(free_regs, r)
  /\ held' = held \ {r}
  /\ UNCHANGED <<reg_stack, total_stack_size, contents, frame, thrown>>

\* push()
Push(r) ==
  /\ ~thrown /\ r \in held /\ Len(reg_stack) < MaxDepth
  /\ reg_stack' = Append(reg_stack, [is_spilled |-> FALSE, reg |-> r, offset |-> 0])
  /\ held' = held \ {r}
  /\ UNCHANGED <<free_regs, total_stack_size, contents, frame, thrown>>

\* Mutant: the entry stays on the stack, as after top().
PopUnspilledKeepsEntry ==
  /\ ~thrown /\ reg_stack # <<>> /\ ~Last(reg_stack).is_spilled
  /\ held' = held \cup {Last(reg_stack).reg}
  /\ UNCHANGED <<free_regs, reg_stack, total_stack_size, contents, frame, thrown>>

\* pop() of an entry that is in a register.
PopUnspilled ==
  /\ ~thrown /\ reg_stack # <<>> /\ ~Last(reg_stack).is_spilled
  /\ reg_stack' = Front(reg_stack)
  /\ held' = held \cup {Last(reg_stack).reg}
  /\ UNCHANGED <<free_regs, total_stack_size, contents, frame, thrown>>

\* pop() of a spilled entry: it has left the stack when alloc() runs.
PopSpilled ==
  LET stk == Front(reg_stack) IN
  /\ ~thrown /\ reg_stack # <<>> /\ Last(reg_stack).is_spilled
  /\ AllocStep(stk, frame[Last(reg_stack).offset])
  /\ reg_stack' = AllocStack(stk)
  /\ held' = held \cup {AllocReg(stk)}

PopFails ==
  LET stk == Front(reg_stack) IN
  /\ ~thrown /\ reg_stack # <<>> /\ Last(reg_stack).is_spilled
  /\ AllocThrows(stk)
  /\ reg_stack' = stk

\* pop() of the empty stack makes a value up: zero in a grp register, whatever
\* the register held in a simd128 one.
PopEmpty ==
  /\ ~thrown /\ reg_stack = <<>>
  /\ AllocStep(reg_stack, IF Zeroes THEN Zero ELSE contents[AllocReg(reg_stack)])
  /\ UNCHANGED reg_stack
  /\ held' = held \cup {AllocReg(reg_stack)}

\* top(): a spilled top entry is reloaded and is unspilled again.  alloc() may
\* spill another entry first; the top one is spilled, so it is not the victim.
TopSpilled ==
  LET n == Len(reg_stack) IN
  /\ ~thrown /\ reg_stack # <<>> /\ Last(reg_stack).is_spilled
  /\ AllocStep(reg_stack, frame[Last(reg_stack).offset])
  /\ reg_stack' = [AllocStack(reg_stack) EXCEPT ![n] =
                     [is_spilled |-> FALSE, reg |-> AllocReg(reg_stack), offset |-> @.offset]]
  /\ UNCHANGED held

\* top() throws "stack empty".
TopFails ==
  /\ ~thrown /\ reg_stack = <<>>
  /\ thrown' = TRUE
  /\ UNCHANGED <<free_regs, reg_stack, total_stack_size, held, contents, frame>>

\* Mutant: reset() clears the stack but not the free list.
ResetKeepsFreeList ==
  /\ ~thrown /\ held = {}
  /\ reg_stack' = <<>>
  /\ UNCHANGED <<free_regs, total_stack_size, held, contents, frame, thrown>>

\* reset(), which is only sound between handlers.
Reset ==
  /\ ~thrown /\ held = {}
  /\ reg_stack' = <<>>
  /\ free_regs' = InitialRegs
  /\ UNCHANGED <<total_stack_size, held, contents, frame, thrown>>

\* A local variable or the other pool takes frame bytes from the shared tracker.
Reserve(n) ==
  /\ ~thrown /\ total_stack_size + n <= MaxFrame
  /\ total_stack_size' = total_stack_size + n
  /\ UNCHANGED <<free_regs, reg_stack, held, contents, frame, thrown>>

Next ==
  \/ \E v \in Value : Alloc(v)
  \/ \E r \in held, v \in Value : Compute(r, v)
  \/ \E r \in held : Free(r) \/ Push(r)
  \/ PopUnspilled \/ PopSpilled \/ PopEmpty \/ TopSpilled
  \/ AllocFails \/ PopFails \/ TopFails
  \/ Reset
  \/ \E n \in Reservations : Reserve(n)

Spec == Init /\ [][Next]_vars

-------------------------------------------------------------------------------
(* Correctness. *)

\* Every register is in exactly one place: free, in a handler's hands, or
\* behind one unspilled entry of the stack.  A register that free(), push(),
\* pop() or a spill duplicated or lost would be handed to two owners.
Ownership ==
  /\ IsInjective(free_regs)
  /\ \A i, j \in Unspilled(reg_stack) : reg_stack[i].reg = reg_stack[j].reg => i = j
  /\ Range(free_regs) \cap held = {}
  /\ Range(free_regs) \cap ActiveRegisters = {}
  /\ held \cap ActiveRegisters = {}

NothingLost == Reg = Range(free_regs) \cup held \cup ActiveRegisters

\* The spilled entries are the oldest ones, whatever pop() and top() reload, and
\* their slots lie in the frame, without overlap, in stack order: alloc() always
\* takes its slot below everything in use.
SpilledBelow ==
  \A i, j \in DOMAIN reg_stack :
    i < j /\ reg_stack[j].is_spilled =>
      /\ reg_stack[i].is_spilled
      /\ reg_stack[i].offset + RegSize <= reg_stack[j].offset

SlotsInFrame ==
  \A i \in DOMAIN reg_stack :
    reg_stack[i].is_spilled => /\ reg_stack[i].offset \in DOMAIN frame
                              /\ reg_stack[i].offset <= total_stack_size

\* An exception means that the handler itself holds every register, or asked
\* for an operand of the empty stack: the pool never gives up while an operand
\* could still be spilled.
ThrowsOnlyWhenExhausted == thrown => held = Reg \/ reg_stack = <<>>

\* The run-time value of an entry, wherever it is.
ValueOf(entry) == IF entry.is_spilled THEN frame[entry.offset] ELSE contents[entry.reg]

\* The pool implements the value stack: whatever it spills and reloads, pop()
\* returns the value that was pushed and no handler loses the one it holds.
Abstract == INSTANCE ValueStack WITH
  Handle <- Reg,
  values <- [i \in DOMAIN reg_stack |-> ValueOf(reg_stack[i])],
  hand   <- [r \in held |-> contents[r]],
  failed <- thrown

ImplementsValueStack == Abstract!Spec
================================================================================
