----------------------------- MODULE CallSequence -----------------------------
(***************************************************************************)
(* Straight-line opcode handlers of generate_code over one register pool,  *)
(* op_call above all: arguments are popped into registers, caller-saved    *)
(* operands go to the machine stack, the arguments move to the System V    *)
(* argument registers or the stack, the callee runs, and everything is put *)
(* back.  One step is one call of the pool, or one loop iteration of       *)
(* op_call, with the instructions it emits.                                *)
(*                                                                         *)
(* The pool is the GP one or the SIMD one; which of ArgRegs and RetReg are *)
(* also in the pool is what tells them apart.  `before' is a history       *)
(* variable: what the stack machine held when the running opcode started.  *)
(***************************************************************************)
EXTENDS RegisterPool

CONSTANTS
  ArgRegs,        \* sysv_regs or sysv_regs_simd
  RetReg,         \* rax or xmm0
  CallerSaved,    \* registers op_call saves when active, in the order it saves them
  StackOrder,     \* it saves them in the order of the operand stack instead (SIMD)
  CalleeSaved,    \* registers a callee gives back unchanged
  Junk,           \* what a callee leaves in the other registers
  Op(_, _), Callee(_),
  Arity,          \* arg_count of the calls
  Compiled,       \* callees: TRUE compiled by generate_code, FALSE external
  Underflows,     \* calls may find fewer operands than arguments
  Var,
  SlotSize,       \* frame bytes of a local variable
  MaxOps          \* bound: opcodes of a program

OtherRegs == (Range(ArgRegs) \cup {RetReg}) \ Reg

ASSUME CallAssumption ==
  /\ ArgRegs \in Seq(Range(ArgRegs)) /\ IsInjective(ArgRegs)
  /\ Reg \subseteq Range(CallerSaved) \cup CalleeSaved
  /\ RetReg \notin CalleeSaved /\ StackOrder \in BOOLEAN
  /\ CallerSaved \in Seq(Reg)
  /\ Junk \in Value /\ Arity \subseteq Nat
  /\ SlotSize \in Nat \ {0} /\ MaxOps \in Nat
  /\ 1..MaxOps \subseteq Value   \* the literals of op_push
  /\ \A a, b \in Value : Op(a, b) \in Value

VARIABLES
  phase,               \* what the handler is doing; "code" between opcodes
  todo,                \* <<pool call, argument>> the running handler still makes
  taken,               \* registers it has obtained, in order
  local_variable_map,  \* [variables -> offset of their slot]
  arg_count,
  args,                \* collected arguments: register, slot if spilled (else 0)
  caller_saved,        \* registers saved on the machine stack
  machine,             \* values below the frame, last one at rsp
  others,              \* registers outside the pool
  ops,                 \* opcodes generated
  opcode,              \* the opcode the handler is for
  before               \* [stack, vars, opcode] when it started

callVars == <<phase, todo, taken, local_variable_map, arg_count, args,
              caller_saved, machine, others, ops, opcode, before>>
allVars == <<vars, callVars>>

\* Registers inside and outside the pool, as one register file.
Read(r) == IF r \in Reg THEN contents[r] ELSE others[r]

Write(r, v) ==
  /\ contents' = [x \in Reg |-> IF x = r THEN v ELSE contents[x]]
  /\ others' = [x \in OtherRegs |-> IF x = r THEN v ELSE others[x]]

Quiet == phase = "code" /\ todo = <<>>

StackNow == [i \in DOMAIN reg_stack |-> ValueOf(reg_stack[i])]
VarsNow  == [x \in DOMAIN local_variable_map |-> frame[local_variable_map[x]]]

CallInit ==
  /\ contents = [r \in Reg |-> Junk]   \* unknown, and read by no handler
  /\ others = [r \in OtherRegs |-> Junk]
  /\ Init
  /\ phase = "code" /\ todo = <<>> /\ taken = <<>>
  /\ local_variable_map = <<>>
  /\ arg_count = 0 /\ args = <<>> /\ caller_saved = <<>> /\ machine = <<>>
  /\ ops = 0 /\ opcode = <<>>
  /\ before = [stack |-> <<>>, vars |-> <<>>, opcode |-> <<>>]

-------------------------------------------------------------------------------
(* Opcodes that are a fixed sequence of pool calls. *)

\* The next opcode of the program is taken up.
Begin(op) ==
  /\ Quiet /\ ~thrown /\ ops < MaxOps
  /\ ops' = ops + 1
  /\ opcode' = op
  /\ before' = [stack |-> StackNow, vars |-> VarsNow, opcode |-> opcode]
  /\ taken' = <<>>

Handler(op, calls) ==
  /\ Begin(op)
  /\ todo' = calls
  /\ UNCHANGED <<vars, phase, local_variable_map, arg_count, args, caller_saved, machine, others>>

\* op_push: literals differ, so that a misplaced operand shows.
OpPush == /\ Len(reg_stack) < MaxDepth
          /\ Handler(<<"push", ops + 1>>, << <<"alloc", ops + 1>>, <<"push", 1>> >>)

OpLoad(x) == /\ x \in DOMAIN local_variable_map /\ Len(reg_stack) < MaxDepth
             /\ Handler(<<"load", x>>, << <<"load", x>>, <<"push", 1>> >>)

\* op_add and its like: the right operand is popped first and given back first.
OpBinary == /\ Len(reg_stack) >= 2
            /\ Handler(<<"binary", 0>>,
                         << <<"pop", 0>>, <<"pop", 0>>, <<"compute", 0>>,
                            <<"free", 1>>, <<"push", 2>> >>)

OpStore(x) == /\ reg_stack # <<>>
              /\ Handler(<<"store", x>>, << <<"pop", 0>>, <<"store", x>>, <<"free", 1>> >>)

\* pop() of an operand; the IR never has an operator or a store without one.
Pop == PopUnspilled \/ PopSpilled

\* The register pop() returns.
PopReg ==
  CASE reg_stack = <<>> -> AllocReg(reg_stack)
    [] reg_stack # <<>> /\ Last(reg_stack).is_spilled -> AllocReg(Front(reg_stack))
    [] OTHER -> Last(reg_stack).reg

NextCall(kind) == phase = "code" /\ todo # <<>> /\ Head(todo)[1] = kind
Arg == Head(todo)[2]

\* The pool call at the head of `todo' has been made.
CallMade == /\ todo' = Tail(todo)
            /\ UNCHANGED <<phase, arg_count, args, caller_saved, machine, others, ops, opcode, before>>

\* A variable is read after alloc() has stored what it spilled.
HandlerAllocs ==
  /\ \/ NextCall("alloc") /\ Alloc(Arg)
     \/ NextCall("load") /\ Alloc(frame'[local_variable_map[Arg]])
  /\ taken' = Append(taken, AllocReg(reg_stack))
  /\ CallMade /\ UNCHANGED local_variable_map

HandlerPops ==
  /\ NextCall("pop") /\ Pop
  /\ taken' = Append(taken, PopReg)
  /\ CallMade /\ UNCHANGED local_variable_map

HandlerComputes ==
  LET rhs == taken[1] lhs == taken[2] IN
  /\ NextCall("compute")
  /\ Compute(lhs, Op(contents[lhs], contents[rhs]))
  /\ CallMade /\ UNCHANGED <<taken, local_variable_map>>

HandlerGivesBack ==
  /\ \/ NextCall("free") /\ Free(taken[Arg])
     \/ NextCall("push") /\ Push(taken[Arg])
  /\ CallMade /\ UNCHANGED <<taken, local_variable_map>>

\* The value goes to the variable's slot, which is made on the first store.
HandlerStores ==
  LET x == Arg
      isNew == x \notin DOMAIN local_variable_map
      slot == IF isNew THEN total_stack_size + SlotSize ELSE local_variable_map[x]
  IN
  /\ NextCall("store")
  /\ total_stack_size' = IF isNew THEN slot ELSE total_stack_size
  /\ local_variable_map' = [y \in DOMAIN local_variable_map \cup {x} |->
                              IF y = x THEN slot ELSE local_variable_map[y]]
  /\ frame' = [o \in DOMAIN frame \cup {slot} |->
                 IF o = slot THEN contents[taken[1]] ELSE frame[o]]
  /\ CallMade
  /\ UNCHANGED <<free_regs, reg_stack, held, contents, thrown, taken>>

-------------------------------------------------------------------------------
(* op_call. *)

OpCall(n) ==
  /\ Underflows \/ n <= Len(reg_stack)
  /\ Begin(<<"call", n>>)
  /\ phase' = "collect" /\ arg_count' = n /\ args' = <<>>
  /\ UNCHANGED <<vars, todo, local_variable_map, caller_saved, machine, others>>

InCall == UNCHANGED <<todo, taken, local_variable_map, arg_count, ops, opcode, before>>

\* Mutant: the collecting loop runs once too often.
CollectingOffByOne == phase = "collect" /\ ~thrown /\ Len(args) <= arg_count

Collecting == phase = "collect" /\ ~thrown /\ Len(args) < arg_count
Collected  == phase = "collect" /\ ~thrown /\ Len(args) = arg_count
InRegister == {k \in DOMAIN args : args[k].off = 0}

CollectArg ==
  /\ Collecting /\ reg_stack # <<>> /\ Pop
  /\ args' = Append(args, [reg |-> PopReg, off |-> 0])
  /\ InCall /\ UNCHANGED <<phase, caller_saved, machine, others>>

\* spill_collected_args(): an operand is missing, so a collected one makes room.
SpillCollected ==
  LET k == Min(InRegister) IN
  /\ Collecting /\ reg_stack = <<>> /\ InRegister # {}
  /\ total_stack_size' = NewSlot
  /\ frame' = [o \in DOMAIN frame \cup {NewSlot} |->
                 IF o = NewSlot THEN contents[args[k].reg] ELSE frame[o]]
  /\ free_regs' = Append(free_regs, args[k].reg)
  /\ held' = held \ {args[k].reg}
  /\ args' = [args EXCEPT ![k].off = NewSlot]
  /\ phase' = "missing"
  /\ InCall /\ UNCHANGED <<reg_stack, contents, thrown, caller_saved, machine, others>>

\* pop() of the empty stack stands in for the missing operand.
CollectMissing ==
  /\ phase = "missing" /\ PopEmpty
  /\ args' = Append(args, [reg |-> PopReg, off |-> 0])
  /\ phase' = "collect"
  /\ InCall /\ UNCHANGED <<caller_saved, machine, others>>

\* "Not enough arguments on stack": generate_code returns.
CollectNothing ==
  /\ Collecting /\ reg_stack = <<>> /\ InRegister = {}
  /\ phase' = "abandoned"
  /\ InCall /\ UNCHANGED <<vars, args, caller_saved, machine, others>>

\* Every register holds an argument and another is wanted.
CollectFails ==
  /\ Collecting /\ PopFails
  /\ InCall /\ UNCHANGED <<phase, args, caller_saved, machine, others>>

ReloadArg ==
  LET k == Min(DOMAIN args \ InRegister) IN
  /\ Collected /\ InRegister # DOMAIN args
  /\ Alloc(frame[args[k].off])
  /\ args' = [args EXCEPT ![k] = [reg |-> AllocReg(reg_stack), off |-> 0]]
  /\ InCall /\ UNCHANGED <<phase, caller_saved, machine, others>>

ReloadFails ==
  /\ Collected /\ InRegister # DOMAIN args /\ AllocFails
  /\ InCall /\ UNCHANGED <<phase, args, caller_saved, machine, others>>

\* Mutant: the arguments stay in the order they were popped.
KeepArgsOrder ==
  /\ Collected /\ InRegister = DOMAIN args
  /\ phase' = "move"
  /\ InCall /\ UNCHANGED <<vars, args, caller_saved, machine, others>>

ReverseArgs ==
  /\ Collected /\ InRegister = DOMAIN args
  /\ args' = Reverse(args)
  /\ phase' = "move"
  /\ InCall /\ UNCHANGED <<vars, caller_saved, machine, others>>

\* Cells of eight bytes; a saved SIMD register takes two of them.
Cells(v) == [i \in 1..RegSize |-> IF i = RegSize THEN v ELSE Junk]

\* The registers that remain to be saved, by their place in the saving loop.
Unsaved ==
  IF StackOrder
  THEN {i \in Unspilled(reg_stack) : reg_stack[i].reg \notin Range(caller_saved)}
  ELSE {i \in DOMAIN CallerSaved : /\ CallerSaved[i] \in ActiveRegisters
                                  /\ CallerSaved[i] \notin Range(caller_saved)}

SaveCallerSaved(i) ==
  LET r == IF StackOrder THEN reg_stack[i].reg ELSE CallerSaved[i] IN
  /\ phase = "move" /\ \A j \in Unsaved : i <= j
  /\ caller_saved' = Append(caller_saved, r)
  /\ machine' = machine \o Cells(contents[r])
  /\ InCall /\ UNCHANGED <<vars, phase, args, others>>

\* The next argument register, while there is one.
ArgIndex  == arg_count - Len(args) + 1
StackArgs == IF arg_count > Len(ArgRegs) THEN arg_count - Len(ArgRegs) ELSE 0

MoveArg ==
  LET r == Head(args).reg IN
  /\ phase = "move" /\ Unsaved = {} /\ args # <<>> /\ ArgIndex <= Len(ArgRegs)
  /\ Write(ArgRegs[ArgIndex], Read(r))
  /\ free_regs' = Append(free_regs, r)
  /\ held' = held \ {r}
  /\ args' = Tail(args)
  /\ InCall
  /\ UNCHANGED <<reg_stack, total_stack_size, frame, thrown, phase, caller_saved, machine>>

\* alignment_padding, in cells: 8 + 16 - current_mod, modulo 16.
Padding ==
  LET current_mod == (total_stack_size + RegSize * Len(caller_saved) + StackArgs) % 2
  IN  (1 + 2 - current_mod) % 2

Pad ==
  /\ phase = "move" /\ Unsaved = {} /\ Len(args) = StackArgs
  /\ machine' = machine \o [i \in 1..Padding |-> Junk]
  /\ phase' = "pushargs"
  /\ InCall /\ UNCHANGED <<vars, args, caller_saved, others>>

PushStackArg ==
  LET r == Last(args).reg IN
  /\ phase = "pushargs" /\ args # <<>>
  /\ machine' = Append(machine, Read(r))
  /\ free_regs' = Append(free_regs, r)
  /\ held' = held \ {r}
  /\ args' = Front(args)
  /\ InCall
  /\ UNCHANGED <<reg_stack, total_stack_size, frame, thrown, contents, phase, caller_saved, others>>

Calling == phase = "pushargs" /\ args = <<>>

\* A compiled callee moves each register argument through the register its own
\* pool allocates first, so that one is the previous argument if it is an
\* argument register itself and not the first.
InRegisterOf(compiled, i) ==
  IF compiled /\ i > 1 /\ ArgRegs[i] = Last(InitialRegs)
  THEN Read(ArgRegs[i - 1])
  ELSE Read(ArgRegs[i])

Received(compiled) ==
  [i \in 1..arg_count |->
     IF i <= Len(ArgRegs) THEN InRegisterOf(compiled, i)
     ELSE machine[Len(machine) - (i - Len(ArgRegs) - 1)]]

\* The callee runs: its result, and junk in whatever it need not preserve.
CallTarget(compiled) ==
  LET after(r) == IF r = RetReg THEN Callee(Received(compiled))
                  ELSE IF r \in CalleeSaved THEN Read(r) ELSE Junk
  IN
  /\ Calling
  /\ contents' = [r \in Reg |-> after(r)]
  /\ others' = [r \in OtherRegs |-> after(r)]
  /\ phase' = "return"
  /\ InCall
  /\ UNCHANGED <<free_regs, reg_stack, total_stack_size, held, frame, thrown, args, caller_saved, machine>>

\* Mutant: the padding stays on the stack.
DropArgsKeepsPadding ==
  /\ phase = "return"
  /\ machine' = SubSeq(machine, 1, Len(machine) - StackArgs)
  /\ phase' = "restore"
  /\ InCall /\ UNCHANGED <<vars, args, caller_saved, others>>

\* add rsp, stack_args_bytes; add rsp, alignment_padding
DropArgs ==
  /\ phase = "return"
  /\ machine' = SubSeq(machine, 1, Len(machine) - StackArgs - Padding)
  /\ phase' = "restore"
  /\ InCall /\ UNCHANGED <<vars, args, caller_saved, others>>

\* Mutant: the saved registers are popped in the order they were pushed.
RestoreForwards ==
  /\ phase = "restore" /\ caller_saved # <<>>
  /\ contents' = [contents EXCEPT ![Head(caller_saved)] = Last(machine)]
  /\ machine' = SubSeq(machine, 1, Len(machine) - RegSize)
  /\ caller_saved' = Tail(caller_saved)
  /\ InCall
  /\ UNCHANGED <<free_regs, reg_stack, total_stack_size, held, frame, thrown, phase, args, others>>

RestoreCallerSaved ==
  /\ phase = "restore" /\ caller_saved # <<>>
  /\ contents' = [contents EXCEPT ![Last(caller_saved)] = Last(machine)]
  /\ machine' = SubSeq(machine, 1, Len(machine) - RegSize)
  /\ caller_saved' = Front(caller_saved)
  /\ InCall
  /\ UNCHANGED <<free_regs, reg_stack, total_stack_size, held, frame, thrown, phase, args, others>>

\* should_push_return: the result becomes an operand if the next opcodes want it.
FinishCall(should_push_return) ==
  /\ phase = "restore" /\ caller_saved = <<>>
  /\ phase' = "code"
  /\ taken' = <<>>
  /\ todo' = IF should_push_return THEN << <<"alloc", Read(RetReg)>>, <<"push", 1>> >> ELSE <<>>
  /\ UNCHANGED <<vars, local_variable_map, arg_count, args, caller_saved, machine, others, ops, opcode, before>>

CallStep ==
  \/ CollectArg \/ SpillCollected \/ CollectMissing \/ CollectNothing \/ CollectFails
  \/ ReloadArg \/ ReloadFails \/ ReverseArgs
  \/ \E i \in Unsaved : SaveCallerSaved(i)
  \/ MoveArg \/ Pad \/ PushStackArg
  \/ \E compiled \in Compiled : CallTarget(compiled)
  \/ DropArgs \/ RestoreCallerSaved
  \/ \E keep \in BOOLEAN : FinishCall(keep)

CallNext ==
  \/ OpPush \/ OpBinary
  \/ \E x \in Var : OpLoad(x) \/ OpStore(x)
  \/ HandlerAllocs \/ HandlerPops \/ HandlerComputes \/ HandlerGivesBack \/ HandlerStores
  \/ \E n \in Arity : OpCall(n)
  \/ CallStep

CallSpec == CallInit /\ [][CallNext]_allVars

-------------------------------------------------------------------------------
(* Correctness. *)

\* The pool and its operands keep their types under the opcode handlers, and a call is
\* in one of its phases.
CallTypeOK ==
  /\ TypeOK
  /\ phase \in {"code", "collect", "missing", "move", "pushargs", "return", "restore", "abandoned"}
  /\ taken \in Seq(Reg) /\ machine \in Seq(Value)
  /\ DOMAIN local_variable_map \subseteq Var
  /\ args \in Seq([reg : Reg, off : Nat]) /\ Len(args) <= arg_count
  /\ caller_saved \in Seq(Reg)
  /\ others \in [OtherRegs -> Value]

\* The compiled code is the stack machine: whatever is spilled, saved around
\* calls or moved between registers, every operand, variable, argument and
\* result is the one the program means.  An opcode takes effect when its
\* handler is done.
Machine == INSTANCE StackMachine WITH
  stack  <- IF Quiet THEN StackNow ELSE before.stack,
  vars   <- IF Quiet THEN VarsNow ELSE before.vars,
  opcode <- IF Quiet THEN opcode ELSE before.opcode,
  failed <- thrown \/ phase = "abandoned",
  RegisterCount <- Cardinality(Reg)

ImplementsStackMachine == Machine!Spec

\* At the call instruction the callee finds every argument where System V says
\* its parameter is: no move between the registers has overwritten another.
ParametersReceived ==
  Calling => \A compiled \in Compiled : Received(compiled) = Machine!Arguments(arg_count)

\* The code between opcodes runs with rsp at the bottom of the frame, and no
\* register stays with a handler that is done.
Balanced == Quiet => machine = <<>> /\ held = {}

\* At the call instruction rsp is a multiple of 16, two cells, the frame being
\* one (op_ret's caller pushed the return address, the prologue rbp).
AlignedCalls == Calling => Len(machine) % 2 = 0
================================================================================
