-------------------------- MODULE CallSequenceProofs --------------------------
(***************************************************************************)
(* Proofs about CallSequence, for every pool, calling convention, arity    *)
(* and program: the handlers keep the pool's inductive invariant, and      *)
(* op_call gives back every register and every byte of machine stack.      *)
(*                                                                         *)
(* The inductive invariant CInv says, for each phase of a handler, which   *)
(* registers it holds and what is on the machine stack.                    *)
(***************************************************************************)
EXTENDS CallSequence, RegisterPoolProofs

\* The registers the handler holds, in the hands of the pool calls still to be made.
HoldsNone == taken = <<>> /\ held = {}
HoldsOne  == \E r \in Reg : taken = <<r>> /\ held = {r}
HoldsTwo  == \E r, q \in Reg : r # q /\ taken = <<r, q>> /\ held = {r, q}

\* What a handler has still to do after a pool call.
AfterAlloc    == << <<"push", 1>> >>
AfterPop      == << <<"pop", 0>>, <<"compute", 0>>, <<"free", 1>>, <<"push", 2>> >>
AfterPops     == << <<"compute", 0>>, <<"free", 1>>, <<"push", 2>> >>
AfterCompute  == << <<"free", 1>>, <<"push", 2>> >>
AfterFree     == << <<"push", 2>> >>
BeforeStore(x) == << <<"store", x>>, <<"free", 1>> >>
AfterStore    == << <<"free", 1>> >>

\* A handler between two of its pool calls: what is left to do, and what it holds.
LoadStage ==
  \/ HoldsNone /\ \E v \in Value : todo = << <<"alloc", v>>, <<"push", 1>> >>
  \/ HoldsNone /\ \E x \in DOMAIN local_variable_map : todo = << <<"load", x>>, <<"push", 1>> >>
  \/ HoldsOne /\ todo = AfterAlloc

BinaryStage ==
  \/ HoldsNone /\ todo = << <<"pop", 0>>, <<"pop", 0>>, <<"compute", 0>>, <<"free", 1>>, <<"push", 2>> >>
  \/ HoldsOne /\ todo = AfterPop
  \/ HoldsTwo /\ todo \in {AfterPops, AfterCompute}
  \/ todo = AfterFree /\ \E r, q \in Reg : taken = <<r, q>> /\ held = {q}

StoreStage ==
  \/ HoldsNone /\ \E x \in Var : todo = << <<"pop", 0>>, <<"store", x>>, <<"free", 1>> >>
  \/ HoldsOne /\ \E x \in Var : todo = BeforeStore(x)
  \/ HoldsOne /\ todo = AfterStore

HandlerStage ==
  \/ todo = <<>> /\ held = {}
  \/ LoadStage \/ BinaryStage \/ StoreStage

\* Exactly the arguments in registers are held, and the others have their slots.
ArgsHeld ==
  /\ held = {args[k].reg : k \in InRegister}
  /\ \A j, k \in InRegister : args[j].reg = args[k].reg => j = k
  /\ \A k \in DOMAIN args \ InRegister : args[k].off \in DOMAIN frame

AllInRegister == InRegister = DOMAIN args

SavedCells == RegSize * Len(caller_saved)

\* What is on the machine stack, in each phase of a call.
PhaseOK ==
  /\ phase = "code" => HandlerStage /\ args = <<>> /\ caller_saved = <<>> /\ machine = <<>>
  /\ phase # "code" => todo = <<>>
  /\ phase \in {"collect", "missing"} => ArgsHeld /\ caller_saved = <<>> /\ machine = <<>>
  /\ phase = "missing" => Len(args) < arg_count
  /\ phase = "move" => ArgsHeld /\ AllInRegister /\ Len(machine) = SavedCells
  /\ phase = "pushargs" => /\ ArgsHeld /\ AllInRegister
                           /\ Len(args) <= StackArgs
                           /\ Len(machine) = SavedCells + Padding + (StackArgs - Len(args))
  /\ phase = "return" => /\ held = {} /\ args = <<>>
                         /\ Len(machine) = SavedCells + Padding + StackArgs
  /\ phase = "restore" => held = {} /\ args = <<>> /\ Len(machine) = SavedCells

\* The variables have slots of the frame.
VarsInFrame == \A x \in DOMAIN local_variable_map : local_variable_map[x] \in DOMAIN frame

CInv ==
  /\ IInv
  /\ CallTypeOK
  /\ arg_count \in Nat /\ ops \in Nat
  /\ thrown => phase = "collect"
  /\ VarsInFrame
  /\ PhaseOK

-------------------------------------------------------------------------------
(* The steps that leave the pool alone. *)

LEMMA PoolUnchanged ==
  ASSUME IInv, UNCHANGED vars
  PROVE  IInv'
BY NextPreservesIInv

\* The compiled program starts with a fresh pool.
LEMMA CallInitOK == CallInit => CInv
<1> SUFFICES ASSUME CallInit PROVE CInv
  OBVIOUS
<1>1. IInv
  BY InitEstablishesIInv DEF CallInit
<1>2. /\ phase = "code" /\ todo = <<>> /\ taken = <<>> /\ local_variable_map = <<>>
      /\ arg_count = 0 /\ args = <<>> /\ caller_saved = <<>> /\ machine = <<>> /\ ops = 0
      /\ others = [r \in OtherRegs |-> Junk] /\ thrown = FALSE /\ held = {}
  BY DEF CallInit, Init
<1>3. TypeOK
  BY <1>1 DEF IInv
<1>4. /\ taken \in Seq(Reg) /\ machine \in Seq(Value) /\ caller_saved \in Seq(Reg)
      /\ args \in Seq([reg : Reg, off : Nat]) /\ Len(args) <= arg_count
      /\ DOMAIN local_variable_map = {}
  BY <1>2, EmptySeq
<1>5. CallTypeOK
  BY <1>2, <1>3, <1>4, CallAssumption DEF CallTypeOK
<1>6. PhaseOK
  BY <1>2 DEF PhaseOK, HandlerStage
<1> QED
  BY <1>1, <1>2, <1>4, <1>5, <1>6 DEF CInv, VarsInFrame

\* A handler that starts holds nothing and has its pool calls before it.
LEMMA HandlerBegins ==
  ASSUME CInv, OpPush \/ OpBinary \/ \E x \in Var : OpLoad(x) \/ OpStore(x)
  PROVE  CInv'
<1>1. /\ Quiet /\ ~thrown /\ ops < MaxOps /\ ops' = ops + 1
      /\ UNCHANGED vars
      /\ phase' = phase /\ taken' = <<>> /\ local_variable_map' = local_variable_map
      /\ arg_count' = arg_count /\ args' = args /\ caller_saved' = caller_saved
      /\ machine' = machine /\ others' = others
  BY DEF OpPush, OpBinary, OpLoad, OpStore, Handler, Begin
<1>2. /\ held' = held /\ frame' = frame /\ thrown' = thrown
  BY <1>1 DEF vars
<1>3. phase = "code" /\ todo = <<>> /\ held = {}
  BY <1>1 DEF Quiet, CInv, PhaseOK, HandlerStage, HoldsNone, HoldsOne, HoldsTwo,
              LoadStage, BinaryStage, StoreStage, AfterAlloc, AfterPop, AfterPops,
              AfterCompute, AfterFree, BeforeStore, AfterStore
<1>4. HandlerStage'
  <2>1. held' = {} /\ taken' = <<>>
    BY <1>1, <1>2, <1>3
  <2>2. CASE OpPush
    <3>1. ops + 1 \in Value
      BY <1>1, CallAssumption DEF CInv
    <3>2. todo' = << <<"alloc", ops + 1>>, <<"push", 1>> >>
      BY <2>2 DEF OpPush, Handler
    <3> QED
      BY <2>1, <3>1, <3>2 DEF HandlerStage, LoadStage, HoldsNone
  <2>3. ASSUME NEW x \in Var, OpLoad(x) PROVE HandlerStage'
    <3>1. x \in DOMAIN local_variable_map' /\ todo' = << <<"load", x>>, <<"push", 1>> >>
      BY <1>1, <2>3 DEF OpLoad, Handler
    <3> QED
      BY <2>1, <3>1 DEF HandlerStage, LoadStage, HoldsNone
  <2>4. CASE OpBinary
    BY <2>1, <2>4 DEF OpBinary, Handler, HandlerStage, BinaryStage, HoldsNone
  <2>5. ASSUME NEW x \in Var, OpStore(x) PROVE HandlerStage'
    BY <2>1, <2>5 DEF OpStore, Handler, HandlerStage, StoreStage, HoldsNone
  <2> QED
    BY <2>2, <2>3, <2>4, <2>5
<1>5. PhaseOK'
  BY <1>1, <1>2, <1>3, <1>4 DEF CInv, PhaseOK
<1>6. IInv'
  BY <1>1, PoolUnchanged DEF CInv
<1>7. CallTypeOK'
  <2>1. TypeOK'
    BY <1>6 DEF IInv
  <2>2. taken' \in Seq(Reg)
    BY <1>1, EmptySeq
  <2> QED
    BY <1>1, <2>1, <2>2 DEF CInv, CallTypeOK
<1> QED
  BY <1>1, <1>2, <1>5, <1>6, <1>7 DEF CInv, VarsInFrame

-------------------------------------------------------------------------------
(* What a pool call does to the registers the handler holds. *)

\* alloc() hands out a register the handler did not have.
LEMMA AllocGives ==
  ASSUME IInv, NEW v \in Value, Alloc(v)
  PROVE  /\ IInv' /\ ~thrown /\ thrown' = thrown
         /\ AllocReg(reg_stack) \in Reg \ held
         /\ held' = held \cup {AllocReg(reg_stack)}
         /\ DOMAIN frame \subseteq DOMAIN frame'
<1>1. /\ AllocStep(reg_stack, v) /\ ~thrown
      /\ held' = held \cup {AllocReg(reg_stack)}
  BY DEF Alloc
<1>2. AllocReg(reg_stack) \in Reg \ held
  BY <1>1, PartsOfIInv, AllocPartition DEF ActiveRegisters
<1>3. thrown' = thrown /\ DOMAIN frame \subseteq DOMAIN frame'
  BY <1>1 DEF AllocStep, AllocFrame
<1> QED
  BY <1>1, <1>2, <1>3, AllocPreserves

\* So does pop().
LEMMA PopGives ==
  ASSUME IInv, Pop
  PROVE  /\ IInv' /\ ~thrown /\ thrown' = thrown
         /\ PopReg \in Reg \ held
         /\ held' = held \cup {PopReg}
         /\ DOMAIN frame \subseteq DOMAIN frame'
<1>1. CASE PopUnspilled
  <2>1. /\ reg_stack # <<>> /\ ~Last(reg_stack).is_spilled /\ ~thrown /\ thrown' = thrown
        /\ held' = held \cup {Last(reg_stack).reg} /\ frame' = frame
    BY <1>1 DEF PopUnspilled
  <2>2. PopReg = Last(reg_stack).reg
    BY <2>1 DEF PopReg
  <2>3. Last(reg_stack).reg \in Reg \ held
    BY <2>1, PartsOfIInv, FrontRegs DEF Partition
  <2> QED
    BY <1>1, <2>1, <2>2, <2>3, PopUnspilledPreserves
<1>2. CASE PopSpilled
  <2>1. /\ reg_stack # <<>> /\ Last(reg_stack).is_spilled /\ ~thrown
        /\ AllocStep(Front(reg_stack), frame[Last(reg_stack).offset])
        /\ held' = held \cup {AllocReg(Front(reg_stack))}
    BY <1>2 DEF PopSpilled
  <2>2. PopReg = AllocReg(Front(reg_stack))
    BY <2>1 DEF PopReg
  <2>3. /\ StackOK(reg_stack, DOMAIN frame, total_stack_size)
        /\ \A slot \in DOMAIN frame : frame[slot] \in Value
        /\ reg_stack \in Seq(StackValue)
    BY PartsOfIInv
  <2>4. frame[Last(reg_stack).offset] \in Value
    <3>1. Last(reg_stack) = reg_stack[Len(reg_stack)] /\ Len(reg_stack) \in DOMAIN reg_stack
      BY <2>1, <2>3, FrontFacts
    <3> QED
      BY <2>1, <2>3, <3>1 DEF StackOK, SlotsOf
  <2>5. /\ StackOK(Front(reg_stack), DOMAIN frame, total_stack_size)
        /\ RegsOf(Front(reg_stack)) = ActiveRegisters
    BY <2>1, <2>3, FrontStackOK, FrontRegs DEF ActiveRegisters
  <2>6. AllocReg(Front(reg_stack)) \in Reg \ held
    BY <2>1, <2>4, <2>5, AllocPartition
  <2>7. thrown' = thrown /\ DOMAIN frame \subseteq DOMAIN frame'
    BY <2>1 DEF AllocStep, AllocFrame
  <2> QED
    BY <1>2, <2>1, <2>2, <2>6, <2>7, PopSpilledPreserves
<1> QED
  BY <1>1, <1>2 DEF Pop

\* And pop() of the empty stack, which makes a value up.
LEMMA PopEmptyGives ==
  ASSUME IInv, PopEmpty
  PROVE  /\ IInv' /\ ~thrown /\ thrown' = thrown
         /\ PopReg \in Reg \ held
         /\ held' = held \cup {PopReg}
         /\ DOMAIN frame \subseteq DOMAIN frame'
<1>1. /\ AllocStep(reg_stack, IF Zeroes THEN Zero ELSE contents[AllocReg(reg_stack)])
      /\ reg_stack = <<>> /\ ~thrown
      /\ held' = held \cup {AllocReg(reg_stack)}
  BY DEF PopEmpty
<1>2. /\ free_regs \in Seq(Reg) /\ contents \in [Reg -> Value]
      /\ StackOK(reg_stack, DOMAIN frame, total_stack_size)
      /\ Range(free_regs) \cap held = {}
  BY PartsOfIInv DEF Partition
<1>3. ~Spills
  <2>1. Unspilled(reg_stack) = {}
    BY <1>1, EmptySeq DEF Unspilled
  <2> QED
    BY <1>1, <2>1 DEF AllocStep, CanAlloc
<1>4. AllocReg(reg_stack) \in Reg /\ AllocReg(reg_stack) \in Range(free_regs)
  <2>1. /\ Last(free_regs) = free_regs[Len(free_regs)] /\ Last(free_regs) \in Reg
        /\ DOMAIN free_regs = 1..Len(free_regs) /\ Len(free_regs) \in Nat \ {0}
    BY <1>2, <1>3, FrontFacts DEF Spills
  <2> QED
    BY <1>3, <2>1 DEF AllocReg, Range
<1>5. thrown' = thrown /\ DOMAIN frame \subseteq DOMAIN frame'
  BY <1>1 DEF AllocStep, AllocFrame
<1> QED
  BY <1>1, <1>2, <1>4, <1>5, PopEmptyPreserves DEF PopReg

-------------------------------------------------------------------------------
(* The pool calls of a handler, by what they are. *)

\* The first call of each list of calls, and what remains.
LEMMA CallLists ==
  /\ \A v : todo = << <<"alloc", v>>, <<"push", 1>> >> =>
       Head(todo)[1] = "alloc" /\ Arg = v /\ Tail(todo) = AfterAlloc
  /\ \A x : todo = << <<"load", x>>, <<"push", 1>> >> =>
       Head(todo)[1] = "load" /\ Arg = x /\ Tail(todo) = AfterAlloc
  /\ todo = << <<"pop", 0>>, <<"pop", 0>>, <<"compute", 0>>, <<"free", 1>>, <<"push", 2>> >> =>
       Head(todo)[1] = "pop" /\ Tail(todo) = AfterPop
  /\ \A x : todo = << <<"pop", 0>>, <<"store", x>>, <<"free", 1>> >> =>
       Head(todo)[1] = "pop" /\ Tail(todo) = BeforeStore(x)
  /\ todo = AfterPop => Head(todo)[1] = "pop" /\ Tail(todo) = AfterPops
  /\ todo = AfterPops => Head(todo)[1] = "compute" /\ Tail(todo) = AfterCompute
  /\ todo = AfterCompute => Head(todo)[1] = "free" /\ Arg = 1 /\ Tail(todo) = AfterFree
  /\ \A x : todo = BeforeStore(x) =>
       Head(todo)[1] = "store" /\ Arg = x /\ Tail(todo) = AfterStore
  /\ todo = AfterStore => Head(todo)[1] = "free" /\ Arg = 1 /\ Tail(todo) = <<>>
  /\ todo = AfterAlloc => Head(todo)[1] = "push" /\ Arg = 1 /\ Tail(todo) = <<>>
  /\ todo = AfterFree => Head(todo)[1] = "push" /\ Arg = 2 /\ Tail(todo) = <<>>
<1>1. \A v : todo = << <<"alloc", v>>, <<"push", 1>> >> =>
        Head(todo)[1] = "alloc" /\ Arg = v /\ Tail(todo) = AfterAlloc
  BY DEF Arg, AfterAlloc
<1>2. todo = << <<"pop", 0>>, <<"pop", 0>>, <<"compute", 0>>, <<"free", 1>>, <<"push", 2>> >> =>
        Head(todo)[1] = "pop" /\ Tail(todo) = AfterPop
  BY DEF AfterPop
<1>3. \A x : todo = << <<"pop", 0>>, <<"store", x>>, <<"free", 1>> >> =>
        Head(todo)[1] = "pop" /\ Tail(todo) = BeforeStore(x)
  BY DEF BeforeStore
<1>4. todo = AfterPop => Head(todo)[1] = "pop" /\ Tail(todo) = AfterPops
  BY DEF AfterPop, AfterPops
<1>5. todo = AfterPops => Head(todo)[1] = "compute" /\ Tail(todo) = AfterCompute
  BY DEF AfterPops, AfterCompute
<1>6. todo = AfterCompute => Head(todo)[1] = "free" /\ Arg = 1 /\ Tail(todo) = AfterFree
  BY DEF Arg, AfterCompute, AfterFree
<1>7. \A x : todo = BeforeStore(x) =>
        Head(todo)[1] = "store" /\ Arg = x /\ Tail(todo) = AfterStore
  BY DEF Arg, BeforeStore, AfterStore
<1>8. todo = AfterStore => Head(todo)[1] = "free" /\ Arg = 1 /\ Tail(todo) = <<>>
  BY DEF Arg, AfterStore
<1>9. todo = AfterAlloc => Head(todo)[1] = "push" /\ Arg = 1 /\ Tail(todo) = <<>>
  BY DEF Arg, AfterAlloc
<1>10. todo = AfterFree => Head(todo)[1] = "push" /\ Arg = 2 /\ Tail(todo) = <<>>
  BY DEF Arg, AfterFree
<1>11. \A x : todo = << <<"load", x>>, <<"push", 1>> >> =>
         Head(todo)[1] = "load" /\ Arg = x /\ Tail(todo) = AfterAlloc
  BY DEF Arg, AfterAlloc
<1> QED
  BY <1>1, <1>2, <1>3, <1>4, <1>5, <1>6, <1>7, <1>8, <1>9, <1>10, <1>11

\* What a handler holds when it makes a call of each kind, and what remains to do.
LEMMA CallsToMake ==
  ASSUME CInv, phase = "code", todo # <<>>
  PROVE  /\ Head(todo)[1] = "alloc" =>
              HoldsNone /\ Arg \in Value /\ Tail(todo) = AfterAlloc
         /\ Head(todo)[1] = "load" =>
              HoldsNone /\ Arg \in DOMAIN local_variable_map /\ Tail(todo) = AfterAlloc
         /\ Head(todo)[1] = "pop" =>
              \/ HoldsNone /\ Tail(todo) = AfterPop
              \/ HoldsOne /\ Tail(todo) = AfterPops
              \/ HoldsNone /\ \E x \in Var : Tail(todo) = BeforeStore(x)
         /\ Head(todo)[1] = "compute" =>
              HoldsTwo /\ Tail(todo) = AfterCompute
         /\ Head(todo)[1] = "store" =>
              HoldsOne /\ Arg \in Var /\ Tail(todo) = AfterStore
         /\ Head(todo)[1] = "free" =>
              /\ Arg = 1
              /\ \/ HoldsTwo /\ Tail(todo) = AfterFree
                 \/ HoldsOne /\ Tail(todo) = <<>>
         /\ Head(todo)[1] = "push" =>
              /\ Tail(todo) = <<>>
              /\ \/ HoldsOne /\ Arg = 1
                 \/ Arg = 2 /\ \E r, q \in Reg : taken = <<r, q>> /\ held = {q}
<1>1. LoadStage \/ BinaryStage \/ StoreStage
  BY DEF CInv, PhaseOK, HandlerStage
<1>2. CASE LoadStage
  BY <1>2, CallLists DEF LoadStage
<1>3. CASE BinaryStage
  BY <1>3, CallLists DEF BinaryStage
<1>4. CASE StoreStage
  BY <1>4, CallLists DEF StoreStage
<1> QED
  BY <1>1, <1>2, <1>3, <1>4

\* A pool call is made within its handler: the call in progress does not change.
LEMMA StageAdvances ==
  ASSUME CInv, phase = "code", CallMade, IInv', HandlerStage', taken' \in Seq(Reg),
         thrown' = thrown, DOMAIN local_variable_map' \subseteq Var, VarsInFrame'
  PROVE  CInv'
<1>1. /\ phase' = "code" /\ arg_count' = arg_count /\ args' = args /\ ops' = ops
      /\ caller_saved' = caller_saved /\ machine' = machine /\ others' = others
  BY DEF CallMade
<1>2. PhaseOK'
  BY <1>1 DEF CInv, PhaseOK
<1>3. CallTypeOK'
  BY <1>1 DEF CInv, CallTypeOK, IInv
<1> QED
  BY <1>1, <1>2, <1>3 DEF CInv

\* The value that alloc() is asked for: a literal, or the variable as it is after
\* what alloc() spilled has been stored.
LEMMA AllocAsks ==
  ASSUME CInv, HandlerAllocs
  PROVE  HoldsNone /\ Tail(todo) = AfterAlloc /\ \E v \in Value : Alloc(v)
<1>1. phase = "code" /\ todo # <<>>
  BY DEF HandlerAllocs, NextCall
<1>2. CASE Head(todo)[1] = "alloc" /\ Alloc(Arg)
  BY <1>1, <1>2, CallsToMake
<1>3. CASE Head(todo)[1] = "load" /\ Alloc(frame'[local_variable_map[Arg]])
  <2>1. HoldsNone /\ Arg \in DOMAIN local_variable_map /\ Tail(todo) = AfterAlloc
    BY <1>1, <1>3, CallsToMake
  <2> DEFINE o == local_variable_map[Arg]
  <2>2. o \in DOMAIN frame
    BY <2>1 DEF CInv, VarsInFrame
  <2>3. frame' = AllocFrame(reg_stack) /\ CanAlloc(reg_stack)
    BY <1>3 DEF Alloc, AllocStep
  <2> HIDE DEF o
  <2>4. frame'[o] \in Value
    <3>1. /\ reg_stack \in Seq(StackValue) /\ contents \in [Reg -> Value]
          /\ StackOK(reg_stack, DOMAIN frame, total_stack_size)
          /\ frame[o] \in Value
      BY <2>2, PartsOfIInv DEF CInv
    <3>2. CASE ~Spills
      BY <2>3, <3>1, <3>2 DEF AllocFrame
    <3>3. CASE Spills
      <4>1. PICK k \in 0..Len(reg_stack) : SpilledPrefix(reg_stack, k)
        BY <3>1 DEF StackOK
      <4>2. Victim(reg_stack) \in DOMAIN reg_stack
        BY <2>3, <3>1, <3>3, <4>1, VictimIsOldest DEF CanAlloc
      <4>3. contents[reg_stack[Victim(reg_stack)].reg] \in Value
        BY <3>1, <4>2, EntryTyped
      <4> QED
        BY <2>2, <2>3, <3>1, <3>3, <4>3 DEF AllocFrame
    <3> QED
      BY <3>2, <3>3
  <2> QED
    BY <1>3, <2>1, <2>4 DEF o
<1> QED
  BY <1>2, <1>3 DEF HandlerAllocs, NextCall

LEMMA AllocsOK ==
  ASSUME CInv, HandlerAllocs
  PROVE  CInv'
<1>1. /\ phase = "code"
      /\ taken' = Append(taken, AllocReg(reg_stack)) /\ todo' = Tail(todo)
      /\ local_variable_map' = local_variable_map /\ CallMade
  BY DEF HandlerAllocs, NextCall, CallMade
<1>2. PICK v \in Value : HoldsNone /\ Tail(todo) = AfterAlloc /\ Alloc(v)
  BY AllocAsks
<1>3. /\ IInv' /\ thrown' = thrown /\ DOMAIN frame \subseteq DOMAIN frame'
      /\ AllocReg(reg_stack) \in Reg
      /\ held' = held \cup {AllocReg(reg_stack)}
  BY <1>2, AllocGives DEF CInv
<1>4. PICK r \in Reg : taken' = <<r>> /\ held' = {r}
  BY <1>1, <1>2, <1>3 DEF HoldsNone
<1>5. HandlerStage'
  BY <1>1, <1>2, <1>4 DEF HandlerStage, LoadStage, HoldsOne
<1>6. taken' \in Seq(Reg)
  BY <1>4
<1>7. VarsInFrame' /\ DOMAIN local_variable_map' \subseteq Var
  BY <1>1, <1>3 DEF CInv, VarsInFrame, CallTypeOK
<1> QED
  BY <1>1, <1>3, <1>5, <1>6, <1>7, StageAdvances

LEMMA PopsOK ==
  ASSUME CInv, HandlerPops
  PROVE  CInv'
<1>1. /\ phase = "code" /\ todo # <<>> /\ Head(todo)[1] = "pop" /\ Pop
      /\ taken' = Append(taken, PopReg) /\ todo' = Tail(todo)
      /\ local_variable_map' = local_variable_map /\ CallMade
  BY DEF HandlerPops, NextCall, CallMade
<1>2. /\ IInv' /\ thrown' = thrown /\ DOMAIN frame \subseteq DOMAIN frame'
      /\ PopReg \in Reg \ held
      /\ held' = held \cup {PopReg}
  BY <1>1, PopGives DEF CInv
<1> DEFINE p == PopReg
<1>3. p \in Reg \ held /\ held' = held \cup {p} /\ taken' = Append(taken, p)
  BY <1>1, <1>2
<1> HIDE DEF p
<1>4. /\ HoldsNone => HoldsOne'
      /\ HoldsOne => HoldsTwo'
  <2>1. ASSUME HoldsNone PROVE HoldsOne'
    <3>1. taken' = <<p>> /\ held' = {p}
      BY <1>3, <2>1 DEF HoldsNone
    <3> QED
      BY <1>3, <3>1 DEF HoldsOne
  <2>2. ASSUME HoldsOne PROVE HoldsTwo'
    <3>1. PICK r \in Reg : taken = <<r>> /\ held = {r}
      BY <2>2 DEF HoldsOne
    <3>2. taken' = <<r, p>> /\ held' = {r, p} /\ r # p
      BY <1>3, <3>1, AppendTwo
    <3> QED
      BY <1>3, <3>2 DEF HoldsTwo
  <2> QED
    BY <2>1, <2>2
<1>5. HandlerStage'
  BY <1>1, <1>4, CallsToMake DEF HandlerStage, BinaryStage, StoreStage
<1>6. taken' \in Seq(Reg)
  BY <1>1, <1>2, AppendProperties DEF CInv, CallTypeOK
<1>7. VarsInFrame' /\ DOMAIN local_variable_map' \subseteq Var
  BY <1>1, <1>2 DEF CInv, VarsInFrame, CallTypeOK
<1> QED
  BY <1>1, <1>2, <1>5, <1>6, <1>7, StageAdvances

LEMMA ComputesOK ==
  ASSUME CInv, HandlerComputes
  PROVE  CInv'
<1>1. /\ phase = "code" /\ todo # <<>> /\ Head(todo)[1] = "compute"
      /\ Compute(taken[2], Op(contents[taken[2]], contents[taken[1]]))
      /\ todo' = Tail(todo) /\ taken' = taken
      /\ local_variable_map' = local_variable_map /\ CallMade
  BY DEF HandlerComputes, NextCall, CallMade
<1>2. HoldsTwo /\ Tail(todo) = AfterCompute
  BY <1>1, CallsToMake
<1>3. PICK r, q \in Reg : r # q /\ taken = <<r, q>> /\ held = {r, q}
  BY <1>2 DEF HoldsTwo
<1>4. contents \in [Reg -> Value]
  BY DEF CInv, IInv, TypeOK
<1>5. Op(contents[q], contents[r]) \in Value /\ taken[1] = r /\ taken[2] = q
  BY <1>3, <1>4, CallAssumption
<1>6. /\ contents' = [contents EXCEPT ![q] = Op(contents[q], contents[r])]
      /\ free_regs' = free_regs /\ reg_stack' = reg_stack /\ held' = held
      /\ total_stack_size' = total_stack_size /\ frame' = frame /\ thrown' = thrown
  BY <1>1, <1>5 DEF Compute
<1>7. contents' \in [Reg -> Value]
  BY <1>3, <1>4, <1>5, <1>6
<1>8. IInv'
  BY <1>6, <1>7, PartsOfIInv, PoolUntouched DEF CInv
<1>9. HandlerStage'
  BY <1>1, <1>2, <1>6 DEF HandlerStage, BinaryStage, HoldsTwo
<1>10. VarsInFrame' /\ DOMAIN local_variable_map' \subseteq Var /\ taken' \in Seq(Reg)
  BY <1>1, <1>6 DEF CInv, VarsInFrame, CallTypeOK
<1> QED
  BY <1>1, <1>6, <1>8, <1>9, <1>10, StageAdvances

LEMMA GivesBackOK ==
  ASSUME CInv, HandlerGivesBack
  PROVE  CInv'
<1>1. /\ phase = "code" /\ todo # <<>> /\ todo' = Tail(todo) /\ taken' = taken
      /\ local_variable_map' = local_variable_map /\ CallMade
  BY DEF HandlerGivesBack, NextCall, CallMade
<1>2. CASE Head(todo)[1] = "free" /\ Free(taken[Arg])
  <2>1. /\ Arg = 1
        /\ \/ HoldsTwo /\ Tail(todo) = AfterFree
           \/ HoldsOne /\ Tail(todo) = <<>>
    BY <1>1, <1>2, CallsToMake
  <2>2. /\ Free(taken[1]) /\ taken[1] \in held
        /\ held' = held \ {taken[1]} /\ thrown' = thrown /\ frame' = frame
    BY <1>2, <2>1 DEF Free
  <2>3. IInv'
    BY <2>2, FreePreserves DEF CInv
  <2>4. HandlerStage'
    <3>1. ASSUME HoldsTwo, Tail(todo) = AfterFree PROVE HandlerStage'
      <4>1. PICK r, q \in Reg : r # q /\ taken = <<r, q>> /\ held = {r, q}
        BY <3>1 DEF HoldsTwo
      <4>2. held' = {q} /\ taken' = <<r, q>>
        BY <1>1, <2>2, <4>1
      <4> QED
        BY <1>1, <3>1, <4>2 DEF HandlerStage, BinaryStage
    <3>2. ASSUME HoldsOne, Tail(todo) = <<>> PROVE HandlerStage'
      <4>1. PICK r \in Reg : taken = <<r>> /\ held = {r}
        BY <3>2 DEF HoldsOne
      <4>2. held' = {}
        BY <2>2, <4>1
      <4> QED
        BY <1>1, <3>2, <4>2 DEF HandlerStage
    <3> QED
      BY <2>1, <3>1, <3>2
  <2>5. VarsInFrame' /\ DOMAIN local_variable_map' \subseteq Var /\ taken' \in Seq(Reg)
    BY <1>1, <2>2 DEF CInv, VarsInFrame, CallTypeOK
  <2> QED
    BY <1>1, <2>2, <2>3, <2>4, <2>5, StageAdvances
<1>3. CASE Head(todo)[1] = "push" /\ Push(taken[Arg])
  <2>1. /\ Tail(todo) = <<>>
        /\ \/ HoldsOne /\ Arg = 1
           \/ Arg = 2 /\ \E r, q \in Reg : taken = <<r, q>> /\ held = {q}
    BY <1>1, <1>3, CallsToMake
  <2>2. /\ taken[Arg] \in held
        /\ held' = held \ {taken[Arg]} /\ thrown' = thrown /\ frame' = frame
    BY <1>3 DEF Push
  <2>3. IInv'
    BY <1>3, <2>2, PushPreserves DEF CInv
  <2>4. held = {taken[Arg]}
    BY <2>1 DEF HoldsOne
  <2>5. HandlerStage'
    BY <1>1, <2>1, <2>2, <2>4 DEF HandlerStage
  <2>6. VarsInFrame' /\ DOMAIN local_variable_map' \subseteq Var /\ taken' \in Seq(Reg)
    BY <1>1, <2>2 DEF CInv, VarsInFrame, CallTypeOK
  <2> QED
    BY <1>1, <2>2, <2>3, <2>5, <2>6, StageAdvances
<1> QED
  BY <1>2, <1>3 DEF HandlerGivesBack, NextCall

\* The value goes to a slot of the frame, a new one for a new variable.
LEMMA StoresOK ==
  ASSUME CInv, HandlerStores
  PROVE  CInv'
<1> DEFINE isNew == Arg \notin DOMAIN local_variable_map
           slot == IF isNew THEN total_stack_size + SlotSize ELSE local_variable_map[Arg]
<1>1. /\ phase = "code" /\ todo # <<>> /\ Head(todo)[1] = "store" /\ todo' = Tail(todo)
      /\ taken' = taken /\ CallMade
      /\ total_stack_size' = IF isNew THEN slot ELSE total_stack_size
      /\ local_variable_map' = [y \in DOMAIN local_variable_map \cup {Arg} |->
                                  IF y = Arg THEN slot ELSE local_variable_map[y]]
      /\ frame' = [o \in DOMAIN frame \cup {slot} |->
                     IF o = slot THEN contents[taken[1]] ELSE frame[o]]
      /\ free_regs' = free_regs /\ reg_stack' = reg_stack /\ held' = held
      /\ contents' = contents /\ thrown' = thrown
  BY DEF HandlerStores, NextCall, CallMade
<1>2. HoldsOne /\ Arg \in Var /\ Tail(todo) = AfterStore
  BY <1>1, CallsToMake
<1>3. PICK r \in Reg : taken = <<r>>
  BY <1>2 DEF HoldsOne
<1>4. /\ contents \in [Reg -> Value] /\ total_stack_size \in Nat
      /\ DOMAIN frame \subseteq Nat /\ \A o \in DOMAIN frame : frame[o] \in Value
  BY DEF CInv, IInv, TypeOK
<1>5. contents[taken[1]] \in Value
  BY <1>3, <1>4
<1>6. /\ slot \in Nat /\ total_stack_size' \in Nat /\ total_stack_size <= total_stack_size'
  <2>1. ~isNew => slot \in DOMAIN frame
    BY DEF CInv, VarsInFrame
  <2> QED
    BY <1>1, <1>4, <2>1, CallAssumption
<1> HIDE DEF slot, isNew
<1>7. /\ DOMAIN frame \subseteq DOMAIN frame' /\ DOMAIN frame' \subseteq Nat
      /\ \A o \in DOMAIN frame' : frame'[o] \in Value
  BY <1>1, <1>4, <1>5, <1>6
<1>8. IInv'
  BY <1>1, <1>4, <1>6, <1>7, PoolUntouched DEF CInv
<1>9. VarsInFrame'
  BY <1>1, <1>7 DEF CInv, VarsInFrame
<1>10. DOMAIN local_variable_map' \subseteq Var /\ taken' \in Seq(Reg)
  BY <1>1, <1>2 DEF CInv, CallTypeOK
<1>11. HandlerStage'
  BY <1>1, <1>2 DEF HandlerStage, StoreStage, HoldsOne
<1> QED
  BY <1>1, <1>8, <1>9, <1>10, <1>11, StageAdvances

-------------------------------------------------------------------------------
(* The steps of a call. *)

ArgRecord == [reg : Reg, off : Nat]

\* A step of a call changes nothing of the handlers around it.
LEMMA CallAdvances ==
  ASSUME CInv, phase # "code", InCall, IInv', PhaseOK',
         DOMAIN frame \subseteq DOMAIN frame',
         phase' \in {"collect", "missing", "move", "pushargs", "return", "restore", "abandoned"},
         thrown' => phase' = "collect",
         args' \in Seq(ArgRecord), Len(args') <= arg_count,
         caller_saved' \in Seq(Reg), machine' \in Seq(Value), others' \in [OtherRegs -> Value]
  PROVE  CInv'
<1>1. /\ todo' = todo /\ taken' = taken /\ local_variable_map' = local_variable_map
      /\ arg_count' = arg_count /\ ops' = ops
  BY DEF InCall
<1>2. CallTypeOK'
  BY <1>1 DEF CInv, CallTypeOK, IInv, ArgRecord
<1>3. VarsInFrame'
  BY <1>1 DEF CInv, VarsInFrame
<1> QED
  BY <1>1, <1>2, <1>3 DEF CInv

\* op_call is taken up.
LEMMA CallBegins ==
  ASSUME CInv, NEW n \in Arity, OpCall(n)
  PROVE  CInv'
<1>1. /\ Quiet /\ ~thrown /\ ops' = ops + 1 /\ taken' = <<>> /\ UNCHANGED vars
      /\ phase' = "collect" /\ arg_count' = n /\ args' = <<>> /\ todo' = todo
      /\ local_variable_map' = local_variable_map /\ caller_saved' = caller_saved
      /\ machine' = machine /\ others' = others
  BY DEF OpCall, Begin
<1>2. IInv' /\ held' = held /\ frame' = frame /\ thrown' = thrown
  BY <1>1, PoolUnchanged DEF CInv, vars
<1>3. phase = "code" /\ todo = <<>> /\ held = {} /\ caller_saved = <<>> /\ machine = <<>>
  BY <1>1 DEF Quiet, CInv, PhaseOK, HandlerStage, HoldsNone, HoldsOne, HoldsTwo,
              LoadStage, BinaryStage, StoreStage, AfterAlloc, AfterPop, AfterPops,
              AfterCompute, AfterFree, BeforeStore, AfterStore
<1>4. n \in Nat /\ taken' \in Seq(Reg) /\ args' \in Seq(ArgRecord) /\ Len(args') = 0
  BY <1>1, CallAssumption, EmptySeq
<1>5. CallTypeOK'
  BY <1>1, <1>2, <1>4 DEF CInv, CallTypeOK, IInv, ArgRecord
<1>6. DOMAIN args' = {} /\ InRegister' = {}
  BY <1>1, EmptySeq DEF InRegister
<1>7. ArgsHeld'
  BY <1>2, <1>3, <1>6 DEF ArgsHeld
<1>8. PhaseOK'
  BY <1>1, <1>3, <1>7 DEF PhaseOK
<1> QED
  BY <1>1, <1>2, <1>4, <1>5, <1>8 DEF CInv, VarsInFrame

\* One more argument, in a register the call did not hold.
LEMMA ArgsGrow ==
  ASSUME args \in Seq(ArgRecord), ArgsHeld, NEW p \in Reg \ held,
         args' = Append(args, [reg |-> p, off |-> 0]), held' = held \cup {p},
         DOMAIN frame \subseteq DOMAIN frame'
  PROVE  /\ ArgsHeld' /\ args' \in Seq(ArgRecord)
         /\ Len(args') = Len(args) + 1 /\ Len(args) \in Nat
<1> DEFINE a == [reg |-> p, off |-> 0]
           n == Len(args)
<1>1. a \in ArgRecord /\ a.reg = p /\ a.off = 0
  BY DEF ArgRecord
<1> HIDE DEF a
<1>2. args' = Append(args, a)
  BY DEF a
<1>3. /\ args' \in Seq(ArgRecord) /\ Len(args') = n + 1 /\ n \in Nat
      /\ DOMAIN args' = 1..n + 1 /\ DOMAIN args = 1..n
      /\ \A i \in 1..n : args'[i] = args[i]
      /\ args'[n + 1] = a
  BY <1>1, <1>2, AppendFacts
<1> HIDE DEF n
<1>4. InRegister' = InRegister \cup {n + 1}
  BY <1>1, <1>3 DEF InRegister
<1>5. InRegister \subseteq 1..n
  BY <1>3 DEF InRegister
<1>6. held' = {args'[k].reg : k \in InRegister'}
  BY <1>1, <1>3, <1>4, <1>5 DEF ArgsHeld
<1>7. ASSUME NEW j \in InRegister', NEW k \in InRegister', args'[j].reg = args'[k].reg
      PROVE  j = k
  <2>1. \A i \in InRegister : args'[i].reg = args[i].reg /\ args[i].reg \in held
    BY <1>3, <1>5 DEF ArgsHeld
  <2>2. args'[n + 1].reg = p
    BY <1>1, <1>3
  <2>3. \A i \in InRegister : args'[i].reg # args'[n + 1].reg
    BY <2>1, <2>2
  <2>4. CASE j \in InRegister /\ k \in InRegister
    BY <1>7, <2>1, <2>4 DEF ArgsHeld
  <2> QED
    BY <1>4, <1>7, <2>3, <2>4
<1>8. \A k \in DOMAIN args' \ InRegister' : args'[k].off \in DOMAIN frame'
  BY <1>3, <1>4 DEF ArgsHeld
<1> QED
  BY <1>3, <1>6, <1>7, <1>8 DEF ArgsHeld, n

\* The facts of CInv the steps of a call start from.
LEMMA InCallFacts ==
  ASSUME CInv
  PROVE  /\ IInv /\ args \in Seq(ArgRecord) /\ Len(args) <= arg_count /\ arg_count \in Nat
         /\ caller_saved \in Seq(Reg) /\ machine \in Seq(Value) /\ others \in [OtherRegs -> Value]
         /\ contents \in [Reg -> Value] /\ total_stack_size \in Nat
         /\ DOMAIN frame \subseteq Nat /\ \A o \in DOMAIN frame : frame[o] \in Value
         /\ phase # "code" => todo = <<>>
BY DEF CInv, CallTypeOK, IInv, TypeOK, PhaseOK, ArgRecord

LEMMA CollectArgOK ==
  ASSUME CInv, CollectArg
  PROVE  CInv'
<1>1. /\ phase = "collect" /\ ~thrown /\ Len(args) < arg_count /\ Pop
      /\ args' = Append(args, [reg |-> PopReg, off |-> 0])
      /\ phase' = phase /\ caller_saved' = caller_saved /\ machine' = machine
      /\ others' = others /\ InCall
  BY DEF CollectArg, Collecting
<1>2. /\ IInv' /\ thrown' = thrown /\ PopReg \in Reg \ held
      /\ held' = held \cup {PopReg} /\ DOMAIN frame \subseteq DOMAIN frame'
  BY <1>1, PopGives DEF CInv
<1>3. ArgsHeld /\ caller_saved = <<>> /\ machine = <<>> /\ todo = <<>>
  BY <1>1 DEF CInv, PhaseOK
<1> DEFINE p == PopReg
<1>4. p \in Reg \ held /\ args' = Append(args, [reg |-> p, off |-> 0]) /\ held' = held \cup {p}
  BY <1>1, <1>2
<1> HIDE DEF p
<1>5. ArgsHeld' /\ args' \in Seq(ArgRecord) /\ Len(args') = Len(args) + 1 /\ Len(args) \in Nat
  BY <1>2, <1>3, <1>4, ArgsGrow, InCallFacts
<1>6. PhaseOK'
  BY <1>1, <1>3, <1>5 DEF PhaseOK, InCall
<1> QED
  BY <1>1, <1>2, <1>5, <1>6, CallAdvances, InCallFacts

LEMMA CollectMissingOK ==
  ASSUME CInv, CollectMissing
  PROVE  CInv'
<1>1. /\ phase = "missing" /\ PopEmpty
      /\ args' = Append(args, [reg |-> PopReg, off |-> 0])
      /\ phase' = "collect" /\ caller_saved' = caller_saved /\ machine' = machine
      /\ others' = others /\ InCall
  BY DEF CollectMissing
<1>2. /\ IInv' /\ thrown' = thrown /\ PopReg \in Reg \ held
      /\ held' = held \cup {PopReg} /\ DOMAIN frame \subseteq DOMAIN frame'
  BY <1>1, PopEmptyGives DEF CInv
<1>3. /\ ArgsHeld /\ caller_saved = <<>> /\ machine = <<>> /\ todo = <<>>
      /\ Len(args) < arg_count
  BY <1>1 DEF CInv, PhaseOK
<1> DEFINE p == PopReg
<1>4. p \in Reg \ held /\ args' = Append(args, [reg |-> p, off |-> 0]) /\ held' = held \cup {p}
  BY <1>1, <1>2
<1> HIDE DEF p
<1>5. ArgsHeld' /\ args' \in Seq(ArgRecord) /\ Len(args') = Len(args) + 1 /\ Len(args) \in Nat
  BY <1>2, <1>3, <1>4, ArgsGrow, InCallFacts
<1>6. PhaseOK'
  BY <1>1, <1>3, <1>5 DEF PhaseOK, InCall
<1> QED
  BY <1>1, <1>2, <1>3, <1>5, <1>6, CallAdvances, InCallFacts

\* spill_collected_args() moves the value of a collected argument to the frame.
LEMMA SpillCollectedOK ==
  ASSUME CInv, SpillCollected
  PROVE  CInv'
<1> DEFINE k == Min(InRegister)
           r == args[k].reg
<1>1. /\ phase = "collect" /\ ~thrown /\ Len(args) < arg_count /\ InRegister # {}
      /\ total_stack_size' = NewSlot
      /\ frame' = [o \in DOMAIN frame \cup {NewSlot} |->
                     IF o = NewSlot THEN contents[r] ELSE frame[o]]
      /\ free_regs' = Append(free_regs, r) /\ held' = held \ {r}
      /\ args' = [args EXCEPT ![k].off = NewSlot]
      /\ phase' = "missing" /\ InCall
      /\ reg_stack' = reg_stack /\ contents' = contents /\ thrown' = thrown
      /\ caller_saved' = caller_saved /\ machine' = machine /\ others' = others
  BY DEF SpillCollected, Collecting
<1>2. /\ ArgsHeld /\ caller_saved = <<>> /\ machine = <<>> /\ todo = <<>>
  BY <1>1 DEF CInv, PhaseOK
<1>3. /\ args \in Seq(ArgRecord) /\ DOMAIN args = 1..Len(args) /\ Len(args) \in Nat
      /\ contents \in [Reg -> Value] /\ total_stack_size \in Nat
      /\ DOMAIN frame \subseteq Nat /\ \A o \in DOMAIN frame : frame[o] \in Value
  BY InCallFacts, LenProperties
<1>4. k \in InRegister
  <2>1. InRegister \in SUBSET Nat
    BY <1>3 DEF InRegister
  <2> QED
    BY <1>1, <2>1, MinFacts
<1> HIDE DEF k
<1>5. /\ r \in held /\ r \in Reg
      /\ \A i \in InRegister : i # k => args[i].reg # r
  <2>1. args[k] \in ArgRecord
    BY <1>3, <1>4, ElementOfSeq DEF InRegister
  <2>2. r \in Reg
    BY <2>1 DEF ArgRecord
  <2>3. r \in held
    BY <1>2, <1>4 DEF ArgsHeld
  <2>4. \A i \in InRegister : i # k => args[i].reg # r
    BY <1>2, <1>4 DEF ArgsHeld
  <2> QED
    BY <2>2, <2>3, <2>4
<1>6. /\ NewSlot \in Nat /\ NewSlot # 0 /\ total_stack_size <= NewSlot
  BY <1>3, PoolAssumption DEF NewSlot
<1> DEFINE slot == NewSlot
           a == [reg |-> r, off |-> slot]
<1>7. args' = [args EXCEPT ![k] = a] /\ a \in ArgRecord /\ a.off = slot /\ a.reg = r
  <2>1. args[k] \in ArgRecord
    BY <1>3, <1>4, ElementOfSeq DEF InRegister
  <2>2. [args[k] EXCEPT !.off = NewSlot] = a
    BY <2>1 DEF ArgRecord
  <2>3. args' = [args EXCEPT ![k] = [args[k] EXCEPT !.off = NewSlot]]
    BY <1>1
  <2>4. a \in ArgRecord /\ a.off = slot /\ a.reg = r
    BY <1>5, <1>6 DEF ArgRecord
  <2> QED
    BY <2>2, <2>3, <2>4
<1>8. /\ DOMAIN frame' = DOMAIN frame \cup {slot} /\ DOMAIN frame' \subseteq Nat
      /\ \A o \in DOMAIN frame' : frame'[o] \in Value
      /\ total_stack_size' = slot /\ slot \in Nat /\ slot # 0 /\ total_stack_size <= slot
  BY <1>1, <1>3, <1>5, <1>6
<1> HIDE DEF r, slot, a
<1>9. IInv'
  BY <1>1, <1>3, <1>5, <1>8, RegisterGivenBack, InCallFacts
<1>10. /\ args' \in Seq(ArgRecord) /\ Len(args') = Len(args) /\ DOMAIN args' = DOMAIN args
       /\ args'[k] = a /\ k \in DOMAIN args
       /\ \A i \in DOMAIN args : i # k => args'[i] = args[i]
  <2>1. args' \in [1..Len(args) -> ArgRecord]
    <3>1. args \in [1..Len(args) -> ArgRecord]
      BY <1>3
    <3> QED
      BY <1>7, <3>1
  <2> QED
    BY <1>3, <1>4, <1>7, <2>1, FunctionIsSeq DEF InRegister
<1>11. InRegister' = InRegister \ {k}
  BY <1>7, <1>8, <1>10 DEF InRegister
<1>12. held' = {args'[i].reg : i \in InRegister'}
  <2>1. \A i \in InRegister' : args'[i].reg = args[i].reg /\ i \in InRegister /\ i # k
    BY <1>10, <1>11 DEF InRegister
  <2>2. ASSUME NEW q \in held, q # r PROVE q \in {args'[i].reg : i \in InRegister'}
    <3>1. PICK i \in InRegister : q = args[i].reg
      BY <1>2 DEF ArgsHeld
    <3>2. i # k
      BY <2>2, <3>1 DEF r
    <3> QED
      BY <1>11, <2>1, <3>1, <3>2
  <2>3. ASSUME NEW i \in InRegister' PROVE args'[i].reg \in held \ {r}
    BY <1>2, <1>5, <2>1 DEF ArgsHeld
  <2> QED
    BY <1>1, <2>2, <2>3
<1>13. \A i, j \in InRegister' : args'[i].reg = args'[j].reg => i = j
  BY <1>2, <1>10, <1>11 DEF ArgsHeld, InRegister
<1>14. \A i \in DOMAIN args' \ InRegister' : args'[i].off \in DOMAIN frame'
  BY <1>2, <1>7, <1>8, <1>10, <1>11 DEF ArgsHeld
<1>15. PhaseOK'
  BY <1>1, <1>2, <1>10, <1>12, <1>13, <1>14 DEF PhaseOK, InCall, ArgsHeld
<1> QED
  BY <1>1, <1>8, <1>9, <1>10, <1>15, CallAdvances, InCallFacts

\* The steps that end the compilation of a call early.
LEMMA CallGivesUpOK ==
  ASSUME CInv, CollectNothing \/ CollectFails \/ ReloadFails
  PROVE  CInv'
<1>1. CASE CollectNothing
  <2>1. /\ phase = "collect" /\ ~thrown /\ phase' = "abandoned" /\ UNCHANGED vars /\ InCall
        /\ args' = args /\ caller_saved' = caller_saved /\ machine' = machine /\ others' = others
    BY <1>1 DEF CollectNothing, Collecting
  <2>2. IInv' /\ frame' = frame /\ thrown' = thrown /\ todo' = todo
    BY <2>1, PoolUnchanged DEF CInv, vars, InCall
  <2>3. PhaseOK'
    BY <2>1, <2>2 DEF CInv, PhaseOK
  <2> QED
    BY <2>1, <2>2, <2>3, CallAdvances, InCallFacts
<1>2. CASE CollectFails \/ ReloadFails
  <2>1. /\ phase = "collect" /\ phase' = phase /\ InCall
    BY <1>2 DEF CollectFails, ReloadFails, Collecting, Collected
  <2>2. /\ args' = args /\ caller_saved' = caller_saved /\ machine' = machine /\ others' = others
    BY <1>2 DEF CollectFails, ReloadFails
  <2>3. /\ held' = held /\ frame' = frame /\ InCall /\ phase' = "collect" /\ phase = "collect"
    BY <1>2, <2>1 DEF AllocFails, PopFails, AllocThrows, CollectFails, ReloadFails
  <2>4. IInv'
    BY <1>2, FailurePreserves DEF CInv, CollectFails, ReloadFails
  <2>5. ArgsHeld'
    BY <2>2, <2>3 DEF CInv, PhaseOK, ArgsHeld, InRegister
  <2>6. PhaseOK'
    BY <2>2, <2>3, <2>5 DEF CInv, PhaseOK, InCall
  <2> QED
    BY <2>2, <2>3, <2>4, <2>6, CallAdvances, InCallFacts
<1> QED
  BY <1>1, <1>2

\* A spilled argument is reloaded into a register the call did not hold.
LEMMA ReloadArgOK ==
  ASSUME CInv, ReloadArg
  PROVE  CInv'
<1> DEFINE k == Min(DOMAIN args \ InRegister)
           v == frame[args[k].off]
           p == AllocReg(reg_stack)
           a == [reg |-> p, off |-> 0]
<1>1. /\ phase = "collect" /\ ~thrown /\ Len(args) = arg_count /\ InRegister # DOMAIN args
      /\ Alloc(v)
      /\ args' = [args EXCEPT ![k] = a]
      /\ phase' = "collect" /\ InCall
      /\ caller_saved' = caller_saved /\ machine' = machine /\ others' = others
  BY DEF ReloadArg, Collected
<1>2. /\ ArgsHeld /\ caller_saved = <<>> /\ machine = <<>> /\ todo = <<>>
  BY <1>1 DEF CInv, PhaseOK
<1>3. /\ args \in Seq(ArgRecord) /\ DOMAIN args = 1..Len(args) /\ Len(args) \in Nat
      /\ \A o \in DOMAIN frame : frame[o] \in Value
  BY InCallFacts, LenProperties
<1>4. k \in DOMAIN args /\ k \notin InRegister
  <2>1. DOMAIN args \ InRegister \in SUBSET Nat
    BY <1>3
  <2>2. DOMAIN args \ InRegister # {}
    BY <1>1 DEF InRegister
  <2> QED
    BY <2>1, <2>2, MinFacts
<1> HIDE DEF k
<1>5. v \in Value
  BY <1>2, <1>3, <1>4 DEF ArgsHeld
<1> HIDE DEF v
<1>6. /\ IInv' /\ thrown' = thrown /\ DOMAIN frame \subseteq DOMAIN frame'
      /\ p \in Reg \ held /\ held' = held \cup {p}
  BY <1>1, <1>5, AllocGives DEF CInv
<1>7. a \in ArgRecord /\ a.reg = p /\ a.off = 0
  BY <1>6 DEF ArgRecord
<1> HIDE DEF p, a
<1>8. /\ args' \in Seq(ArgRecord) /\ Len(args') = Len(args) /\ DOMAIN args' = DOMAIN args
      /\ args'[k] = a
      /\ \A i \in DOMAIN args : i # k => args'[i] = args[i]
  <2>1. args' \in [1..Len(args) -> ArgRecord]
    <3>1. args \in [1..Len(args) -> ArgRecord]
      BY <1>3
    <3> QED
      BY <1>1, <1>7, <3>1
  <2> QED
    BY <1>1, <1>3, <1>4, <2>1, FunctionIsSeq
<1>9. InRegister' = InRegister \cup {k} /\ InRegister \subseteq DOMAIN args
  BY <1>4, <1>7, <1>8 DEF InRegister
<1>10. \A i \in InRegister : args'[i].reg = args[i].reg /\ args[i].reg \in held
  BY <1>2, <1>4, <1>8, <1>9 DEF ArgsHeld
<1>11. args'[k].reg = p
  BY <1>7, <1>8
<1>12. held' = {args'[i].reg : i \in InRegister'}
  BY <1>2, <1>6, <1>9, <1>10, <1>11 DEF ArgsHeld
<1>13. ASSUME NEW i \in InRegister', NEW j \in InRegister', args'[i].reg = args'[j].reg
       PROVE  i = j
  <2>1. \A n \in InRegister : args'[n].reg # args'[k].reg
    BY <1>6, <1>10, <1>11
  <2>2. CASE i \in InRegister /\ j \in InRegister
    BY <1>2, <1>10, <1>13, <2>2 DEF ArgsHeld
  <2> QED
    BY <1>9, <1>13, <2>1, <2>2
<1>14. \A i \in DOMAIN args' \ InRegister' : args'[i].off \in DOMAIN frame'
  BY <1>2, <1>6, <1>8, <1>9 DEF ArgsHeld
<1>15. PhaseOK'
  BY <1>1, <1>2, <1>12, <1>13, <1>14 DEF PhaseOK, InCall, ArgsHeld
<1> QED
  BY <1>1, <1>6, <1>8, <1>15, CallAdvances, InCallFacts

\* std::reverse moves every argument, and the call holds the same registers.
LEMMA ReverseArgsOK ==
  ASSUME CInv, ReverseArgs
  PROVE  CInv'
<1>1. /\ phase = "collect" /\ ~thrown /\ Len(args) = arg_count /\ InRegister = DOMAIN args
      /\ args' = Reverse(args) /\ phase' = "move" /\ InCall /\ UNCHANGED vars
      /\ caller_saved' = caller_saved /\ machine' = machine /\ others' = others
  BY DEF ReverseArgs, Collected
<1>2. /\ ArgsHeld /\ caller_saved = <<>> /\ machine = <<>> /\ todo = <<>>
  BY <1>1 DEF CInv, PhaseOK
<1>3. IInv' /\ held' = held /\ frame' = frame /\ thrown' = thrown
  BY <1>1, PoolUnchanged DEF CInv, vars
<1> DEFINE n == Len(args)
<1>4. /\ args' \in Seq(ArgRecord) /\ Len(args') = n /\ n \in Nat
      /\ DOMAIN args' = 1..n /\ DOMAIN args = 1..n
      /\ \A i \in 1..n : args'[i] = args[n - i + 1]
  BY <1>1, InCallFacts, ReverseFacts
<1> HIDE DEF n
<1>5. \A i \in 1..n : n - i + 1 \in 1..n /\ n - (n - i + 1) + 1 = i
  BY <1>4
<1>6. \A i \in 1..n : args[i] = args'[n - i + 1]
  BY <1>4, <1>5
<1>7. InRegister' = DOMAIN args'
  <2>1. \A i \in 1..n : args[i].off = 0
    BY <1>1, <1>4 DEF InRegister
  <2> QED
    BY <1>4, <1>5, <2>1 DEF InRegister
<1>8. held' = {args'[i].reg : i \in InRegister'}
  <2>1. held = {args[i].reg : i \in 1..n}
    BY <1>1, <1>2, <1>4 DEF ArgsHeld
  <2> QED
    BY <1>3, <1>4, <1>5, <1>6, <1>7, <2>1
<1>9. \A i, j \in InRegister' : args'[i].reg = args'[j].reg => i = j
  <2> SUFFICES ASSUME NEW i \in 1..n, NEW j \in 1..n, args'[i].reg = args'[j].reg
               PROVE  i = j
    BY <1>4, <1>7
  <2>1. n - i + 1 = n - j + 1
    BY <1>1, <1>2, <1>4, <1>5 DEF ArgsHeld
  <2> QED
    BY <1>4, <2>1
<1>10. ArgsHeld' /\ AllInRegister'
  BY <1>7, <1>8, <1>9 DEF ArgsHeld, AllInRegister
<1>11. Len(machine') = SavedCells'
  <2>1. Len(machine') = 0 /\ Len(caller_saved') = 0
    BY <1>1, <1>2
  <2> QED
    BY <2>1, PoolAssumption DEF SavedCells
<1>12. PhaseOK'
  BY <1>1, <1>2, <1>10, <1>11 DEF PhaseOK, InCall
<1> QED
  BY <1>1, <1>3, <1>4, <1>12, CallAdvances, InCallFacts DEF n

\* A register is saved in RegSize cells of the machine stack.
LEMMA SaveCallerSavedOK ==
  ASSUME CInv, NEW i \in Unsaved, SaveCallerSaved(i)
  PROVE  CInv'
<1> DEFINE r == IF StackOrder THEN reg_stack[i].reg ELSE CallerSaved[i]
<1>1. /\ phase = "move" /\ phase' = phase /\ args' = args /\ UNCHANGED vars /\ InCall
      /\ caller_saved' = Append(caller_saved, r) /\ machine' = machine \o Cells(contents[r])
      /\ others' = others
  BY DEF SaveCallerSaved
<1>2. IInv' /\ held' = held /\ frame' = frame /\ thrown' = thrown
  BY <1>1, PoolUnchanged DEF CInv, vars
<1>3. r \in Reg
  <2>1. CASE StackOrder
    <3>1. i \in DOMAIN reg_stack /\ reg_stack \in Seq(StackValue)
      BY <2>1 DEF Unsaved, Unspilled, CInv, IInv, TypeOK
    <3> QED
      BY <2>1, <3>1, EntryTyped
  <2>2. CASE ~StackOrder
    <3>1. i \in DOMAIN CallerSaved /\ CallerSaved \in Seq(Reg)
      BY <2>2, CallAssumption DEF Unsaved
    <3> QED
      BY <2>2, <3>1, LenProperties, ElementOfSeq
  <2> QED
    BY <2>1, <2>2
<1> HIDE DEF r
<1>4. Cells(contents[r]) \in [1..RegSize -> Value] /\ RegSize \in Nat
  BY <1>3, InCallFacts, CallAssumption, PoolAssumption DEF Cells
<1>5. /\ machine' \in Seq(Value) /\ Len(machine') = Len(machine) + RegSize
      /\ caller_saved' \in Seq(Reg) /\ Len(caller_saved') = Len(caller_saved) + 1
      /\ Len(caller_saved) \in Nat
  BY <1>1, <1>3, <1>4, InCallFacts, ConcatFacts, AppendFacts
<1>6. /\ ArgsHeld /\ AllInRegister /\ Len(machine) = RegSize * Len(caller_saved) /\ todo = <<>>
  BY <1>1 DEF CInv, PhaseOK, SavedCells
<1>7. Len(machine') = RegSize * Len(caller_saved')
  BY <1>4, <1>5, <1>6
<1>8. ArgsHeld' /\ AllInRegister'
  BY <1>1, <1>2, <1>6 DEF ArgsHeld, AllInRegister, InRegister
<1>9. PhaseOK'
  BY <1>1, <1>6, <1>7, <1>8 DEF PhaseOK, InCall, SavedCells
<1> QED
  <2>1. thrown' => phase' = "collect"
    BY <1>1, <1>2 DEF CInv
  <2> QED
    BY <1>1, <1>2, <1>5, <1>9, <2>1, CallAdvances, InCallFacts

\* The cells of the arguments passed on the stack, and of the padding below them.
LEMMA StackCells ==
  ASSUME CInv
  PROVE  StackArgs \in Nat /\ Padding \in Nat /\ SavedCells \in Nat /\ Len(ArgRegs) \in Nat
<1>1. Len(ArgRegs) \in Nat /\ arg_count \in Nat /\ Len(caller_saved) \in Nat
      /\ RegSize \in Nat /\ total_stack_size \in Nat
  BY CallAssumption, PoolAssumption, InCallFacts, LenProperties
<1>2. StackArgs \in Nat
  BY <1>1 DEF StackArgs
<1>3. SavedCells \in Nat
  BY <1>1 DEF SavedCells
<1>4. Padding \in Nat
  <2> DEFINE m == (total_stack_size + SavedCells + StackArgs) % 2
  <2>1. m \in 0..1
    BY <1>1, <1>2, <1>3
  <2>2. Padding = (1 + 2 - m) % 2
    BY DEF Padding, SavedCells
  <2> HIDE DEF m
  <2> QED
    BY <2>1, <2>2
<1> QED
  BY <1>1, <1>2, <1>3, <1>4

\* The registers the code reads and writes hold values.
LEMMA ReadTyped ==
  ASSUME CInv, NEW r \in Reg \cup OtherRegs
  PROVE  Read(r) \in Value
BY InCallFacts DEF Read

LEMMA ArgRegTyped ==
  ASSUME NEW i \in 1..Len(ArgRegs)
  PROVE  ArgRegs[i] \in Reg \cup OtherRegs
BY CallAssumption, LenProperties DEF OtherRegs, Range

\* An argument leaves its register, which goes back to the pool; `rest' is args'.
LEMMA ArgsShrink ==
  ASSUME args \in Seq(ArgRecord), ArgsHeld, AllInRegister,
         NEW d \in DOMAIN args, held' = held \ {args[d].reg}, frame' = frame,
         args' \in Seq(ArgRecord), Len(args') = Len(args) - 1,
         \A i \in 1..(Len(args) - 1) : args'[i] = args[IF i < d THEN i ELSE i + 1]
  PROVE  /\ ArgsHeld' /\ AllInRegister'
         /\ args[d].reg \in held /\ args[d].reg \in Reg
<1> DEFINE n == Len(args)
           at(i) == IF i < d THEN i ELSE i + 1
<1>1. /\ DOMAIN args = 1..n /\ n \in Nat \ {0} /\ d \in 1..n
      /\ DOMAIN args' = 1..(n - 1)
      /\ \A i \in 1..n : args[i] \in ArgRecord
  BY LenProperties, ElementOfSeq
<1>2. \A i \in 1..n : args[i].off = 0 /\ args[i].reg \in Reg
  BY <1>1 DEF AllInRegister, InRegister, ArgRecord
<1>3. \A i, j \in 1..n : args[i].reg = args[j].reg => i = j
  BY <1>1 DEF AllInRegister, ArgsHeld
<1>4. held = {args[i].reg : i \in 1..n}
  BY <1>1 DEF AllInRegister, ArgsHeld
<1>5. \A i \in 1..(n - 1) : args'[i] = args[at(i)] /\ at(i) \in 1..n /\ at(i) # d
  BY <1>1
<1>6. \A j \in 1..n : j # d => \E i \in 1..(n - 1) : at(i) = j
  <2> SUFFICES ASSUME NEW j \in 1..n, j # d PROVE \E i \in 1..(n - 1) : at(i) = j
    OBVIOUS
  <2>1. CASE j < d
    BY <1>1, <2>1
  <2>2. CASE j > d
    <3>1. j - 1 \in 1..(n - 1) /\ at(j - 1) = j
      BY <1>1, <2>2
    <3> QED
      BY <3>1
  <2> QED
    BY <1>1, <2>1, <2>2
<1>7. \A i, j \in 1..(n - 1) : at(i) = at(j) => i = j
  BY <1>1
<1> HIDE DEF n, at
<1>8. InRegister' = 1..(n - 1)
  BY <1>1, <1>2, <1>5 DEF InRegister
<1>9. held' = {args'[i].reg : i \in 1..(n - 1)}
  <2>1. ASSUME NEW q \in held, q # args[d].reg PROVE q \in {args'[i].reg : i \in 1..(n - 1)}
    <3>1. PICK j \in 1..n : q = args[j].reg
      BY <1>4
    <3>2. PICK i \in 1..(n - 1) : at(i) = j
      BY <1>6, <2>1, <3>1
    <3> QED
      BY <1>5, <3>1, <3>2
  <2>2. ASSUME NEW i \in 1..(n - 1) PROVE args'[i].reg \in held \ {args[d].reg}
    BY <1>1, <1>3, <1>4, <1>5
  <2> QED
    BY <2>1, <2>2
<1>10. \A i, j \in 1..(n - 1) : args'[i].reg = args'[j].reg => i = j
  BY <1>3, <1>5, <1>7
<1> QED
  BY <1>1, <1>2, <1>4, <1>8, <1>9, <1>10 DEF ArgsHeld, AllInRegister

\* The first argument moves to the next argument register.
LEMMA MoveArgOK ==
  ASSUME CInv, MoveArg
  PROVE  CInv'
<1> DEFINE r == Head(args).reg
<1>1. /\ phase = "move" /\ args # <<>> /\ ArgIndex <= Len(ArgRegs)
      /\ Write(ArgRegs[ArgIndex], Read(r))
      /\ free_regs' = Append(free_regs, r) /\ held' = held \ {r}
      /\ args' = Tail(args) /\ InCall
      /\ reg_stack' = reg_stack /\ total_stack_size' = total_stack_size /\ frame' = frame
      /\ thrown' = thrown /\ phase' = phase /\ caller_saved' = caller_saved /\ machine' = machine
  BY DEF MoveArg
<1>2. ArgsHeld /\ AllInRegister /\ Len(machine) = SavedCells /\ todo = <<>> /\ ~thrown
  BY <1>1 DEF CInv, PhaseOK
<1>3. /\ args' \in Seq(ArgRecord) /\ Len(args') = Len(args) - 1
      /\ 1 \in DOMAIN args /\ Head(args) = args[1] /\ Len(args) \in Nat \ {0}
      /\ \A i \in 1..(Len(args) - 1) : args'[i] = args[i + 1]
  BY <1>1, InCallFacts, TailFacts
<1>4. \A i \in 1..(Len(args) - 1) : args'[i] = args[IF i < 1 THEN i ELSE i + 1]
  BY <1>3
<1>5. ArgsHeld' /\ AllInRegister' /\ r \in held /\ r \in Reg
  BY <1>1, <1>2, <1>3, <1>4, ArgsShrink, InCallFacts
<1> HIDE DEF r
<1>6. Read(r) \in Value
  BY <1>5, ReadTyped
<1>7. contents' \in [Reg -> Value] /\ others' \in [OtherRegs -> Value]
  BY <1>1, <1>6, InCallFacts DEF Write
<1>8. IInv'
  BY <1>1, <1>2, <1>5, <1>7, RegisterGivenBack, InCallFacts
<1>9. PhaseOK'
  BY <1>1, <1>2, <1>5 DEF PhaseOK, InCall, SavedCells
<1> QED
  BY <1>1, <1>2, <1>3, <1>7, <1>8, <1>9, CallAdvances, InCallFacts

\* The padding is pushed, and the arguments left are the ones for the stack.
LEMMA PadOK ==
  ASSUME CInv, Pad
  PROVE  CInv'
<1>1. /\ phase = "move" /\ Len(args) = StackArgs /\ phase' = "pushargs"
      /\ machine' = machine \o [i \in 1..Padding |-> Junk] /\ UNCHANGED vars /\ InCall
      /\ args' = args /\ caller_saved' = caller_saved /\ others' = others
  BY DEF Pad
<1>2. IInv' /\ held' = held /\ frame' = frame /\ thrown' = thrown
      /\ total_stack_size' = total_stack_size
  BY <1>1, PoolUnchanged DEF CInv, vars
<1>3. ArgsHeld /\ AllInRegister /\ Len(machine) = SavedCells /\ todo = <<>> /\ ~thrown
  BY <1>1 DEF CInv, PhaseOK
<1>4. StackArgs \in Nat /\ Padding \in Nat /\ SavedCells \in Nat
  BY StackCells
<1>5. PICK padding \in [1..Padding -> Value] : machine' = machine \o padding
  <2>1. [i \in 1..Padding |-> Junk] \in [1..Padding -> Value]
    BY CallAssumption
  <2> QED
    BY <1>1, <2>1
<1>6. machine' \in Seq(Value) /\ Len(machine') = Len(machine) + Padding
  <2>1. machine \in Seq(Value)
    BY InCallFacts
  <2>2. machine \o padding \in Seq(Value) /\ Len(machine \o padding) = Len(machine) + Padding
    BY <1>4, <2>1, ConcatFacts
  <2> QED
    BY <1>5, <2>2
<1>7. StackArgs' = StackArgs /\ Padding' = Padding /\ SavedCells' = SavedCells
  BY <1>1, <1>2 DEF StackArgs, Padding, SavedCells, InCall
<1>8. ArgsHeld' /\ AllInRegister'
  BY <1>1, <1>2, <1>3 DEF ArgsHeld, AllInRegister, InRegister
<1>9. Len(machine') = SavedCells + Padding + (StackArgs - Len(args))
  BY <1>1, <1>3, <1>4, <1>6
<1>10. Len(args') <= StackArgs'
  BY <1>1, <1>4, <1>7
<1>11. PhaseOK'
  BY <1>1, <1>3, <1>7, <1>8, <1>9, <1>10 DEF PhaseOK, InCall
<1> QED
  BY <1>1, <1>2, <1>3, <1>6, <1>11, CallAdvances, InCallFacts

\* The last argument is pushed.
LEMMA PushStackArgOK ==
  ASSUME CInv, PushStackArg
  PROVE  CInv'
<1> DEFINE r == Last(args).reg
<1>1. /\ phase = "pushargs" /\ args # <<>> /\ machine' = Append(machine, Read(r))
      /\ free_regs' = Append(free_regs, r) /\ held' = held \ {r}
      /\ args' = Front(args) /\ InCall
      /\ reg_stack' = reg_stack /\ total_stack_size' = total_stack_size /\ frame' = frame
      /\ thrown' = thrown /\ contents' = contents /\ phase' = phase
      /\ caller_saved' = caller_saved /\ others' = others
  BY DEF PushStackArg
<1>2. /\ ArgsHeld /\ AllInRegister /\ todo = <<>> /\ ~thrown
      /\ Len(args) <= StackArgs
      /\ Len(machine) = SavedCells + Padding + (StackArgs - Len(args))
  BY <1>1 DEF CInv, PhaseOK
<1>3. StackArgs \in Nat /\ Padding \in Nat /\ SavedCells \in Nat
  BY StackCells
<1> DEFINE n == Len(args)
<1>4. /\ args' \in Seq(ArgRecord) /\ Len(args') = n - 1
      /\ n \in DOMAIN args /\ Last(args) = args[n] /\ n \in Nat \ {0}
      /\ \A i \in 1..(n - 1) : args'[i] = args[i]
  <2>1. /\ Front(args) \in Seq(ArgRecord) /\ Len(Front(args)) = n - 1
        /\ DOMAIN Front(args) = 1..(n - 1) /\ DOMAIN args = 1..n /\ n \in Nat \ {0}
        /\ \A i \in DOMAIN Front(args) : Front(args)[i] = args[i]
        /\ Last(args) = args[n]
    BY <1>1, InCallFacts, FrontFacts
  <2> QED
    BY <1>1, <2>1
<1>5. \A i \in 1..(n - 1) : args'[i] = args[IF i < n THEN i ELSE i + 1]
  BY <1>4
<1>6. ArgsHeld' /\ AllInRegister' /\ r \in held /\ r \in Reg
  <2>1. r = args[n].reg
    BY <1>4
  <2> QED
    BY <1>1, <1>2, <1>4, <1>5, <2>1, ArgsShrink, InCallFacts
<1> HIDE DEF r, n
<1>7. Read(r) \in Value
  BY <1>6, ReadTyped
<1>8. machine' \in Seq(Value) /\ Len(machine') = Len(machine) + 1
  BY <1>1, <1>7, InCallFacts, AppendFacts
<1>9. IInv'
  BY <1>1, <1>2, <1>6, RegisterGivenBack, InCallFacts
<1>10. StackArgs' = StackArgs /\ Padding' = Padding /\ SavedCells' = SavedCells
  BY <1>1 DEF StackArgs, Padding, SavedCells, InCall
<1>11. /\ Len(args') <= StackArgs' /\ Len(args') <= arg_count
       /\ Len(machine') = SavedCells' + Padding' + (StackArgs' - Len(args'))
  <2>1. n <= StackArgs /\ Len(machine) = SavedCells + Padding + (StackArgs - n) /\ n <= arg_count
    BY <1>2, InCallFacts DEF n
  <2>2. arg_count \in Nat
    BY InCallFacts
  <2> QED
    BY <1>3, <1>4, <1>8, <1>10, <2>1, <2>2
<1>12. PhaseOK'
  BY <1>1, <1>2, <1>6, <1>11 DEF PhaseOK, InCall
<1> QED
  BY <1>1, <1>2, <1>4, <1>8, <1>9, <1>11, <1>12, CallAdvances, InCallFacts

-------------------------------------------------------------------------------
(* The callee, and the way back. *)

\* What a called function returns for values is a value.
CalleeTyped == \A s \in Seq(Value) : Callee(s) \in Value

\* At the call every parameter is a register or a cell of the machine stack.
LEMMA ReceivedTyped ==
  ASSUME CInv, Calling, NEW compiled \in Compiled
  PROVE  /\ Received(compiled) \in Seq(Value)
         /\ Len(Received(compiled)) = arg_count
<1>1. /\ arg_count \in Nat /\ Len(ArgRegs) \in Nat /\ machine \in Seq(Value)
      /\ StackArgs \in Nat /\ Padding \in Nat /\ SavedCells \in Nat
  BY StackCells, InCallFacts
<1>2. Len(machine) >= StackArgs
  <2>1. Len(machine) = SavedCells + Padding + (StackArgs - Len(args)) /\ Len(args) = 0
    BY DEF Calling, CInv, PhaseOK
  <2> QED
    BY <1>1, <2>1
<1>3. ASSUME NEW i \in 1..arg_count PROVE Received(compiled)[i] \in Value
  <2>1. CASE i <= Len(ArgRegs)
    <3>1. i \in 1..Len(ArgRegs) /\ (i > 1 => i - 1 \in 1..Len(ArgRegs))
      BY <1>1, <2>1
    <3>2. Read(ArgRegs[i]) \in Value /\ (i > 1 => Read(ArgRegs[i - 1]) \in Value)
      BY <3>1, ArgRegTyped, ReadTyped
    <3> QED
      BY <2>1, <3>2 DEF Received, InRegisterOf
  <2>2. CASE i > Len(ArgRegs)
    <3> DEFINE j == Len(machine) - (i - Len(ArgRegs) - 1)
    <3>1. StackArgs = arg_count - Len(ArgRegs) /\ Len(machine) \in Nat
      BY <1>1, <2>2, LenProperties DEF StackArgs
    <3>2. j \in 1..Len(machine)
      BY <1>1, <1>2, <2>2, <3>1
    <3>3. Received(compiled)[i] = machine[j]
      BY <1>1, <2>2 DEF Received
    <3> QED
      BY <1>1, <3>2, <3>3, ElementOfSeq
  <2> QED
    BY <1>1, <2>1, <2>2
<1>4. Received(compiled) \in [1..arg_count -> Value]
  BY <1>3 DEF Received
<1> QED
  BY <1>1, <1>4, FunctionIsSeq

\* The callee leaves its result and what it need not preserve in the registers.
LEMMA CallTargetOK ==
  ASSUME CInv, CalleeTyped, NEW compiled \in Compiled, CallTarget(compiled)
  PROVE  CInv'
<1> DEFINE after(r) == IF r = RetReg THEN Callee(Received(compiled))
                       ELSE IF r \in CalleeSaved THEN Read(r) ELSE Junk
<1>1. /\ Calling /\ phase = "pushargs" /\ args = <<>> /\ phase' = "return" /\ InCall
      /\ contents' = [r \in Reg |-> after(r)] /\ others' = [r \in OtherRegs |-> after(r)]
      /\ free_regs' = free_regs /\ reg_stack' = reg_stack /\ held' = held
      /\ total_stack_size' = total_stack_size /\ frame' = frame /\ thrown' = thrown
      /\ args' = args /\ caller_saved' = caller_saved /\ machine' = machine
  BY DEF CallTarget, Calling
<1>2. /\ ArgsHeld /\ todo = <<>> /\ ~thrown
      /\ Len(machine) = SavedCells + Padding + (StackArgs - Len(args))
  BY <1>1 DEF CInv, PhaseOK
<1>3. held = {}
  <2>1. DOMAIN args = {} /\ InRegister = {}
    BY <1>1, EmptySeq DEF InRegister
  <2> QED
    BY <1>2, <2>1 DEF ArgsHeld
<1>4. ASSUME NEW r \in Reg \cup OtherRegs PROVE after(r) \in Value
  BY <1>1, ReceivedTyped, ReadTyped, CallAssumption DEF CalleeTyped
<1> HIDE DEF after
<1>5. contents' \in [Reg -> Value] /\ others' \in [OtherRegs -> Value]
  BY <1>1, <1>4
<1>6. IInv'
  BY <1>1, <1>5, PoolUntouched, InCallFacts
<1>7. StackArgs' = StackArgs /\ Padding' = Padding /\ SavedCells' = SavedCells
  BY <1>1 DEF StackArgs, Padding, SavedCells, InCall
<1>8. Len(machine') = SavedCells + Padding + StackArgs
  <2>1. Len(args) = 0 /\ StackArgs \in Nat
    BY <1>1, StackCells
  <2> QED
    BY <1>1, <1>2, <2>1, StackCells
<1>9. PhaseOK'
  BY <1>1, <1>2, <1>3, <1>7, <1>8 DEF PhaseOK, InCall
<1> QED
  BY <1>1, <1>2, <1>5, <1>6, <1>9, CallAdvances, InCallFacts

\* The stack arguments and the padding are dropped.
LEMMA DropArgsOK ==
  ASSUME CInv, DropArgs
  PROVE  CInv'
<1>1. /\ phase = "return" /\ phase' = "restore" /\ InCall /\ UNCHANGED vars
      /\ machine' = SubSeq(machine, 1, Len(machine) - StackArgs - Padding)
      /\ args' = args /\ caller_saved' = caller_saved /\ others' = others
  BY DEF DropArgs
<1>2. IInv' /\ held' = held /\ frame' = frame /\ thrown' = thrown
  BY <1>1, PoolUnchanged DEF CInv, vars
<1>3. /\ held = {} /\ args = <<>> /\ todo = <<>> /\ ~thrown
      /\ Len(machine) = SavedCells + Padding + StackArgs
  BY <1>1 DEF CInv, PhaseOK
<1>4. StackArgs \in Nat /\ Padding \in Nat /\ SavedCells \in Nat
  BY StackCells
<1>5. Len(machine) - StackArgs - Padding = SavedCells /\ SavedCells \in 0..Len(machine)
  BY <1>3, <1>4
<1>6. machine' \in Seq(Value) /\ Len(machine') = SavedCells
  BY <1>1, <1>5, InCallFacts, PrefixFacts
<1>7. SavedCells' = SavedCells
  BY <1>1 DEF SavedCells
<1>8. PhaseOK'
  BY <1>1, <1>2, <1>3, <1>6, <1>7 DEF PhaseOK, InCall
<1> QED
  BY <1>1, <1>2, <1>3, <1>6, <1>8, CallAdvances, InCallFacts

\* The register saved last is restored.
LEMMA RestoreCallerSavedOK ==
  ASSUME CInv, RestoreCallerSaved
  PROVE  CInv'
<1> DEFINE n == Len(caller_saved)
<1>1. /\ phase = "restore" /\ caller_saved # <<>> /\ phase' = phase /\ InCall
      /\ contents' = [contents EXCEPT ![Last(caller_saved)] = Last(machine)]
      /\ machine' = SubSeq(machine, 1, Len(machine) - RegSize)
      /\ caller_saved' = Front(caller_saved)
      /\ free_regs' = free_regs /\ reg_stack' = reg_stack /\ held' = held
      /\ total_stack_size' = total_stack_size /\ frame' = frame /\ thrown' = thrown
      /\ args' = args /\ others' = others
  BY DEF RestoreCallerSaved
<1>2. held = {} /\ args = <<>> /\ todo = <<>> /\ ~thrown /\ Len(machine) = RegSize * n
  BY <1>1 DEF CInv, PhaseOK, SavedCells
<1>3. /\ caller_saved' \in Seq(Reg) /\ Len(caller_saved') = n - 1 /\ n \in Nat \ {0}
      /\ Last(caller_saved) \in Reg
  BY <1>1, InCallFacts, FrontFacts
<1> HIDE DEF n
<1>4. RegSize \in Nat \ {0}
  BY PoolAssumption
<1>5. RegSize * n = RegSize * (n - 1) + RegSize /\ RegSize * (n - 1) \in Nat
  BY <1>3, <1>4
<1>6. Len(machine) - RegSize = RegSize * (n - 1) /\ Len(machine) - RegSize \in 0..Len(machine)
      /\ Len(machine) > 0
  BY <1>2, <1>4, <1>5
<1>7. machine' \in Seq(Value) /\ Len(machine') = RegSize * Len(caller_saved')
  BY <1>1, <1>3, <1>6, InCallFacts, PrefixFacts
<1>8. Last(machine) \in Value
  <2>1. machine # <<>>
    BY <1>6
  <2> QED
    BY <2>1, InCallFacts, FrontFacts
<1>9. contents' \in [Reg -> Value]
  BY <1>1, <1>3, <1>8, InCallFacts
<1>10. IInv'
  BY <1>1, <1>9, PoolUntouched, InCallFacts
<1>11. PhaseOK'
  BY <1>1, <1>2, <1>7 DEF PhaseOK, InCall, SavedCells
<1> QED
  BY <1>1, <1>2, <1>3, <1>7, <1>10, <1>11, CallAdvances, InCallFacts

\* The call is over; its result may be pushed by a handler's pool calls.
LEMMA FinishCallOK ==
  ASSUME CInv, NEW keep \in BOOLEAN, FinishCall(keep)
  PROVE  CInv'
<1>1. /\ phase = "restore" /\ caller_saved = <<>> /\ phase' = "code" /\ taken' = <<>>
      /\ todo' = IF keep THEN << <<"alloc", Read(RetReg)>>, <<"push", 1>> >> ELSE <<>>
      /\ UNCHANGED vars /\ local_variable_map' = local_variable_map
      /\ arg_count' = arg_count /\ args' = args /\ caller_saved' = caller_saved
      /\ machine' = machine /\ others' = others /\ ops' = ops
  BY DEF FinishCall
<1>2. IInv' /\ held' = held /\ frame' = frame /\ thrown' = thrown
  BY <1>1, PoolUnchanged DEF CInv, vars
<1>3. held = {} /\ args = <<>> /\ ~thrown /\ machine = <<>>
  <2>1. held = {} /\ args = <<>> /\ ~thrown /\ Len(machine) = RegSize * Len(caller_saved)
    BY <1>1 DEF CInv, PhaseOK, SavedCells
  <2>2. Len(machine) = 0
    BY <1>1, <2>1, PoolAssumption
  <2> QED
    BY <2>1, <2>2, InCallFacts, EmptySeq
<1>4. Read(RetReg) \in Value
  BY ReadTyped DEF OtherRegs
<1>5. HandlerStage'
  <2>1. held' = {} /\ taken' = <<>>
    BY <1>1, <1>2, <1>3
  <2>2. CASE keep
    <3>1. todo' = << <<"alloc", Read(RetReg)>>, <<"push", 1>> >>
      BY <1>1, <2>2
    <3>2. PICK v \in Value : todo' = << <<"alloc", v>>, <<"push", 1>> >>
      BY <1>4, <3>1
    <3> QED
      BY <2>1, <3>2 DEF HandlerStage, LoadStage, HoldsNone
  <2>3. CASE ~keep
    BY <1>1, <2>1, <2>3 DEF HandlerStage
  <2> QED
    BY <2>2, <2>3
<1>6. PhaseOK'
  BY <1>1, <1>3, <1>5 DEF PhaseOK
<1>7. CallTypeOK'
  <2>1. taken' \in Seq(Reg)
    BY <1>1, EmptySeq
  <2> QED
    BY <1>1, <1>2, <2>1 DEF CInv, CallTypeOK, IInv
<1> QED
  BY <1>1, <1>2, <1>6, <1>7 DEF CInv, VarsInFrame

-------------------------------------------------------------------------------

LEMMA CallNextPreserves ==
  ASSUME CalleeTyped
  PROVE  CInv /\ [CallNext]_allVars => CInv'
<1> SUFFICES ASSUME CInv, [CallNext]_allVars PROVE CInv'
  OBVIOUS
<1>1. CASE OpPush \/ OpBinary \/ \E x \in Var : OpLoad(x) \/ OpStore(x)
  BY <1>1, HandlerBegins
<1>2. CASE HandlerAllocs \/ HandlerPops \/ HandlerComputes \/ HandlerGivesBack \/ HandlerStores
  BY <1>2, AllocsOK, PopsOK, ComputesOK, GivesBackOK, StoresOK
<1>3. ASSUME NEW n \in Arity, OpCall(n) PROVE CInv'
  BY <1>3, CallBegins
<1>4. CASE CollectArg \/ SpillCollected \/ CollectMissing \/ ReloadArg \/ ReverseArgs
  BY <1>4, CollectArgOK, SpillCollectedOK, CollectMissingOK, ReloadArgOK, ReverseArgsOK
<1>5. CASE CollectNothing \/ CollectFails \/ ReloadFails
  BY <1>5, CallGivesUpOK
<1>6. ASSUME NEW i \in Unsaved, SaveCallerSaved(i) PROVE CInv'
  BY <1>6, SaveCallerSavedOK
<1>7. CASE MoveArg \/ Pad \/ PushStackArg \/ DropArgs \/ RestoreCallerSaved
  BY <1>7, MoveArgOK, PadOK, PushStackArgOK, DropArgsOK, RestoreCallerSavedOK
<1>8. ASSUME NEW compiled \in Compiled, CallTarget(compiled) PROVE CInv'
  BY <1>8, CallTargetOK
<1>9. ASSUME NEW keep \in BOOLEAN, FinishCall(keep) PROVE CInv'
  BY <1>9, FinishCallOK
<1>10. CASE UNCHANGED allVars
  <2>1. /\ UNCHANGED vars /\ phase' = phase /\ todo' = todo /\ taken' = taken
        /\ local_variable_map' = local_variable_map /\ arg_count' = arg_count /\ args' = args
        /\ caller_saved' = caller_saved /\ machine' = machine /\ others' = others /\ ops' = ops
    BY <1>10 DEF allVars, callVars
  <2>2. IInv' /\ held' = held /\ frame' = frame /\ thrown' = thrown
        /\ total_stack_size' = total_stack_size
    BY <2>1, PoolUnchanged DEF CInv, vars
  <2>3. HandlerStage' = HandlerStage /\ ArgsHeld' = ArgsHeld /\ AllInRegister' = AllInRegister
    BY <2>1, <2>2 DEF HandlerStage, LoadStage, BinaryStage, StoreStage, HoldsNone, HoldsOne,
                      HoldsTwo, ArgsHeld, AllInRegister, InRegister
  <2>4. SavedCells' = SavedCells /\ Padding' = Padding /\ StackArgs' = StackArgs
    BY <2>1, <2>2 DEF SavedCells, Padding, StackArgs
  <2>5. PhaseOK'
    BY <2>1, <2>2, <2>3, <2>4 DEF CInv, PhaseOK
  <2>6. CallTypeOK'
    BY <2>1, <2>2 DEF CInv, CallTypeOK, IInv
  <2> QED
    BY <2>1, <2>2, <2>5, <2>6 DEF CInv, VarsInFrame
<1> QED
  BY <1>1, <1>2, <1>3, <1>4, <1>5, <1>6, <1>7, <1>8, <1>9, <1>10 DEF CallNext, CallStep

\* CInv holds in every reachable state.
THEOREM CallInvariant ==
  ASSUME CalleeTyped
  PROVE  CallSpec => []CInv
<1>1. CInv /\ [CallNext]_allVars => CInv'
  BY CallNextPreserves
<1> QED
  BY <1>1, CallInitOK, PTL DEF CallSpec

\* The handlers and op_call keep every variable's type, and never collect more
\* arguments than the call has.
THEOREM CallTypeCorrect ==
  ASSUME CalleeTyped
  PROVE  CallSpec => []CallTypeOK
<1>1. CInv => CallTypeOK
  BY DEF CInv
<1> QED
  BY <1>1, CallInvariant, PTL

\* Between opcodes no handler has kept a register and op_call has left nothing on
\* the machine stack, whatever it saved, padded and passed there.
THEOREM CallsBalance ==
  ASSUME CalleeTyped
  PROVE  CallSpec => []Balanced
<1>1. CInv => Balanced
  BY DEF CInv, PhaseOK, Balanced, Quiet, HandlerStage, LoadStage, BinaryStage, StoreStage,
         AfterAlloc, AfterPop, AfterPops, AfterCompute, AfterFree, BeforeStore, AfterStore
<1> QED
  BY <1>1, CallInvariant, PTL

\* The pool stays sound in the middle of every handler and every call: no register
\* has two owners or is lost, and no spill slot overlaps another.
THEOREM CallsKeepThePool ==
  ASSUME CalleeTyped
  PROVE  CallSpec => [](Ownership /\ NothingLost /\ SpilledBelow /\ SlotsInFrame)
<1>1. CInv => Ownership /\ NothingLost /\ SpilledBelow /\ SlotsInFrame
  BY StackOKGivesInvariants DEF CInv, IInv
<1> QED
  BY <1>1, CallInvariant, PTL
================================================================================
