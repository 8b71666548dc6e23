------------------------ MODULE CallSequenceRefinement ------------------------
(***************************************************************************)
(* Proof that the opcode handlers over the pool of general purpose         *)
(* registers, op_call with all its moves among them, implement             *)
(* StackMachine: spills, saved registers, argument registers and the       *)
(* machine stack are invisible to the compiled program.                    *)
(*                                                                         *)
(* The inductive invariant VInv adds to CInv where the operands, the       *)
(* arguments and the variables of the running opcode are, in every phase   *)
(* of its handler.                                                         *)
(***************************************************************************)
EXTENDS CallSequenceProofs

\* What tells the GP pool from the SIMD one: arguments and results travel in
\* registers that the pool does not hand out, and pop() of the empty stack emits xor.
GpConvention ==
  /\ Range(ArgRegs) \cap Reg = {} /\ RetReg \notin Reg
  /\ Zeroes

\* The stack `stk' without its m topmost operands, and its n topmost ones.
Below(stk, m) == SubSeq(stk, 1, Len(stk) - m)

ArgsOf(stk, n) ==
  [i \in 1..n |-> LET j == Len(stk) - n + i IN IF j >= 1 THEN stk[j] ELSE Zero]

-------------------------------------------------------------------------------
(* The frame. *)

\* alloc() takes its slots beyond everything that was ever stored.
FrameBelow == \A o \in DOMAIN frame : o <= total_stack_size

\* No slot of a variable is another's, or a spilled operand's.
SlotsApart ==
  /\ \A x, y \in DOMAIN local_variable_map :
       local_variable_map[x] = local_variable_map[y] => x = y
  /\ \A x \in DOMAIN local_variable_map, i \in DOMAIN reg_stack :
       reg_stack[i].is_spilled => reg_stack[i].offset # local_variable_map[x]

-------------------------------------------------------------------------------
(* The values of a handler that is a fixed sequence of pool calls. *)

\* The running opcode is to push v in the place of the m topmost operands.
Pushes(v, m) ==
  LET stk == before.stack IN
  \/ m = 0 /\ v \in Value /\ opcode = <<"push", v>>
  \/ /\ m = 0
     /\ \E x \in Var : /\ opcode = <<"load", x>>
                       /\ x \in DOMAIN before.vars /\ v = before.vars[x]
  \/ /\ m = 2 /\ Len(stk) >= 2
     /\ opcode = <<"binary", 0>> /\ v = Op(stk[Len(stk) - 1], stk[Len(stk)])
  \/ /\ m \in Arity /\ m <= Cardinality(Reg)
     /\ opcode = <<"call", m>> /\ v = Callee(ArgsOf(stk, m))

\* v is about to be pushed, and the operands it replaces are gone.
PushPending(v) == \E m \in {0, 2} \cup Arity : Pushes(v, m) /\ PoolValues = Below(before.stack, m)

\* m operands have been popped, the j-th of them into the j-th register taken.
Popped(m) ==
  /\ m <= Len(before.stack)
  /\ PoolValues = Below(before.stack, m)
  /\ \A j \in 1..m : contents[taken[j]] = before.stack[Len(before.stack) - j + 1]

StoredVars(x) ==
  [y \in DOMAIN before.vars \cup {x} |->
     IF y = x THEN before.stack[Len(before.stack)] ELSE before.vars[y]]

LoadValues ==
  \/ \E v \in Value : todo = << <<"alloc", v>>, <<"push", 1>> >> /\ PushPending(v)
  \/ \E x \in DOMAIN local_variable_map :
       /\ todo = << <<"load", x>>, <<"push", 1>> >>
       /\ opcode = <<"load", x>> /\ PoolValues = before.stack
  \/ todo = AfterAlloc /\ PushPending(contents[taken[1]])

BinaryValues ==
  \/ /\ Len(before.stack) >= 2 /\ opcode = <<"binary", 0>>
     /\ \/ /\ todo = << <<"pop", 0>>, <<"pop", 0>>, <<"compute", 0>>, <<"free", 1>>, <<"push", 2>> >>
           /\ Popped(0)
        \/ todo = AfterPop /\ Popped(1)
        \/ todo = AfterPops /\ Popped(2)
  \/ todo \in {AfterCompute, AfterFree} /\ PushPending(contents[taken[2]])

StoreValues ==
  /\ before.stack # <<>>
  /\ \E x \in Var :
       /\ opcode = <<"store", x>>
       /\ \/ todo = << <<"pop", 0>>, <<"store", x>>, <<"free", 1>> >> /\ Popped(0)
          \/ todo = BeforeStore(x) /\ Popped(1)
          \/ /\ todo = AfterStore
             /\ PoolValues = Below(before.stack, 1)
             /\ VarsNow = StoredVars(x)

HandlerValues ==
  \/ todo = <<>>
  \/ /\ LoadValues \/ BinaryValues
     /\ VarsNow = before.vars
  \/ /\ StoreValues
     /\ todo # AfterStore => VarsNow = before.vars

-------------------------------------------------------------------------------
(* The values of op_call. *)

CallArgs == ArgsOf(before.stack, arg_count)
Rest == Below(before.stack, arg_count)

ArgValue(k) == IF args[k].off = 0 THEN contents[args[k].reg] ELSE frame[args[k].off]

\* The arguments are popped from the last one on; a missing one is zero.
CollectValues ==
  /\ PoolValues = Below(before.stack, Len(args))
  /\ \A k \in DOMAIN args : ArgValue(k) = CallArgs[arg_count - k + 1]
  /\ phase = "collect" /\ args # <<>> => args[Len(args)].off = 0
  /\ phase = "missing" => reg_stack = <<>>

\* The first `moved' arguments are in their registers, the ones from `first' on still
\* in the registers they were popped into.
ArgsMoved(moved, first) ==
  /\ moved <= Len(ArgRegs)
  /\ \A i \in 1..moved : others[ArgRegs[i]] = CallArgs[i]
  /\ \A k \in DOMAIN args : contents[args[k].reg] = CallArgs[first + k]

\* A saved register's operand is in the last of the cells pushed for it.
SavedValues ==
  \A j \in DOMAIN caller_saved, i \in Unspilled(reg_stack) :
    reg_stack[i].reg = caller_saved[j] => machine[RegSize * j] = Rest[i]

\* The stack arguments pushed so far, the last one first.
StackValuesPushed ==
  \A q \in 1..(StackArgs - Len(args)) :
    machine[SavedCells + Padding + q] = CallArgs[arg_count - q + 1]

\* After the call an operand is in its place, or saved.
OperandsSaved ==
  /\ Len(reg_stack) = Len(Rest)
  /\ \A i \in DOMAIN reg_stack :
       \/ EntryValue(reg_stack[i], frame, contents) = Rest[i]
       \/ i \in Unspilled(reg_stack) /\ reg_stack[i].reg \in Range(caller_saved)

CallValues ==
  /\ opcode = <<"call", arg_count>> /\ arg_count \in Arity
  /\ VarsNow = before.vars
  /\ phase \in {"collect", "missing"} /\ ~thrown => CollectValues
  /\ phase \in {"move", "pushargs", "return", "restore"} =>
       arg_count <= Cardinality(Reg) /\ SavedValues
  /\ phase \in {"move", "pushargs"} => PoolValues = Rest
  /\ phase = "move" => ArgsMoved(arg_count - Len(args), arg_count - Len(args))
  /\ phase = "pushargs" => /\ ArgsMoved(arg_count - StackArgs, arg_count - StackArgs)
                           /\ StackValuesPushed /\ Unsaved = {}
  /\ phase \in {"return", "restore"} =>
       OperandsSaved /\ others[RetReg] = Callee(CallArgs)

VInv ==
  /\ CInv
  /\ FrameBelow /\ SlotsApart
  /\ before.stack \in Seq(Value)
  /\ phase = "code" => HandlerValues
  /\ phase # "code" => CallValues

-------------------------------------------------------------------------------
(* Popping operands off a stack. *)

LEMMA BelowFacts ==
  ASSUME NEW stk \in Seq(Value), NEW m \in Nat
  PROVE  /\ Below(stk, m) \in Seq(Value)
         /\ Len(Below(stk, m)) = IF m <= Len(stk) THEN Len(stk) - m ELSE 0
         /\ DOMAIN Below(stk, m) = 1..Len(Below(stk, m))
         /\ \A i \in 1..Len(Below(stk, m)) : Below(stk, m)[i] = stk[i]
<1>1. Len(stk) \in Nat
  BY LenProperties
<1>2. CASE m <= Len(stk)
  <2> DEFINE n == Len(stk) - m
  <2>1. n \in 0..Len(stk) /\ Below(stk, m) = SubSeq(stk, 1, n)
    BY <1>1, <1>2 DEF Below
  <2> HIDE DEF n
  <2>2. /\ SubSeq(stk, 1, n) \in Seq(Value) /\ Len(SubSeq(stk, 1, n)) = n
        /\ \A i \in 1..n : SubSeq(stk, 1, n)[i] = stk[i]
    BY <2>1, PrefixFacts
  <2> QED
    BY <1>2, <2>1, <2>2, LenProperties DEF n
<1>3. CASE m > Len(stk)
  <2> DEFINE n == Len(stk) - m
  <2>1. n \in Int /\ n < 1 /\ Below(stk, m) = SubSeq(stk, 1, n)
    BY <1>1, <1>3 DEF Below
  <2> HIDE DEF n
  <2>2. \A i \in 1..n : stk[i] \in Value
    BY <2>1
  <2>3. SubSeq(stk, 1, n) \in Seq(Value) /\ Len(SubSeq(stk, 1, n)) = 0
    BY <2>1, <2>2, SubSeqProperties
  <2> QED
    BY <1>1, <1>3, <2>1, <2>3, LenProperties
<1> QED
  BY <1>1, <1>2, <1>3

LEMMA BelowNone ==
  ASSUME NEW stk \in Seq(Value)
  PROVE  Below(stk, 0) = stk
<1>1. /\ Below(stk, 0) \in Seq(Value) /\ Len(stk) \in Nat
      /\ Len(Below(stk, 0)) = Len(stk)
      /\ \A i \in 1..Len(Below(stk, 0)) : Below(stk, 0)[i] = stk[i]
  BY BelowFacts, LenProperties
<1> QED
  BY <1>1, SeqEqual

\* What the next pop() returns, and what it leaves.
LEMMA BelowPops ==
  ASSUME NEW stk \in Seq(Value), NEW m \in Nat, Below(stk, m) # <<>>
  PROVE  /\ m < Len(stk)
         /\ Below(stk, m)[Len(Below(stk, m))] = stk[Len(stk) - m]
         /\ SubSeq(Below(stk, m), 1, Len(Below(stk, m)) - 1) = Below(stk, m + 1)
<1> DEFINE b == Below(stk, m)
           n == Len(stk) - m
           c == Below(stk, m + 1)
<1>1. /\ b \in Seq(Value) /\ Len(b) = IF m <= Len(stk) THEN Len(stk) - m ELSE 0
      /\ \A i \in 1..Len(b) : b[i] = stk[i]
      /\ c \in Seq(Value) /\ Len(c) = IF m + 1 <= Len(stk) THEN Len(stk) - (m + 1) ELSE 0
      /\ \A i \in 1..Len(c) : c[i] = stk[i]
      /\ Len(stk) \in Nat
  BY BelowFacts, LenProperties
<1> HIDE DEF b, c
<1>2. Len(b) # 0
  BY <1>1, EmptySeq DEF b
<1>3. m < Len(stk) /\ Len(b) = n /\ n \in Nat \ {0} /\ Len(c) = n - 1
  BY <1>1, <1>2
<1> HIDE DEF n
<1>4. /\ SubSeq(b, 1, n - 1) \in Seq(Value) /\ Len(SubSeq(b, 1, n - 1)) = n - 1
      /\ \A i \in 1..(n - 1) : SubSeq(b, 1, n - 1)[i] = b[i]
  <2>1. n - 1 \in 0..Len(b)
    BY <1>3
  <2> QED
    BY <1>1, <2>1, PrefixFacts
<1>5. \A i \in 1..(n - 1) : b[i] = c[i]
  BY <1>1, <1>3
<1>6. SubSeq(b, 1, n - 1) = c
  <2> DEFINE d == SubSeq(b, 1, n - 1)
  <2>1. d \in Seq(Value) /\ Len(d) = Len(c) /\ \A i \in 1..Len(d) : d[i] = c[i]
    BY <1>3, <1>4, <1>5
  <2> HIDE DEF d
  <2>2. d = c
    BY <1>1, <2>1, SeqEqual
  <2> QED
    BY <2>2 DEF d
<1> QED
  BY <1>1, <1>3, <1>6 DEF b, c, n

\* The arguments of a call are the values popped for it, and zeroes.
LEMMA ArgsOfFacts ==
  ASSUME NEW stk \in Seq(Value), NEW n \in Nat
  PROVE  /\ ArgsOf(stk, n) \in Seq(Value) /\ Len(ArgsOf(stk, n)) = n
         /\ \A m \in 0..(n - 1) :
              ArgsOf(stk, n)[n - m] = IF m < Len(stk) THEN stk[Len(stk) - m] ELSE Zero
<1>1. Len(stk) \in Nat /\ DOMAIN stk = 1..Len(stk) /\ \A i \in 1..Len(stk) : stk[i] \in Value
  BY LenProperties, ElementOfSeq
<1>2. ArgsOf(stk, n) \in [1..n -> Value]
  BY <1>1, PoolAssumption DEF ArgsOf
<1>3. ASSUME NEW m \in 0..(n - 1)
      PROVE  ArgsOf(stk, n)[n - m] = IF m < Len(stk) THEN stk[Len(stk) - m] ELSE Zero
  <2>1. n - m \in 1..n /\ Len(stk) - n + (n - m) = Len(stk) - m
    BY <1>1
  <2> QED
    BY <1>1, <2>1 DEF ArgsOf
<1> QED
  BY <1>2, <1>3, FunctionIsSeq

-------------------------------------------------------------------------------
(* Pool calls and the frame. *)

\* What was stored stays, wherever alloc() spills to.
SlotsKept ==
  /\ FrameBelow' /\ SlotsApart' /\ VarsNow' = VarsNow
  /\ \A o \in DOMAIN frame : frame'[o] = frame[o]

LEMMA AllocKeepsSlots ==
  ASSUME IInv, VarsInFrame, FrameBelow, SlotsApart, NEW stk \in Seq(StackValue),
         \A i \in DOMAIN stk : i \in DOMAIN reg_stack /\ stk[i] = reg_stack[i],
         NEW v, AllocStep(stk, v), reg_stack' = AllocStack(stk),
         local_variable_map' = local_variable_map
  PROVE  SlotsKept
<1>1. /\ total_stack_size \in Nat /\ NewSlot \in Nat /\ NewSlot > total_stack_size
      /\ DOMAIN frame \subseteq Nat
  BY PartsOfIInv, PoolAssumption DEF NewSlot
<1>2. total_stack_size' = AllocTotal /\ frame' = AllocFrame(stk)
  BY DEF AllocStep
<1>3. NewSlot \notin DOMAIN frame
  BY <1>1 DEF FrameBelow
<1>4. /\ DOMAIN frame' \subseteq DOMAIN frame \cup {NewSlot}
      /\ NewSlot \in DOMAIN frame' => total_stack_size' = NewSlot
      /\ \A o \in DOMAIN frame : frame'[o] = frame[o]
      /\ total_stack_size <= total_stack_size'
  <2>1. CASE Spills
    BY <1>1, <1>2, <1>3, <2>1 DEF AllocTotal, AllocFrame
  <2>2. CASE ~Spills
    BY <1>1, <1>2, <1>3, <2>2 DEF AllocTotal, AllocFrame
  <2> QED
    BY <2>1, <2>2
<1>5. total_stack_size' \in Nat
  BY <1>1, <1>2 DEF AllocTotal
<1>6. FrameBelow'
  BY <1>1, <1>4, <1>5 DEF FrameBelow
<1>7. ASSUME NEW i \in DOMAIN reg_stack', reg_stack'[i].is_spilled
      PROVE  \/ reg_stack'[i].offset = NewSlot
             \/ /\ i \in DOMAIN reg_stack /\ reg_stack[i].is_spilled
                /\ reg_stack[i].offset = reg_stack'[i].offset
  <2>1. CASE Spills
    BY <1>7, <2>1 DEF AllocStack
  <2>2. CASE ~Spills
    BY <1>7, <2>2 DEF AllocStack
  <2> QED
    BY <2>1, <2>2
<1>8. SlotsApart'
  BY <1>3, <1>7 DEF SlotsApart, VarsInFrame
<1>9. VarsNow' = VarsNow
  BY <1>4 DEF VarsNow, VarsInFrame
<1> QED
  BY <1>4, <1>6, <1>8, <1>9 DEF SlotsKept

LEMMA PoolCallKeepsSlots ==
  ASSUME IInv, VarsInFrame, FrameBelow, SlotsApart,
         (\E v \in Value : Alloc(v)) \/ Pop \/ PopEmpty,
         local_variable_map' = local_variable_map
  PROVE  SlotsKept
<1>1. reg_stack \in Seq(StackValue)
  BY PartsOfIInv
<1>2. ASSUME reg_stack # <<>>
      PROVE  /\ Front(reg_stack) \in Seq(StackValue)
             /\ \A i \in DOMAIN Front(reg_stack) :
                  i \in DOMAIN reg_stack /\ Front(reg_stack)[i] = reg_stack[i]
  BY <1>1, <1>2, FrontFacts
<1>3. ASSUME NEW v \in Value, Alloc(v) PROVE SlotsKept
  BY <1>1, <1>3, AllocKeepsSlots DEF Alloc
<1>4. CASE PopSpilled
  BY <1>2, <1>4, AllocKeepsSlots DEF PopSpilled
<1>5. CASE PopUnspilled
  <2>1. /\ frame' = frame /\ total_stack_size' = total_stack_size
        /\ reg_stack # <<>> /\ reg_stack' = Front(reg_stack)
    BY <1>5 DEF PopUnspilled
  <2>2. SlotsApart'
    BY <1>2, <2>1 DEF SlotsApart
  <2> QED
    BY <2>1, <2>2 DEF SlotsKept, FrameBelow, VarsNow
<1>6. CASE PopEmpty
  <2>1. /\ AllocStep(reg_stack, IF Zeroes THEN Zero ELSE contents[AllocReg(reg_stack)])
        /\ reg_stack = <<>> /\ reg_stack' = reg_stack
    BY <1>6 DEF PopEmpty
  <2>2. ~Spills
    <3>1. Unspilled(reg_stack) = {}
      BY <2>1, EmptySeq DEF Unspilled
    <3> QED
      BY <2>1, <3>1 DEF AllocStep, CanAlloc
  <2>3. reg_stack' = AllocStack(reg_stack)
    BY <2>1, <2>2 DEF AllocStack
  <2> QED
    BY <1>1, <2>1, <2>3, AllocKeepsSlots
<1> QED
  BY <1>3, <1>4, <1>5, <1>6 DEF Pop

\* The step of a handler that leaves pool, frame and variables alone.
LEMMA SameSlots ==
  ASSUME FrameBelow, SlotsApart, frame' = frame, total_stack_size' = total_stack_size,
         reg_stack' = reg_stack, local_variable_map' = local_variable_map
  PROVE  SlotsKept
BY DEF SlotsKept, FrameBelow, SlotsApart, VarsNow

-------------------------------------------------------------------------------
(* The handlers that are a fixed sequence of pool calls. *)

LEMMA PoolValuesSeq ==
  ASSUME IInv
  PROVE  /\ PoolValues \in Seq(Value) /\ Len(PoolValues) = Len(reg_stack)
         /\ DOMAIN PoolValues = 1..Len(reg_stack)
         /\ DOMAIN reg_stack = 1..Len(reg_stack) /\ Len(reg_stack) \in Nat
         /\ StackNow = PoolValues
<1>1. StackNow = PoolValues
  BY RefinementMapping DEF StackNow
<1> QED
  BY <1>1, PartsOfIInv, StackValuesSeq DEF PoolValues

\* The lists of what remains to be done are told apart by their lengths.
LEMMA ListsDiffer ==
  /\ AfterPop # AfterPops /\ AfterFree # <<>>
  /\ \A x : AfterPop # BeforeStore(x) /\ AfterPops # BeforeStore(x)
<1>1. /\ Len(AfterPop) = 4 /\ Len(AfterPops) = 3 /\ Len(AfterFree) = 1
      /\ \A x : Len(BeforeStore(x)) = 2
  BY DEF AfterPop, AfterPops, AfterFree, BeforeStore
<1>2. Len(<<>>) = 0
  OBVIOUS
<1>3. AfterPop # AfterPops /\ AfterFree # <<>>
  BY <1>1, <1>2
<1>4. ASSUME NEW x PROVE AfterPop # BeforeStore(x) /\ AfterPops # BeforeStore(x)
  BY <1>1
<1> QED
  BY <1>3, <1>4

Binary == Len(before.stack) >= 2 /\ opcode = <<"binary", 0>>
Storing(x) == before.stack # <<>> /\ opcode = <<"store", x>>

\* The values a handler has when it makes a call of each kind.
LEMMA ValuesToMake ==
  ASSUME VInv, phase = "code", todo # <<>>
  PROVE  /\ Head(todo)[1] = "alloc" => PushPending(Arg)
         /\ Head(todo)[1] = "load" => opcode = <<"load", Arg>> /\ PoolValues = before.stack
         /\ Head(todo)[1] = "pop" =>
              \/ Tail(todo) = AfterPop /\ Binary /\ Popped(0)
              \/ Tail(todo) = AfterPops /\ Binary /\ Popped(1)
              \/ \E x \in Var : Tail(todo) = BeforeStore(x) /\ Storing(x) /\ Popped(0)
         /\ Head(todo)[1] = "compute" => Binary /\ Popped(2)
         /\ Head(todo)[1] = "store" => Storing(Arg) /\ Popped(1)
         /\ Head(todo)[1] = "free" =>
              \/ Tail(todo) = AfterFree /\ PushPending(contents[taken[2]]) /\ VarsNow = before.vars
              \/ /\ Tail(todo) = <<>>
                 /\ \E x \in Var : /\ Storing(x) /\ VarsNow = StoredVars(x)
                                   /\ PoolValues = Below(before.stack, 1)
         /\ Head(todo)[1] = "push" => PushPending(contents[taken[Arg]])
         /\ Head(todo)[1] # "free" => VarsNow = before.vars
<1>1. HandlerValues
  BY DEF VInv
<1>2. CASE LoadValues /\ VarsNow = before.vars
  BY <1>2, CallLists DEF LoadValues
<1>3. CASE BinaryValues /\ VarsNow = before.vars
  BY <1>3, CallLists DEF BinaryValues, Binary
<1>4. CASE StoreValues /\ (todo # AfterStore => VarsNow = before.vars)
  <2>1. PICK x \in Var :
          /\ Storing(x)
          /\ \/ todo = << <<"pop", 0>>, <<"store", x>>, <<"free", 1>> >> /\ Popped(0)
             \/ todo = BeforeStore(x) /\ Popped(1)
             \/ /\ todo = AfterStore
                /\ PoolValues = Below(before.stack, 1)
                /\ VarsNow = StoredVars(x)
    BY <1>4 DEF StoreValues, Storing
  <2>2. CASE todo = << <<"pop", 0>>, <<"store", x>>, <<"free", 1>> >> /\ Popped(0)
    BY <1>4, <2>1, <2>2, CallLists
  <2>3. CASE todo = BeforeStore(x) /\ Popped(1)
    BY <1>4, <2>1, <2>3, CallLists
  <2>4. CASE /\ todo = AfterStore
             /\ PoolValues = Below(before.stack, 1)
             /\ VarsNow = StoredVars(x)
    BY <2>1, <2>4, CallLists
  <2> QED
    BY <2>1, <2>2, <2>3, <2>4
<1> QED
  BY <1>1, <1>2, <1>3, <1>4 DEF HandlerValues

\* A handler that starts has the operands and variables the opcode is about.
LEMMA BeginValues ==
  ASSUME VInv, OpPush \/ OpBinary \/ \E x \in Var : OpLoad(x) \/ OpStore(x)
  PROVE  /\ SlotsKept /\ HandlerValues' /\ before'.stack \in Seq(Value)
         /\ phase = "code" /\ phase' = "code" /\ Quiet /\ ~Quiet' /\ thrown' = thrown
         /\ before' = [stack |-> PoolValues, vars |-> VarsNow, opcode |-> opcode]
<1>1. IInv /\ FrameBelow /\ SlotsApart
  BY DEF VInv, CInv
<1>2. /\ Quiet /\ UNCHANGED vars /\ phase' = phase
      /\ local_variable_map' = local_variable_map
      /\ before' = [stack |-> StackNow, vars |-> VarsNow, opcode |-> opcode]
  BY DEF OpPush, OpBinary, OpLoad, OpStore, Handler, Begin
<1>3. /\ reg_stack' = reg_stack /\ frame' = frame /\ contents' = contents
      /\ total_stack_size' = total_stack_size /\ thrown' = thrown
  BY <1>2 DEF vars
<1>4. SlotsKept
  BY <1>1, <1>2, <1>3, SameSlots
<1>5. PoolValues' = PoolValues
  BY <1>3 DEF PoolValues
<1>6. /\ before'.stack = PoolValues /\ before'.vars = VarsNow
      /\ PoolValues \in Seq(Value) /\ Len(PoolValues) = Len(reg_stack)
  BY <1>1, <1>2, PoolValuesSeq
<1>7. /\ PoolValues' = before'.stack /\ PoolValues' = Below(before'.stack, 0)
      /\ VarsNow' = before'.vars
  BY <1>4, <1>5, <1>6, BelowNone DEF SlotsKept
<1>8. 0 <= Len(before'.stack)
  BY <1>6, LenProperties
<1>9. Popped(0)'
  BY <1>7, <1>8 DEF Popped
<1>10. HandlerValues' /\ todo' # <<>>
  <2>1. CASE OpPush
    <3>1. /\ todo' = << <<"alloc", ops + 1>>, <<"push", 1>> >> /\ opcode' = <<"push", ops + 1>>
      BY <2>1 DEF OpPush, Handler, Begin
    <3>2. ops + 1 \in Value
      BY <2>1, CallAssumption DEF OpPush, Handler, Begin, VInv, CInv
    <3> DEFINE v == ops + 1
    <3>3. v \in Value /\ todo' = << <<"alloc", v>>, <<"push", 1>> >> /\ opcode' = <<"push", v>>
      BY <3>1, <3>2
    <3> HIDE DEF v
    <3>4. PICK w \in Value : w = v
      BY <3>3
    <3>5. PushPending(w)'
      BY <1>7, <3>3, <3>4 DEF PushPending, Pushes
    <3> QED
      BY <1>7, <3>3, <3>4, <3>5 DEF HandlerValues, LoadValues
  <2>2. ASSUME NEW x \in Var, OpLoad(x) PROVE HandlerValues' /\ todo' # <<>>
    BY <1>2, <1>7, <2>2 DEF OpLoad, Handler, Begin, HandlerValues, LoadValues
  <2>3. CASE OpBinary
    BY <1>6, <1>7, <1>9, <2>3 DEF OpBinary, Handler, Begin, HandlerValues, BinaryValues
  <2>4. ASSUME NEW x \in Var, OpStore(x) PROVE HandlerValues' /\ todo' # <<>>
    <3>1. /\ todo' = << <<"pop", 0>>, <<"store", x>>, <<"free", 1>> >>
          /\ opcode' = <<"store", x>> /\ reg_stack # <<>>
      BY <2>4 DEF OpStore, Handler, Begin
    <3>2. before'.stack # <<>>
      <4>1. Len(PoolValues) # 0
        BY <1>1, <1>6, <3>1, PartsOfIInv, EmptySeq
      <4> QED
        BY <1>6, <4>1
    <3> QED
      BY <1>7, <1>9, <3>1, <3>2 DEF HandlerValues, StoreValues
  <2> QED
    BY <2>1, <2>2, <2>3, <2>4
<1> QED
  BY <1>2, <1>3, <1>4, <1>6, <1>10, PoolValuesSeq, <1>1 DEF Quiet

\* The running opcode and what it started from do not change under a pool call.
LEMMA CallMadeFacts ==
  ASSUME VInv, CallMade, phase = "code"
  PROVE  /\ before' = before /\ opcode' = opcode /\ phase' = "code" /\ todo' = Tail(todo)
         /\ before.stack \in Seq(Value) /\ IInv /\ CInv
         /\ VarsInFrame /\ FrameBelow /\ SlotsApart
BY DEF VInv, CInv, CallMade

LEMMA PendingStays ==
  ASSUME NEW v, PushPending(v), PoolValues' = PoolValues,
         before' = before, opcode' = opcode
  PROVE  PushPending(v)'
BY DEF PushPending, Pushes

LEMMA AllocValuesOK ==
  ASSUME VInv, HandlerAllocs
  PROVE  SlotsKept /\ HandlerValues'
<1>1. /\ phase = "code" /\ todo # <<>> /\ CallMade
      /\ taken' = Append(taken, AllocReg(reg_stack))
      /\ local_variable_map' = local_variable_map
  BY DEF HandlerAllocs, NextCall
<1>2. /\ before' = before /\ opcode' = opcode /\ todo' = Tail(todo)
      /\ before.stack \in Seq(Value) /\ IInv /\ CInv
      /\ VarsInFrame /\ FrameBelow /\ SlotsApart
  BY <1>1, CallMadeFacts
<1>3. PICK v0 \in Value : HoldsNone /\ Tail(todo) = AfterAlloc /\ Alloc(v0)
  BY <1>2, AllocAsks
<1>4. SlotsKept
  BY <1>1, <1>2, <1>3, PoolCallKeepsSlots
<1>5. PICK v \in Value : PushPending(v) /\ VarsNow = before.vars /\ Alloc(v)
  <2>1. CASE Head(todo)[1] = "alloc" /\ Alloc(Arg)
    <3>1. PushPending(Arg) /\ VarsNow = before.vars
      BY <1>1, <2>1, ValuesToMake
    <3>2. Arg \in Value
      BY <1>1, <1>2, <2>1, CallsToMake
    <3> QED
      BY <2>1, <3>1, <3>2
  <2>2. CASE Head(todo)[1] = "load" /\ Alloc(frame'[local_variable_map[Arg]])
    <3>1. /\ opcode = <<"load", Arg>> /\ PoolValues = before.stack /\ VarsNow = before.vars
          /\ Arg \in DOMAIN local_variable_map
      BY <1>1, <1>2, <2>2, ValuesToMake, CallsToMake
    <3>2. local_variable_map[Arg] \in DOMAIN frame
      BY <1>2, <3>1 DEF VarsInFrame
    <3> DEFINE o == local_variable_map[Arg]
               v == frame[o]
    <3>3. frame'[o] = v /\ v \in Value
      BY <1>2, <1>4, <3>2, PartsOfIInv DEF SlotsKept
    <3>4. Arg \in Var /\ Arg \in DOMAIN before.vars /\ v = before.vars[Arg]
      BY <1>2, <3>1 DEF VarsNow, CInv, CallTypeOK
    <3> HIDE DEF v, o
    <3>5. PushPending(v)
      BY <1>2, <3>1, <3>4, BelowNone DEF PushPending, Pushes
    <3> QED
      BY <2>2, <3>1, <3>3, <3>5 DEF o
  <2> QED
    BY <2>1, <2>2 DEF HandlerAllocs, NextCall
<1>6. PoolValues' = PoolValues /\ Obtains(AllocReg(reg_stack), v)
  BY <1>2, <1>5, AllocValues
<1>7. contents'[taken'[1]] = v
  <2>1. taken' = <<AllocReg(reg_stack)>>
    BY <1>1, <1>3 DEF HoldsNone
  <2> QED
    BY <1>6, <2>1 DEF Obtains
<1>8. PushPending(v)'
  BY <1>2, <1>5, <1>6, PendingStays
<1>9. PushPending(contents[taken[1]])'
  BY <1>7, <1>8 DEF PushPending, Pushes
<1>10. LoadValues'
  BY <1>2, <1>3, <1>9 DEF LoadValues
<1>11. VarsNow' = before'.vars
  BY <1>2, <1>4, <1>5 DEF SlotsKept
<1> QED
  BY <1>4, <1>10, <1>11 DEF HandlerValues

\* One more operand popped.
LEMMA PopAdds ==
  ASSUME NEW m \in Nat, Popped(m), NEW p, PopsInto(p), before' = before,
         before.stack \in Seq(Value),
         taken \in Seq(Reg), Len(taken) = m, taken' = Append(taken, p),
         \A j \in 1..m : taken[j] \in held
  PROVE  Popped(m + 1)'
<1> DEFINE b == before.stack
<1>1. /\ PoolValues = Below(b, m) /\ PoolValues # <<>>
      /\ PoolValues' = SubSeq(PoolValues, 1, Len(PoolValues) - 1)
      /\ Obtains(p, PoolValues[Len(PoolValues)])
  BY DEF Popped, PopsInto
<1>2. m < Len(b) /\ PoolValues' = Below(b, m + 1) /\ PoolValues[Len(PoolValues)] = b[Len(b) - m]
  BY <1>1, BelowPops
<1>3. p \in Reg \ held /\ contents'[p] = b[Len(b) - m]
      /\ \A x \in Reg : x # p => contents'[x] = contents[x]
  BY <1>1, <1>2 DEF Obtains
<1>4. ASSUME NEW j \in 1..(m + 1) PROVE contents'[taken'[j]] = b[Len(b) - j + 1]
  <2>1. Len(b) \in Nat
    BY LenProperties
  <2>2. taken'[m + 1] = p /\ \A i \in 1..m : taken'[i] = taken[i] /\ taken[i] \in Reg
    BY <1>3, AppendFacts, ElementOfSeq
  <2>3. CASE j = m + 1
    BY <1>3, <2>1, <2>2, <2>3
  <2>4. CASE j \in 1..m
    <3>1. contents'[taken'[j]] = contents[taken[j]]
      BY <1>3, <2>2, <2>4
    <3> QED
      BY <2>4, <3>1 DEF Popped
  <2> QED
    BY <2>3, <2>4
<1>5. m + 1 <= Len(b)
  BY <1>2, LenProperties
<1> HIDE DEF b
<1>6. before'.stack = b
  BY DEF b
<1> QED
  BY <1>2, <1>4, <1>5, <1>6 DEF Popped

\* pop() of an operand, wherever it was.
LEMMA PopValues ==
  ASSUME IInv, Pop
  PROVE  PopsInto(PopReg)
<1>1. CASE PopUnspilled
  <2>1. PopReg = Last(reg_stack).reg
    BY <1>1 DEF PopUnspilled, PopReg
  <2> QED
    BY <1>1, <2>1, PopUnspilledValues
<1>2. CASE PopSpilled
  <2>1. PopReg = AllocReg(Front(reg_stack))
    BY <1>2 DEF PopSpilled, PopReg
  <2> QED
    BY <1>2, <2>1, PopSpilledValues
<1> QED
  BY <1>1, <1>2 DEF Pop

LEMMA PopValuesOK ==
  ASSUME VInv, HandlerPops
  PROVE  SlotsKept /\ HandlerValues'
<1>1. /\ phase = "code" /\ todo # <<>> /\ CallMade /\ Head(todo)[1] = "pop" /\ Pop
      /\ taken' = Append(taken, PopReg)
      /\ local_variable_map' = local_variable_map
  BY DEF HandlerPops, NextCall
<1>2. /\ before' = before /\ opcode' = opcode /\ todo' = Tail(todo)
      /\ before.stack \in Seq(Value) /\ IInv /\ CInv
      /\ VarsInFrame /\ FrameBelow /\ SlotsApart
  BY <1>1, CallMadeFacts
<1>3. SlotsKept
  BY <1>1, <1>2, PoolCallKeepsSlots
<1>4. PopsInto(PopReg)
  BY <1>1, <1>2, PopValues
<1>5. VarsNow' = before'.vars
  <2>1. VarsNow = before.vars
    BY <1>1, ValuesToMake
  <2> QED
    BY <1>2, <1>3, <2>1 DEF SlotsKept
<1>6. taken \in Seq(Reg)
  BY <1>2 DEF CInv, CallTypeOK
<1>7. HoldsNone /\ Popped(0) => Popped(1)'
  <2> SUFFICES ASSUME HoldsNone, Popped(0) PROVE Popped(1)'
    OBVIOUS
  <2>1. Len(taken) = 0
    BY DEF HoldsNone
  <2>2. Popped(0 + 1)'
    BY <1>1, <1>2, <1>4, <1>6, <2>1, PopAdds
  <2> QED
    BY <2>2
<1>8. HoldsOne /\ Popped(1) => Popped(2)'
  <2> SUFFICES ASSUME HoldsOne, Popped(1) PROVE Popped(2)'
    OBVIOUS
  <2>1. PICK r \in Reg : taken = <<r>> /\ held = {r}
    BY DEF HoldsOne
  <2>2. Len(taken) = 1 /\ \A j \in 1..1 : taken[j] \in held
    BY <2>1
  <2>3. Popped(1 + 1)'
    BY <1>1, <1>2, <1>4, <1>6, <2>2, PopAdds
  <2> QED
    BY <2>3
<1>9. CASE Tail(todo) = AfterPop /\ Binary /\ Popped(0)
  <2>1. HoldsNone
    BY <1>1, <1>2, <1>9, CallsToMake, ListsDiffer
  <2>2. BinaryValues'
    BY <1>2, <1>7, <1>9, <2>1 DEF BinaryValues, Binary
  <2> QED
    BY <1>3, <1>5, <2>2 DEF HandlerValues
<1>10. CASE Tail(todo) = AfterPops /\ Binary /\ Popped(1)
  <2>1. HoldsOne
    BY <1>1, <1>2, <1>10, CallsToMake, ListsDiffer
  <2>2. BinaryValues'
    BY <1>2, <1>8, <1>10, <2>1 DEF BinaryValues, Binary
  <2> QED
    BY <1>3, <1>5, <2>2 DEF HandlerValues
<1>11. ASSUME NEW x \in Var, Tail(todo) = BeforeStore(x), Storing(x), Popped(0)
       PROVE  SlotsKept /\ HandlerValues'
  <2>1. HoldsNone
    BY <1>1, <1>2, <1>11, CallsToMake, ListsDiffer
  <2>2. StoreValues'
    BY <1>2, <1>7, <1>11, <2>1 DEF StoreValues, Storing
  <2> QED
    BY <1>3, <1>5, <2>2 DEF HandlerValues
<1> QED
  BY <1>1, <1>9, <1>10, <1>11, ValuesToMake

LEMMA ComputeValuesOK ==
  ASSUME VInv, HandlerComputes
  PROVE  SlotsKept /\ HandlerValues'
<1>1. /\ phase = "code" /\ todo # <<>> /\ Head(todo)[1] = "compute"
      /\ Compute(taken[2], Op(contents[taken[2]], contents[taken[1]]))
      /\ taken' = taken /\ local_variable_map' = local_variable_map /\ CallMade
  BY DEF HandlerComputes, NextCall
<1>2. /\ before' = before /\ opcode' = opcode /\ todo' = Tail(todo)
      /\ before.stack \in Seq(Value) /\ IInv /\ CInv
      /\ VarsInFrame /\ FrameBelow /\ SlotsApart
  BY <1>1, CallMadeFacts
<1>3. /\ Binary /\ Popped(2) /\ VarsNow = before.vars /\ HoldsTwo /\ Tail(todo) = AfterCompute
  BY <1>1, <1>2, ValuesToMake, CallsToMake
<1>4. PICK r, q \in Reg : r # q /\ taken = <<r, q>> /\ held = {r, q}
  BY <1>3 DEF HoldsTwo
<1> DEFINE b == before.stack
<1>0. PICK v : v = Op(b[Len(b) - 1], b[Len(b)])
  OBVIOUS
<1>5. Len(b) \in Nat /\ contents[r] = b[Len(b)] /\ contents[q] = b[Len(b) - 1]
  <2>1. Len(b) \in Nat
    BY <1>2, LenProperties
  <2>2. contents[taken[1]] = b[Len(b) - 1 + 1] /\ contents[taken[2]] = b[Len(b) - 2 + 1]
    BY <1>3 DEF Popped
  <2>3. Len(b) - 1 + 1 = Len(b) /\ Len(b) - 2 + 1 = Len(b) - 1
    BY <2>1
  <2>4. taken[1] = r /\ taken[2] = q
    BY <1>4
  <2> QED
    BY <2>1, <2>2, <2>3, <2>4
<1>6. /\ contents' = [contents EXCEPT ![q] = v] /\ q \in held
      /\ reg_stack' = reg_stack /\ frame' = frame
      /\ total_stack_size' = total_stack_size
  <2>1. taken[1] = r /\ taken[2] = q
    BY <1>4
  <2> QED
    BY <1>0, <1>1, <1>5, <2>1 DEF Compute
<1>7. PoolValues' = PoolValues /\ contents'[q] = v
  BY <1>2, <1>6, ComputeValues
<1>8. SlotsKept
  BY <1>1, <1>2, <1>6, SameSlots
<1>9. PushPending(v)
  BY <1>0, <1>3 DEF PushPending, Pushes, Popped, Binary
<1>10. PushPending(v)'
  BY <1>2, <1>7, <1>9, PendingStays
<1>11. contents'[taken'[2]] = v
  BY <1>1, <1>4, <1>7
<1>12. PushPending(contents[taken[2]])'
  BY <1>10, <1>11 DEF PushPending, Pushes
<1>13. VarsNow' = before'.vars
  BY <1>2, <1>3, <1>8 DEF SlotsKept
<1> QED
  BY <1>2, <1>3, <1>8, <1>12, <1>13 DEF HandlerValues, BinaryValues

\* The value reaches the variable, and neither another variable nor an operand.
LEMMA StoreValuesOK ==
  ASSUME VInv, HandlerStores
  PROVE  FrameBelow' /\ SlotsApart' /\ HandlerValues'
<1> DEFINE isNew == Arg \notin DOMAIN local_variable_map
           slot == IF isNew THEN total_stack_size + SlotSize ELSE local_variable_map[Arg]
<1>1. /\ phase = "code" /\ todo # <<>> /\ Head(todo)[1] = "store" /\ CallMade
      /\ total_stack_size' = IF isNew THEN slot ELSE total_stack_size
      /\ local_variable_map' = [y \in DOMAIN local_variable_map \cup {Arg} |->
                                  IF y = Arg THEN slot ELSE local_variable_map[y]]
      /\ frame' = [o \in DOMAIN frame \cup {slot} |->
                     IF o = slot THEN contents[taken[1]] ELSE frame[o]]
      /\ reg_stack' = reg_stack /\ contents' = contents
  BY DEF HandlerStores, NextCall
<1>2. /\ before' = before /\ opcode' = opcode /\ todo' = Tail(todo)
      /\ before.stack \in Seq(Value) /\ IInv /\ CInv
      /\ VarsInFrame /\ FrameBelow /\ SlotsApart
  BY <1>1, CallMadeFacts
<1>3. /\ Storing(Arg) /\ Popped(1) /\ VarsNow = before.vars
      /\ Arg \in Var /\ Tail(todo) = AfterStore
  BY <1>1, <1>2, ValuesToMake, CallsToMake
<1>4. /\ total_stack_size \in Nat /\ SlotSize \in Nat \ {0}
      /\ DOMAIN frame \subseteq Nat /\ reg_stack \in Seq(StackValue)
  BY <1>2, PartsOfIInv, CallAssumption
<1>5. PICK x \in Var : x = Arg
  BY <1>3
<1>6. /\ isNew => slot \notin DOMAIN frame /\ slot \in Nat /\ slot > total_stack_size
      /\ ~isNew => slot \in DOMAIN frame
      /\ \A y \in DOMAIN local_variable_map : y # x => local_variable_map[y] # slot
      /\ \A i \in DOMAIN reg_stack : reg_stack[i].is_spilled => reg_stack[i].offset # slot
  <2>1. \A i \in DOMAIN reg_stack : reg_stack[i].is_spilled => reg_stack[i].offset \in DOMAIN frame
    BY <1>2, PartsOfIInv, StackOKGivesInvariants DEF SlotsInFrame
  <2>2. isNew => slot \notin DOMAIN frame /\ slot \in Nat /\ slot > total_stack_size
    BY <1>2, <1>4 DEF FrameBelow
  <2>3. \A y \in DOMAIN local_variable_map : local_variable_map[y] \in DOMAIN frame
    BY <1>2 DEF VarsInFrame
  <2>4. CASE isNew
    BY <2>1, <2>2, <2>3, <2>4
  <2>5. CASE ~isNew
    BY <1>2, <1>5, <2>3, <2>5 DEF SlotsApart
  <2> QED
    BY <2>4, <2>5
<1> HIDE DEF slot, isNew
<1>7. PoolValues' = PoolValues
  <2>1. \A i \in DOMAIN reg_stack :
          reg_stack[i].is_spilled => frame'[reg_stack[i].offset] = frame[reg_stack[i].offset]
    <3>1. \A i \in DOMAIN reg_stack : reg_stack[i].is_spilled => reg_stack[i].offset \in DOMAIN frame
      BY <1>2, PartsOfIInv, StackOKGivesInvariants DEF SlotsInFrame
    <3> QED
      BY <1>1, <1>6, <3>1
  <2>2. StackValues(reg_stack, frame', contents) = StackValues(reg_stack, frame, contents)
    BY <1>4, <2>1, StackValuesKept
  <2> QED
    BY <1>1, <2>2 DEF PoolValues
<1>8. frame'[slot] = before.stack[Len(before.stack)]
  <2>1. contents[taken[1]] = before.stack[Len(before.stack) - 1 + 1]
    BY <1>3 DEF Popped
  <2>2. Len(before.stack) - 1 + 1 = Len(before.stack)
    BY <1>2, LenProperties
  <2> QED
    BY <1>1, <2>1, <2>2
<1>9. /\ DOMAIN local_variable_map' = DOMAIN local_variable_map \cup {x}
      /\ local_variable_map'[x] = slot
      /\ \A y \in DOMAIN local_variable_map : y # x => local_variable_map'[y] = local_variable_map[y]
  BY <1>1, <1>5
<1>10. VarsNow' = StoredVars(x)'
  <2>1. \A y \in DOMAIN local_variable_map :
          y # x => frame'[local_variable_map'[y]] = before.vars[y]
    BY <1>1, <1>2, <1>3, <1>6, <1>9 DEF VarsInFrame, VarsNow
  <2>2. DOMAIN before.vars = DOMAIN local_variable_map
    BY <1>3 DEF VarsNow
  <2> QED
    BY <1>2, <1>8, <1>9, <2>1, <2>2 DEF VarsNow, StoredVars
<1>11. FrameBelow'
  BY <1>1, <1>2, <1>4, <1>6 DEF FrameBelow
<1>12. SlotsApart'
  BY <1>1, <1>2, <1>6, <1>9 DEF SlotsApart
<1>13. StoreValues'
  BY <1>2, <1>3, <1>5, <1>7, <1>10 DEF StoreValues, Storing, Popped
<1> QED
  BY <1>2, <1>3, <1>11, <1>12, <1>13 DEF HandlerValues

\* A register given back leaves the operands; the one pushed becomes the topmost.
LEMMA GivesBackValuesOK ==
  ASSUME VInv, HandlerGivesBack
  PROVE  SlotsKept /\ HandlerValues'
<1>1. /\ phase = "code" /\ todo # <<>> /\ CallMade
      /\ taken' = taken /\ local_variable_map' = local_variable_map
  BY DEF HandlerGivesBack, NextCall
<1>2. /\ before' = before /\ opcode' = opcode /\ todo' = Tail(todo)
      /\ before.stack \in Seq(Value) /\ IInv /\ CInv
      /\ VarsInFrame /\ FrameBelow /\ SlotsApart
  BY <1>1, CallMadeFacts
<1>3. CASE Head(todo)[1] = "free" /\ Free(taken[Arg])
  <2>1. /\ reg_stack' = reg_stack /\ frame' = frame /\ contents' = contents
        /\ total_stack_size' = total_stack_size
    BY <1>3 DEF Free
  <2>2. SlotsKept /\ PoolValues' = PoolValues
    BY <1>1, <1>2, <2>1, SameSlots DEF PoolValues
  <2>3. CASE Tail(todo) = AfterFree /\ PushPending(contents[taken[2]]) /\ VarsNow = before.vars
    <3>1. PICK v : v = contents[taken[2]] /\ PushPending(v)
      BY <2>3
    <3>2. PushPending(v)'
      BY <1>2, <2>2, <3>1, PendingStays
    <3>3. PushPending(contents[taken[2]])'
      BY <1>1, <2>1, <3>1, <3>2 DEF PushPending, Pushes
    <3>4. VarsNow' = before'.vars
      BY <1>2, <2>2, <2>3 DEF SlotsKept
    <3> QED
      BY <1>2, <2>2, <2>3, <3>3, <3>4 DEF HandlerValues, BinaryValues
  <2>4. CASE Tail(todo) = <<>>
    BY <1>2, <2>2, <2>4 DEF HandlerValues
  <2> QED
    BY <1>1, <1>3, <2>3, <2>4, ValuesToMake
<1>4. CASE Head(todo)[1] = "push" /\ Push(taken[Arg])
  <2>1. Tail(todo) = <<>>
    BY <1>1, <1>2, <1>4, CallsToMake
  <2>2. /\ frame' = frame /\ total_stack_size' = total_stack_size
        /\ reg_stack' = Append(reg_stack, [is_spilled |-> FALSE, reg |-> taken[Arg], offset |-> 0])
        /\ taken[Arg] \in held
    BY <1>4 DEF Push
  <2>3. \A i \in DOMAIN reg_stack' :
          reg_stack'[i].is_spilled => i \in DOMAIN reg_stack /\ reg_stack'[i] = reg_stack[i]
    <3> DEFINE e == [is_spilled |-> FALSE, reg |-> taken[Arg], offset |-> 0]
    <3>1. taken[Arg] \in Reg
      BY <1>2, <2>2, PartsOfIInv
    <3>2. e \in StackValue /\ ~e.is_spilled
      BY <3>1 DEF StackValue
    <3>3. reg_stack' = Append(reg_stack, e)
      BY <2>2
    <3> HIDE DEF e
    <3>4. reg_stack \in Seq(StackValue)
      BY <1>2, PartsOfIInv
    <3> QED
      BY <3>2, <3>3, <3>4, AppendFacts
  <2>4. SlotsKept
    BY <1>1, <1>2, <2>2, <2>3 DEF SlotsKept, FrameBelow, SlotsApart, VarsNow
  <2> QED
    BY <1>2, <2>1, <2>4 DEF HandlerValues
<1> QED
  BY <1>3, <1>4 DEF HandlerGivesBack, NextCall

-------------------------------------------------------------------------------
(* The steps of op_call. *)

\* What a step of a call can rely on, and what it does not change.
LEMMA InCallValues ==
  ASSUME VInv, phase # "code", InCall
  PROVE  /\ before' = before /\ opcode' = opcode /\ arg_count' = arg_count
         /\ todo' = todo /\ local_variable_map' = local_variable_map
         /\ before.stack \in Seq(Value) /\ arg_count \in Nat
         /\ IInv /\ CInv /\ CallValues
         /\ VarsInFrame /\ FrameBelow /\ SlotsApart
         /\ CallArgs' = CallArgs /\ Rest' = Rest
         /\ CallArgs \in Seq(Value) /\ Len(CallArgs) = arg_count
         /\ Rest \in Seq(Value) /\ DOMAIN Rest = 1..Len(Rest)
<1>1. arg_count \in Nat /\ before.stack \in Seq(Value)
  BY DEF VInv, CInv
<1> QED
  BY <1>1, ArgsOfFacts, BelowFacts DEF VInv, CInv, InCall, CallArgs, Rest

\* An argument is collected with the value it is to have.
LEMMA ArgCollected ==
  ASSUME VInv, phase \in {"collect", "missing"}, ~thrown, InCall, phase' = "collect",
         NEW p, NEW v, Obtains(p, v),
         Len(args) < arg_count, args' = Append(args, [reg |-> p, off |-> 0]),
         v = CallArgs[arg_count - Len(args)],
         PoolValues' = Below(before.stack, Len(args) + 1),
         \A o \in DOMAIN frame : frame'[o] = frame[o]
  PROVE  CollectValues'
<1>1. /\ before' = before /\ arg_count' = arg_count /\ CallArgs' = CallArgs
      /\ arg_count \in Nat /\ CollectValues /\ ArgsHeld /\ args \in Seq(ArgRecord)
  BY InCallValues, InCallFacts DEF CallValues, CInv, PhaseOK
<1>2. /\ p \in Reg \ held /\ contents'[p] = v
      /\ \A x \in Reg : x # p => contents'[x] = contents[x]
  BY DEF Obtains
<1> DEFINE a == [reg |-> p, off |-> 0]
<1>0. PICK n : n = Len(args)
  OBVIOUS
<1>3. a \in ArgRecord /\ a.reg = p /\ a.off = 0
  BY <1>2 DEF ArgRecord
<1> HIDE DEF a
<1>4. args' = Append(args, a)
  BY DEF a
<1>5. /\ Len(args') = n + 1 /\ n \in Nat /\ DOMAIN args' = 1..n + 1 /\ DOMAIN args = 1..n
      /\ \A i \in 1..n : args'[i] = args[i]
      /\ args'[n + 1] = a
  BY <1>0, <1>1, <1>3, <1>4, AppendFacts
<1>6. v = CallArgs[arg_count - n] /\ PoolValues' = Below(before.stack, n + 1)
  BY <1>0
<1>7. ASSUME NEW k \in 1..n PROVE ArgValue(k)' = CallArgs[arg_count - k + 1]
  <2>1. ArgValue(k) = CallArgs[arg_count - k + 1] /\ args'[k] = args[k]
    BY <1>1, <1>5 DEF CollectValues
  <2>2. CASE args[k].off = 0
    <3>1. args[k].reg \in held /\ args[k].reg \in Reg
      BY <1>1, <1>5, <2>2, PartsOfIInv, InCallValues DEF ArgsHeld, InRegister
    <3>2. contents'[args[k].reg] = contents[args[k].reg]
      BY <1>2, <3>1
    <3> QED
      BY <2>1, <2>2, <3>2 DEF ArgValue
  <2>3. CASE args[k].off # 0
    <3>1. args[k].off \in DOMAIN frame
      BY <1>1, <1>5, <2>3 DEF ArgsHeld, InRegister
    <3> QED
      BY <2>1, <2>3, <3>1 DEF ArgValue
  <2> QED
    BY <2>2, <2>3
<1>8. ArgValue(n + 1)' = CallArgs[arg_count - (n + 1) + 1]
  <2>1. arg_count - (n + 1) + 1 = arg_count - n
    BY <1>1, <1>5
  <2> QED
    BY <1>2, <1>3, <1>5, <1>6, <2>1 DEF ArgValue
<1>9. \A k \in DOMAIN args' : ArgValue(k)' = CallArgs'[arg_count' - k + 1]
  <2> SUFFICES ASSUME NEW k \in 1..n + 1
               PROVE  ArgValue(k)' = CallArgs[arg_count - k + 1]
    BY <1>1, <1>5
  <2>1. k \in 1..n \/ k = n + 1
    BY <1>5
  <2> QED
    BY <1>7, <1>8, <2>1
<1> QED
  BY <1>1, <1>3, <1>5, <1>6, <1>9 DEF CollectValues

LEMMA CollectArgValues ==
  ASSUME VInv, CollectArg
  PROVE  SlotsKept /\ CallValues'
<1>1. /\ phase = "collect" /\ ~thrown /\ Len(args) < arg_count /\ Pop
      /\ args' = Append(args, [reg |-> PopReg, off |-> 0])
      /\ phase' = "collect" /\ InCall
  BY DEF CollectArg, Collecting
<1>2. /\ before.stack \in Seq(Value) /\ arg_count \in Nat /\ IInv /\ CInv /\ CallValues
      /\ before' = before /\ opcode' = opcode /\ arg_count' = arg_count
      /\ VarsInFrame /\ FrameBelow /\ SlotsApart
      /\ local_variable_map' = local_variable_map
  BY <1>1, InCallValues
<1>3. SlotsKept
  BY <1>1, <1>2, PoolCallKeepsSlots
<1>4. PopsInto(PopReg)
  BY <1>1, <1>2, PopValues
<1> DEFINE n == Len(args)
           b == before.stack
<1>5. PICK p : p = PopReg
  OBVIOUS
<1>6. PICK v : v = PoolValues[Len(PoolValues)]
  OBVIOUS
<1>7. /\ PoolValues = Below(b, n) /\ n \in Nat /\ n < arg_count
      /\ PoolValues # <<>> /\ PoolValues' = SubSeq(PoolValues, 1, Len(PoolValues) - 1)
      /\ Obtains(p, v)
  BY <1>1, <1>2, <1>4, <1>5, <1>6, InCallFacts, LenProperties DEF CallValues, CollectValues, PopsInto
<1>8. n < Len(b) /\ v = b[Len(b) - n] /\ PoolValues' = Below(b, n + 1)
  BY <1>2, <1>6, <1>7, BelowPops
<1>9. v = CallArgs[arg_count - n]
  <2>1. \A m \in 0..(arg_count - 1) :
          CallArgs[arg_count - m] = IF m < Len(b) THEN b[Len(b) - m] ELSE Zero
    BY <1>2, ArgsOfFacts DEF CallArgs
  <2>2. n \in 0..(arg_count - 1)
    BY <1>2, <1>7
  <2> HIDE DEF n, b
  <2> QED
    BY <1>2, <1>7, <1>8, <2>1, <2>2
<1>10. CollectValues'
  BY <1>1, <1>3, <1>5, <1>7, <1>8, <1>9, ArgCollected DEF SlotsKept
<1> QED
  BY <1>1, <1>2, <1>3, <1>10 DEF CallValues, SlotsKept

\* An operand that is not there is collected as zero.
LEMMA CollectMissingValues ==
  ASSUME GpConvention, VInv, CollectMissing
  PROVE  SlotsKept /\ CallValues'
<1>1. /\ phase = "missing" /\ PopEmpty /\ ~thrown
      /\ args' = Append(args, [reg |-> PopReg, off |-> 0])
      /\ phase' = "collect" /\ InCall /\ reg_stack = <<>>
  BY DEF CollectMissing, PopEmpty
<1>2. /\ before.stack \in Seq(Value) /\ arg_count \in Nat /\ IInv /\ CInv /\ CallValues
      /\ before' = before /\ opcode' = opcode /\ arg_count' = arg_count
      /\ VarsInFrame /\ FrameBelow /\ SlotsApart
      /\ local_variable_map' = local_variable_map
  BY <1>1, InCallValues
<1>3. SlotsKept
  BY <1>1, <1>2, PoolCallKeepsSlots
<1> DEFINE n == Len(args)
           b == before.stack
<1>4. PICK p : p = AllocReg(reg_stack)
  OBVIOUS
<1>5. /\ PoolValues' = <<>> /\ PoolValues = <<>> /\ Obtains(p, Zero)
  BY <1>1, <1>2, <1>4, PopEmptyValues DEF GpConvention
<1>6. args' = Append(args, [reg |-> p, off |-> 0]) /\ n \in Nat /\ n < arg_count
  BY <1>1, <1>2, <1>4, InCallFacts, LenProperties DEF PopReg, CInv, PhaseOK
<1>7. Len(b) <= n /\ Len(b) \in Nat
  <2>1. Below(b, n) = <<>>
    BY <1>1, <1>2, <1>5 DEF CallValues, CollectValues
  <2>2. Len(<<>>) = 0
    OBVIOUS
  <2>3. Len(Below(b, n)) = IF n <= Len(b) THEN Len(b) - n ELSE 0
    BY <1>2, <1>6, BelowFacts
  <2>4. Len(b) \in Nat
    BY <1>2, LenProperties
  <2> HIDE DEF n, b
  <2> QED
    BY <1>6, <2>1, <2>2, <2>3, <2>4
<1>8. PoolValues' = Below(b, n + 1)
  <2>1. n + 1 \in Nat /\ ~(n + 1 <= Len(b))
    BY <1>6, <1>7
  <2>2. Below(b, n + 1) \in Seq(Value) /\ Len(Below(b, n + 1)) = 0
    BY <1>2, <2>1, BelowFacts
  <2> QED
    BY <1>5, <2>2, EmptySeq
<1>9. Zero = CallArgs[arg_count - n]
  <2>1. \A m \in 0..(arg_count - 1) :
          CallArgs[arg_count - m] = IF m < Len(b) THEN b[Len(b) - m] ELSE Zero
    BY <1>2, ArgsOfFacts DEF CallArgs
  <2>2. n \in 0..(arg_count - 1)
    BY <1>2, <1>6
  <2> HIDE DEF n, b
  <2> QED
    BY <1>2, <1>6, <1>7, <2>1, <2>2
<1>10. CollectValues'
  BY <1>1, <1>3, <1>5, <1>6, <1>8, <1>9, ArgCollected DEF SlotsKept
<1> QED
  BY <1>1, <1>2, <1>3, <1>10 DEF CallValues, SlotsKept

\* A collected argument moves to the frame, and stays collected.
LEMMA SpillCollectedValues ==
  ASSUME VInv, SpillCollected
  PROVE  SlotsKept /\ CallValues'
<1> DEFINE r == args[Min(InRegister)].reg
<1>1. /\ phase = "collect" /\ ~thrown /\ Len(args) < arg_count /\ InRegister # {}
      /\ reg_stack = <<>> /\ reg_stack' = reg_stack /\ contents' = contents
      /\ total_stack_size' = NewSlot
      /\ frame' = [o \in DOMAIN frame \cup {NewSlot} |->
                     IF o = NewSlot THEN contents[r] ELSE frame[o]]
      /\ args' = [args EXCEPT ![Min(InRegister)].off = NewSlot]
      /\ phase' = "missing" /\ InCall
  BY DEF SpillCollected, Collecting
<1>2. /\ before.stack \in Seq(Value) /\ arg_count \in Nat /\ IInv /\ CInv /\ CallValues
      /\ before' = before /\ opcode' = opcode /\ arg_count' = arg_count
      /\ VarsInFrame /\ FrameBelow /\ SlotsApart /\ CallArgs' = CallArgs
      /\ local_variable_map' = local_variable_map
  BY <1>1, InCallValues
<1>3. /\ args \in Seq(ArgRecord) /\ DOMAIN args = 1..Len(args) /\ Len(args) \in Nat
      /\ total_stack_size \in Nat /\ DOMAIN frame \subseteq Nat
      /\ CollectValues /\ ArgsHeld
  BY <1>1, <1>2, InCallFacts, LenProperties DEF CallValues, CInv, PhaseOK
<1>4. PICK k \in InRegister : k = Min(InRegister)
  <2>1. InRegister \in SUBSET Nat
    BY <1>3 DEF InRegister
  <2> QED
    BY <1>1, <2>1, MinFacts
<1>5. PICK slot \in Nat : slot = NewSlot /\ slot > total_stack_size
  BY <1>3, PoolAssumption DEF NewSlot
<1>6. /\ slot \notin DOMAIN frame /\ slot # 0
      /\ frame'[slot] = contents[args[k].reg]
      /\ DOMAIN frame' = DOMAIN frame \cup {slot} /\ total_stack_size' = slot
      /\ \A o \in DOMAIN frame : frame'[o] = frame[o]
  BY <1>1, <1>2, <1>3, <1>4, <1>5 DEF FrameBelow
<1>7. /\ DOMAIN args' = DOMAIN args /\ Len(args') = Len(args)
      /\ args'[k].off = slot
      /\ \A i \in DOMAIN args : i # k => args'[i] = args[i]
  <2>1. k \in DOMAIN args /\ args[k] \in ArgRecord
    BY <1>3, ElementOfSeq DEF InRegister
  <2> DEFINE a == [reg |-> args[k].reg, off |-> slot]
  <2>2. [args[k] EXCEPT !.off = slot] = a /\ a \in ArgRecord /\ a.off = slot
    BY <2>1, <1>5 DEF ArgRecord
  <2>3. args' = [args EXCEPT ![k] = [args[k] EXCEPT !.off = slot]]
    BY <1>1, <1>4, <1>5
  <2> HIDE DEF a
  <2>4. args' = [args EXCEPT ![k] = a]
    BY <2>2, <2>3
  <2>5. args' \in [1..Len(args) -> ArgRecord]
    <3>1. args \in [1..Len(args) -> ArgRecord]
      BY <1>3
    <3> QED
      BY <2>2, <2>4, <3>1
  <2> QED
    BY <1>3, <2>1, <2>2, <2>4, <2>5, FunctionIsSeq
<1>8. ASSUME NEW i \in DOMAIN args PROVE ArgValue(i)' = CallArgs[arg_count - i + 1]
  <2>1. ArgValue(i) = CallArgs[arg_count - i + 1]
    BY <1>3 DEF CollectValues
  <2>2. CASE i = k
    <3>1. ArgValue(i)' = frame'[slot]
      BY <1>6, <1>7, <2>2 DEF ArgValue
    <3>2. ArgValue(i) = contents[args[k].reg]
      BY <2>2 DEF ArgValue, InRegister
    <3> QED
      BY <1>6, <2>1, <3>1, <3>2
  <2>3. CASE i # k /\ args[i].off = 0
    BY <1>1, <1>7, <2>1, <2>3 DEF ArgValue
  <2>4. CASE i # k /\ args[i].off # 0
    <3>1. args[i].off \in DOMAIN frame
      BY <1>3, <2>4 DEF ArgsHeld, InRegister
    <3> QED
      BY <1>6, <1>7, <2>1, <2>4, <3>1 DEF ArgValue
  <2> QED
    BY <2>2, <2>3, <2>4
<1>9. PoolValues' = Below(before.stack, Len(args))
  <2>1. StackValues(reg_stack, frame', contents) = StackValues(reg_stack, frame, contents)
    BY <1>1, EmptySeq DEF StackValues
  <2> QED
    BY <1>1, <1>3, <2>1 DEF PoolValues, CollectValues
<1>10. CollectValues'
  BY <1>1, <1>2, <1>7, <1>8, <1>9 DEF CollectValues
<1>11. FrameBelow'
  BY <1>2, <1>3, <1>5, <1>6 DEF FrameBelow
<1>12. SlotsApart' /\ VarsNow' = VarsNow
  BY <1>1, <1>2, <1>6, EmptySeq DEF SlotsApart, VarsNow, VarsInFrame
<1> QED
  BY <1>1, <1>2, <1>6, <1>10, <1>11, <1>12 DEF CallValues, SlotsKept

\* A spilled argument returns to a register.
LEMMA ReloadArgValues ==
  ASSUME VInv, ReloadArg
  PROVE  SlotsKept /\ CallValues'
<1> DEFINE m == Min(DOMAIN args \ InRegister)
<1>1. /\ phase = "collect" /\ ~thrown /\ Len(args) = arg_count /\ InRegister # DOMAIN args
      /\ Alloc(frame[args[m].off])
      /\ args' = [args EXCEPT ![m] = [reg |-> AllocReg(reg_stack), off |-> 0]]
      /\ phase' = "collect" /\ InCall
  BY DEF ReloadArg, Collected
<1>2. /\ before.stack \in Seq(Value) /\ arg_count \in Nat /\ IInv /\ CInv /\ CallValues
      /\ before' = before /\ opcode' = opcode /\ arg_count' = arg_count
      /\ VarsInFrame /\ FrameBelow /\ SlotsApart /\ CallArgs' = CallArgs
      /\ local_variable_map' = local_variable_map
  BY <1>1, InCallValues
<1>3. /\ args \in Seq(ArgRecord) /\ DOMAIN args = 1..Len(args) /\ Len(args) \in Nat
      /\ \A o \in DOMAIN frame : frame[o] \in Value
      /\ CollectValues /\ ArgsHeld
  BY <1>1, <1>2, InCallFacts, LenProperties DEF CallValues, CInv, PhaseOK
<1>4. PICK k \in DOMAIN args \ InRegister : k = m
  <2>1. DOMAIN args \ InRegister \in SUBSET Nat
    BY <1>3
  <2>2. DOMAIN args \ InRegister # {}
    BY <1>1 DEF InRegister
  <2> QED
    BY <2>1, <2>2, MinFacts
<1>5. PICK v \in Value : v = frame[args[k].off]
  BY <1>3 DEF ArgsHeld
<1>6. PICK p : p = AllocReg(reg_stack)
  OBVIOUS
<1> HIDE DEF m
<1>7. Alloc(v) /\ args' = [args EXCEPT ![k] = [reg |-> p, off |-> 0]]
  BY <1>1, <1>4, <1>5, <1>6
<1>8. SlotsKept
  BY <1>2, <1>7, PoolCallKeepsSlots
<1>9. PoolValues' = PoolValues /\ Obtains(p, v)
  BY <1>2, <1>6, <1>7, AllocValues
<1> DEFINE a == [reg |-> p, off |-> 0]
<1>10. a \in ArgRecord /\ a.reg = p /\ a.off = 0 /\ args' = [args EXCEPT ![k] = a]
  BY <1>7, <1>9 DEF ArgRecord, Obtains
<1> HIDE DEF a
<1>11. /\ DOMAIN args' = DOMAIN args /\ Len(args') = Len(args)
       /\ args'[k] = a
       /\ \A i \in DOMAIN args : i # k => args'[i] = args[i]
  <2>1. args' \in [1..Len(args) -> ArgRecord]
    <3>1. args \in [1..Len(args) -> ArgRecord]
      BY <1>3
    <3> QED
      BY <1>10, <3>1
  <2> QED
    BY <1>3, <1>10, <2>1, FunctionIsSeq
<1>12. ASSUME NEW i \in DOMAIN args PROVE ArgValue(i)' = CallArgs[arg_count - i + 1]
  <2>1. ArgValue(i) = CallArgs[arg_count - i + 1]
    BY <1>3 DEF CollectValues
  <2>2. CASE i = k
    <3>1. args[k].off # 0
      BY <1>4 DEF InRegister
    <3> QED
      BY <1>5, <1>9, <1>10, <1>11, <2>1, <2>2, <3>1 DEF ArgValue, Obtains
  <2>3. CASE i # k /\ args[i].off = 0
    <3>1. args[i].reg \in held /\ args[i].reg \in Reg
      BY <1>2, <1>3, <2>3, PartsOfIInv DEF ArgsHeld, InRegister
    <3>2. contents'[args[i].reg] = contents[args[i].reg]
      BY <1>9, <3>1 DEF Obtains
    <3> QED
      BY <1>11, <2>1, <2>3, <3>2 DEF ArgValue
  <2>4. CASE i # k /\ args[i].off # 0
    <3>1. args[i].off \in DOMAIN frame
      BY <1>3, <2>4 DEF ArgsHeld, InRegister
    <3> QED
      BY <1>8, <1>11, <2>1, <2>4, <3>1 DEF ArgValue, SlotsKept
  <2> QED
    BY <2>2, <2>3, <2>4
<1>13. args # <<>> => args'[Len(args')].off = 0
  <2>1. args # <<>> => Len(args) \in DOMAIN args
    BY <1>3, EmptySeq
  <2> QED
    BY <1>1, <1>3, <1>10, <1>11, <2>1 DEF CollectValues
<1>14. CollectValues'
  <2>1. args' # <<>> => args # <<>>
    BY <1>4
  <2> QED
    BY <1>1, <1>2, <1>3, <1>9, <1>11, <1>12, <1>13, <2>1 DEF CollectValues
<1> QED
  BY <1>1, <1>2, <1>8, <1>14 DEF CallValues, SlotsKept

\* There are as many registers as the initializer list of the pool has.
LEMMA RegFinite == IsFiniteSet(Reg)
<1>1. /\ DOMAIN InitialRegs = 1..Len(InitialRegs) /\ Len(InitialRegs) \in Nat
      /\ InitialRegs \in [1..Len(InitialRegs) -> Reg]
  BY PoolAssumption, LenProperties
<1>2. InitialRegs \in Surjection(1..Len(InitialRegs), Reg)
  BY <1>1 DEF Surjection, Reg, Range
<1>3. IsFiniteSet(1..Len(InitialRegs))
  BY <1>1, FS_Interval
<1> QED
  BY <1>2, <1>3, FS_Surjection

\* Arguments that are all in registers are not more than there are registers.
LEMMA ArgsFit ==
  ASSUME IInv, ArgsHeld, AllInRegister, args \in Seq(ArgRecord)
  PROVE  Len(args) <= Cardinality(Reg)
<1>0. PICK n \in Nat : n = Len(args)
  BY LenProperties
<1> DEFINE S == 1..n
           f == [k \in S |-> args[k].reg]
<1>1. n \in Nat /\ DOMAIN args = 1..n
  BY <1>0, LenProperties
<1>2. /\ \A k \in 1..n : args[k].reg \in Reg
      /\ \A j, k \in 1..n : args[j].reg = args[k].reg => j = k
  <2>1. held \subseteq Reg
    BY PartsOfIInv
  <2> QED
    BY <1>1, <2>1 DEF ArgsHeld, AllInRegister
<1>3. IsFiniteSet(S) /\ Cardinality(S) = n
  BY <1>1, FS_Interval
<1>4. f \in [S -> Reg] /\ \A j, k \in S : f[j] = f[k] => j = k
  BY <1>2
<1>5. Cardinality(Reg) \in Nat
  BY RegFinite, FS_CardinalityType
<1> HIDE DEF f, S
<1>6. ~(Cardinality(Reg) < Cardinality(S))
  <2>1. PICK g : g = f
    OBVIOUS
  <2>2. g \in [S -> Reg] /\ \A j, k \in S : g[j] = g[k] => j = k
    BY <1>4, <2>1
  <2> QED
    BY <1>3, <2>2, RegFinite, FS_PigeonHole
<1> QED
  BY <1>0, <1>3, <1>5, <1>6

\* When op_call holds every register, it has an argument in each.
LEMMA ArgsFill ==
  ASSUME IInv, ArgsHeld, held = Reg, args \in Seq(ArgRecord)
  PROVE  /\ Cardinality(Reg) <= Len(args)
         /\ ~AllInRegister => Cardinality(Reg) < Len(args)
<1>0. PICK n \in Nat : n = Len(args)
  BY LenProperties
<1> DEFINE f == [k \in InRegister |-> args[k].reg]
<1>1. n \in Nat /\ DOMAIN args = 1..n /\ InRegister \subseteq 1..n
  BY <1>0, LenProperties DEF InRegister
<1>2. IsFiniteSet(1..n) /\ Cardinality(1..n) = n
  BY <1>1, FS_Interval
<1>3. /\ IsFiniteSet(InRegister) /\ Cardinality(InRegister) <= n
      /\ Cardinality(InRegister) = n => InRegister = 1..n
  BY <1>1, <1>2, FS_Subset
<1>4. f \in Surjection(InRegister, Reg)
  BY DEF Surjection, ArgsHeld
<1>5. Cardinality(Reg) <= Cardinality(InRegister)
  BY <1>3, <1>4, FS_Surjection
<1>6. Cardinality(Reg) \in Nat /\ Cardinality(InRegister) \in Nat
  BY <1>3, RegFinite, FS_CardinalityType
<1>7. ~AllInRegister => Cardinality(InRegister) # n
  BY <1>1, <1>3 DEF AllInRegister
<1> QED
  BY <1>0, <1>1, <1>3, <1>5, <1>6, <1>7

\* std::reverse: the arguments are in the order of the parameters, none moved yet.
LEMMA ReverseArgsValues ==
  ASSUME VInv, ReverseArgs
  PROVE  SlotsKept /\ CallValues'
<1>1. /\ phase = "collect" /\ ~thrown /\ Len(args) = arg_count /\ InRegister = DOMAIN args
      /\ args' = Reverse(args) /\ phase' = "move" /\ InCall /\ UNCHANGED vars
      /\ caller_saved' = caller_saved
  BY DEF ReverseArgs, Collected
<1>2. /\ before.stack \in Seq(Value) /\ arg_count \in Nat /\ IInv /\ CInv /\ CallValues
      /\ before' = before /\ opcode' = opcode /\ arg_count' = arg_count
      /\ VarsInFrame /\ FrameBelow /\ SlotsApart /\ CallArgs' = CallArgs /\ Rest' = Rest
      /\ local_variable_map' = local_variable_map
  BY <1>1, InCallValues
<1>3. /\ reg_stack' = reg_stack /\ frame' = frame /\ contents' = contents
      /\ total_stack_size' = total_stack_size /\ thrown' = thrown
  BY <1>1 DEF vars
<1>4. SlotsKept
  BY <1>2, <1>3, SameSlots
<1>5. CollectValues /\ ArgsHeld /\ caller_saved = <<>> /\ args \in Seq(ArgRecord)
  BY <1>1, <1>2, InCallFacts DEF CallValues, CInv, PhaseOK
<1>6. PICK n \in Nat : n = Len(args)
  BY <1>5, LenProperties
<1>7. /\ Len(args') = n /\ DOMAIN args' = 1..n /\ DOMAIN args = 1..n
      /\ \A i \in 1..n : args'[i] = args[n - i + 1]
  BY <1>1, <1>5, <1>6, ReverseFacts
<1>8. ASSUME NEW k \in 1..n PROVE contents'[args'[k].reg] = CallArgs[k]
  <2> DEFINE j == n - k + 1
  <2>1. j \in 1..n /\ n - j + 1 = k
    BY <1>6
  <2>2. ArgValue(j) = CallArgs[n - j + 1] /\ args[j].off = 0
    BY <1>1, <1>5, <1>6, <1>7, <2>1 DEF CollectValues, InRegister
  <2>3. args'[k] = args[j]
    BY <1>7
  <2> HIDE DEF j
  <2> QED
    BY <1>3, <2>1, <2>2, <2>3 DEF ArgValue
<1>9. ArgsMoved(0, 0)'
  <2>1. Len(ArgRegs) \in Nat
    BY CallAssumption, LenProperties
  <2>2. \A k \in 1..n : 0 + k = k
    OBVIOUS
  <2> QED
    BY <1>2, <1>7, <1>8, <2>1, <2>2 DEF ArgsMoved
<1>10. arg_count' - Len(args') = 0
  BY <1>1, <1>2, <1>6, <1>7
<1>11. PoolValues' = Rest'
  BY <1>1, <1>2, <1>3, <1>5 DEF CollectValues, PoolValues, Rest
<1>12. SavedValues'
  BY <1>1, <1>5, EmptySeq DEF SavedValues
<1>13. arg_count <= Cardinality(Reg)
  BY <1>1, <1>2, <1>5, ArgsFit DEF AllInRegister
<1> QED
  BY <1>1, <1>2, <1>4, <1>9, <1>10, <1>11, <1>12, <1>13 DEF CallValues, SlotsKept

\* When op_call gives up, the call is one that cannot be compiled.
LEMMA GivesUpValues ==
  ASSUME VInv, CollectNothing \/ CollectFails \/ ReloadFails
  PROVE  /\ SlotsKept /\ CallValues' /\ phase' # "code" /\ (thrown \/ phase = "abandoned") = FALSE
         /\ (thrown \/ phase = "abandoned")' = TRUE
         /\ \/ arg_count > Cardinality(Reg)
            \/ arg_count > 0 /\ before.stack = <<>>
<1>1. phase = "collect" /\ ~thrown /\ InCall
  BY DEF CollectNothing, CollectFails, ReloadFails, Collecting, Collected
<1>2. /\ before.stack \in Seq(Value) /\ arg_count \in Nat /\ IInv /\ CInv /\ CallValues
      /\ before' = before /\ opcode' = opcode /\ arg_count' = arg_count
      /\ VarsInFrame /\ FrameBelow /\ SlotsApart
      /\ local_variable_map' = local_variable_map
      /\ CollectValues /\ ArgsHeld /\ args \in Seq(ArgRecord)
  BY <1>1, InCallValues, InCallFacts DEF CallValues, CInv, PhaseOK
<1>3. CASE CollectNothing
  <2>1. /\ Len(args) < arg_count /\ reg_stack = <<>> /\ InRegister = {}
        /\ phase' = "abandoned" /\ UNCHANGED vars
    BY <1>3 DEF CollectNothing, Collecting
  <2>2. /\ reg_stack' = reg_stack /\ frame' = frame /\ contents' = contents
        /\ total_stack_size' = total_stack_size /\ thrown' = thrown
    BY <2>1 DEF vars
  <2>3. SlotsKept
    BY <1>2, <2>2, SameSlots
  <2>4. args = <<>>
    <3>1. args # <<>> => Len(args) \in DOMAIN args
      BY <1>2, LenProperties, EmptySeq
    <3> QED
      BY <1>1, <1>2, <2>1, <3>1 DEF CollectValues, InRegister
  <2>5. Len(args) = 0
    BY <2>4
  <2>6. PoolValues = <<>>
    BY <2>1, EmptySeq DEF PoolValues, StackValues
  <2>7. before.stack = <<>>
    BY <1>2, <2>5, <2>6, BelowNone DEF CollectValues
  <2>8. CallValues'
    BY <1>1, <1>2, <2>1, <2>3 DEF CallValues, SlotsKept
  <2>9. arg_count > 0
    BY <1>2, <2>1, <2>5
  <2> QED
    BY <1>1, <2>1, <2>3, <2>7, <2>8, <2>9
<1>4. CASE CollectFails \/ ReloadFails
  <2>1. /\ phase' = phase /\ thrown' = TRUE /\ frame' = frame
        /\ total_stack_size' = total_stack_size
    BY <1>4 DEF CollectFails, ReloadFails, PopFails, AllocFails, AllocThrows
  <2>2. \A i \in DOMAIN reg_stack' : i \in DOMAIN reg_stack /\ reg_stack'[i] = reg_stack[i]
    <3>1. CASE AllocFails
      BY <3>1 DEF AllocFails
    <3>2. CASE PopFails
      <4>1. reg_stack \in Seq(StackValue)
        BY <1>2, PartsOfIInv
      <4>2. reg_stack # <<>> /\ reg_stack' = Front(reg_stack)
        BY <3>2 DEF PopFails
      <4> QED
        BY <4>1, <4>2, FrontFacts
    <3> QED
      BY <1>4, <3>1, <3>2 DEF CollectFails, ReloadFails
  <2>3. SlotsKept
    BY <1>2, <2>1, <2>2 DEF SlotsKept, FrameBelow, SlotsApart, VarsNow
  <2>4. CallValues'
    BY <1>1, <1>2, <2>1, <2>3 DEF CallValues, SlotsKept
  <2>5. held = Reg
    BY <1>2, <1>4, FailurePreserves DEF CollectFails, ReloadFails
  <2>6. /\ Cardinality(Reg) <= Len(args)
        /\ ~AllInRegister => Cardinality(Reg) < Len(args)
    BY <1>2, <2>5, ArgsFill
  <2>7. \/ Len(args) < arg_count
        \/ Len(args) = arg_count /\ ~AllInRegister
    BY <1>4 DEF CollectFails, ReloadFails, Collecting, Collected, AllInRegister
  <2>8. arg_count > Cardinality(Reg)
    <3>1. Cardinality(Reg) \in Nat /\ Len(args) \in Nat
      BY <1>2, RegFinite, FS_CardinalityType, LenProperties
    <3> QED
      BY <1>2, <2>6, <2>7, <3>1
  <2> QED
    BY <1>1, <2>1, <2>3, <2>4, <2>8
<1> QED
  BY <1>3, <1>4

\* The cells in which registers are saved.
LEMMA SavedCellFacts ==
  ASSUME CInv, NEW n \in Nat, n = Len(caller_saved), NEW j \in 1..n
  PROVE  /\ RegSize * j \in 1..SavedCells /\ SavedCells = RegSize * n /\ SavedCells \in Nat
         /\ j < n => RegSize * j \in 1..(SavedCells - RegSize)
<1>1. RegSize \in Nat /\ RegSize >= 1
  BY PoolAssumption
<1>2. PICK m \in Nat : m = n - j
  <2>1. n - j \in Nat
    OBVIOUS
  <2> QED
    BY <2>1
<1>3. RegSize * n = RegSize * j + RegSize * m /\ RegSize * m \in Nat /\ RegSize * j \in Nat
  BY <1>1, <1>2
<1>4. RegSize * j >= 1
  BY <1>1
<1>5. ASSUME j < n PROVE RegSize * m >= RegSize
  <2>1. PICK l \in Nat : m = l + 1
    <3>1. m - 1 \in Nat /\ m = (m - 1) + 1
      BY <1>2, <1>5
    <3> QED
      BY <3>1
  <2>2. RegSize * m = RegSize * l + RegSize /\ RegSize * l \in Nat
    BY <1>1, <2>1
  <2> QED
    BY <1>1, <2>2
<1> DEFINE a == RegSize * j
           b == RegSize * m
           c == RegSize * n
<1>6. SavedCells = c
  BY DEF SavedCells
<1>7. c = a + b /\ a \in Nat /\ b \in Nat /\ a >= 1 /\ (j < n => b >= RegSize)
  BY <1>3, <1>4, <1>5
<1> HIDE DEF a, b, c
<1>8. a \in 1..c /\ c \in Nat /\ (j < n => a \in 1..(c - RegSize))
  BY <1>1, <1>7
<1> QED
  BY <1>6, <1>8 DEF a, c

\* What was saved stays saved when the machine stack keeps those cells.
LEMMA SavedStays ==
  ASSUME CInv, SavedValues, caller_saved' = caller_saved, reg_stack' = reg_stack, Rest' = Rest,
         \A c \in 1..SavedCells : machine'[c] = machine[c]
  PROVE  SavedValues'
<1>1. PICK n \in Nat : n = Len(caller_saved) /\ DOMAIN caller_saved = 1..n
  BY InCallFacts, LenProperties
<1>2. \A j \in 1..n : RegSize * j \in 1..SavedCells
  BY <1>1, SavedCellFacts
<1> QED
  BY <1>1, <1>2 DEF SavedValues

\* An operand in a register is saved as it is.
LEMMA SaveCallerSavedValues ==
  ASSUME VInv, NEW i \in Unsaved, SaveCallerSaved(i)
  PROVE  SlotsKept /\ CallValues'
<1>0. PICK r : r = IF StackOrder THEN reg_stack[i].reg ELSE CallerSaved[i]
  OBVIOUS
<1>1. /\ phase = "move" /\ phase' = phase /\ args' = args /\ UNCHANGED vars /\ InCall
      /\ caller_saved' = Append(caller_saved, r) /\ machine' = machine \o Cells(contents[r])
      /\ others' = others
  BY <1>0 DEF SaveCallerSaved
<1>2. /\ arg_count \in Nat /\ IInv /\ CInv /\ CallValues
      /\ before' = before /\ opcode' = opcode /\ arg_count' = arg_count
      /\ VarsInFrame /\ FrameBelow /\ SlotsApart /\ CallArgs' = CallArgs /\ Rest' = Rest
      /\ local_variable_map' = local_variable_map
  BY <1>1, InCallValues
<1>3. /\ reg_stack' = reg_stack /\ frame' = frame /\ contents' = contents
      /\ total_stack_size' = total_stack_size /\ thrown' = thrown
  BY <1>1 DEF vars
<1>4. SlotsKept
  BY <1>2, <1>3, SameSlots
<1>5. r \in Reg
  <2>1. CASE StackOrder
    <3>1. i \in DOMAIN reg_stack /\ reg_stack \in Seq(StackValue)
      BY <1>2, <2>1, PartsOfIInv DEF Unsaved, Unspilled
    <3> QED
      BY <1>0, <2>1, <3>1, EntryTyped
  <2>2. CASE ~StackOrder
    <3>1. i \in DOMAIN CallerSaved /\ CallerSaved \in Seq(Reg)
      BY <2>2, CallAssumption DEF Unsaved
    <3> QED
      BY <1>0, <2>2, <3>1, LenProperties, ElementOfSeq
  <2> QED
    BY <2>1, <2>2
<1>6. PICK n \in Nat : n = Len(caller_saved) /\ DOMAIN caller_saved = 1..n
  BY <1>2, InCallFacts, LenProperties
<1>7. /\ Cells(contents[r]) \in [1..RegSize -> Value] /\ Cells(contents[r])[RegSize] = contents[r]
      /\ RegSize \in Nat /\ RegSize \in 1..RegSize
      /\ machine \in Seq(Value) /\ caller_saved \in Seq(Reg)
  BY <1>2, <1>5, InCallFacts, CallAssumption, PoolAssumption DEF Cells
<1>8. Len(machine) = SavedCells
  BY <1>1, <1>2 DEF CInv, PhaseOK
<1> DEFINE t == Cells(contents[r])
<1>9. /\ \A c \in 1..Len(machine) : machine'[c] = machine[c]
      /\ machine'[Len(machine) + RegSize] = contents[r]
  <2>1. t \in [1..RegSize -> Value] /\ t[RegSize] = contents[r] /\ machine' = machine \o t
    BY <1>1, <1>7
  <2> HIDE DEF t
  <2> QED
    BY <1>7, <2>1, ConcatFacts
<1>10. /\ DOMAIN caller_saved' = 1..n + 1 /\ caller_saved'[n + 1] = r
       /\ \A j \in 1..n : caller_saved'[j] = caller_saved[j]
  BY <1>1, <1>5, <1>6, <1>7, AppendFacts
<1>11. RegSize * (n + 1) = SavedCells + RegSize
  BY <1>6, <1>7 DEF SavedCells
<1>12. ASSUME NEW j \in 1..n + 1, NEW k \in Unspilled(reg_stack),
              reg_stack[k].reg = caller_saved'[j]
       PROVE  machine'[RegSize * j] = Rest[k]
  <2>1. CASE j = n + 1
    <3>1. PoolValues[k] = contents[reg_stack[k].reg]
      BY DEF PoolValues, StackValues, EntryValue, Unspilled
    <3>2. PoolValues = Rest
      BY <1>1, <1>2 DEF CallValues
    <3> QED
      BY <1>8, <1>9, <1>10, <1>11, <1>12, <2>1, <3>1, <3>2
  <2>2. CASE j \in 1..n
    <3>1. RegSize * j \in 1..SavedCells
      BY <1>2, <1>6, <2>2, SavedCellFacts
    <3>2. machine[RegSize * j] = Rest[k]
      BY <1>1, <1>2, <1>6, <1>10, <1>12, <2>2 DEF CallValues, SavedValues
    <3> QED
      BY <1>8, <1>9, <3>1, <3>2
  <2> QED
    BY <1>6, <2>1, <2>2
<1>13. SavedValues'
  BY <1>2, <1>3, <1>10, <1>12 DEF SavedValues
<1>14. PoolValues' = Rest'
  BY <1>1, <1>2, <1>3 DEF CallValues, PoolValues
<1>15. ArgsMoved(arg_count - Len(args), arg_count - Len(args))'
  BY <1>1, <1>2, <1>3 DEF CallValues, ArgsMoved
<1> QED
  BY <1>1, <1>2, <1>4, <1>13, <1>14, <1>15 DEF CallValues, SlotsKept

\* The next argument reaches the register of its parameter, and no other argument
\* was there.
LEMMA MoveArgValues ==
  ASSUME GpConvention, VInv, MoveArg
  PROVE  SlotsKept /\ CallValues'
<1>0. PICK m : m = arg_count - Len(args)
  OBVIOUS
<1>1. /\ phase = "move" /\ phase' = phase /\ args # <<>> /\ InCall
      /\ arg_count - Len(args) + 1 <= Len(ArgRegs)
      /\ Write(ArgRegs[arg_count - Len(args) + 1], Read(Head(args).reg))
      /\ args' = Tail(args) /\ caller_saved' = caller_saved /\ machine' = machine
      /\ reg_stack' = reg_stack /\ total_stack_size' = total_stack_size
      /\ frame' = frame /\ thrown' = thrown
  BY DEF MoveArg, ArgIndex
<1>2. /\ arg_count \in Nat /\ IInv /\ CInv /\ CallValues
      /\ before' = before /\ opcode' = opcode /\ arg_count' = arg_count
      /\ VarsInFrame /\ FrameBelow /\ SlotsApart /\ CallArgs' = CallArgs /\ Rest' = Rest
      /\ local_variable_map' = local_variable_map
  BY <1>1, InCallValues
<1>3. /\ args \in Seq(ArgRecord) /\ Len(args) <= arg_count /\ contents \in [Reg -> Value]
      /\ Len(args') = Len(args) - 1 /\ DOMAIN args' = 1..(Len(args) - 1)
      /\ DOMAIN args = 1..Len(args) /\ Len(args) \in Nat \ {0}
      /\ \A k \in 1..(Len(args) - 1) : args'[k] = args[k + 1]
      /\ Head(args) = args[1] /\ args[1] \in ArgRecord
  BY <1>1, <1>2, InCallFacts, TailFacts
<1>4. /\ m \in Nat /\ arg_count - Len(args') = m + 1 /\ m + 1 <= Len(ArgRegs)
      /\ DOMAIN ArgRegs = 1..Len(ArgRegs) /\ Len(ArgRegs) \in Nat
  BY <1>0, <1>1, <1>2, <1>3, CallAssumption, LenProperties
<1>5. ArgsMoved(m, m) /\ SavedValues /\ PoolValues = Rest
  BY <1>0, <1>1, <1>2 DEF CallValues
<1>6. contents[args[1].reg] = CallArgs[m + 1] /\ args[1].reg \in Reg
  <2>1. 1 \in DOMAIN args
    BY <1>3
  <2> QED
    BY <1>3, <1>5, <2>1 DEF ArgsMoved, ArgRecord
<1>7. Read(Head(args).reg) = CallArgs[m + 1]
  BY <1>3, <1>6 DEF Read
<1>8. \A i \in 1..Len(ArgRegs) : ArgRegs[i] \in OtherRegs /\ ArgRegs[i] \notin Reg
  BY <1>4 DEF GpConvention, OtherRegs, Range
<1>9. m + 1 \in 1..Len(ArgRegs)
  BY <1>4
<1>10. contents' = contents
  BY <1>0, <1>1, <1>3, <1>8, <1>9 DEF Write
<1>11. others'[ArgRegs[m + 1]] = CallArgs[m + 1]
  BY <1>0, <1>1, <1>7, <1>8, <1>9 DEF Write
<1>12. \A i \in 1..m : others'[ArgRegs[i]] = others[ArgRegs[i]]
  <2>1. \A i \in 1..m : i \in 1..Len(ArgRegs) /\ i # m + 1
    BY <1>4
  <2>2. \A i \in 1..m : ArgRegs[i] # ArgRegs[m + 1]
    BY <1>4, <1>9, <2>1, CallAssumption DEF IsInjective
  <2> QED
    BY <1>0, <1>1, <1>8, <2>1, <2>2 DEF Write
<1>13. ArgsMoved(m + 1, m + 1)'
  <2>1. \A i \in 1..m + 1 : others'[ArgRegs[i]] = CallArgs[i]
    <3>1. \A i \in 1..m : others[ArgRegs[i]] = CallArgs[i]
      BY <1>5 DEF ArgsMoved
    <3>2. \A i \in 1..m + 1 : i \in 1..m \/ i = m + 1
      BY <1>4
    <3> QED
      BY <1>11, <1>12, <3>1, <3>2
  <2>2. ASSUME NEW k \in DOMAIN args' PROVE contents'[args'[k].reg] = CallArgs[(m + 1) + k]
    <3>0. PICK l \in Nat : l = Len(args) /\ l # 0
      BY <1>3
    <3>1. k \in 1..(l - 1)
      BY <1>3, <3>0
    <3>2. args'[k] = args[k + 1] /\ k + 1 \in DOMAIN args /\ m + (k + 1) = (m + 1) + k
      BY <1>3, <1>4, <3>0, <3>1
    <3> QED
      BY <1>5, <1>10, <3>2 DEF ArgsMoved
  <2> QED
    BY <1>2, <1>4, <2>1, <2>2 DEF ArgsMoved
<1>14. SlotsKept
  BY <1>1, <1>2, SameSlots
<1>15. PoolValues' = Rest' /\ SavedValues'
  BY <1>1, <1>2, <1>5, <1>10, SavedStays DEF PoolValues
<1>16. ArgsMoved(arg_count - Len(args), arg_count - Len(args))'
  BY <1>2, <1>4, <1>13 DEF ArgsMoved
<1> QED
  BY <1>1, <1>2, <1>14, <1>15, <1>16 DEF CallValues, SlotsKept

\* The padding covers no saved register.
LEMMA PadValues ==
  ASSUME VInv, Pad
  PROVE  SlotsKept /\ CallValues'
<1>1. /\ phase = "move" /\ phase' = "pushargs" /\ UNCHANGED vars /\ InCall
      /\ Unsaved = {} /\ Len(args) = StackArgs
      /\ machine' = machine \o [i \in 1..Padding |-> Junk]
      /\ args' = args /\ caller_saved' = caller_saved /\ others' = others
  BY DEF Pad
<1>2. /\ arg_count \in Nat /\ IInv /\ CInv /\ CallValues
      /\ before' = before /\ opcode' = opcode /\ arg_count' = arg_count
      /\ VarsInFrame /\ FrameBelow /\ SlotsApart /\ CallArgs' = CallArgs /\ Rest' = Rest
      /\ local_variable_map' = local_variable_map
  BY <1>1, InCallValues
<1>3. /\ reg_stack' = reg_stack /\ frame' = frame /\ contents' = contents
      /\ total_stack_size' = total_stack_size /\ thrown' = thrown
  BY <1>1 DEF vars
<1>4. SlotsKept
  BY <1>2, <1>3, SameSlots
<1>5. Len(machine) = SavedCells
  BY <1>1, <1>2 DEF CInv, PhaseOK
<1>6. \A c \in 1..SavedCells : machine'[c] = machine[c]
  <2>1. Padding \in Nat /\ machine \in Seq(Value) /\ Junk \in Value
    BY <1>2, StackCells, InCallFacts, CallAssumption
  <2>2. [i \in 1..Padding |-> Junk] \in [1..Padding -> Value]
    BY <2>1
  <2> QED
    BY <1>1, <1>5, <2>1, <2>2, ConcatFacts
<1>7. SavedValues' /\ PoolValues' = Rest'
  BY <1>1, <1>2, <1>3, <1>6, SavedStays DEF CallValues, PoolValues
<1>8. StackArgs' = StackArgs /\ Unsaved' = Unsaved
  BY <1>1, <1>2, <1>3 DEF StackArgs, Unsaved, ActiveRegisters
<1>9. ArgsMoved(arg_count - StackArgs, arg_count - StackArgs)'
  BY <1>1, <1>2, <1>3, <1>8 DEF CallValues, ArgsMoved
<1>10. StackValuesPushed'
  <2>1. StackArgs' - Len(args') = 0
    BY <1>1, <1>2, <1>8, StackCells
  <2> QED
    BY <2>1 DEF StackValuesPushed
<1> QED
  BY <1>1, <1>2, <1>4, <1>7, <1>8, <1>9, <1>10 DEF CallValues, SlotsKept

\* The last argument is pushed first, and ends up deepest.
LEMMA PushStackArgValues ==
  ASSUME VInv, PushStackArg
  PROVE  SlotsKept /\ CallValues'
<1>1. /\ phase = "pushargs" /\ phase' = phase /\ args # <<>> /\ InCall
      /\ machine' = Append(machine, Read(Last(args).reg)) /\ args' = Front(args)
      /\ reg_stack' = reg_stack /\ total_stack_size' = total_stack_size
      /\ frame' = frame /\ thrown' = thrown /\ contents' = contents
      /\ caller_saved' = caller_saved /\ others' = others
  BY DEF PushStackArg
<1>2. /\ arg_count \in Nat /\ IInv /\ CInv /\ CallValues
      /\ before' = before /\ opcode' = opcode /\ arg_count' = arg_count
      /\ VarsInFrame /\ FrameBelow /\ SlotsApart /\ CallArgs' = CallArgs /\ Rest' = Rest
      /\ local_variable_map' = local_variable_map
  BY <1>1, InCallValues
<1>3. PICK n \in Nat \ {0} : n = Len(args)
  BY <1>1, <1>2, InCallFacts, FrontFacts
<1>4. /\ args \in Seq(ArgRecord) /\ machine \in Seq(Value) /\ Len(machine) \in Nat
      /\ Len(args') = n - 1 /\ DOMAIN args' = 1..(n - 1) /\ DOMAIN args = 1..n
      /\ \A k \in 1..(n - 1) : args'[k] = args[k]
      /\ Last(args) = args[n] /\ args[n] \in ArgRecord
  BY <1>1, <1>2, <1>3, InCallFacts, FrontFacts, LenProperties
<1>5. PICK a : a = StackArgs
  OBVIOUS
<1>6. PICK b : b = SavedCells + Padding
  OBVIOUS
<1>7. /\ a \in Nat /\ b \in Nat /\ SavedCells \in Nat /\ SavedCells <= b /\ n <= a
      /\ Len(machine) = b + (a - n)
  <2>1. Padding \in Nat /\ SavedCells \in Nat /\ StackArgs \in Nat
    BY <1>2, StackCells
  <2>2. Len(args) <= StackArgs /\ Len(machine) = SavedCells + Padding + (StackArgs - Len(args))
    BY <1>1, <1>2 DEF CInv, PhaseOK
  <2>3. SavedCells <= SavedCells + Padding /\ SavedCells + Padding \in Nat
    BY <2>1
  <2> QED
    BY <1>3, <1>5, <1>6, <2>1, <2>2, <2>3
<1>8. ArgsMoved(arg_count - a, arg_count - a) /\ SavedValues /\ PoolValues = Rest /\ Unsaved = {}
  BY <1>1, <1>2, <1>5 DEF CallValues
<1>9. Read(Last(args).reg) = CallArgs[(arg_count - a) + n] /\ Read(Last(args).reg) \in Value
  <2>1. args[n].reg \in Reg /\ n \in DOMAIN args /\ contents \in [Reg -> Value]
    BY <1>2, <1>4, InCallFacts DEF ArgRecord
  <2> QED
    BY <1>4, <1>8, <2>1 DEF ArgsMoved, Read
<1>10. /\ \A c \in 1..Len(machine) : machine'[c] = machine[c]
       /\ machine'[Len(machine) + 1] = CallArgs[(arg_count - a) + n]
  BY <1>1, <1>4, <1>9, AppendFacts
<1>11. StackArgs' = a /\ (SavedCells + Padding)' = b /\ Unsaved' = Unsaved
  BY <1>1, <1>2, <1>5, <1>6 DEF StackArgs, SavedCells, Padding, Unsaved, ActiveRegisters
<1>12. ASSUME NEW q \in 1..(a - (n - 1)) PROVE machine'[b + q] = CallArgs[arg_count - q + 1]
  <2>1. CASE q = a - n + 1
    <3>1. b + q = Len(machine) + 1 /\ arg_count - q + 1 = (arg_count - a) + n
      BY <1>2, <1>7, <2>1
    <3> QED
      BY <1>10, <3>1
  <2>2. CASE q # a - n + 1
    <3>1. q \in 1..(a - n) /\ b + q \in 1..Len(machine)
      BY <1>7, <2>2
    <3>2. machine[b + q] = CallArgs[arg_count - q + 1]
      BY <1>1, <1>2, <1>3, <1>5, <1>6, <3>1 DEF CallValues, StackValuesPushed
    <3> QED
      BY <1>10, <3>1, <3>2
  <2> QED
    BY <2>1, <2>2
<1>13. StackValuesPushed'
  BY <1>2, <1>4, <1>11, <1>12 DEF StackValuesPushed
<1>14. SavedValues' /\ PoolValues' = Rest'
  <2>1. \A c \in 1..SavedCells : c \in 1..Len(machine)
    BY <1>4, <1>7
  <2> QED
    BY <1>1, <1>2, <1>8, <1>10, <2>1, SavedStays DEF PoolValues
<1>15. ArgsMoved(arg_count - a, arg_count - a)'
  <2>1. \A k \in 1..(n - 1) : k \in DOMAIN args
    BY <1>4
  <2> QED
    BY <1>1, <1>2, <1>4, <1>5, <1>8, <1>11, <2>1 DEF ArgsMoved
<1>16. ArgsMoved(arg_count - StackArgs, arg_count - StackArgs)'
  BY <1>2, <1>5, <1>11, <1>15 DEF ArgsMoved
<1>17. SlotsKept
  BY <1>1, <1>2, SameSlots
<1> QED
  BY <1>1, <1>2, <1>8, <1>11, <1>13, <1>14, <1>16, <1>17 DEF CallValues, SlotsKept

\* At the call every parameter finds the argument of the program.
LEMMA ReceivesArguments ==
  ASSUME GpConvention, VInv, Calling, NEW compiled \in Compiled
  PROVE  Received(compiled) = CallArgs
<1>1. phase = "pushargs" /\ args = <<>>
  BY DEF Calling
<1>2. /\ arg_count \in Nat /\ CInv /\ CallValues /\ arg_count <= Cardinality(Reg)
      /\ CallArgs \in Seq(Value) /\ Len(CallArgs) = arg_count
      /\ ArgsMoved(arg_count - StackArgs, arg_count - StackArgs) /\ StackValuesPushed
  BY <1>1, ArgsOfFacts DEF VInv, CInv, CallValues, CallArgs
<1>3. /\ Len(ArgRegs) \in Nat /\ StackArgs \in Nat /\ Padding \in Nat /\ SavedCells \in Nat
      /\ Len(args) = 0 /\ Len(machine) = SavedCells + Padding + (StackArgs - Len(args))
  BY <1>1, <1>2, StackCells DEF CInv, PhaseOK
<1>4. PICK b : b = SavedCells + Padding
  OBVIOUS
<1>5. PICK a : a = StackArgs
  OBVIOUS
<1>6. PICK l : l = Len(ArgRegs)
  OBVIOUS
<1>7. /\ a \in Nat /\ b \in Nat /\ l \in Nat /\ Len(machine) = b + a
      /\ a = IF arg_count > l THEN arg_count - l ELSE 0
  BY <1>3, <1>4, <1>5, <1>6 DEF StackArgs
<1>8. ASSUME NEW i \in 1..arg_count, i <= l PROVE Received(compiled)[i] = CallArgs[i]
  <2>1. i \in 1..(arg_count - a) /\ i \in 1..l
    BY <1>2, <1>7, <1>8
  <2>2. others[ArgRegs[i]] = CallArgs[i]
    BY <1>2, <1>5, <2>1 DEF ArgsMoved
  <2>3. ArgRegs[i] \notin Reg
    BY <1>6, <2>1, CallAssumption, LenProperties DEF GpConvention, Range
  <2>4. ArgRegs[i] # Last(InitialRegs)
    <3>1. Reg # {}
      <4>1. Cardinality({}) = 0
        BY FS_EmptySet
      <4>2. arg_count >= 1
        BY <1>2
      <4> QED
        BY <1>2, <4>1, <4>2
    <3>2. InitialRegs # <<>>
      BY <3>1, EmptySeq DEF Reg, Range
    <3>3. Last(InitialRegs) \in Reg
      BY <3>2, PoolAssumption, FrontFacts
    <3> QED
      BY <2>3, <3>3
  <2>5. InRegisterOf(compiled, i) = others[ArgRegs[i]]
    BY <2>3, <2>4 DEF InRegisterOf, Read
  <2> QED
    BY <1>6, <1>8, <2>2, <2>5 DEF Received
<1>9. ASSUME NEW i \in 1..arg_count, i > l PROVE Received(compiled)[i] = CallArgs[i]
  <2>1. PICK q \in Nat : q = a - (i - l - 1)
    <3>1. a - (i - l - 1) \in Nat
      BY <1>2, <1>7, <1>9
    <3> QED
      BY <3>1
  <2>2. q \in 1..a /\ arg_count - q + 1 = i /\ Len(machine) - (i - l - 1) = b + q
    BY <1>2, <1>7, <1>9, <2>1
  <2>3. machine[b + q] = CallArgs[arg_count - q + 1]
    <3>1. StackArgs - Len(args) = a
      BY <1>3, <1>5
    <3> QED
      BY <1>2, <1>4, <2>2, <3>1 DEF StackValuesPushed
  <2>4. Received(compiled)[i] = machine[Len(machine) - (i - l - 1)]
    BY <1>2, <1>6, <1>7, <1>9 DEF Received
  <2> QED
    BY <2>2, <2>3, <2>4
<1>10. \A i \in 1..arg_count : Received(compiled)[i] = CallArgs[i]
  <2>1. \A i \in 1..arg_count : i <= l \/ i > l
    BY <1>2, <1>7
  <2> QED
    BY <1>8, <1>9, <2>1
<1>11. Received(compiled) \in Seq(Value) /\ Len(Received(compiled)) = arg_count
  BY <1>2, ReceivedTyped
<1> QED
  BY <1>2, <1>10, <1>11, SeqEqual

\* The callee may overwrite no operand but the ones that have been saved.
LEMMA CallTargetValues ==
  ASSUME GpConvention, VInv, NEW compiled \in Compiled, CallTarget(compiled)
  PROVE  SlotsKept /\ CallValues'
<1> DEFINE after(r) == IF r = RetReg THEN Callee(Received(compiled))
                       ELSE IF r \in CalleeSaved THEN Read(r) ELSE Junk
<1>1. /\ Calling /\ phase = "pushargs" /\ phase' = "return" /\ InCall
      /\ contents' = [r \in Reg |-> after(r)] /\ others' = [r \in OtherRegs |-> after(r)]
      /\ reg_stack' = reg_stack /\ total_stack_size' = total_stack_size
      /\ frame' = frame /\ thrown' = thrown
      /\ args' = args /\ caller_saved' = caller_saved /\ machine' = machine
  BY DEF CallTarget, Calling
<1>2. /\ arg_count \in Nat /\ IInv /\ CInv /\ CallValues
      /\ before' = before /\ opcode' = opcode /\ arg_count' = arg_count
      /\ VarsInFrame /\ FrameBelow /\ SlotsApart /\ CallArgs' = CallArgs /\ Rest' = Rest
      /\ local_variable_map' = local_variable_map
  BY <1>1, InCallValues
<1>3. SlotsKept
  BY <1>1, <1>2, SameSlots
<1>4. SavedValues /\ PoolValues = Rest /\ Unsaved = {}
  BY <1>1, <1>2 DEF CallValues
<1>5. \A r \in Reg \cap CalleeSaved : contents'[r] = contents[r]
  BY <1>1 DEF GpConvention, Read
<1>6. reg_stack \in Seq(StackValue)
  BY <1>2, PartsOfIInv
<1>7. ASSUME NEW i \in DOMAIN reg_stack
      PROVE  \/ EntryValue(reg_stack[i], frame, contents') = Rest[i]
             \/ i \in Unspilled(reg_stack) /\ reg_stack[i].reg \in Range(caller_saved)
  <2>1. EntryValue(reg_stack[i], frame, contents) = Rest[i]
    BY <1>4 DEF PoolValues, StackValues
  <2>2. CASE reg_stack[i].is_spilled
    BY <2>1, <2>2 DEF EntryValue
  <2>3. CASE ~reg_stack[i].is_spilled
    <3> DEFINE r == reg_stack[i].reg
    <3>1. i \in Unspilled(reg_stack) /\ r \in Reg /\ r \in ActiveRegisters
      BY <1>6, <2>3, EntryTyped DEF Unspilled, ActiveRegisters, RegsOf
    <3>2. CASE r \in CalleeSaved
      BY <1>5, <2>1, <2>3, <3>1, <3>2 DEF EntryValue
    <3>3. CASE r \in Range(CallerSaved)
      <4>1. CASE StackOrder
        BY <1>4, <3>1, <4>1 DEF Unsaved
      <4>2. CASE ~StackOrder
        <5>1. PICK j \in DOMAIN CallerSaved : r = CallerSaved[j]
          BY <3>3 DEF Range
        <5> HIDE DEF r
        <5>2. r \in Range(caller_saved)
          BY <1>4, <3>1, <4>2, <5>1 DEF Unsaved
        <5> QED
          BY <3>1, <5>2 DEF r
      <4> QED
        BY <4>1, <4>2
    <3> QED
      BY <3>1, <3>2, <3>3, CallAssumption
  <2> QED
    BY <2>2, <2>3
<1>8. Len(reg_stack) = Len(Rest)
  BY <1>2, <1>4, PoolValuesSeq
<1>9. OperandsSaved'
  BY <1>1, <1>2, <1>7, <1>8 DEF OperandsSaved
<1>10. others'[RetReg] = Callee(CallArgs)
  <2>1. RetReg \in OtherRegs
    BY DEF GpConvention, OtherRegs
  <2>2. Received(compiled) = CallArgs
    BY <1>1, ReceivesArguments
  <2> QED
    BY <1>1, <2>1, <2>2
<1>11. SavedValues'
  BY <1>1, <1>2, <1>4, SavedStays
<1> QED
  BY <1>1, <1>2, <1>3, <1>9, <1>10, <1>11 DEF CallValues, SlotsKept

\* Below the arguments and the padding are the saved registers.
LEMMA DropArgsValues ==
  ASSUME VInv, DropArgs
  PROVE  SlotsKept /\ CallValues'
<1>1. /\ phase = "return" /\ phase' = "restore" /\ UNCHANGED vars /\ InCall
      /\ machine' = SubSeq(machine, 1, Len(machine) - StackArgs - Padding)
      /\ args' = args /\ caller_saved' = caller_saved /\ others' = others
  BY DEF DropArgs
<1>2. /\ arg_count \in Nat /\ IInv /\ CInv /\ CallValues
      /\ before' = before /\ opcode' = opcode /\ arg_count' = arg_count
      /\ VarsInFrame /\ FrameBelow /\ SlotsApart /\ CallArgs' = CallArgs /\ Rest' = Rest
      /\ local_variable_map' = local_variable_map
  BY <1>1, InCallValues
<1>3. /\ reg_stack' = reg_stack /\ frame' = frame /\ contents' = contents
      /\ total_stack_size' = total_stack_size /\ thrown' = thrown
  BY <1>1 DEF vars
<1>4. SlotsKept
  BY <1>2, <1>3, SameSlots
<1>5. /\ StackArgs \in Nat /\ Padding \in Nat /\ SavedCells \in Nat /\ machine \in Seq(Value)
      /\ Len(machine) = SavedCells + Padding + StackArgs
  BY <1>1, <1>2, StackCells, InCallFacts DEF CInv, PhaseOK
<1>6. PICK c : c = SavedCells
  OBVIOUS
<1>7. Len(machine) - StackArgs - Padding = c /\ c \in 0..Len(machine)
  BY <1>5, <1>6
<1>8. \A i \in 1..c : machine'[i] = machine[i]
  <2>1. machine' = SubSeq(machine, 1, c)
    BY <1>1, <1>7
  <2> QED
    BY <1>5, <1>7, <2>1, PrefixFacts
<1>9. SavedValues'
  BY <1>1, <1>2, <1>3, <1>6, <1>8, SavedStays DEF CallValues
<1>10. OperandsSaved' /\ others'[RetReg] = Callee(CallArgs)
  BY <1>1, <1>2, <1>3 DEF CallValues, OperandsSaved
<1> QED
  BY <1>1, <1>2, <1>4, <1>9, <1>10 DEF CallValues, SlotsKept

\* A restored register holds its operand again.
LEMMA RestoreCallerSavedValues ==
  ASSUME VInv, RestoreCallerSaved
  PROVE  SlotsKept /\ CallValues'
<1>1. /\ phase = "restore" /\ phase' = phase /\ caller_saved # <<>> /\ InCall
      /\ contents' = [contents EXCEPT ![Last(caller_saved)] = Last(machine)]
      /\ machine' = SubSeq(machine, 1, Len(machine) - RegSize)
      /\ caller_saved' = Front(caller_saved)
      /\ reg_stack' = reg_stack /\ total_stack_size' = total_stack_size
      /\ frame' = frame /\ thrown' = thrown /\ args' = args /\ others' = others
  BY DEF RestoreCallerSaved
<1>2. /\ arg_count \in Nat /\ IInv /\ CInv /\ CallValues
      /\ before' = before /\ opcode' = opcode /\ arg_count' = arg_count
      /\ VarsInFrame /\ FrameBelow /\ SlotsApart /\ CallArgs' = CallArgs /\ Rest' = Rest
      /\ local_variable_map' = local_variable_map
  BY <1>1, InCallValues
<1>3. SlotsKept
  BY <1>1, <1>2, SameSlots
<1>4. /\ caller_saved \in Seq(Reg) /\ machine \in Seq(Value) /\ contents \in [Reg -> Value]
      /\ Len(machine) = SavedCells /\ RegSize \in Nat \ {0} /\ reg_stack \in Seq(StackValue)
  BY <1>1, <1>2, InCallFacts, PartsOfIInv, PoolAssumption DEF CInv, PhaseOK
<1>5. PICK n \in Nat \ {0} : n = Len(caller_saved)
  BY <1>1, <1>4, FrontFacts
<1>6. /\ DOMAIN caller_saved = 1..n /\ DOMAIN caller_saved' = 1..(n - 1)
      /\ \A j \in 1..(n - 1) : caller_saved'[j] = caller_saved[j]
      /\ Last(caller_saved) = caller_saved[n] /\ caller_saved[n] \in Reg
  <2>1. PICK saved \in Seq(Reg) : saved = caller_saved /\ saved # <<>>
    BY <1>1, <1>4
  <2>2. /\ DOMAIN Front(saved) = 1..(Len(saved) - 1) /\ DOMAIN saved = 1..Len(saved)
        /\ \A j \in DOMAIN Front(saved) : Front(saved)[j] = saved[j]
        /\ Last(saved) = saved[Len(saved)] /\ Last(saved) \in Reg
    BY <2>1, FrontFacts
  <2>3. caller_saved' = Front(saved) /\ Len(saved) = n
    BY <1>1, <1>5, <2>1
  <2> QED
    BY <2>1, <2>2, <2>3
<1>7. SavedValues /\ OperandsSaved
  BY <1>1, <1>2 DEF CallValues
<1>8. PICK c : c = SavedCells
  OBVIOUS
<1>9. RegSize * n = c /\ c \in Nat /\ RegSize * n \in 1..c
  BY <1>2, <1>5, <1>8, SavedCellFacts
<1>10. \A j \in 1..(n - 1) : RegSize * j \in 1..(c - RegSize)
  BY <1>2, <1>5, <1>8, SavedCellFacts
<1>11. c \in 1..c /\ Len(machine) = c /\ c - RegSize \in 0..c
  <2>1. c >= RegSize
    <3>1. PICK m \in Nat : n = m + 1
      <4>1. n - 1 \in Nat /\ n = (n - 1) + 1
        BY <1>5
      <4> QED
        BY <4>1
    <3>2. RegSize * n = RegSize * m + RegSize /\ RegSize * m \in Nat
      BY <1>4, <3>1
    <3> QED
      BY <1>4, <1>9, <3>2
  <2> QED
    BY <1>4, <1>8, <1>9, <2>1
<1>12. Last(machine) = machine[c]
  BY <1>11 DEF Last
<1>13. \A i \in 1..(c - RegSize) : machine'[i] = machine[i]
  <2>1. PICK d : d = c - RegSize
    OBVIOUS
  <2>2. machine' = SubSeq(machine, 1, d) /\ d \in 0..Len(machine)
    BY <1>1, <1>11, <2>1
  <2> QED
    BY <1>4, <2>1, <2>2, PrefixFacts
<1>14. SavedValues'
  <2>1. ASSUME NEW j \in 1..(n - 1), NEW i \in Unspilled(reg_stack),
               reg_stack[i].reg = caller_saved'[j]
        PROVE  machine'[RegSize * j] = Rest[i]
    <3>1. j \in 1..n
      BY <1>5
    <3>2. machine[RegSize * j] = Rest[i]
      BY <1>6, <1>7, <2>1, <3>1 DEF SavedValues
    <3> QED
      BY <1>10, <1>13, <3>2
  <2> QED
    BY <1>1, <1>2, <1>6, <2>1 DEF SavedValues
<1>15. ASSUME NEW i \in DOMAIN reg_stack
       PROVE  \/ EntryValue(reg_stack[i], frame, contents') = Rest[i]
              \/ i \in Unspilled(reg_stack) /\ reg_stack[i].reg \in Range(caller_saved')
  <2>1. reg_stack[i].is_spilled \in BOOLEAN /\ reg_stack[i].reg \in Reg
    BY <1>4, EntryTyped
  <2>2. CASE reg_stack[i].is_spilled
    BY <1>7, <2>2 DEF OperandsSaved, EntryValue, Unspilled
  <2>3. CASE ~reg_stack[i].is_spilled /\ reg_stack[i].reg = caller_saved[n]
    <3>1. i \in Unspilled(reg_stack) /\ n \in 1..n
      BY <1>5, <2>3 DEF Unspilled
    <3>2. machine[RegSize * n] = Rest[i]
      BY <1>6, <1>7, <2>3, <3>1 DEF SavedValues
    <3> QED
      BY <1>1, <1>4, <1>6, <1>9, <1>12, <2>1, <2>3, <3>2 DEF EntryValue
  <2>4. CASE ~reg_stack[i].is_spilled /\ reg_stack[i].reg # caller_saved[n]
    <3>1. contents'[reg_stack[i].reg] = contents[reg_stack[i].reg]
      BY <1>1, <1>4, <1>6, <2>1, <2>4
    <3>2. CASE EntryValue(reg_stack[i], frame, contents) = Rest[i]
      BY <2>4, <3>1, <3>2 DEF EntryValue
    <3>3. CASE reg_stack[i].reg \in Range(caller_saved)
      <4>1. PICK j \in 1..n : reg_stack[i].reg = caller_saved[j]
        BY <1>6, <3>3 DEF Range
      <4>2. j \in 1..(n - 1)
        BY <2>4, <4>1
      <4> QED
        BY <1>6, <2>4, <4>1, <4>2 DEF Range, Unspilled
    <3> QED
      BY <1>7, <3>2, <3>3 DEF OperandsSaved
  <2> QED
    BY <2>1, <2>2, <2>3, <2>4
<1>16. OperandsSaved'
  BY <1>1, <1>2, <1>7, <1>15 DEF OperandsSaved
<1> QED
  BY <1>1, <1>2, <1>3, <1>14, <1>16 DEF CallValues, SlotsKept

\* When everything is restored the operands are the ones below the arguments.
LEMMA FinishCallValues ==
  ASSUME GpConvention, VInv, NEW keep \in BOOLEAN, FinishCall(keep)
  PROVE  /\ SlotsKept /\ HandlerValues' /\ PoolValues = Rest /\ PoolValues' = PoolValues
         /\ before' = before /\ opcode' = opcode /\ phase' = "code"
         /\ VarsNow = before.vars /\ thrown' = thrown
         /\ opcode = <<"call", arg_count>> /\ arg_count \in Arity /\ arg_count <= Cardinality(Reg)
         /\ todo' = <<>> <=> ~keep
<1>1. /\ phase = "restore" /\ caller_saved = <<>> /\ phase' = "code" /\ UNCHANGED vars
      /\ todo' = IF keep THEN << <<"alloc", Read(RetReg)>>, <<"push", 1>> >> ELSE <<>>
      /\ local_variable_map' = local_variable_map /\ arg_count' = arg_count
      /\ before' = before /\ opcode' = opcode
  BY DEF FinishCall
<1>2. /\ IInv /\ CInv /\ CallValues /\ VarsInFrame /\ FrameBelow /\ SlotsApart
      /\ before.stack \in Seq(Value) /\ arg_count \in Nat
  BY <1>1 DEF VInv, CInv
<1>3. /\ reg_stack' = reg_stack /\ frame' = frame /\ contents' = contents
      /\ total_stack_size' = total_stack_size /\ thrown' = thrown
  BY <1>1 DEF vars
<1>4. SlotsKept
  BY <1>1, <1>2, <1>3, SameSlots
<1>5. PoolValues = Rest /\ PoolValues' = PoolValues
  <2>1. \A i \in DOMAIN reg_stack : PoolValues[i] = Rest[i]
    <3>1. Range(caller_saved) = {}
      BY <1>1, EmptySeq DEF Range
    <3> QED
      BY <1>1, <1>2, <3>1 DEF CallValues, OperandsSaved, PoolValues, StackValues
  <2>2. Len(PoolValues) = Len(Rest) /\ PoolValues \in Seq(Value) /\ DOMAIN reg_stack = 1..Len(PoolValues)
    BY <1>1, <1>2, PoolValuesSeq DEF CallValues, OperandsSaved
  <2>3. Rest \in Seq(Value)
    BY <1>2, BelowFacts DEF Rest
  <2>4. PoolValues = Rest
    BY <2>1, <2>2, <2>3, SeqEqual
  <2> QED
    BY <1>3, <2>4 DEF PoolValues
<1>6. /\ opcode = <<"call", arg_count>> /\ arg_count \in Arity /\ arg_count <= Cardinality(Reg)
      /\ VarsNow = before.vars
  BY <1>1, <1>2 DEF CallValues
<1>7. CASE keep
  <2>1. Read(RetReg) \in Value
    BY <1>2, ReadTyped DEF OtherRegs
  <2>2. PICK v \in Value : v = Read(RetReg)
    BY <2>1
  <2>3. todo' = << <<"alloc", v>>, <<"push", 1>> >>
    BY <1>1, <1>7, <2>2
  <2>4. todo' # <<>>
    BY <2>3
  <2>5. v = Callee(CallArgs)
    BY <1>1, <1>2, <2>2 DEF CallValues, Read, GpConvention
  <2>6. PushPending(v)
    BY <1>5, <1>6, <2>2, <2>5 DEF PushPending, Pushes, Rest, CallArgs
  <2>7. PushPending(v)'
    BY <1>1, <1>5, <2>6, PendingStays
  <2>8. VarsNow' = before'.vars
    BY <1>1, <1>4, <1>6 DEF SlotsKept
  <2>9. HandlerValues'
    BY <2>3, <2>7, <2>8 DEF HandlerValues, LoadValues
  <2> QED
    BY <1>1, <1>3, <1>4, <1>5, <1>6, <1>7, <2>4, <2>9
<1>8. CASE ~keep
  BY <1>1, <1>3, <1>4, <1>5, <1>6, <1>8 DEF HandlerValues
<1> QED
  BY <1>7, <1>8

\* op_call starts with all its operands on the stack.
LEMMA OpCallValues ==
  ASSUME VInv, NEW n \in Arity, OpCall(n)
  PROVE  /\ SlotsKept /\ CallValues' /\ before'.stack \in Seq(Value)
         /\ Quiet /\ phase' = "collect" /\ thrown' = thrown
         /\ before' = [stack |-> PoolValues, vars |-> VarsNow, opcode |-> opcode]
<1>1. /\ Quiet /\ ~thrown /\ UNCHANGED vars /\ phase' = "collect" /\ arg_count' = n
      /\ args' = <<>> /\ local_variable_map' = local_variable_map
      /\ opcode' = <<"call", n>>
      /\ before' = [stack |-> StackNow, vars |-> VarsNow, opcode |-> opcode]
  BY DEF OpCall, Begin
<1>2. IInv /\ FrameBelow /\ SlotsApart
  BY DEF VInv, CInv
<1>3. /\ reg_stack' = reg_stack /\ frame' = frame /\ contents' = contents
      /\ total_stack_size' = total_stack_size /\ thrown' = thrown
  BY <1>1 DEF vars
<1>4. SlotsKept
  BY <1>1, <1>2, <1>3, SameSlots
<1>5. /\ before'.stack = PoolValues /\ before'.vars = VarsNow /\ StackNow = PoolValues
      /\ PoolValues \in Seq(Value)
  BY <1>1, <1>2, PoolValuesSeq
<1>6. Len(args') = 0 /\ DOMAIN args' = {}
  BY <1>1, EmptySeq
<1>7. PoolValues' = Below(before'.stack, 0)
  BY <1>3, <1>5, BelowNone DEF PoolValues
<1>8. CollectValues'
  BY <1>1, <1>6, <1>7 DEF CollectValues
<1>9. VarsNow' = before'.vars
  BY <1>4, <1>5 DEF SlotsKept
<1> QED
  BY <1>1, <1>3, <1>4, <1>5, <1>8, <1>9 DEF CallValues

-------------------------------------------------------------------------------
(* VInv is an invariant. *)

LEMMA VInvInit == CallInit => VInv
<1> SUFFICES ASSUME CallInit PROVE VInv
  OBVIOUS
<1>1. CInv
  BY CallInitOK
<1>2. /\ frame = <<>> /\ local_variable_map = <<>> /\ todo = <<>> /\ phase = "code"
      /\ before.stack = <<>>
  BY DEF CallInit, Init
<1>3. before.stack \in Seq(Value)
  BY <1>2, EmptySeq
<1>4. DOMAIN frame = {} /\ DOMAIN local_variable_map = {}
  BY <1>2, EmptySeq
<1> QED
  BY <1>1, <1>2, <1>3, <1>4 DEF VInv, FrameBelow, SlotsApart, HandlerValues

\* Nothing that VInv speaks of changes when no variable does.
LEMMA VInvStutters ==
  ASSUME VInv, CInv', UNCHANGED allVars
  PROVE  VInv'
<1>1. /\ UNCHANGED vars /\ phase' = phase /\ todo' = todo /\ taken' = taken
      /\ local_variable_map' = local_variable_map /\ arg_count' = arg_count /\ args' = args
      /\ caller_saved' = caller_saved /\ machine' = machine /\ others' = others
      /\ before' = before /\ opcode' = opcode
  BY DEF allVars, callVars
<1>2. /\ reg_stack' = reg_stack /\ frame' = frame /\ contents' = contents
      /\ total_stack_size' = total_stack_size /\ thrown' = thrown
  BY <1>1 DEF vars
<1>3. FrameBelow' /\ SlotsApart' /\ before'.stack \in Seq(Value)
  BY <1>1, <1>2 DEF VInv, FrameBelow, SlotsApart
<1>4. PoolValues' = PoolValues /\ VarsNow' = VarsNow
  BY <1>1, <1>2 DEF PoolValues, VarsNow
<1>5. ASSUME phase = "code" PROVE HandlerValues'
  <2>1. HandlerValues
    BY <1>5 DEF VInv
  <2>2. /\ \A v : PushPending(v)' = PushPending(v)
        /\ \A m : Popped(m)' = Popped(m)
        /\ \A x : StoredVars(x)' = StoredVars(x)
    BY <1>1, <1>2, <1>4 DEF PushPending, Pushes, Popped, StoredVars
  <2>3. /\ PushPending(contents[taken[1]])' = PushPending(contents[taken[1]])
        /\ PushPending(contents[taken[2]])' = PushPending(contents[taken[2]])
    BY <1>1, <1>2, <1>4 DEF PushPending, Pushes
  <2>4. LoadValues => LoadValues'
    BY <1>1, <1>2, <1>4, <2>2, <2>3 DEF LoadValues
  <2>5. BinaryValues => BinaryValues'
    BY <1>1, <2>2, <2>3 DEF BinaryValues
  <2>6. StoreValues => StoreValues'
    BY <1>1, <1>4, <2>2 DEF StoreValues
  <2> QED
    BY <1>1, <1>4, <2>1, <2>4, <2>5, <2>6 DEF HandlerValues
<1>6. ASSUME phase # "code" PROVE CallValues'
  <2>1. CallValues
    BY <1>6 DEF VInv
  <2>2. StackArgs' = StackArgs /\ SavedCells' = SavedCells /\ Padding' = Padding
        /\ Unsaved' = Unsaved /\ CallArgs' = CallArgs /\ Rest' = Rest
    BY <1>1, <1>2 DEF StackArgs, SavedCells, Padding, Unsaved, ActiveRegisters, CallArgs, Rest
  <2>3. CollectValues => CollectValues'
    BY <1>1, <1>2, <1>4, <2>2 DEF CollectValues, ArgValue
  <2>4. SavedValues => SavedValues'
    BY <1>1, <1>2, <2>2 DEF SavedValues
  <2>5. StackValuesPushed => StackValuesPushed'
    BY <1>1, <1>2, <2>2 DEF StackValuesPushed
  <2>6. OperandsSaved => OperandsSaved'
    BY <1>1, <1>2, <2>2 DEF OperandsSaved
  <2>7. /\ ArgsMoved(arg_count - Len(args), arg_count - Len(args)) =>
             ArgsMoved(arg_count - Len(args), arg_count - Len(args))'
        /\ ArgsMoved(arg_count - StackArgs, arg_count - StackArgs) =>
             ArgsMoved(arg_count - StackArgs, arg_count - StackArgs)'
    BY <1>1, <1>2, <2>2 DEF ArgsMoved
  <2> QED
    BY <1>1, <1>2, <1>4, <2>1, <2>2, <2>3, <2>4, <2>5, <2>6, <2>7 DEF CallValues
<1> QED
  BY <1>1, <1>3, <1>5, <1>6 DEF VInv

\* The steps of a call, but for its last, leave the running opcode as it is.
LEMMA CallStepValues ==
  ASSUME GpConvention, VInv, CallStep, \A keep \in BOOLEAN : ~FinishCall(keep)
  PROVE  /\ SlotsKept /\ CallValues' /\ InCall
         /\ phase # "code" /\ phase' # "code"
<1>1. CASE CollectArg
  BY <1>1, CollectArgValues DEF CollectArg, Collecting
<1>2. CASE SpillCollected
  BY <1>2, SpillCollectedValues DEF SpillCollected, Collecting
<1>3. CASE CollectMissing
  BY <1>3, CollectMissingValues DEF CollectMissing
<1>4. CASE CollectNothing \/ CollectFails \/ ReloadFails
  <2>1. InCall /\ phase # "code"
    BY <1>4 DEF CollectNothing, CollectFails, ReloadFails, Collecting, Collected
  <2> QED
    BY <1>4, <2>1, GivesUpValues
<1>5. CASE ReloadArg
  BY <1>5, ReloadArgValues DEF ReloadArg, Collected
<1>6. CASE ReverseArgs
  BY <1>6, ReverseArgsValues DEF ReverseArgs, Collected
<1>7. ASSUME NEW i \in Unsaved, SaveCallerSaved(i)
      PROVE  /\ SlotsKept /\ CallValues' /\ InCall
             /\ phase # "code" /\ phase' # "code"
  <2>1. InCall /\ phase = "move" /\ phase' = phase
    BY <1>7 DEF SaveCallerSaved
  <2> QED
    BY <1>7, <2>1, SaveCallerSavedValues
<1>8. CASE MoveArg
  BY <1>8, MoveArgValues DEF MoveArg
<1>9. CASE Pad
  BY <1>9, PadValues DEF Pad
<1>10. CASE PushStackArg
  BY <1>10, PushStackArgValues DEF PushStackArg
<1>11. ASSUME NEW compiled \in Compiled, CallTarget(compiled)
       PROVE  /\ SlotsKept /\ CallValues' /\ InCall
              /\ phase # "code" /\ phase' # "code"
  <2>1. InCall /\ phase = "pushargs" /\ phase' = "return"
    BY <1>11 DEF CallTarget, Calling
  <2> QED
    BY <1>11, <2>1, CallTargetValues
<1>12. CASE DropArgs
  BY <1>12, DropArgsValues DEF DropArgs
<1>13. CASE RestoreCallerSaved
  BY <1>13, RestoreCallerSavedValues DEF RestoreCallerSaved
<1> QED
  BY <1>1, <1>2, <1>3, <1>4, <1>5, <1>6, <1>7, <1>8, <1>9, <1>10, <1>11, <1>12, <1>13 DEF CallStep

LEMMA VInvPreserved ==
  ASSUME CalleeTyped, GpConvention
  PROVE  VInv /\ [CallNext]_allVars => VInv'
<1> SUFFICES ASSUME VInv, [CallNext]_allVars PROVE VInv'
  OBVIOUS
<1>1. CInv'
  BY CallNextPreserves DEF VInv
<1>2. ASSUME SlotsKept, before'.stack \in Seq(Value),
             \/ phase' = "code" /\ HandlerValues'
             \/ phase' # "code" /\ CallValues'
      PROVE  VInv'
  BY <1>1, <1>2 DEF VInv, SlotsKept
<1>3. CASE OpPush \/ OpBinary \/ \E x \in Var : OpLoad(x) \/ OpStore(x)
  BY <1>2, <1>3, BeginValues
<1>4. CASE HandlerAllocs \/ HandlerPops \/ HandlerComputes \/ HandlerGivesBack \/ HandlerStores
  <2>1. phase = "code" /\ CallMade
    BY <1>4 DEF HandlerAllocs, HandlerPops, HandlerComputes, HandlerGivesBack, HandlerStores, NextCall
  <2>2. phase' = "code" /\ before'.stack \in Seq(Value)
    BY <2>1, CallMadeFacts
  <2>3. FrameBelow' /\ SlotsApart' /\ HandlerValues'
    BY <1>4, AllocValuesOK, PopValuesOK, ComputeValuesOK, GivesBackValuesOK, StoreValuesOK
       DEF SlotsKept
  <2> QED
    BY <1>1, <2>2, <2>3 DEF VInv
<1>5. ASSUME NEW n \in Arity, OpCall(n) PROVE VInv'
  BY <1>2, <1>5, OpCallValues
<1>6. ASSUME NEW keep \in BOOLEAN, FinishCall(keep) PROVE VInv'
  BY <1>2, <1>6, FinishCallValues DEF VInv
<1>7. CASE CallStep /\ \A keep \in BOOLEAN : ~FinishCall(keep)
  <2>1. /\ SlotsKept /\ CallValues' /\ InCall
        /\ phase # "code" /\ phase' # "code"
    BY <1>7, CallStepValues
  <2> QED
    BY <1>2, <2>1, InCallValues
<1>8. CASE UNCHANGED allVars
  BY <1>1, <1>8, VInvStutters
<1> QED
  BY <1>3, <1>4, <1>5, <1>6, <1>7, <1>8 DEF CallNext

\* Wherever a handler is, the operands, the arguments and the variables of its opcode
\* are where VInv says, with the GP calling convention.
THEOREM ValuesInvariant ==
  ASSUME CalleeTyped, GpConvention
  PROVE  CallSpec => []VInv
<1>1. VInv /\ [CallNext]_allVars => VInv'
  BY VInvPreserved
<1> QED
  BY <1>1, VInvInit, PTL DEF CallSpec

\* At the call instruction the callee, compiled or external, finds each of its
\* parameters where System V says: op_call's moves between the pool, the argument
\* registers and the stack overwrite no argument that is still to be moved.
THEOREM ArgumentsReceived ==
  ASSUME CalleeTyped, GpConvention
  PROVE  CallSpec => []ParametersReceived
<1>1. VInv => ParametersReceived
  <2> SUFFICES ASSUME VInv, Calling, NEW compiled \in Compiled
               PROVE  Received(compiled) = Machine!Arguments(arg_count)
    BY DEF ParametersReceived
  <2>1. ~Quiet
    BY DEF Calling, Quiet
  <2>2. Machine!Arguments(arg_count) = CallArgs
    BY <2>1 DEF Machine!Arguments, CallArgs, ArgsOf
  <2> QED
    BY <2>2, ReceivesArguments
<1> QED
  BY <1>1, ValuesInvariant, PTL

-------------------------------------------------------------------------------
(* The handlers implement the stack machine. *)

\* The state of the stack machine: an opcode has its effect when its handler is done.
MStack  == IF Quiet THEN PoolValues ELSE before.stack
MVars   == IF Quiet THEN VarsNow ELSE before.vars
MOpcode == IF Quiet THEN opcode ELSE before.opcode

LEMMA MachineMapping ==
  /\ (IF Quiet THEN StackNow ELSE before.stack) = MStack
  /\ (IF Quiet THEN StackNow ELSE before.stack)' = MStack'
  /\ (IF Quiet THEN VarsNow ELSE before.vars) = MVars
  /\ (IF Quiet THEN VarsNow ELSE before.vars)' = MVars'
  /\ (IF Quiet THEN opcode ELSE before.opcode) = MOpcode
  /\ (IF Quiet THEN opcode ELSE before.opcode)' = MOpcode'
<1>1. StackNow = PoolValues
  BY RefinementMapping DEF StackNow
<1>2. StackNow' = PoolValues'
  BY RefinementMappingPrime DEF StackNow
<1> QED
  BY <1>1, <1>2 DEF MStack, MVars, MOpcode

LEMMA MachineInit == CallInit => Machine!Init
<1> SUFFICES ASSUME CallInit PROVE Machine!Init
  OBVIOUS
<1>1. /\ reg_stack = <<>> /\ thrown = FALSE /\ phase = "code" /\ todo = <<>>
      /\ local_variable_map = <<>> /\ opcode = <<>>
  BY DEF CallInit, Init
<1>2. Quiet /\ StackNow = <<>> /\ VarsNow = <<>>
  BY <1>1, EmptySeq DEF Quiet, StackNow, VarsNow
<1> QED
  BY <1>1, <1>2 DEF Machine!Init

LEMMA MachineStutters ==
  ASSUME MStack' = MStack, MVars' = MVars, MOpcode' = MOpcode,
         thrown' = thrown, phase # "abandoned", phase' # "abandoned"
  PROVE  UNCHANGED Machine!smVars
<1>1. (thrown \/ phase = "abandoned")' = (thrown \/ phase = "abandoned")
  OBVIOUS
<1> QED
  BY <1>1, MachineMapping DEF Machine!smVars

\* The machine does nothing when an opcode is taken up.
LEMMA StartStutters ==
  ASSUME Quiet, ~Quiet', thrown' = thrown, phase' # "abandoned",
         before' = [stack |-> PoolValues, vars |-> VarsNow, opcode |-> opcode]
  PROVE  UNCHANGED Machine!smVars
<1>1. MStack' = MStack /\ MVars' = MVars /\ MOpcode' = MOpcode
  BY DEF MStack, MVars, MOpcode
<1>2. phase # "abandoned"
  BY DEF Quiet
<1> QED
  BY <1>1, <1>2, MachineStutters

\* Nor while its handler is at work.
LEMMA HandlerStutters ==
  ASSUME ~Quiet, ~Quiet', thrown' = thrown, phase # "abandoned", phase' # "abandoned",
         before' = before
  PROVE  UNCHANGED Machine!smVars
<1>1. MStack' = MStack /\ MVars' = MVars /\ MOpcode' = MOpcode
  BY DEF MStack, MVars, MOpcode
<1> QED
  BY <1>1, MachineStutters

\* When it is done the machine makes its step, from what it held before.
LEMMA HandlerEnds ==
  ASSUME ~Quiet, Quiet', phase # "abandoned", ~thrown, ~thrown'
  PROVE  /\ MStack = before.stack /\ MStack' = PoolValues'
         /\ MVars = before.vars /\ MVars' = VarsNow' /\ MOpcode' = opcode'
         /\ ~(thrown \/ phase = "abandoned")
         /\ (thrown \/ phase = "abandoned")' = (thrown \/ phase = "abandoned")
BY DEF MStack, MVars, MOpcode, Quiet

\* What a push of v in the place of m operands is to the machine.
LEMMA PushIsStep ==
  ASSUME NEW v, NEW m \in {0, 2} \cup Arity, Pushes(v, m), before.stack \in Seq(Value),
         ~Quiet, Quiet', phase # "abandoned", ~thrown, ~thrown',
         PoolValues' = Append(Below(before.stack, m), v),
         VarsNow' = before.vars, opcode' = opcode
  PROVE  Machine!Next
<1> DEFINE s == before.stack
<1>1. /\ MStack = s /\ MStack' = Append(Below(s, m), v)
      /\ MVars = before.vars /\ MVars' = MVars /\ MOpcode' = opcode
      /\ ~(thrown \/ phase = "abandoned")
      /\ (thrown \/ phase = "abandoned")' = (thrown \/ phase = "abandoned")
  BY HandlerEnds
<1>2. CASE m = 0 /\ v \in Value /\ opcode = <<"push", v>>
  <2>1. MStack' = Append(MStack, v) /\ MOpcode' = <<"push", v>>
    BY <1>1, <1>2, BelowNone
  <2>2. Machine!Push(v)
    BY <1>1, <2>1, MachineMapping DEF Machine!Push
  <2> QED
    BY <1>2, <2>2 DEF Machine!Next
<1>3. ASSUME NEW x \in Var, m = 0, opcode = <<"load", x>>,
             x \in DOMAIN before.vars, v = before.vars[x]
      PROVE  Machine!Next
  <2>1. MStack' = Append(MStack, MVars[x]) /\ MOpcode' = <<"load", x>> /\ x \in DOMAIN MVars
    BY <1>1, <1>3, BelowNone
  <2>2. Machine!Load(x)
    BY <1>1, <2>1, MachineMapping DEF Machine!Load
  <2> QED
    BY <2>2 DEF Machine!Next
<1>4. CASE m = 2 /\ Len(s) >= 2 /\ opcode = <<"binary", 0>> /\ v = Op(s[Len(s) - 1], s[Len(s)])
  <2>1. /\ MStack' = Append(SubSeq(MStack, 1, Len(MStack) - 2),
                            Op(MStack[Len(MStack) - 1], MStack[Len(MStack)]))
        /\ MOpcode' = <<"binary", 0>> /\ Len(MStack) >= 2
    BY <1>1, <1>4 DEF Below
  <2>2. Machine!Binary
    BY <1>1, <2>1, MachineMapping DEF Machine!Binary, Machine!Drop
  <2> QED
    BY <2>2 DEF Machine!Next
<1>5. CASE /\ m \in Arity /\ m <= Cardinality(Reg)
           /\ opcode = <<"call", m>> /\ v = Callee(ArgsOf(s, m))
  <2>1. m \in Nat
    BY <1>5, CallAssumption
  <2>2. Below(s, m) \in Seq(Value)
    BY <2>1, BelowFacts
  <2>3. PICK b : b = Below(s, m)
    OBVIOUS
  <2>4. Append(b, v) = b \o <<v>>
    BY <2>2, <2>3
  <2>5. Machine!Arguments(m) = ArgsOf(s, m)
    BY DEF Machine!Arguments, ArgsOf
  <2>6. Machine!Drop(m) = b
    BY <2>3 DEF Machine!Drop, Below
  <2>7. MStack' = Machine!Drop(m) \o <<Callee(Machine!Arguments(m))>> /\ MOpcode' = <<"call", m>>
    BY <1>1, <1>5, <2>3, <2>4, <2>5, <2>6
  <2>8. Machine!Call(m, TRUE)
    BY <1>1, <1>5, <2>7, MachineMapping DEF Machine!Call
  <2> QED
    BY <1>5, <2>8 DEF Machine!Next
<1> QED
  BY <1>2, <1>3, <1>4, <1>5 DEF Pushes

\* The last pool call of a handler.
LEMMA LastPoolCallMaps ==
  ASSUME VInv, HandlerGivesBack, Tail(todo) = <<>>
  PROVE  Machine!Next
<1>1. /\ phase = "code" /\ todo # <<>> /\ CallMade
      /\ taken' = taken /\ local_variable_map' = local_variable_map
  BY DEF HandlerGivesBack, NextCall
<1>2. /\ before' = before /\ opcode' = opcode /\ phase' = "code" /\ todo' = <<>>
      /\ before.stack \in Seq(Value) /\ IInv
  BY <1>1, CallMadeFacts
<1>3. ~thrown /\ ~thrown'
  BY DEF HandlerGivesBack, Free, Push
<1>4. ~Quiet /\ Quiet' /\ phase # "abandoned"
  BY <1>1, <1>2 DEF Quiet
<1>5. SlotsKept
  BY GivesBackValuesOK
<1>6. CASE Head(todo)[1] = "free" /\ Free(taken[Arg])
  <2>1. PICK x \in Var : /\ Storing(x) /\ VarsNow = StoredVars(x)
                         /\ PoolValues = Below(before.stack, 1)
    BY <1>1, <1>6, ValuesToMake, ListsDiffer
  <2>2. PoolValues' = PoolValues
    BY <1>6 DEF Free, PoolValues
  <2>3. /\ MStack = before.stack /\ MStack' = Below(before.stack, 1)
        /\ MVars = before.vars /\ MVars' = StoredVars(x) /\ MOpcode' = opcode
        /\ ~(thrown \/ phase = "abandoned")
        /\ (thrown \/ phase = "abandoned")' = (thrown \/ phase = "abandoned")
    BY <1>2, <1>3, <1>4, <1>5, <2>1, <2>2, HandlerEnds DEF SlotsKept
  <2>4. /\ MStack # <<>> /\ MOpcode' = <<"store", x>>
        /\ MStack' = SubSeq(MStack, 1, Len(MStack) - 1)
        /\ MVars' = [y \in DOMAIN MVars \cup {x} |->
                       IF y = x THEN MStack[Len(MStack)] ELSE MVars[y]]
    BY <2>1, <2>3 DEF Storing, StoredVars, Below
  <2>5. Machine!Store(x)
    BY <2>3, <2>4, MachineMapping DEF Machine!Store, Machine!Drop
  <2> QED
    BY <2>5 DEF Machine!Next
<1>7. CASE Head(todo)[1] = "push" /\ Push(taken[Arg])
  <2>1. PICK v : v = contents[taken[Arg]]
    OBVIOUS
  <2>2. PushPending(v) /\ VarsNow = before.vars
    BY <1>1, <1>7, <2>1, ValuesToMake
  <2>3. PICK m \in {0, 2} \cup Arity : Pushes(v, m) /\ PoolValues = Below(before.stack, m)
    BY <2>2 DEF PushPending
  <2>4. PICK r \in held : r = taken[Arg]
    BY <1>7 DEF Push
  <2>5. PoolValues' = Append(PoolValues, v)
    BY <1>2, <1>7, <2>1, <2>4, PushValues
  <2>6. VarsNow' = before.vars
    BY <1>5, <2>2 DEF SlotsKept
  <2> QED
    BY <1>2, <1>3, <1>4, <2>3, <2>5, <2>6, PushIsStep
<1> QED
  BY <1>6, <1>7 DEF HandlerGivesBack, NextCall

\* The end of a call: its result is an operand still to be pushed, or is dropped.
LEMMA FinishCallMaps ==
  ASSUME GpConvention, VInv, NEW keep \in BOOLEAN, FinishCall(keep)
  PROVE  Machine!Next \/ UNCHANGED Machine!smVars
<1>1. /\ PoolValues = Rest /\ PoolValues' = PoolValues /\ SlotsKept
      /\ before' = before /\ opcode' = opcode /\ phase' = "code"
      /\ VarsNow = before.vars /\ thrown' = thrown
      /\ opcode = <<"call", arg_count>> /\ arg_count \in Arity /\ arg_count <= Cardinality(Reg)
      /\ todo' = <<>> <=> ~keep
  BY FinishCallValues
<1>2. phase = "restore" /\ ~thrown
  BY DEF FinishCall, VInv, CInv
<1>3. ~Quiet
  BY <1>2 DEF Quiet
<1>4. CASE keep
  <2>1. ~Quiet'
    BY <1>1, <1>4 DEF Quiet
  <2> QED
    BY <1>1, <1>2, <1>3, <2>1, HandlerStutters
<1>5. CASE ~keep
  <2>1. Quiet'
    BY <1>1, <1>5 DEF Quiet
  <2>2. VarsNow' = before.vars
    BY <1>1 DEF SlotsKept
  <2>3. /\ MStack = before.stack /\ MStack' = Rest
        /\ MVars' = MVars /\ MOpcode' = <<"call", arg_count>>
        /\ ~(thrown \/ phase = "abandoned")
        /\ (thrown \/ phase = "abandoned")' = (thrown \/ phase = "abandoned")
    BY <1>1, <1>2, <1>3, <2>1, <2>2, HandlerEnds
  <2>4. PICK n \in Arity : n = arg_count
    BY <1>1
  <2>5. Rest \in Seq(Value)
    BY <1>1, BelowFacts, CallAssumption DEF Rest, VInv
  <2>6. Rest \o <<>> = Rest
    BY <2>5
  <2>7. Machine!Drop(n) = Rest
    BY <1>3, <2>4 DEF Machine!Drop, Below, Rest
  <2>8. Machine!Call(n, FALSE)
    BY <1>1, <2>3, <2>4, <2>6, <2>7, MachineMapping DEF Machine!Call
  <2> QED
    BY <2>8 DEF Machine!Next
<1> QED
  BY <1>4, <1>5

\* A call that cannot be compiled fails, in the state its opcode started from.
LEMMA GivesUpMaps ==
  ASSUME VInv, CollectNothing \/ CollectFails \/ ReloadFails
  PROVE  Machine!Next
<1>1. /\ phase # "code" /\ phase' # "code" /\ InCall
      /\ (thrown \/ phase = "abandoned") = FALSE
      /\ (thrown \/ phase = "abandoned")' = TRUE
      /\ \/ arg_count > Cardinality(Reg)
         \/ arg_count > 0 /\ before.stack = <<>>
  BY GivesUpValues DEF CollectNothing, CollectFails, ReloadFails, Collecting, Collected
<1>2. arg_count \in Arity /\ before' = before
  BY <1>1 DEF VInv, CallValues, InCall
<1>3. PICK n \in Arity : n = arg_count
  BY <1>2
<1>4. ~Quiet /\ ~Quiet'
  BY <1>1 DEF Quiet
<1>5. MStack = before.stack /\ MStack' = MStack /\ MVars' = MVars /\ MOpcode' = MOpcode
  BY <1>2, <1>4 DEF MStack, MVars, MOpcode
<1>6. /\ ~(thrown \/ phase = "abandoned")
      /\ n > Cardinality(Reg) \/ (n > 0 /\ MStack = <<>>)
  BY <1>1, <1>3, <1>5
<1>7. Machine!Fail(n)
  BY <1>1, <1>5, <1>6, MachineMapping DEF Machine!Fail
<1> QED
  BY <1>7 DEF Machine!Next

\* The other steps of a call are not steps of the machine.
LEMMA CallStepStutters ==
  ASSUME GpConvention, VInv, CallStep, \A keep \in BOOLEAN : ~FinishCall(keep),
         ~(CollectNothing \/ CollectFails \/ ReloadFails)
  PROVE  UNCHANGED Machine!smVars
<1>1. InCall /\ phase # "code" /\ phase' # "code"
  BY CallStepValues
<1>2. before' = before /\ ~Quiet /\ ~Quiet'
  BY <1>1 DEF InCall, Quiet
<1>3. thrown' = thrown /\ phase # "abandoned" /\ phase' # "abandoned"
  <2>1. CASE CollectArg
    BY <2>1 DEF CollectArg, Collecting, Pop, PopUnspilled, PopSpilled, AllocStep
  <2>2. CASE SpillCollected \/ ReverseArgs
    BY <2>2 DEF SpillCollected, ReverseArgs, Collecting, Collected, vars
  <2>3. CASE CollectMissing \/ ReloadArg
    BY <2>3 DEF CollectMissing, ReloadArg, Collected, PopEmpty, Alloc, AllocStep
  <2>4. ASSUME NEW i \in Unsaved, SaveCallerSaved(i)
        PROVE  thrown' = thrown /\ phase # "abandoned" /\ phase' # "abandoned"
    BY <2>4 DEF SaveCallerSaved, vars
  <2>5. CASE MoveArg \/ Pad \/ PushStackArg
    BY <2>5 DEF MoveArg, Pad, PushStackArg, vars
  <2>6. ASSUME NEW compiled \in Compiled, CallTarget(compiled)
        PROVE  thrown' = thrown /\ phase # "abandoned" /\ phase' # "abandoned"
    BY <2>6 DEF CallTarget, Calling
  <2>7. CASE DropArgs \/ RestoreCallerSaved
    BY <2>7 DEF DropArgs, RestoreCallerSaved, vars
  <2> QED
    BY <2>1, <2>2, <2>3, <2>4, <2>5, <2>6, <2>7 DEF CallStep
<1> QED
  BY <1>2, <1>3, HandlerStutters

\* A pool call that is not its handler's last one is not a step of the machine.
LEMMA PoolCallStutters ==
  ASSUME VInv,
         HandlerAllocs \/ HandlerPops \/ HandlerComputes \/ HandlerGivesBack \/ HandlerStores,
         HandlerGivesBack => Tail(todo) # <<>>
  PROVE  UNCHANGED Machine!smVars
<1>1. phase = "code" /\ todo # <<>> /\ CallMade
  BY DEF HandlerAllocs, HandlerPops, HandlerComputes, HandlerGivesBack, HandlerStores, NextCall
<1>2. before' = before /\ phase' = "code" /\ todo' = Tail(todo) /\ CInv
  BY <1>1, CallMadeFacts
<1>3. Tail(todo) # <<>>
  <2>1. /\ AfterAlloc # <<>> /\ AfterPop # <<>> /\ AfterPops # <<>> /\ AfterCompute # <<>>
        /\ AfterStore # <<>>
    BY DEF AfterAlloc, AfterPop, AfterPops, AfterCompute, AfterStore
  <2>2. \A x : BeforeStore(x) # <<>>
    BY DEF BeforeStore
  <2>3. CASE HandlerGivesBack
    BY <2>3
  <2>4. CASE HandlerAllocs \/ HandlerPops \/ HandlerComputes \/ HandlerStores
    BY <1>1, <1>2, <2>1, <2>2, <2>4, CallsToMake
       DEF HandlerAllocs, HandlerPops, HandlerComputes, HandlerStores, NextCall
  <2> QED
    BY <2>3, <2>4
<1>4. ~Quiet /\ ~Quiet' /\ phase # "abandoned" /\ phase' # "abandoned"
  BY <1>1, <1>2, <1>3 DEF Quiet
<1>5. thrown' = thrown
  BY DEF HandlerAllocs, HandlerPops, HandlerComputes, HandlerGivesBack, HandlerStores,
         Alloc, Pop, PopUnspilled, PopSpilled, AllocStep, Compute, Free, Push
<1> QED
  BY <1>2, <1>4, <1>5, HandlerStutters

LEMMA CallNextMaps ==
  ASSUME GpConvention
  PROVE  VInv /\ [CallNext]_allVars => [Machine!Next]_(Machine!smVars)
<1> SUFFICES ASSUME VInv, [CallNext]_allVars PROVE [Machine!Next]_(Machine!smVars)
  OBVIOUS
<1>1. CASE OpPush \/ OpBinary \/ \E x \in Var : OpLoad(x) \/ OpStore(x)
  <2>1. /\ phase' = "code" /\ Quiet /\ ~Quiet' /\ thrown' = thrown
        /\ before' = [stack |-> PoolValues, vars |-> VarsNow, opcode |-> opcode]
    BY <1>1, BeginValues
  <2> QED
    BY <2>1, StartStutters
<1>2. CASE HandlerAllocs \/ HandlerPops \/ HandlerComputes \/ HandlerGivesBack \/ HandlerStores
  <2>1. CASE HandlerGivesBack /\ Tail(todo) = <<>>
    BY <2>1, LastPoolCallMaps
  <2>2. CASE HandlerGivesBack => Tail(todo) # <<>>
    BY <1>2, <2>2, PoolCallStutters
  <2> QED
    BY <2>1, <2>2
<1>3. ASSUME NEW n \in Arity, OpCall(n) PROVE UNCHANGED Machine!smVars
  <2>1. /\ phase' = "collect" /\ Quiet /\ thrown' = thrown
        /\ before' = [stack |-> PoolValues, vars |-> VarsNow, opcode |-> opcode]
    BY <1>3, OpCallValues
  <2>2. ~Quiet'
    BY <2>1 DEF Quiet
  <2> QED
    BY <2>1, <2>2, StartStutters
<1>4. ASSUME NEW keep \in BOOLEAN, FinishCall(keep)
      PROVE  [Machine!Next]_(Machine!smVars)
  BY <1>4, FinishCallMaps
<1>5. CASE CollectNothing \/ CollectFails \/ ReloadFails
  BY <1>5, GivesUpMaps
<1>6. CASE /\ CallStep /\ \A keep \in BOOLEAN : ~FinishCall(keep)
           /\ ~(CollectNothing \/ CollectFails \/ ReloadFails)
  BY <1>6, CallStepStutters
<1>7. CASE UNCHANGED allVars
  <2>1. /\ UNCHANGED vars /\ phase' = phase /\ todo' = todo
        /\ local_variable_map' = local_variable_map /\ before' = before /\ opcode' = opcode
    BY <1>7 DEF allVars, callVars
  <2>2. reg_stack' = reg_stack /\ frame' = frame /\ contents' = contents /\ thrown' = thrown
    BY <2>1 DEF vars
  <2>3. PoolValues' = PoolValues /\ VarsNow' = VarsNow /\ Quiet' = Quiet
    BY <2>1, <2>2 DEF PoolValues, VarsNow, Quiet
  <2>4. MStack' = MStack /\ MVars' = MVars /\ MOpcode' = MOpcode
    BY <2>1, <2>3 DEF MStack, MVars, MOpcode
  <2>5. (thrown \/ phase = "abandoned")' = (thrown \/ phase = "abandoned")
    BY <2>1, <2>2
  <2> QED
    BY <2>4, <2>5, MachineMapping DEF Machine!smVars
<1> QED
  BY <1>1, <1>2, <1>3, <1>4, <1>5, <1>6, <1>7 DEF CallNext

\* The code generated for straight-line opcodes computes what the stack machine
\* does, with the GP calling convention: whatever is spilled, saved around calls,
\* popped, padded or moved between registers, every opcode has its one effect on
\* operands and variables when its handler is done, and a call is refused only
\* when it has more arguments than there are registers, or no operand at all.
THEOREM CallsImplementStackMachine ==
  ASSUME CalleeTyped, GpConvention
  PROVE  CallSpec => ImplementsStackMachine
<1>1. CallInit => Machine!Init
  BY MachineInit
<1>2. VInv /\ [CallNext]_allVars => [Machine!Next]_(Machine!smVars)
  BY CallNextMaps
<1> QED
  BY <1>1, <1>2, ValuesInvariant, PTL DEF CallSpec, ImplementsStackMachine, Machine!Spec
===============================================================================
