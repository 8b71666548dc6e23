----------------------------- MODULE StackMachine -----------------------------
(***************************************************************************)
(* What straight-line code compiled by generate_code computes: the IR is a *)
(* program for a stack machine with local variables and calls.  Registers, *)
(* spill slots, the frame and the calling convention do not appear.        *)
(***************************************************************************)
EXTENDS Naturals, Sequences

CONSTANTS
  Value,          \* run-time values
  Zero,           \* what an argument without operand is passed as
  Var,            \* local variables
  Op(_, _),       \* the binary operation of the arithmetic opcodes
  Callee(_),      \* the result of the called function, from its arguments
  Arity,          \* numbers of arguments of the functions that are called
  RegisterCount   \* most arguments a call can have

VARIABLES
  stack,    \* operands, last element on top
  vars,     \* [variables stored so far -> Value]
  opcode,   \* the opcode executed last: a step is known by more than its effect
  failed    \* code generation stopped with an error

smVars == <<stack, vars, opcode, failed>>

Init == stack = <<>> /\ vars = <<>> /\ opcode = <<>> /\ failed = FALSE

Drop(n) == SubSeq(stack, 1, Len(stack) - n)

\* The n topmost operands; operands that are not there are zero.
Arguments(n) ==
  [i \in 1..n |-> LET j == Len(stack) - n + i IN IF j >= 1 THEN stack[j] ELSE Zero]

Push(v) ==
  /\ ~failed
  /\ opcode' = <<"push", v>>
  /\ stack' = Append(stack, v)
  /\ UNCHANGED <<vars, failed>>

Load(x) ==
  /\ ~failed /\ x \in DOMAIN vars
  /\ opcode' = <<"load", x>>
  /\ stack' = Append(stack, vars[x])
  /\ UNCHANGED <<vars, failed>>

Binary ==
  /\ ~failed /\ Len(stack) >= 2
  /\ opcode' = <<"binary", 0>>
  /\ stack' = Append(Drop(2), Op(stack[Len(stack) - 1], stack[Len(stack)]))
  /\ UNCHANGED <<vars, failed>>

Store(x) ==
  /\ ~failed /\ stack # <<>>
  /\ opcode' = <<"store", x>>
  /\ vars' = [y \in DOMAIN vars \cup {x} |-> IF y = x THEN stack[Len(stack)] ELSE vars[y]]
  /\ stack' = Drop(1)
  /\ UNCHANGED failed

\* A call whose result is used, or dropped.
Call(n, keep) ==
  /\ ~failed /\ n <= RegisterCount
  /\ opcode' = <<"call", n>>
  /\ stack' = Drop(n) \o IF keep THEN <<Callee(Arguments(n))>> ELSE <<>>
  /\ UNCHANGED <<vars, failed>>

\* A call that cannot be compiled: too many arguments, or no operand at all.
Fail(n) ==
  /\ ~failed
  /\ n > RegisterCount \/ (n > 0 /\ stack = <<>>)
  /\ failed' = TRUE
  /\ UNCHANGED <<stack, vars, opcode>>

Next ==
  \/ \E v \in Value : Push(v)
  \/ \E x \in Var : Load(x) \/ Store(x)
  \/ Binary
  \/ \E n \in Arity : Fail(n) \/ \E keep \in BOOLEAN : Call(n, keep)

Spec == Init /\ [][Next]_smVars
================================================================================
