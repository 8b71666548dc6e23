------------------------------ MODULE ValueStack ------------------------------
(***************************************************************************)
(* What the register pool of the code generator promises to its client,    *)
(* the IR opcode handlers of generate_code: an operand stack of run-time   *)
(* values, plus a "hand" of values the running handler is working on, each *)
(* known by a handle (the pool uses register names as handles).  Nothing   *)
(* here knows of registers, spill slots or the stack frame.                *)
(***************************************************************************)
EXTENDS Naturals, Sequences

CONSTANTS
  Handle,   \* names under which a handler can hold a value
  Value     \* run-time values

VARIABLES
  values,   \* the operand stack, last element on top
  hand,     \* [handles held -> Value]
  failed    \* code generation was abandoned by an exception

vsVars == <<values, hand, failed>>

Held == DOMAIN hand

Init == values = <<>> /\ hand = <<>> /\ failed = FALSE

Holding(h, v) == [x \in Held \cup {h} |-> IF x = h THEN v ELSE hand[x]]
Without(h)    == [x \in Held \ {h} |-> hand[x]]

\* A handler obtains a handle and loads a value into it, or overwrites one it holds.
Load(h, v) ==
  /\ ~failed
  /\ hand' = Holding(h, v)
  /\ UNCHANGED <<values, failed>>

Release(h) ==
  /\ ~failed /\ h \in Held
  /\ hand' = Without(h)
  /\ UNCHANGED <<values, failed>>

Push(h) ==
  /\ ~failed /\ h \in Held
  /\ values' = Append(values, hand[h])
  /\ hand'   = Without(h)
  /\ UNCHANGED failed

Pop(h) ==
  /\ ~failed /\ h \notin Held /\ values # <<>>
  /\ hand'   = Holding(h, values[Len(values)])
  /\ values' = SubSeq(values, 1, Len(values) - 1)
  /\ UNCHANGED failed

Clear ==
  /\ ~failed
  /\ values' = <<>>
  /\ hand' = <<>>
  /\ UNCHANGED failed

\* The reasons to fail: a handle is wanted while every one is in use, or an
\* operand of the empty stack.
Fail ==
  /\ ~failed
  /\ Handle \subseteq Held \/ values = <<>>
  /\ failed' = TRUE
  /\ UNCHANGED hand
  /\ values' \in {values, SubSeq(values, 1, Len(values) - 1)}

Next ==
  \/ \E h \in Handle, v \in Value : Load(h, v)
  \/ \E h \in Handle : Release(h) \/ Push(h) \/ Pop(h)
  \/ Clear
  \/ Fail

Spec == Init /\ [][Next]_vsVars
================================================================================
