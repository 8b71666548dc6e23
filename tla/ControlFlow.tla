------------------------------ MODULE ControlFlow ------------------------------
(***************************************************************************)
(* How statements become machine code: generate_block and its callees      *)
(* lower them to labels and jumps, generate_code emits these with room for *)
(* the offsets and fills them in when every label has its place, and the   *)
(* code runs next to the program it was made from, which takes the same    *)
(* events in the order the language gives them.                            *)
(*                                                                         *)
(* The recursion over the statements is a worklist: a handler replaces the *)
(* statement it is called for by what it emits and the calls it makes, in  *)
(* order.  A condition is one comparison and its jump to the false label   *)
(* (what the others do is the matter of Conditions).                       *)
(***************************************************************************)
EXTENDS StructuredProgram, Integers

CONSTANTS
  Program,       \* bodies of functions
  Stray,         \* those with a break or continue outside of every loop
  Bodies,        \* bodies of functions and of the blocks in them
  ClosedBodies,  \* those whose breaks and continues are all inside of loops of theirs
  Locals,        \* bytes of the variables in front of the body
  CodeSize,      \* bytes of the instructions that are no jump
  Prologue       \* bytes in front of the first one

ASSUME ControlFlowAssumption ==
  /\ CodeSize \in Nat \ {0} /\ Prologue \in Nat /\ Locals \subseteq Nat
  /\ 0 \notin CaseValue /\ Stray \subseteq Program

VARIABLES
  phase,              \* "lower", "emit", "patch", "run", "abandoned", "off"
  work,               \* calls generate_block has still to make
  label_count,
  ir,                 \* function.code, what codegen has not read yet
  code,               \* [addresses -> instructions]
  size,               \* w->get_code().size()
  label_map,          \* [labels -> addresses]
  jump_instructions,  \* places to be patched
  totalsizes,         \* bytes of local variables
  frame_size,         \* operand of sub rsp
  rip, flag,          \* next instruction; what the last comparison said
  tmps                \* [__switch_tmp_ variables -> values]

compileVars == <<work, label_count, ir, code, size, label_map, jump_instructions,
                 totalsizes, frame_size>>
runVars == <<cont, rip, flag, tmps>>
cfVars == <<phase, compileVars, runVars>>

NoLabel == 0   \* the empty string that stands for a label

Instr(op, id, label) == [op |-> op, id |-> id, label |-> label]

\* Entries of the worklist: an instruction, a statement, or the parts of an if
\* or a switch that are still to be generated.
Emit(op, id, label) == [call |-> "emit", instr |-> Instr(op, id, label)]
Call(call, stmt, k, labels, brk, start) ==
  [call |-> call, stmt |-> stmt, k |-> k, labels |-> labels,
   current_break_label |-> brk, current_loop_start |-> start]

PlaceLabel(label) == Emit("label", 0, label)
Jump(label)       == Emit("jmp", 0, label)

\* generate_condition() for one comparison.
Condition(id, false_label) == <<Emit("test", id, 0), Emit("jnz", 0, false_label)>>

\* generate_block(): one call per statement.
Block(body, brk, start) ==
  [i \in DOMAIN body |-> Call(body[i].kind, body[i], 1, <<>>, brk, start)]

\* Mutant: an empty block needs no return.
ImplicitReturnEmpty(body) ==
  IF body = <<>> \/ (\E i \in DOMAIN body : body[i].kind = "return") THEN body
  ELSE Append(body, Stmt("return", 0, <<>>))

\* parse_function() ends a body without a return of its own with one.
ImplicitReturn(body) ==
  IF \E i \in DOMAIN body : body[i].kind = "return" THEN body
  ELSE Append(body, Stmt("return", 0, <<>>))

\* What the parser makes of statements, down to the innermost block.
StatementKinds ==
  {"do", "return", "if", "loop", "while", "for", "forassign", "continue", "break", "switch"}
Statement ==
  [kind : StatementKinds, id : Nat, parts : Seq([test : Nat, present : BOOLEAN, body : Bodies])]

\* An if and a loop have their block, a for also its step, in which a break or a
\* continue would have no label (for i64 i = 0 when i < 9 do break {...}: left out);
\* the default block of a switch is the last part, where generate_switch() puts it.
WellFormed(stmt) ==
  /\ stmt.kind \in {"if", "loop", "while"} => Len(stmt.parts) >= 1
  /\ stmt.kind \in {"for", "forassign"} => Len(stmt.parts) >= 2 /\ stmt.parts[2].body \in ClosedBodies
  /\ stmt.kind = "switch" => \A k \in DOMAIN stmt.parts : stmt.parts[k].test = 0 => k = Len(stmt.parts)

\* generate_block() needs no label of a loop around the statement.
Closed(stmt) ==
  /\ stmt.kind \notin {"break", "continue"}
  /\ stmt.kind \in {"if", "switch"} => \A k \in DOMAIN stmt.parts : stmt.parts[k].body \in ClosedBodies

ASSUME ProgramAssumption ==
  /\ Bodies \subseteq Seq(Statement) /\ ClosedBodies \subseteq Bodies
  /\ \A body \in Bodies : \A i \in DOMAIN body : WellFormed(body[i])
  /\ \A body \in ClosedBodies : \A i \in DOMAIN body : Closed(body[i])
  /\ \A source \in Program : ImplicitReturn(source) \in Bodies
  /\ \A source \in Program \ Stray : ImplicitReturn(source) \in ClosedBodies

CFInit ==
  /\ \E source \in Program : LET body == ImplicitReturn(source) IN
       /\ cont = <<Frame(body)>>
       /\ work = Block(body, NoLabel, NoLabel)
  /\ phase = "lower" /\ label_count = 1
  /\ ir = <<>> /\ code = <<>> /\ size = Prologue
  /\ label_map = <<>> /\ jump_instructions = <<>>
  /\ totalsizes \in Locals /\ frame_size = 0
  /\ rip = Prologue /\ flag = FALSE /\ tmps = <<>>

-------------------------------------------------------------------------------
(* The IR generator. *)

Lowering(call) == phase = "lower" /\ work # <<>> /\ Head(work).call = call
Todo == Head(work)

\* The call at hand makes the calls given, and create_label() runs n times.
Makes(calls, n) ==
  /\ work' = calls \o Tail(work)
  /\ label_count' = label_count + n
  /\ UNCHANGED <<phase, ir, code, size, label_map, jump_instructions,
                 totalsizes, frame_size, runVars>>

Inner(body) == Block(body, Todo.current_break_label, Todo.current_loop_start)
Rest(call, k, labels) ==
  <<Call(call, Todo.stmt, k, labels, Todo.current_break_label, Todo.current_loop_start)>>

EmitInstruction ==
  /\ Lowering("emit")
  /\ ir' = Append(ir, Todo.instr)
  /\ work' = Tail(work)
  /\ UNCHANGED <<phase, label_count, code, size, label_map, jump_instructions,
                 totalsizes, frame_size, runVars>>

\* Expressions, declarations, assignments and calls.
GenerateStatement == Lowering("do") /\ Makes(<<Emit("do", Todo.stmt.id, 0)>>, 0)

GenerateReturn == Lowering("return") /\ Makes(<<Emit("ret", 0, 0)>>, 0)

GenerateIf ==
  LET false_label == label_count true_label == label_count + 1 end_label == label_count + 2
      part == Todo.stmt.parts[1]
  IN
  /\ Lowering("if")
  /\ Makes(Condition(part.test, false_label) \o <<PlaceLabel(true_label)>>
           \o Inner(part.body) \o <<Jump(end_label), PlaceLabel(false_label)>>
           \o Rest("elseif", 2, <<end_label>>), 3)

\* Mutant: the block of an else if runs on into the else block.
GenerateElseifRunsOn ==
  LET true_label == label_count false_label == label_count + 1
      part == Todo.stmt.parts[Todo.k]
  IN
  /\ Lowering("elseif") /\ Todo.k <= Len(Todo.stmt.parts) /\ part.test # 0
  /\ Makes(Condition(part.test, false_label) \o <<PlaceLabel(true_label)>>
           \o Inner(part.body) \o <<PlaceLabel(false_label)>>
           \o Rest("elseif", Todo.k + 1, Todo.labels), 2)

GenerateElseif ==
  LET true_label == label_count false_label == label_count + 1
      part == Todo.stmt.parts[Todo.k]
  IN
  /\ Lowering("elseif") /\ Todo.k <= Len(Todo.stmt.parts) /\ part.test # 0
  /\ Makes(Condition(part.test, false_label) \o <<PlaceLabel(true_label)>>
           \o Inner(part.body) \o <<Jump(Todo.labels[1]), PlaceLabel(false_label)>>
           \o Rest("elseif", Todo.k + 1, Todo.labels), 2)

GenerateElse ==
  /\ Lowering("elseif") /\ Todo.k <= Len(Todo.stmt.parts)
  /\ Todo.stmt.parts[Todo.k].test = 0
  /\ Makes(Inner(Todo.stmt.parts[Todo.k].body) \o Rest("elseif", Todo.k + 1, Todo.labels), 0)

EndIf ==
  /\ Lowering("elseif") /\ Todo.k > Len(Todo.stmt.parts)
  /\ Makes(<<PlaceLabel(Todo.labels[1])>>, 0)

\* Mutant: nothing is placed for the breaks.
GenerateLoopNoBreakLabel ==
  LET L1 == label_count B1 == label_count + 1 IN
  /\ Lowering("loop")
  /\ Makes(<<PlaceLabel(L1)>> \o Block(Todo.stmt.parts[1].body, B1, L1) \o <<Jump(L1)>>, 2)

GenerateLoop ==
  LET L1 == label_count B1 == label_count + 1 IN
  /\ Lowering("loop")
  /\ Makes(<<PlaceLabel(L1)>> \o Block(Todo.stmt.parts[1].body, B1, L1)
           \o <<Jump(L1), PlaceLabel(B1)>>, 2)

GenerateWhile ==
  LET loop_label == label_count break_label == label_count + 1 IN
  /\ Lowering("while")
  /\ Makes(<<PlaceLabel(loop_label)>> \o Condition(Todo.stmt.parts[1].test, break_label)
           \o Block(Todo.stmt.parts[1].body, break_label, loop_label)
           \o <<Jump(loop_label), PlaceLabel(break_label)>>, 2)

\* Mutant: continue goes to the condition and leaves the step out.
GenerateForContinueTests ==
  LET L1 == label_count B1 == label_count + 1 step_label == label_count + 2 IN
  /\ Lowering("for")
  /\ Makes(<<Emit("do", Todo.stmt.id, 0), PlaceLabel(L1)>>
           \o Condition(Todo.stmt.parts[1].test, B1)
           \o Block(Todo.stmt.parts[1].body, B1, L1) \o <<PlaceLabel(step_label)>>
           \o Block(Todo.stmt.parts[2].body, NoLabel, NoLabel)
           \o <<Jump(L1), PlaceLabel(B1)>>, 3)

\* generate_for() behind its switch.
ForLoop ==
  LET L1 == label_count B1 == label_count + 1 step_label == label_count + 2 IN
  <<PlaceLabel(L1)>> \o Condition(Todo.stmt.parts[1].test, B1)
    \o Block(Todo.stmt.parts[1].body, B1, step_label) \o <<PlaceLabel(step_label)>>
    \o Block(Todo.stmt.parts[2].body, NoLabel, NoLabel) \o <<Jump(L1), PlaceLabel(B1)>>

\* The counter is an integer: it is given its first value.
GenerateFor == Lowering("for") /\ Makes(<<Emit("do", Todo.stmt.id, 0)>> \o ForLoop, 3)

\* default: of that switch, for any other first part: no code is made of it.
GenerateForAssign == Lowering("forassign") /\ Makes(ForLoop, 3)

GenerateContinue == Lowering("continue") /\ Makes(<<Jump(Todo.current_loop_start)>>, 0)
GenerateBreak    == Lowering("break") /\ Makes(<<Jump(Todo.current_break_label)>>, 0)

\* end_label, then the variable that takes a number from the same counter, a
\* body and a false label per case, and one for the default block.
Parts == Todo.stmt.parts
CaseParts == {k \in DOMAIN Parts : Parts[k].test # 0}
HasDefault == \E k \in DOMAIN Parts : Parts[k].test = 0
SwitchTmp == Todo.labels[1]
EndLabel == Todo.labels[1] - 1
BodyLabel(k) == Todo.labels[1] + 2 * k - 1
FalseLabel(k) == BodyLabel(k) + 1
DefaultLabel == Todo.labels[1] + 2 * Cardinality(CaseParts) + 1

\* Mutant: the default block shares its label with what comes next.
GenerateSwitchSharedLabel ==
  /\ Lowering("switch")
  /\ Makes(<<Emit("eval", Todo.stmt.id, label_count + 1)>>
           \o Rest("case", 1, <<label_count + 1>>), 2 + 2 * Cardinality(CaseParts))

GenerateSwitch ==
  /\ Lowering("switch")
  /\ Makes(<<Emit("eval", Todo.stmt.id, label_count + 1)>>
           \o Rest("case", 1, <<label_count + 1>>),
           2 + 2 * Cardinality(CaseParts) + IF HasDefault THEN 1 ELSE 0)

\* Mutant: a case without block leaves the switch.
FindNextBodyLabelEnds(k) == EndLabel

\* find_next_body_label(): where a case without block goes on.
FindNextBodyLabel(k) ==
  LET later == {j \in CaseParts : j > k /\ Parts[j].present} IN
  CASE later # {} -> BodyLabel(Min(later))
    [] later = {} /\ HasDefault -> DefaultLabel
    [] OTHER -> EndLabel

\* The k-th case; the default block is the last part.
GenerateCase ==
  LET k == Todo.k IN
  /\ Lowering("case") /\ k \in CaseParts
  /\ Makes(<<Emit("case", Parts[k].test, SwitchTmp), Emit("jnz", 0, FalseLabel(k))>>
           \o (IF Parts[k].present
               THEN <<PlaceLabel(BodyLabel(k))>> \o Inner(Parts[k].body) \o <<Jump(EndLabel)>>
               ELSE <<Jump(FindNextBodyLabel(k))>>)
           \o <<PlaceLabel(FalseLabel(k))>> \o Rest("case", k + 1, Todo.labels), 0)

GenerateDefault ==
  /\ Lowering("case") /\ Todo.k \in DOMAIN Parts \ CaseParts
  /\ Makes(<<PlaceLabel(DefaultLabel)>> \o Inner(Parts[Todo.k].body)
           \o Rest("case", Todo.k + 1, Todo.labels), 0)

EndSwitch ==
  /\ Lowering("case") /\ Todo.k > Len(Parts)
  /\ Makes(<<PlaceLabel(EndLabel)>>, 0)

Lowered ==
  /\ phase = "lower" /\ work = <<>>
  /\ phase' = "emit"
  /\ UNCHANGED <<compileVars, runVars>>

LoweringStep ==
  \/ EmitInstruction \/ GenerateStatement \/ GenerateReturn
  \/ GenerateIf \/ GenerateElseif \/ GenerateElse \/ EndIf
  \/ GenerateLoop \/ GenerateWhile \/ GenerateFor \/ GenerateForAssign \/ GenerateContinue \/ GenerateBreak
  \/ GenerateSwitch \/ GenerateCase \/ GenerateDefault \/ EndSwitch
  \/ Lowered

-------------------------------------------------------------------------------
(* The code generator: one pass over the IR, then the offsets. *)

Emitting(ops) == phase = "emit" /\ ir # <<>> /\ Head(ir).op \in ops
Instruction == Head(ir)

Placed(at, instr) == [a \in DOMAIN code \cup {at} |-> IF a = at THEN instr ELSE code[a]]
MachineInstr(op, id, tmp, len, offset) ==
  [op |-> op, id |-> id, tmp |-> tmp, len |-> len, offset |-> offset]

\* The first store to the variable of a switch gives it a slot.
EmitCode ==
  /\ Emitting({"do", "test", "eval", "case", "ret"})
  /\ code' = Placed(size, MachineInstr(Instruction.op, Instruction.id, Instruction.label, CodeSize, <<>>))
  /\ size' = size + CodeSize
  /\ totalsizes' = totalsizes + IF Instruction.op = "eval" THEN 8 ELSE 0
  /\ ir' = Tail(ir)
  /\ UNCHANGED <<phase, work, label_count, label_map, jump_instructions, frame_size, runVars>>

EmitLabel ==
  /\ Emitting({"label"})
  /\ label_map' = [l \in DOMAIN label_map \cup {Instruction.label} |->
                     IF l = Instruction.label THEN size ELSE label_map[l]]
  /\ ir' = Tail(ir)
  /\ UNCHANGED <<phase, work, label_count, code, size, jump_instructions,
                 totalsizes, frame_size, runVars>>

JumpLength(op) == IF op = "jmp" THEN 5 ELSE 6

\* Room for the jump is left as no-operations.
EmitJump ==
  LET len == JumpLength(Instruction.op) IN
  /\ Emitting({"jmp", "jnz"})
  /\ code' = Placed(size, MachineInstr("nop", 0, 0, len, <<>>))
  /\ size' = size + len
  /\ jump_instructions' = Append(jump_instructions, [instr |-> Instruction, location |-> size])
  /\ ir' = Tail(ir)
  /\ UNCHANGED <<phase, work, label_count, label_map, totalsizes, frame_size, runVars>>

Emitted ==
  /\ phase = "emit" /\ ir = <<>>
  /\ phase' = "patch"
  /\ UNCHANGED <<compileVars, runVars>>

\* An int32 as its bytes, least significant first, and back.
Bytes(n) == <<n % 256, (n \div 256) % 256, (n \div 65536) % 256, (n \div 16777216) % 256>>
FromBytes(b) ==
  b[1] + 256 * b[2] + 65536 * b[3] + 16777216 * (IF b[4] > 127 THEN b[4] - 256 ELSE b[4])

Patching == phase = "patch" /\ jump_instructions # <<>>
ToPatch == Head(jump_instructions)

\* Mutant: every jump is taken to be five bytes long.
BackpatchJumpFive ==
  LET op == ToPatch.instr.op
      offset == label_map[ToPatch.instr.label] - (ToPatch.location + 5)
  IN
  /\ Patching /\ ToPatch.instr.label \in DOMAIN label_map
  /\ code' = Placed(ToPatch.location, MachineInstr(op, 0, 0, JumpLength(op), Bytes(offset)))
  /\ jump_instructions' = Tail(jump_instructions)
  /\ UNCHANGED <<phase, work, label_count, ir, size, label_map, totalsizes, frame_size, runVars>>

\* backpatch_jump(): the offset counts from the end of the jump.
BackpatchJump ==
  LET op == ToPatch.instr.op
      offset == label_map[ToPatch.instr.label] - (ToPatch.location + JumpLength(op))
  IN
  /\ Patching /\ ToPatch.instr.label \in DOMAIN label_map
  /\ code' = Placed(ToPatch.location, MachineInstr(op, 0, 0, JumpLength(op), Bytes(offset)))
  /\ jump_instructions' = Tail(jump_instructions)
  /\ UNCHANGED <<phase, work, label_count, ir, size, label_map, totalsizes, frame_size, runVars>>

\* Label "" not found: generate_code returns with the other jumps and the frame
\* as they are.
LabelNotFound ==
  /\ Patching /\ ToPatch.instr.label \notin DOMAIN label_map
  /\ phase' = "abandoned"
  /\ UNCHANGED <<compileVars, runVars>>

\* Mutant: the frame is patched once, before it is rounded up.
PatchFrameUnrounded ==
  /\ phase = "patch" /\ jump_instructions = <<>>
  /\ frame_size' = totalsizes
  /\ totalsizes' = totalsizes + ((16 - (totalsizes % 16)) % 16)
  /\ phase' = "run"
  /\ UNCHANGED <<work, label_count, ir, code, size, label_map, jump_instructions, runVars>>

\* The operand of sub rsp, a multiple of 16.
PatchFrame ==
  /\ phase = "patch" /\ jump_instructions = <<>>
  /\ totalsizes' = totalsizes + ((16 - (totalsizes % 16)) % 16)
  /\ frame_size' = totalsizes'
  /\ phase' = "run"
  /\ UNCHANGED <<work, label_count, ir, code, size, label_map, jump_instructions, runVars>>

CodegenStep ==
  EmitCode \/ EmitLabel \/ EmitJump \/ Emitted \/ BackpatchJump \/ LabelNotFound \/ PatchFrame

-------------------------------------------------------------------------------
(* The code runs, and the program with it. *)

Running(ops) == phase = "run" /\ rip \in DOMAIN code /\ code[rip].op \in ops
Current == code[rip]
Following == rip + Current.len

CodeVisible == Running({"do", "test", "eval", "ret"})
CodeEvent == IF Current.op = "ret" THEN <<"return", 0>> ELSE <<Current.op, Current.id>>

RunSource ==
  /\ phase = "run" /\ Silent
  /\ UNCHANGED <<phase, compileVars, rip, flag, tmps>>

RunJump ==
  /\ Visible /\ ~At("forassign") /\ Running({"jmp", "jnz"})
  /\ rip' = Following + IF Current.op = "jnz" /\ flag THEN 0 ELSE FromBytes(Current.offset)
  /\ UNCHANGED <<phase, compileVars, cont, flag, tmps>>

RunCase ==
  /\ Visible /\ ~At("forassign") /\ Running({"case"})
  /\ flag' = (tmps[Current.tmp] = Current.id)
  /\ rip' = Following
  /\ UNCHANGED <<phase, compileVars, cont, tmps>>

RunDo ==
  /\ Running({"do"}) /\ ~At("forassign") /\ SourceDo
  /\ rip' = Following
  /\ UNCHANGED <<phase, compileVars, flag, tmps>>

\* Of this first part there is no code: the program takes it alone.
RunDropped ==
  /\ phase = "run" /\ At("forassign") /\ SourceDo
  /\ UNCHANGED <<phase, compileVars, rip, flag, tmps>>

RunTest(holds) ==
  /\ Running({"test"}) /\ SourceTest(holds)
  /\ flag' = holds /\ rip' = Following
  /\ UNCHANGED <<phase, compileVars, tmps>>

RunSwitch(v) ==
  /\ Running({"eval"}) /\ SourceSwitch(v)
  /\ tmps' = [t \in DOMAIN tmps \cup {Current.tmp} |-> IF t = Current.tmp THEN v ELSE tmps[t]]
  /\ rip' = Following
  /\ UNCHANGED <<phase, compileVars, flag>>

RunReturn ==
  /\ Running({"ret"}) /\ SourceReturn
  /\ phase' = "off"
  /\ UNCHANGED <<compileVars, rip, flag, tmps>>

RunStep ==
  \/ RunSource \/ RunJump \/ RunCase \/ RunDo \/ RunDropped \/ RunReturn
  \/ \E holds \in BOOLEAN : RunTest(holds)
  \/ \E v \in CaseValue : RunSwitch(v)

CFNext == LoweringStep \/ CodegenStep \/ RunStep

\* Compiler and processor go on as long as there is something to do.
CFSpec == CFInit /\ [][CFNext]_cfVars /\ WF_cfVars(CFNext)

-------------------------------------------------------------------------------
(* Correctness. *)

\* Labels, sizes and the frame are counts, and the compiler is in one of its phases.
CFTypeOK ==
  /\ phase \in {"lower", "emit", "patch", "run", "abandoned", "off"}
  /\ label_count \in Nat /\ size \in Nat /\ totalsizes \in Nat /\ frame_size \in Nat
  /\ \A l \in DOMAIN label_map : l \in 1..label_count - 1 /\ label_map[l] \in Prologue..size
  /\ \A a \in DOMAIN code : a \in Prologue..size - 1 /\ a + code[a].len \in DOMAIN code \cup {size}
  /\ flag \in BOOLEAN /\ \A t \in DOMAIN tmps : tmps[t] \in CaseValue

\* The code does what the program does: at every statement, condition and switch
\* it comes to the one whose turn it is, and returns where the program returns.
\* (What a for begins with is lost unless it declares an integer: for i = 0 when ...)
InStep == phase = "run" /\ Visible /\ CodeVisible /\ ~At("forassign") => CodeEvent = Event

\* The code of a function whose breaks and continues are inside of loops never
\* runs off its end into whatever follows it in memory.
NeverRunsOff == phase = "run" => rip # size

\* Every jump of a program whose breaks and continues are inside of loops finds
\* its label.
FailsOnlyOnStray == phase = "abandoned" => cont[1].rest \in {ImplicitReturn(body) : body \in Stray}

\* Once the code runs, its frame has room for every variable and keeps rsp
\* aligned to 16 bytes.
FrameHolds == phase = "run" => frame_size >= totalsizes /\ frame_size % 16 = 0

\* The code never goes in circles between two events, and lands on an
\* instruction.
Progress == phase = "run" ~> (phase = "run" /\ Visible /\ CodeVisible) \/ phase = "off"
================================================================================
