----------------------------- MODULE VariableSlots -----------------------------
(***************************************************************************)
(* What becomes of the names of an accepted program.  generate_block()     *)
(* keeps the types of the variables it has met and forgets, at the end of  *)
(* a block, those it had not met before; the code generator has a slot of  *)
(* the frame and a type for each name it has stored to in the function.    *)
(*                                                                         *)
(* Only the loads and stores of variables are followed: `memory' has, for  *)
(* each slot, the declaration stored through last in the order of the      *)
(* code.  Arrays and structs have maps of their own and are left out.      *)
(***************************************************************************)
EXTENDS Linter

VARIABLES
  variable_types,   \* ir_gen's local_variable_map of the function
  vars_before,      \* the names met before each open block
  code,             \* its loads and stores, function after function
  ir,               \* the instruction next
  local_variable_map, local_variable_map_types, totalsizes,
  memory,
  loads,            \* every load made: [at, name, type, from]
  abandoned         \* whether generate_code() has given up on a function

lowerVars == <<variable_types, vars_before, code>>
emitVars  == <<ir, local_variable_map, local_variable_map_types, totalsizes, memory, loads, abandoned>>
vars == <<lintVars, lowerVars, emitVars>>

Enter(i)           == [op |-> "enter", at |-> i]
Load(i, x)         == [op |-> "op_load", at |-> i, name |-> x]
Store(i, x, type)  == [op |-> "op_store", at |-> i, name |-> x, type |-> type]

Init ==
  /\ LintInit
  /\ variable_types = <<>> /\ vars_before = <<>> /\ code = <<>>
  /\ ir = 1 /\ local_variable_map = <<>> /\ local_variable_map_types = <<>>
  /\ totalsizes = 0 /\ memory = <<>> /\ loads = {} /\ abandoned = FALSE

-------------------------------------------------------------------------------
(* lower_functions() and generate_block(). *)

Scalars == \A i \in DOMAIN program : program[i].k \notin {"array", "struct", "aggregate"}

Lower(kinds) == pass = "lower" /\ Scalars /\ at <= Len(program) /\ Here.k \in kinds

Loads(i, expr) ==
  FlattenSeq([j \in DOMAIN expr |-> IF expr[j].n = "var" THEN <<Load(i, expr[j].name)>> ELSE <<>>])

\* Assignment in a map.
Put(f, x, value) == [y \in DOMAIN f \cup {x} |-> IF y = x THEN value ELSE f[y]]

\* A name that is not in the map enters it without a type.
TypeIn(types, x) == IF x \in DOMAIN types THEN types[x] ELSE Unknown

Emit(types, before, new) ==
  /\ variable_types' = types
  /\ vars_before' = before
  /\ code' = code \o new
  /\ at' = at + 1
  /\ UNCHANGED <<program, pass, scope_stack, known, known_enum_types, const_variables, errors, emitVars>>

LowerGlobal == Lower({"global", "enum"}) /\ Emit(variable_types, vars_before, <<>>)

\* Every function begins with the values of all the globals.
GlobalInit ==
  FlattenSeq([i \in DOMAIN program |->
                IF program[i].k = "global" /\ program[i].init # <<>>
                THEN Append(Loads(i, program[i].init), Store(i, program[i].name, program[i].type))
                ELSE <<>>])

LowerFunction ==
  LET params == [x \in {Here.params[p].name : p \in DOMAIN Here.params} |->
                   (CHOOSE p \in Range(Here.params) : p.name = x).type]
  IN
  /\ Lower({"function"})
  /\ Emit(params, <<DOMAIN params>>, <<Enter(at)>> \o GlobalInit)

LowerDeclaration ==
  /\ Lower({"declare"})
  /\ Emit(Put(variable_types, Here.name, Here.type), vars_before,
          IF Here.init = <<>> THEN <<>>
          ELSE Append(Loads(at, Here.init), Store(at, Here.name, Here.type)))

LowerAssignment ==
  LET type == TypeIn(variable_types, Here.name) IN
  /\ Lower({"assign"})
  /\ Emit(Put(variable_types, Here.name, type), vars_before,
          Append(Loads(at, Here.expr), Store(at, Here.name, type)))

LowerExpression ==
  Lower({"expression", "switch"}) /\ Emit(variable_types, vars_before, Loads(at, Here.expr))

Snapshot == Append(vars_before, DOMAIN variable_types)

LowerConditional ==
  Lower({"if", "elseif", "while"}) /\ Emit(variable_types, Snapshot, Loads(at, Here.expr))

LowerPlainBlock ==
  Lower({"else", "loop", "case", "default"}) /\ Emit(variable_types, Snapshot, <<>>)

\* The counter does not enter the map.  It is given its value only if its type is
\* an integer, and the type it is stored with is that of what a pointer points to.
LowerFor ==
  LET base == Type(Here.type.base) IN
  /\ Lower({"for"})
  /\ Emit(variable_types, Snapshot,
          (IF base \in IntTypes THEN Append(Loads(at, Here.init), Store(at, Here.name, base)) ELSE <<>>)
          \o Loads(at, Here.expr))

\* A for that begins with no declaration: no code is made of its first part.
LowerForAssign == Lower({"forassign"}) /\ Emit(variable_types, Snapshot, Loads(at, Here.expr))

\* Mutant: the names of a block are kept.
CleanupKeepsAll == variable_types

\* The names the block found are kept, and those it declared are forgotten.
Cleanup == [x \in DOMAIN variable_types \cap Last(vars_before) |-> variable_types[x]]

\* The step of a loop comes behind its block.
LowerEnd ==
  LET o == Closed
      step == program[o].step
      next == IF program[o].k \notin {"for", "forassign"} THEN <<>>
              ELSE Append(Loads(o, step.expr), Store(o, step.name, TypeIn(Cleanup, step.name)))
  IN
  /\ Lower({"end"})
  /\ CASE program[o].k = "switch"   -> Emit(variable_types, vars_before, <<>>)
       [] program[o].k = "function" -> Emit(<<>>, <<>>, <<>>)
       [] OTHER                     -> Emit(Cleanup, Front(vars_before), next)

LowerDone ==
  /\ pass = "lower" /\ Scalars /\ at > Len(program)
  /\ pass' = "emit"
  /\ UNCHANGED <<program, at, scope_stack, known, known_enum_types, const_variables, errors, lowerVars, emitVars>>

-------------------------------------------------------------------------------
(* generate_code(). *)

Instruction(op) == pass = "emit" /\ ir <= Len(code) /\ code[ir].op = op

Emitted == ir' = ir + 1 /\ UNCHANGED <<lintVars, lowerVars>>

\* The parameters are stored in slots of their own.
EmitEnter ==
  LET i == code[ir].at
      params == program[i].params
      Place(p) == Meaning(i, params[p].name)
      slots == [p \in DOMAIN params |-> 8 * p]
  IN
  /\ Instruction("enter")
  /\ local_variable_map' = [x \in {params[p].name : p \in DOMAIN params} |->
                              slots[CHOOSE p \in DOMAIN params : params[p].name = x]]
  /\ local_variable_map_types' = [x \in DOMAIN local_variable_map' |->
                                    (CHOOSE p \in Range(params) : p.name = x).type]
  /\ memory' = [s \in Range(slots) |-> Place(s \div 8)]
  /\ totalsizes' = 8 * Len(params)
  /\ abandoned' = FALSE
  /\ UNCHANGED loads
  /\ Emitted

\* Mutant: the slot is taken before the frame has grown.
SlotUnadvanced(x) == IF x \in DOMAIN local_variable_map THEN local_variable_map[x] ELSE totalsizes

\* A name keeps the slot, and the type, of the first store to it.
Slot(x) == IF x \in DOMAIN local_variable_map THEN local_variable_map[x] ELSE totalsizes + 8

\* The declaration stored through; the step of a loop may assign to the name of a
\* function, which has none.
NoDeclaration == [at |-> 0, name |-> "", type |-> Unknown, const |-> FALSE, stored |-> FALSE,
                  scope |-> <<0, "none">>, place |-> 0]
StoredThrough(i, x) == IF Visible(i, x) = {} THEN NoDeclaration ELSE Meaning(i, x)

EmitStore ==
  LET i == code[ir] x == i.name IN
  /\ Instruction("op_store") /\ ~abandoned
  /\ local_variable_map' = Put(local_variable_map, x, Slot(x))
  /\ local_variable_map_types' = IF x \in DOMAIN local_variable_map THEN local_variable_map_types
                                  ELSE Put(local_variable_map_types, x, i.type)
  /\ totalsizes' = IF x \in DOMAIN local_variable_map THEN totalsizes ELSE totalsizes + 8
  /\ memory' = Put(memory, Slot(x), StoredThrough(i.at, x))
  /\ UNCHANGED <<loads, abandoned>>
  /\ Emitted

EmitLoad ==
  LET i == code[ir] x == i.name IN
  /\ Instruction("op_load") /\ ~abandoned /\ x \in DOMAIN local_variable_map
  /\ loads' = loads \cup {[at |-> i.at, name |-> x, type |-> local_variable_map_types[x],
                           from |-> memory[local_variable_map[x]]]}
  /\ UNCHANGED <<local_variable_map, local_variable_map_types, totalsizes, memory, abandoned>>
  /\ Emitted

\* "Attempted to load undeclared variable": generate_code() returns.
EmitLoadFails ==
  /\ Instruction("op_load") /\ ~abandoned /\ code[ir].name \notin DOMAIN local_variable_map
  /\ abandoned' = TRUE
  /\ UNCHANGED <<local_variable_map, local_variable_map_types, totalsizes, memory, loads>>
  /\ Emitted

\* What is left of a function that was given up.
EmitSkip ==
  /\ pass = "emit" /\ ir <= Len(code) /\ code[ir].op # "enter" /\ abandoned
  /\ UNCHANGED <<local_variable_map, local_variable_map_types, totalsizes, memory, loads, abandoned>>
  /\ Emitted

Next ==
  \/ LintNext /\ UNCHANGED <<lowerVars, emitVars>>
  \/ LowerGlobal \/ LowerFunction \/ LowerDeclaration \/ LowerAssignment \/ LowerExpression
  \/ LowerConditional \/ LowerPlainBlock \/ LowerFor \/ LowerForAssign \/ LowerEnd \/ LowerDone
  \/ EmitEnter \/ EmitStore \/ EmitLoad \/ EmitLoadFails \/ EmitSkip

Spec == Init /\ [][Next]_vars

-------------------------------------------------------------------------------
(* Correctness. *)

\* The function a statement belongs to, 0 for none.
FunctionOf(i) == Max({0} \cup {f \in 1..i : program[f].k = "function" /\ i <= Close(f)})

\* One name with two types in the frame of one function.
Retyped ==
  \E d, e \in Declarations :
    d.name = e.name /\ d.type # e.type /\ FunctionOf(d.at) \in {0, FunctionOf(e.at)}

\* A parameter with the name of a global: a global declared further on is stored
\* to behind the parameters all the same.
Overwritten ==
  \E d, e \in Declarations : d.scope[1] = 0 /\ e.place # 0 /\ d.name = e.name

\* A counter whose type is no integer: the value of a bool or a string is lost, and a
\* load of it makes generate_code() give the function up; a pointer has the type of
\* what it points to.
CounterLost == \E i \in DOMAIN program : program[i].k = "for" /\ program[i].type \notin IntTypes

\* A variable that has a value when it is used; a global is stored to at the
\* beginning of a function or not, whatever is assigned in other functions.  What
\* a "forassign" assigns in its first part is lost and does not count.
Assigned(i, x, d) ==
  \/ d.at < i /\ d.stored
  \/ /\ d.scope[1] # 0
     /\ \E j \in 1..i - 1 : program[j].k = "assign" /\ program[j].name = x /\ Meaning(j, x) = d

Uses(expr) == {expr[j].name : j \in {j \in DOMAIN expr : expr[j].n = "var"}}

\* The step of a loop that assigns to the name of a function leaves a slot of that
\* name without a type: here a step assigns to a variable.
EveryUseAssigned ==
  \A i \in DOMAIN program : LET s == program[i] IN
    /\ \A expr \in Expressions(s) : \A x \in Uses(expr) :
         /\ Visible(i, x) # {}
         /\ \/ Assigned(i, x, Meaning(i, x))
            \/ s.k = "for" /\ Meaning(i, x).at = i /\ x \notin Uses(s.init)
    /\ s.k \in {"for", "forassign"} =>
         /\ Visible(i, s.step.name) # {}
         /\ \A x \in Uses(s.step.expr) :
              Visible(i, x) # {} /\ (Assigned(i, x, Meaning(i, x)) \/ Meaning(i, x).at = i)

\* A load finds the value last stored through the declaration its name means,
\* with the type declared there, and code is made for the whole function: in a
\* program that was accepted, that gives a name one type in a function and does
\* not declare it again inside its scope, nor a parameter with the name of a
\* global, whose loops count in integers and step variables, and that assigns before
\* it uses.
ReadsItsOwn ==
  pass = "emit" /\ ~Shadows /\ ~Retyped /\ ~Overwritten /\ ~CounterLost /\ EveryUseAssigned =>
    /\ ~abandoned
    /\ \A l \in loads : l.from = Meaning(l.at, l.name) /\ l.type = l.from.type

\* While a block is lowered, ir_gen has the types of what the linter saw there,
\* except for globals and the counters of loops.
TypesAgree ==
  pass = "lower" /\ at <= Len(program) /\ ~Shadows =>
    \A x \in DOMAIN variable_types :
      variable_types[x] # Unknown =>
        \E d \in Visible(at, x) : d.type = variable_types[x]
================================================================================
