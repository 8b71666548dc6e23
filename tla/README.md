# Verification of the Occult compiler

`occultc` compiles the Occult language to x86-64 machine code, and runs it at
once (JIT) or links it into an ELF file (AOT). It is a single-threaded C++
program, a pipeline of stages with one feedback: the code generator compiles
functions on demand, while it is in the middle of another one, and reads and
writes a code cache on disk that outlives the process and that another compiler
may be using.

Paths are relative to the repository, which is in `src/`: `src/src/...` is the
compiler, `src/tests` its test programs.

## Inventory

| Component | State it keeps | Operations | Properties that make it correct |
|---|---|---|---|
| Lexer (`lexer/`) | source, `pos`, line | `get_next_token`, `analyze` | reads the tokens that were written; ends on every source; lines are right |
| Parser: expressions (`parser.cpp` 198–623) | operator stack, output list | `shunting_yard`, `parse_expression` | the postfix list means what the infix expression means |
| Parser: statements, recovery (`parser.cpp`) | token stream, `pos`, recursion depth, type names | `parse_*`, `synchronize` | reproduces the program; a mistake costs the function it is in; comes to an end |
| Parser: modules, imports, generics | saved streams and caches, import set, instantiations | `parse_module`, `parse_import`, generic instantiation | saved state is restored on every path; instantiation and imports end |
| Linter (`code_analysis/`) | scope stack, constants, function tables | `lint_*` | a name is what its innermost declaration says; what is accepted has no fault |
| IR generation: conditions (`ir_gen.cpp` 344–491, 1006–1445) | two lists, marks on nodes | `generate_condition`, the four jump generators | the block is entered exactly when the condition is true, after finitely many jumps |
| IR generation: statements | label counter, break and continue labels | `generate_if/loop/while/for/switch/block` | the code does what the statements do, event for event |
| IR generation: expressions, types | local variable and type maps | `generate_*` | operands in order, each opcode of its operands' type |
| Register pool (`x86_64_codegen.hpp` 76–221) | free list, operand stack, shared frame size | `alloc`, `free`, `push`, `pop`, `top`, `reset` | one owner per register, nothing lost; behaves as a stack of values |
| Opcode handlers (`generate_code`) | two pools, variable map, frame size, emitted code | one `case` per opcode, `op_call` the largest | compiled code computes what the IR means; System V calling convention |
| Labels, jumps, frame patching | label map, jumps to patch | `backpatch_jump`, end of `generate_code` | each jump goes to its label; the frame covers all slots |
| Compile driver and JIT (`compile_function`, `patch_and_register_cached`) | `function_map`, `compiling_functions`, writers | compile on demand, patch cached code | every call goes to its callee; recursion ends |
| Code cache (`code_cache.hpp`) | one file per function | `hash_ir_function`, `write_cached_code`, `load_cached_code` | transparent: a cached run is a fresh run |
| Struct layouts | offsets and sizes | constructor of `codegen` | offsets are those of the final sizes |
| Instruction writer, assembler | bytes, mapped memory | `emit_*`, `assemble`, `setup_function` | encodings; addresses stay valid |
| Linker, ELF, PE | text, location maps | `link_and_create_binary` | only addresses are relocated |
| VM (`backend/vm`) | stack, program counter | opcodes | not called by the compiler |
| `main.cpp` | options | the stages in order | — |
| xxhash (third-party), tests, examples | — | — | — |

Interactions: the stages hand over whole data structures. The opcode handlers
share one frame size between the two pools and the variables. `op_call` enters
`compile_function`, which enters `generate_code` or `patch_and_register_cached`,
which both come back to `compile_function`: this recursion, the `function_map`
it fills and the disk are where order matters. Failures are exceptions (caught
by `parse()`, which goes on, or by nobody), or an error message and an early
return after which compilation goes on, and the compiler being killed.

The hazards, with their lines and the properties that cover them, are in
`PROJECT.json`.

## Modules

| Module | What it is |
|---|---|
| `SequenceFacts` | lemmas about stacks, sequences, least elements and finite sets that all proofs share |
| `ValueStack` | abstract: an operand stack of values and a hand of values a handler works on |
| `RegisterPool` | `class register_pool` with the effect of the instructions it emits |
| `RegisterPoolProofs` | inductive invariant of the pool, what follows from it, and that the pool implements `ValueStack` |
| `StackMachine` | abstract: what straight-line IR computes, with variables and calls |
| `CallSequence` | extends `RegisterPool`: the handlers of straight-line opcodes and `op_call` |
| `CallSequenceProofs` | inductive invariant of the handlers: what they hold, what lies on the machine stack |
| `CallSequenceRefinement` | with the GP calling convention, the handlers implement `StackMachine` |
| `JitCache` | compile driver and code cache, over several runs of the compiler |
| `JitCacheProofs` | invariants of the compile driver, for any program, history and second compiler |
| `Conditions` | a condition from its tokens through the parser and the IR generator to its jumps |
| `StructuredProgram` | abstract: what the statements of a function do, event by event |
| `ControlFlow` | extends it: lowering to labels and jumps, emission, back-patching, and the code running next to the program |
| `ControlFlowProofs` | labels, layout of the code, patched jumps and the frame, for any program |
| `Lexer` | the rules of the lexer, a text with the tokens its author wrote |
| `LexicalScope` | abstract: which declaration a name means |
| `Linter` | extends it: `analyze()` and `lint_block()` with the scope stack |
| `LinterProofs` | the scope stack is the lexical one, what is accepted has no fault and what is refused has one, for any program |
| `VariableSlots` | extends `Linter`: the types IR generation remembers, the slots the code generator gives |
| `VariableSlotsProofs` | ir_gen's types are the linter's, every load finds its own variable, for any program |
| `ParserStack` | the frames of the recursive descent, the cursor, exceptions and `synchronize()` |
| `Expressions` | extends it: the shunting yard with calls, accesses and casts |
| `Generics` | extends it: types, templates and the copies that are parsed in place of the file |
| `Parser` | extends it: declarations and statements, `parse()` |
| `MC...` | instances for TLC |

Definitions called *mutant* in a comment are plausible bugs: each replaces the
definition that follows it and makes one property fail. No specification uses
them.

### RegisterPool

`free_regs`, `reg_stack` and `total_stack_size` are the fields of the class.
`contents` and `frame` are the registers and frame of the machine: straight-line
code runs in the order it is emitted, so a step is one call of the pool with
the effect of the instructions the call emits. `held` is the set of registers in
the hands of the running handler, which the class does not keep and on which its
correctness depends: a handler gives back what it holds, once, by `free()` or
`push()`. Under this condition any sequence of calls is allowed. `pop()` is
three actions, by what is on top. `RegSize` and `Zeroes` tell the GP pool from
the SIMD pool. `Reserve` stands for the other users of the frame size.

### CallSequence

Opcodes are chosen freely, so a behaviour is a straight-line program being
compiled and run. `todo` holds the pool calls that a simple handler still makes;
the loops of `op_call` are one step per iteration, `phase` says which loop. The
machine stack below the frame is `machine`, in cells of eight bytes, registers
outside the pool are `others`. `InRegisterOf` is the prologue of a callee that
`generate_code` compiled, which moves each register argument to its frame through
the first register of a pool of its own. `FinishCall` chooses freely whether the result is
pushed: the look-ahead that decides this is not modelled. Calls through both
pools at once, and the Windows convention, are not modelled. The refinement
maps the operand stack to the value of each entry, wherever it is; an
opcode takes effect when its handler is done. `opcode` is the opcode executed
last, in `StackMachine` and here: a step must be the one opcode that was compiled,
not just any step with the same effect on the operands.

### JitCache

A step is one entry into `compile_function()`, one call site of the body or the
cached code, or one effect on disk or memory. `frames` is the C++ call stack,
and a frame keeps the file it was entered with, since `load_cached_code()` reads
it once.
The IR of a function is a value `Text`, and its hash is that value: collisions
are excluded. What the code depends on beyond its IR, and the hash does not cover, is
kept with the code: the struct declarations (`layout`) and the types of the
parameters and result of each function it calls (`signatures`), which `op_call` looks
up in the program being compiled. So code that was cached before a callee's types
were edited differs from what a fresh compilation gives (`Linked`). An address is a function and a run, so that an address left over
from another run is seen. Between runs the program is edited, at
any step the compiler may be killed, with the cache file it is writing left
empty or whole. `Rival` is a second compiler in the same directory, started
from this program or an older one: at any step of the first it takes a file away
(truncates it) or puts one of its own in its place, with the addresses of its
own process and compiled from any older program. Not modelled: string literals, the use_jit mode (which the hash
leaves out as well), code that outgrows its first mapping, and torn files.

### Conditions

A comparison with its operands is one token. Every step of the shunting
yard is an action; `generate_condition()` is one action, which builds
the list of jumps; the jumps run one by one. `meaning` is fixed when the
condition is chosen. Operands matter by how they compare (`lt`, `eq`, `gt`); NaN
and unsigned operands are not modelled.

### StructuredProgram and ControlFlow

`StructuredProgram` runs a function the way the language means it: `cont` is a
stack of the statements left in each open block, and what can be seen from
outside is an event (a statement, a condition, the value of a switch).
`ControlFlow` takes the same function through three stages. *Lower*: the
recursion of `generate_block` over its callees is a worklist, a handler replaces
the statement it was called for by what it emits and the calls it makes, with
the labels of the innermost loop passed down as in the code. *Emit* and
*patch*: instructions get addresses, jumps five or six bytes and a placeholder,
labels a place in `label_map`; then `backpatch_jump` counts offsets from behind
each jump, and the size of the frame is written into the prologue, twice. *Run*:
the processor executes the bytes next to the program, and `InStep` compares
the events. A condition is one comparison; `Conditions` is about the others.
Labels that cannot be found abandon the function, as the code does.

`generate_for` makes code of the first part of a loop only if it declares an integer.
Any other, `for i = 0 when ...` for one, is a `forassign`: the program takes
its first part and the code has none (`RunDropped`), so `InStep` says of such a loop that
everything *but* the first part happens as it should. `Program` is the set of functions
that may be compiled. `Bodies` and `ClosedBodies`
are there for the proofs: `ProgramAssumption` says that every block of a program is
well formed (`WellFormed`: an if has its block, a default block is the last part of
its switch, as `generate_switch` treats it wherever it was written) and that the
breaks and continues of a program not in `Stray` are inside of loops. TLC evaluates
it for the programs of the run. A break or continue as the step of a for (`for ...
do break {...}`, which the parser takes) is left out.

### Lexer

A character is a string of length one. A step is one call of `get_next_token()`;
the rules are tried in the code's order, so a rule that is tried later says what
the earlier ones did not take. `text.written` are the tokens the author of the
text meant; `ReadsAsWritten` compares. What the code reads differently from what
anyone would write is left out of the texts and stands as a note at its hazard:
numbers followed by a sign (`7-1`), signs behind `[`, `&&`, `!`.

### LexicalScope, Linter and VariableSlots

A program is its tree in the order in which the passes walk it. `Meaning` says
which declaration a name means, from the text alone. `TreeAssumption` is what the
parser guarantees: constructs are closed in turn, a switch has cases only, and the
variadic parameter is the last, and `ExpressionAssumption` that the nodes of an
expression are a sequence. `Linter` is `lint_block()`,
one action per case, with `scope_stack`; types are compared with three integer
types for eight. What `analyze()` does not look at is modelled as that: arrays and
structures outside of functions (`aggregate`) declare nothing, a first part of a `for`
that is no declaration is passed over, and of its step only the name is looked up.
`VariableSlots` takes an accepted program on: `generate_block`
remembers the types of variables by name and forgets those of a block at its end;
the code generator gives each name of a function one slot, at the first store to
it. The counter of a `for` gets its first value only if it is an integer, a bool or a
string has no slot when the condition loads it. `memory` holds, for each slot, the declaration stored through last, so that
`ReadsItsOwn` can say that a load finds what its declaration stored.

### ParserStack, Expressions, Generics and Parser

The recursive descent is a stack machine: a frame for each C++ function that
has been entered, with the node it builds and what it has left to do; an
exception drops all frames down to `parse()` and `synchronize()` moves the cursor.
`recursion_depth` counts the frames of `parse_keyword()`. A file is a sequence of
tokens that comes with the tree it stands for, if it is a program, or else
with the trees of the functions around the mistake. Not modelled: `$` and `@`,
modules and imports, qualified names.

A template is kept as its tokens. `TypeList` reads the type arguments of a use,
`Substituted` puts them in the place of the parameters, and `Instantiate` puts
the result in the place of `stream`, `pos` and `generic_types`; `Restore` is the frame
of the instantiating function when the copy has been parsed. An exception drops
this frame like all others, so that the parser stays in the copy: `InCopy`.
The trees that come with a file have each instance once, in front of the
declaration that first uses it. The names of instances are built as
`mangle_type_token_sequence()` builds them, as they decide which instances are the
same (`S<S<i64>>` and `S<S, i64>` are).

## Runs

| Run | Question | Bounds |
|---|---|---|
| `register_pool_gp` | the pool's invariants and its refinement of `ValueStack` | 3 registers, 4 operands, 4 frame units, 2 values |
| `call_gp` | compiled code is the stack machine; arguments, machine stack | 3 pool and 2 argument registers, 2 variables, 7 opcodes, calls with 0, 2, 3, 4 arguments |
| `call_simd` | **violation**: the second floating point parameter of a compiled function is the first | the real 16 registers, 7 opcodes, at most 3 arguments |
| `call_align` | **violation**: `rsp` is misaligned at a call | 4 opcodes |
| `jit_cache` | the cache is transparent, through edits, kills, recursion and a second compiler | 3 functions of 2 texts, one of them with 2 signatures, 2 struct layouts, 3 runs, 1 intrusion |
| `jit_recursive` | **violation**: mutual recursion from the cache is an error | 3 runs |
| `conditions` | the postfix form means the condition; chains decide, and rightly, in ifs and in loops | up to 3 comparisons, all shapes, chains of `&&` and of `\|\|` in loops |
| `conditions_mixed` | **violation**: `a && b \|\| c` | one condition |
| `control_flow` | the code does what the function does; frames, jumps, strays | 665 functions: each loop around each if and switch, two nested loops |
| `lexer` | tokens as written, lines, termination | every pair of some 50 pieces, triples around operators, delimiters and blanks; texts that break off |
| `names` | scopes, soundness and completeness of the linter, types and slots | programs of up to 6 statements, two names, two functions, loops that count in integers, bools and nothing, arrays and structures outside of functions |
| `parser` | trees, acceptance, locality of damage, termination | 5283 files: every construct in every other, templates, every loss or doubling of a token, every cut |

Why the bounds are enough. Three registers and four operands are one spill with
operands left in registers, a second spill, and the reload of either;
`MaxFrame` lets four slots be used. The GP instance of `CallSequence` has two
argument registers so that arguments go to the machine stack with few
operands, and both callee-saved and caller-saved registers in the pool. Seven
opcodes put a value in a variable and then make a call while operands are
spilled. Frame cells are eight bytes: alignment is parity.
In `JitCache` three runs are: fill the cache, use part of it after an edit, use
what that run wrote. With a fourth function nothing new can be on the
cycle: a cycle of two already has a function being patched, one being compiled
and a bystander. One intrusion falls between any two steps, before or after
the file it hits is read; a second one would change another file, of which the
first compiler knows nothing either. Three comparisons are the fewest in which
`&&` and `||` can nest either way. In `ControlFlow` break and continue labels
are passed down through two loops and the ifs and switches between them; a third
loop repeats the second. The rules of the lexer look at one character past a
token and at one token in front of a sign: pairs and triples of pieces are what
they can tell apart. Scopes go wrong between a block, the one around it and the one
after it, with two names: five or six statements. The parser's files have one
mistake each, with a whole function in front and one behind; `MaxDepth` is 8
instead of 256, which some of the files exceed.

What the properties leave out. A property that the code breaks in a known way
says so by name in its antecedent, and its comment says what happens there:
`Trusted` (`JitCache`: the code installed is whole, and compiled for the present structs
and the present signatures of its callees) and `MutualRecursion`, `chain` (`Conditions`: one kind of
operator, and negation only of an operand that another follows, of `==` and
`!=`, or twice in a row; `!(a > b)` is lowered to the jumps of `a >= b`, and
`!(!(a != b))` is negated once), `Rewinds` (`Conditions`: in a `while` or a `for`, a
comparison of a `||` chain that is true and is followed by another jumps back to the
condition, so that the loop never enters its block and never ends), `RunDropped`
(`ControlFlow`, above), `Stray` (`ControlFlow`), `Shared` (`Linter`: a constant
makes constants of all variables of its name; of two functions of one name
the linter checks calls against the last and the code generator calls the first),
`Unheeded` (`Linter`: every use of an array or a structure outside of functions is
refused as undeclared), the step of a `for` (`Faulty`: it may assign to a constant, or to
the name of a function), `CounterLost` (`VariableSlots`: a counter that is no integer),
`Shadows`, `Retyped`, `Overwritten` and
`EveryUseAssigned` (`VariableSlots`: a name has one slot, of one type, in a function;
the values of all globals are stored behind the parameters, also over a parameter
that has the name of a global; what is read before it is stored to makes
`generate_code` give the function up), `ForInBeforeWhen`, `CaseWithoutColon`,
`ComparedToParenthesis` (`a < b && c > (d)` is taken for the call of an instance),
`RunsOn`, `ListRunsOn`, `InCopy`, `EndlessElement` and `EndlessParameters` (`Parser`
and `Generics`). What contradicts a comment or a test of the repository, and shows on a
small instance, is one of the four violation runs.

`call_simd` needs two arguments and a callee compiled by `generate_code`. That is not all
that is wrong there: with `Compiled = {FALSE}`, that is, with external callees only,
TLC still finds `ParametersReceived` violated, by a caller with three arguments of which
the first is the result of an earlier call. After that call the pool hands out
`xmm3`, `xmm2`, `xmm1`, so that the move of the second argument to `xmm1` overwrites the
third. Saving and restoring `xmm0` around a call, which overwrites the result, lies
behind these cases. Nothing is claimed about calls with floating point arguments.

Fairness. `JitCache` assumes weak fairness of the compiler's own step; the lexer,
the parser, `Conditions` and `ControlFlow` of the next step there is: one thread
that is not blocked by anything runs on, and so does a processor. Edits, starts,
crashes and the second compiler are not fair. `RegisterPool`, `CallSequence` and
the passes over names have safety properties only.

Deadlock is checked in the `JitCache` runs: a compiler that hangs in the middle
of a compilation would show. The other instances stop by design, after an
exception, after `MaxOps` opcodes, or at the end of the condition, function or
file.

## What is proved

The proofs are in eight modules, with `SequenceFacts` among them; they hold for all
values of the constants that satisfy the named assumptions of the modules they are about. TLC evaluates those
assumptions on the instances of the runs, and checks the same properties there.

**The register pool** (`RegisterPoolProofs`), under
`PoolAssumption`: registers without repetition, any slot size above zero, any values
and bounds.

* `PoolInvariant`: the inductive invariant `IInv` consists of `TypeOK`, `Ownership`,
  `NothingLost` and an invariant of the stack: spilled entries form a prefix, with
  slots in ascending order, in the frame, at or below `total_stack_size`. None of the
  properties is inductive alone: that `pop()` of a spilled entry may take the
  register of another needs the one owner of every register; that the slots stay
  apart needs the order of the prefix.
* `TypeCorrect`, `RegisterOwnership`, `NoRegisterLost`, `SpillOrder`, `SlotsDisjoint`
  and `ThrowMeansExhausted` follow from it.
* `PoolImplementsValueStack`: every step of the pool is a step of `ValueStack` or a
  stutter. The central lemma is that `alloc()` leaves the value of every entry and of
  every held register as it was, because the slot it writes lies beyond all slots in
  use and the register it takes belongs to the spilled entry alone.

**Opcode handlers and calls** (`CallSequenceProofs`, `CallSequenceRefinement`), under
`CallAssumption` and `CalleeTyped` (a called function returns a value).

* `CallInvariant`: `CInv` adds to `IInv` what each phase of a handler holds and what
  lies on the machine stack: the saved registers, the padding, the arguments pushed so
  far. The pool's lemmas are used for every pool call a handler makes.
  `CallTypeCorrect`, `CallsBalance` and `CallsKeepThePool` follow.
* `ValuesInvariant`, also under `GpConvention` (the argument registers and the result
  register are none of the pool's, and a `pop()` of the empty stack emits a zero):
  `VInv` adds where the operands, arguments, saved registers and variables of the
  running opcode are, in every phase. In a call the popped arguments are the topmost
  operands in reverse order, wherever they were spilled to, and moving one to its
  register or to the stack leaves the others alone; a saved register's operand is
  in the last cell pushed for it, which is why a register listed twice in
  `caller_saved` does no harm.
* `ArgumentsReceived` and `CallsImplementStackMachine` follow: the callee finds its
  parameters, and each opcode has exactly its effect on operands and variables when
  its handler is done. The SIMD pool is not covered, and cannot be: it contains
  the argument registers, and moves overwrite each other (`call_simd`).

**Compile driver and cache** (`JitCacheProofs`), under `JitAssumption`: any number of
functions, texts, runs, edits, crashes and intrusions of the second compiler.

* The invariant `JInv`: a cache file, wherever it is held, was written in one run, and
  its map and code speak of addresses of that run; while a run compiles, a
  function that has been met is on the stack or installed, and no installed code and
  no frame calls an address of another run, apart from what the frame has left
  pending. Code also has a signature for exactly the functions it calls.
  `JitTypeCorrect`, `CacheIsRelocatable` and `CacheIsTransparent` follow: the last says
  that incomplete code, other structs and other types of a callee are all that can
  make a cached program differ from the present one.
* `CompilesWithoutMutual`: if the functions can be ranked so that each calls only
  itself and functions ranked below it, the activations on the stack descend, so a
  call never meets a function that is being compiled further out, and none is left
  unresolved.

**Labels, jumps and frame** (`ControlFlowProofs`), under `ControlFlowAssumption` and
`ProgramAssumption`: any set of programs, any nesting of any depth.

* `LabelInvariant`: the entries of the worklist are promises. `Places(e)` is the set of
  labels the call `e` will place, `Uses(e)` those it may jump to that it was given.
  Each handler keeps its promises: what it emits and the calls it makes place the
  labels its call had promised and those it has just created, each once, and use
  only these and what its call might use. A label is therefore placed once, and
  what is jumped to is placed or promised, unless there is a break or continue
  outside of every loop. `NoLabelMissing` and the action property `LabelsNeverMove`
  (no address in `label_map` is overwritten) follow.
* `LayoutInvariant`: instructions tile the code, labels are on boundaries between
  them, the room left for a jump is what `JumpLength` says, and a patched jump
  counts from its end to a label. `CFTypeCorrect` and `FrameIsLargeEnough` follow, and
  `EveryJumpLands`: as long as the code has no more than 2^31 - 1 bytes (`Fits`), each
  jump of the running code leads to the place of its label through the four bytes
  `backpatch_jump` wrote, forward or backward (`BytesFacts`), and the processor never
  leaves the boundaries.

**Linter** (`LinterProofs`), under `TreeAssumption`: any set of programs, blocks nested
to any depth.

* `DepthStep`, `OpenerOf` and `CloseFacts` say how the flat sequence of statements is
  a tree: an `end` closes the innermost construct that is open, and what is open at a
  statement is ordered by where it began. A scope is known by its rank, twice the
  place of its construct, and one more for its block.
* `ScopesInv`: while the program is accepted, `scope_stack` has the scopes of the
  constructs that are open, in the order of their ranks, and each has the
  declarations met in it so far, each name once. `ResolvesLexically` alone is not
  inductive: a scope that is popped must uncover the one around it as it was, and a
  `for` or a function must open exactly the scopes its `end` pops. That the
  highest scope with a name has the latest visible declaration of it follows because
  a block inside another begins later (`InnerIsLater`). `NamesResolveLexically` follows.
* `SoundInv` adds that the functions known have the signatures of their last
  definitions, that the names of all constants so far are in `const_variables`, and
  that every statement behind the walk has none of the faults. What a statement sees
  when it is walked is what is visible at it in the whole text (`SeenIsVisible`), so
  nothing that follows can make it unsound. `AcceptedProgramsAreSound` follows; it says
  nothing of the step of a `for`, whose name the linter only looks up.
* `RefusedInv` is for the converse: as long as the walk has found nothing but
  warnings, or something is wrong with types, or the program has a fault or a shared
  name, the rest of the walk keeps it so. A missing name is a fault because
  the scope stack is the lexical one, a wrong number of arguments because the
  functions known are all there are, a write to a constant because each name in
  `const_variables` is that of a constant. `RefusedOnlyForCause` follows, for programs
  without arrays and structures outside of functions.

**Names behind the linter** (`VariableSlotsProofs`, which extends `LinterProofs`), under
`TreeAssumption` and `ExpressionAssumption`. The parser builds the syntax tree by
appending children to vectors, closes what it opens, and takes cases only between
the braces of a switch: this is all the two assumptions say.

* `LowerInv`: for each open construct but a switch there is a set of names on
  `vars_before`, in the order of the constructs, that holds the names of the locals that
  hold behind the head of the construct; and `variable_types` has the types of the
  locals that hold now, and otherwise only names without a type. `TypesAgree` alone
  is not inductive: what `Cleanup` keeps at the end of a block is right only if the
  copy taken at its beginning was, and if the blocks in between have ended.
  `LoweredTypesAgree` follows.
* `CodeInv` says what the code does before anything is made of it. A *run* is a map
  from names to the declaration last stored through and to the type the name
  has in the frame; each instruction leads from one run to the next (`Effect`), and a
  load has no next run unless it finds what its name means. `CodeInv`: the code
  so far is such a chain, and at its end every variable that may be used has its own
  value (`Carries`). There is one lemma for each kind of statement; that of the `for` puts
  the step behind the block, where the declarations of the block are gone, and that
  of a function starts from its parameters and the globals (`Given`).
* `ReadInv`: the slots of the frame mirror the run in front of `ir` (`Mirrors`): each name
  has a slot of its own, inside the frame, that holds the declaration the run
  has. So a store through one name never reaches the value of another, no function is
  given up, and `LoadsReadTheirOwn` follows, for programs whose loops count in integers.

`SequenceFacts` has the lemmas all of these share, about stacks and about least
elements of sets of numbers, from which the inductions they need are drawn.

Only model-checked:

* liveness (`Terminates` of the compile driver, `Decides` of conditions, `Progress` of the
  compiled code, `Analyzed` of the lexer, `Ends` of the parser): fairness and `ENABLED` are beyond the prover;
* that the code does what the function does (`InStep`, `NeverRunsOff`): the proof would
  need a simulation between the rest of a nested program and a place in the code,
  by induction over the program;
* what the recursive walks compute for every input: `PostfixMeansCondition`,
  `BranchesRight`, `ReadsAsWritten`, `Reproduces`, `AcceptedIsWhole`, `DamageIsLocal`
  compare the result of a walk with a tree or text that is defined by recursion;
* `LineRight` of the lexer: it holds of texts without a CR and without line ends in strings,
  and where a string begins is only known by following the lexer through the text.

## Where code and documents differ

`PROJECT.json` lists four findings, each with a run that shows it: alignment at
calls, floating point parameters, mutual recursion from the cache, and conditions that
mix `&&` and `||`.
Others were met on the way and are in the hazards: the comment at
`x86_64_codegen.hpp:295` wants `xmm0` handed out late, but it is the next
register after any call that frees it last; a condition passed as an argument
(`id(a == 1 && b == 2)`) passes the register of the path not taken; a case without
its colon loses its body; a caller cached before the types of its callee were edited
is used again, as are callers cached before a structure was; `while a || b` tests for ever
when `a` is true; `for i = 0 when ...` (a form of `tests/test_logical_loops.occ:11`) does not
assign `i`, and a bool or string counter makes the function be given up; a variable of
an array or structure type outside of functions cannot be used; the step of a `for` may
assign to a constant; a variable declared again in an inner block overwrites
the outer one. Writing the proofs showed more of these, on programs the first bounds
did not contain: a global overwrites a parameter of its name; a global without a value
has no slot in functions that do not assign it; two functions of one name are
checked as the last and called as the first; CR LF counts as two lines.

## Plan

1. Done: `ValueStack`, `RegisterPool`, its proofs and refinement; `StackMachine`,
   `CallSequence`; `JitCache` with a second compiler; `Conditions`; `ControlFlow`;
   `Lexer`; `Linter` and `VariableSlots`; `Parser` with recovery and templates.
2. Proofs. Done: the pool and its refinement; `CallSequence` and its refinement;
   `JitCache`; labels, layout and frame of `ControlFlow`; scopes of the linter,
   what it accepts and refuses; types and slots of variables. Next: `LineRight` of
   `Lexer`.
3. Opcode handlers beyond straight-line arithmetic: joins of paths
   (`op_push_single`, conditions as values), memory, struct and array opcodes; the
   look-ahead of `should_push_return` against the opcode sequences the IR
   generator emits.
4. Modules and imports in the parser: the parsers they nest, the prefix they set
   and restore. Struct layouts as a fixpoint; the linker's relocation scan.

## Not modelled

Instruction encodings and the PE writer (tables, no states to explore), the
inline assembler's own two passes, struct layouts, the ELF linker, the VM (nothing
calls it), modules, imports and includes (further files, each with a parser of
its own, whose errors are printed but do not make the including file fail), struct
templates that contain ever larger instances of themselves (the recursion has no
guard, and ends with the C++ stack), xxhash (third-party), option parsing, and text output.
