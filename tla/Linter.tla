-------------------------------- MODULE Linter --------------------------------
(***************************************************************************)
(* The linter: analyze() registers the functions, then walks the tree with *)
(* a stack of scopes.  One action per case of lint_block(), a statement a  *)
(* step; what is found is in `errors', as [level, what, at].               *)
(***************************************************************************)
EXTENDS LexicalScope

VARIABLES
  at, pass,          \* the statement next, and "collect", "lint", "lower", "emit" or "done"
  scope_stack,       \* innermost last: name -> type
  known,             \* functions: name -> [min, variadic, result]
  known_enum_types,
  const_variables,
  errors

lintVars == <<program, at, pass, scope_stack, known, known_enum_types, const_variables, errors>>

Unknown == Type("")
Number  == Type("<number>")
Float   == Type("<float>")
Str     == Type("<str>")
Bool    == Type("bool")

IntTypes   == {Type(b) : b \in {"int8", "int64", "uint64"}}
FloatTypes == {Type(b) : b \in {"float32", "float64"}}
Comparisons == {"=="}

Here == program[at]

LintInit ==
  /\ program \in Program
  /\ at = 1 /\ pass = "collect"
  /\ scope_stack = <<>> /\ known = <<>> /\ known_enum_types = {}
  /\ const_variables = {} /\ errors = {}

-------------------------------------------------------------------------------
(* Scopes. *)

\* lookup_type() and is_declared(): the innermost scope that has the name.
Holding(scopes, x) == {s \in DOMAIN scopes : x \in DOMAIN scopes[s]}

\* Mutant: the outermost scope that has the name.
LookupOutermost(scopes, x) ==
  IF Holding(scopes, x) = {} THEN Unknown ELSE scopes[Min(Holding(scopes, x))][x]

Lookup(scopes, x) ==
  IF Holding(scopes, x) = {} THEN Unknown ELSE scopes[Max(Holding(scopes, x))][x]

PushScope(scopes) == Append(scopes, <<>>)

\* declare_var(): a name the scope has keeps its type.
Declare(scopes, x, type) ==
  IF x \in DOMAIN Last(scopes) THEN scopes
  ELSE [scopes EXCEPT ![Len(scopes)] = [y \in DOMAIN @ \cup {x} |-> IF y = x THEN type ELSE @[y]]]

Found(level, what) == [level |-> level, what |-> what, at |-> at]

\* Mutant: a name is declared once in all the scopes around.
RedeclaredAnywhere(scopes, x) == {Found("error", "redeclared") : s \in Holding(scopes, x)}

Redeclared(scopes, x) == {Found("error", "redeclared") : y \in {x} \cap DOMAIN Last(scopes)}

-------------------------------------------------------------------------------
(* Expressions. *)

IsPointer(t) == t.stars > 0

Enumerations == {Type(e) : e \in known_enum_types}

Fits(a, b) ==
  \/ Unknown = a \/ a = b
  \/ a = Number /\ b \in IntTypes \cup FloatTypes \cup {Bool}
  \/ a = Number /\ IsPointer(b)
  \/ a = Float /\ b \in FloatTypes
  \/ a = Str /\ b \in {Type("str")} \cup IntTypes
  \/ a \in {Bool, Type("str")} /\ b \in IntTypes
  \/ a \in Enumerations /\ b \in {Number} \cup IntTypes \cup Enumerations
  \/ a \in {Type("int64"), Type("uint64")} /\ IsPointer(b)
  \/ IsPointer(a) /\ IsPointer(b)
  \/ {a, b} \subseteq IntTypes

TypesCompatible(a, b) == Fits(a, b) \/ Fits(b, a)

Result(f) == IF f \in DOMAIN known THEN known[f].result ELSE Unknown

\* infer_type_rpn() keeps a stack of types and, beside it, whether each is a literal 0.
On(r, type, zero) == [r EXCEPT !.stk = Append(@, type), !.is_zero = Append(@, zero)]
Off(r, n) == [r EXCEPT !.stk = SubSeq(@, 1, Len(@) - n), !.is_zero = SubSeq(@, 1, Len(@) - n)]

Element(t) == IF t.array THEN [t EXCEPT !.array = FALSE] ELSE Unknown

\* The type of node j; a reference takes the node behind it along.
InferOperand(scopes, r, top, j) ==
  LET node == top[j]
      Referenced(other) ==
        LET t == Lookup(scopes, other.name)
        IN  IF other.n = "var" /\ t # Unknown THEN [t EXCEPT !.stars = @ + 1] ELSE Unknown
  IN CASE node.n = "reference" -> On(r, IF j < Len(top) THEN Referenced(top[j + 1]) ELSE Unknown, FALSE)
       [] node.n = "number" -> On(r, Number, node.name = "0")
       [] node.n = "float"  -> On(r, Float, node.name = "0.0")
       [] node.n = "string" -> On(r, Str, FALSE)
       [] node.n = "var"    -> On(r, Lookup(scopes, node.name), FALSE)
       [] node.n = "call"   -> On(r, Result(node.name), FALSE)
       [] node.n = "member" -> On(r, Unknown, FALSE)
       [] node.n = "index"  -> On(r, Element(Lookup(scopes, node.name)), FALSE)
       [] node.n = "cast"   -> On(r, node.type, FALSE)

Arithmetic(lhs, rhs) ==
  CASE Unknown \in {lhs, rhs} -> Unknown
    [] Unknown \notin {lhs, rhs} /\ lhs \in {Number, Float} -> rhs
    [] OTHER -> lhs

\* An operator with too few operands pushes its type all the same.
Operands(r) == IF Len(r.stk) >= 2 THEN 2 ELSE 0

InferOperator(r, n) ==
  LET rhs == Last(r.stk)
      lhs == r.stk[Len(r.stk) - 1]
  IN CASE n = "minus" -> r
       [] n = "not"   -> On(Off(r, 1), Bool, FALSE)
       [] n = "deref" -> On(Off(r, 1), IF r.stk = <<>> THEN Unknown
                                       ELSE [rhs EXCEPT !.stars = Max({@ - 1, 0})], FALSE)
       [] n \in {"&&", "=="} -> On(Off(r, Operands(r)), Bool, FALSE)
       [] n \in {"+", "/"} ->
            On(Off(r, Operands(r)), IF Operands(r) = 2 THEN Arithmetic(lhs, rhs) ELSE Unknown, FALSE)

\* What is wrong with the operands of a comparison or a division.
Complaint(r, n) ==
  CASE n = "==" /\ Operands(r) = 2 /\ ~TypesCompatible(r.stk[Len(r.stk) - 1], Last(r.stk)) ->
         {Found("error", "comparison")}
    [] n = "/" /\ Operands(r) = 2 /\ Last(r.is_zero) -> {Found("warning", "division by zero")}
    [] OTHER -> {}

Operators == {"minus", "not", "deref", "&&", "==", "+", "/"}

\* The stack behind each node; the one behind a reference has been taken along.
TakenAlong(top, j) == j > 1 /\ top[j - 1].n = "reference"

Stacks(scopes, top) ==
  LET r[j \in 0..Len(top)] ==
        IF j = 0 THEN [stk |-> <<>>, is_zero |-> <<>>]
        ELSE IF TakenAlong(top, j) THEN r[j - 1]
        ELSE IF top[j].n \in Operators THEN InferOperator(r[j - 1], top[j].n)
        ELSE InferOperand(scopes, r[j - 1], top, j)
  IN  r

Infer(scopes, expr) ==
  LET top == SelectSeq(expr, LAMBDA node : node.top)
      r == Stacks(scopes, top)
      result == r[Len(top)].stk
  IN  [type |-> IF result = <<>> THEN Unknown ELSE Last(result),
       found |-> UNION {IF TakenAlong(top, j) THEN {} ELSE Complaint(r[j - 1], top[j].n) : j \in DOMAIN top}]

\* Mutant: a call with too few arguments is let through.
ArityAtMost(node) ==
  LET f == known[node.name] IN
  IF f.variadic THEN FALSE ELSE node.given > f.min

\* A call with other than the declared number of arguments, or fewer than the fixed ones.
WrongArity(node) ==
  LET f == known[node.name] IN
  IF f.variadic THEN node.given < f.min ELSE node.given # f.min

\* lint_expr(): every name is declared, every function is there and is given its arguments.
LintExpr(scopes, expr) ==
  UNION {CASE expr[j].n = "var" /\ Holding(scopes, expr[j].name) = {} /\ expr[j].name \notin DOMAIN known ->
                {Found("error", "undeclared")}
           [] expr[j].n \in {"member", "index"} /\ Holding(scopes, expr[j].name) = {} ->
                {Found("error", "undeclared")}
           [] expr[j].n = "call" /\ expr[j].name \notin DOMAIN known -> {Found("error", "no such function")}
           [] expr[j].n = "call" /\ expr[j].name \in DOMAIN known /\ WrongArity(expr[j]) ->
                {Found("error", "arguments")}
           [] OTHER -> {} : j \in DOMAIN expr}

\* check_assignment_type() for what a declaration is given.
Initialised(scopes, s) ==
  IF s.init = <<>> THEN {}
  ELSE LET rhs == Infer(scopes, s.init) IN
       rhs.found \cup IF TypesCompatible(s.type, rhs.type) THEN {} ELSE {Found("error", "assignment")}

\* A condition: its types, and whether something is compared in it.
Condition(scopes, expr) ==
  Infer(scopes, expr).found
  \cup IF \E j \in DOMAIN expr : expr[j].top /\ expr[j].n \in Comparisons THEN {}
       ELSE {Found("warning", "bare condition")}

-------------------------------------------------------------------------------
(* The walk. *)

\* The functions of a name, and the parameters of one that are not variadic.
Functions(f) == {i \in DOMAIN program : program[i].k = "function" /\ program[i].name = f}
Fixed(i) == {p \in DOMAIN program[i].params : program[i].params[p].name # "__varargs"}

\* How the last of them is called; a builtin that has none takes one argument.
Signature(f) ==
  LET last == Max(Functions(f)) IN
  IF Functions(f) = {} THEN [min |-> 1, variadic |-> FALSE, result |-> Unknown]
  ELSE [min |-> Cardinality(Fixed(last)), variadic |-> Fixed(last) # DOMAIN program[last].params,
        result |-> program[last].type]

\* collect_functions(): builtins, functions and enumerations, wherever they stand.
CollectFunctions ==
  /\ pass = "collect"
  /\ known' = [f \in {"alloc"} \cup {program[i].name : i \in {j \in DOMAIN program : program[j].k = "function"}} |->
                 Signature(f)]
  /\ known_enum_types' = {program[i].name : i \in {j \in DOMAIN program : program[j].k = "enum"}}
  /\ scope_stack' = PushScope(scope_stack)
  /\ pass' = "lint"
  /\ UNCHANGED <<program, at, const_variables, errors>>

Lint(kinds) == pass = "lint" /\ at <= Len(program) /\ Here.k \in kinds

Go(scopes, found) ==
  /\ scope_stack' = scopes
  /\ errors' = errors \cup found
  /\ at' = at + 1
  /\ UNCHANGED <<program, pass, known, known_enum_types>>

NoConst == UNCHANGED const_variables

Uninitialised(s) == IF s.const /\ s.init = <<>> THEN {Found("error", "const without a value")} ELSE {}

\* Of what stands outside of functions, analyze() looks at these and at variables of
\* the basic types only: the name of an array or a structure there is not declared.
LintUnheeded == Lint({"enum", "aggregate"}) /\ Go(scope_stack, {}) /\ NoConst

\* The value of a global is not looked at.
LintGlobal ==
  /\ Lint({"global"})
  /\ Go(Declare(scope_stack, Here.name, Here.type),
        Redeclared(scope_stack, Here.name) \cup Uninitialised(Here))
  /\ const_variables' = const_variables \cup IF Here.const THEN {Here.name} ELSE {}

\* lint_function(): a scope for the parameters, and one for the block.
LintFunction ==
  LET params == Here.params
      Named(x) == {p \in DOMAIN params : params[p].name = x}
      scope == [x \in {params[p].name : p \in DOMAIN params} |-> params[Min(Named(x))].type]
  IN
  /\ Lint({"function"})
  /\ Go(PushScope(Append(scope_stack, scope)),
        {Found("error", "redeclared") : p \in {p \in DOMAIN params : p # Min(Named(params[p].name))}})
  /\ NoConst

\* A variable: declared first, so that its own value can name it.
LintDeclaration ==
  LET scopes == Declare(scope_stack, Here.name, Here.type) IN
  /\ Lint({"declare", "struct"})
  /\ Go(scopes, Redeclared(scope_stack, Here.name)
                \cup (IF Here.k = "declare" THEN Uninitialised(Here) ELSE {})
                \cup LintExpr(scopes, Here.init) \cup Initialised(scopes, Here))
  /\ const_variables' = const_variables \cup IF Here.const THEN {Here.name} ELSE {}

LintArray ==
  LET scopes == Declare(scope_stack, Here.name, Here.type) IN
  /\ Lint({"array"})
  /\ Go(scopes, Redeclared(scope_stack, Here.name) \cup LintExpr(scopes, Here.init))
  /\ NoConst

\* Constants are known by their names alone.
LintAssignment ==
  /\ Lint({"assign"})
  /\ Go(scope_stack,
        LintExpr(scope_stack, Here.expr)
        \cup CASE Holding(scope_stack, Here.name) = {} -> {Found("error", "undeclared")}
               [] Holding(scope_stack, Here.name) # {} /\ Here.name \in const_variables ->
                    {Found("error", "const assigned")}
               [] OTHER -> {})
  /\ NoConst

\* Calls, returns, and assignments through members, elements and pointers.
LintExpression ==
  Lint({"expression"}) /\ Go(scope_stack, LintExpr(scope_stack, Here.expr)) /\ NoConst

LintConditional ==
  /\ Lint({"if", "elseif", "while"})
  /\ Go(PushScope(scope_stack), Condition(scope_stack, Here.expr) \cup LintExpr(scope_stack, Here.expr))
  /\ NoConst

LintPlainBlock == Lint({"else", "loop", "default"}) /\ Go(PushScope(scope_stack), {}) /\ NoConst

\* Of the step, only the name that is assigned is looked at, and like the name of an
\* expression: it may be that of a function, or of a constant.
StepName(scopes) ==
  IF Holding(scopes, Here.step.name) = {} /\ Here.step.name \notin DOMAIN known
  THEN {Found("error", "undeclared")} ELSE {}

\* A for with a counter of its own.
LintFor ==
  LET scopes == Declare(PushScope(scope_stack), Here.name, Here.type) IN
  /\ Lint({"for"})
  /\ Go(PushScope(scopes),
        (IF Here.type \in FloatTypes THEN {Found("error", "float counter")} ELSE {})
        \cup Initialised(scopes, Here) \cup LintExpr(scopes, Here.init)
        \cup Condition(scopes, Here.expr) \cup LintExpr(scopes, Here.expr)
        \cup StepName(scopes))
  /\ NoConst

\* A for that begins with anything else: its first part is not looked at.
LintForAssign ==
  LET scopes == PushScope(scope_stack) IN
  /\ Lint({"forassign"})
  /\ Go(PushScope(scopes), Condition(scopes, Here.expr) \cup LintExpr(scopes, Here.expr) \cup StepName(scopes))
  /\ NoConst

LintSwitch == Lint({"switch"}) /\ Go(scope_stack, LintExpr(scope_stack, Here.expr)) /\ NoConst

LintCase ==
  Lint({"case"}) /\ Go(PushScope(scope_stack), LintExpr(scope_stack, Here.expr)) /\ NoConst

\* The construct an "end" closes.
Closed == CHOOSE o \in DOMAIN program : Opens(o) /\ Close(o) = at

\* The scopes a construct pushes.
ScopesOf(k) == CASE k \in {"for", "forassign", "function"} -> 2 [] k = "switch" -> 0 [] OTHER -> 1

LintEnd ==
  /\ Lint({"end"})
  /\ Go(SubSeq(scope_stack, 1, Len(scope_stack) - ScopesOf(program[Closed].k)), {})
  /\ NoConst

\* analyze() returns: an error, not a warning, stops the compiler.
Accepted == \A e \in errors : e.level # "error"

LintDone ==
  /\ pass = "lint" /\ at > Len(program)
  /\ scope_stack' = Front(scope_stack)
  /\ pass' = IF Accepted THEN "lower" ELSE "done"
  /\ at' = 1
  /\ UNCHANGED <<program, known, known_enum_types, const_variables, errors>>

LintNext ==
  \/ CollectFunctions
  \/ LintUnheeded \/ LintGlobal \/ LintFunction \/ LintDeclaration \/ LintArray
  \/ LintAssignment \/ LintExpression \/ LintConditional \/ LintPlainBlock
  \/ LintFor \/ LintForAssign \/ LintSwitch \/ LintCase \/ LintEnd \/ LintDone

-------------------------------------------------------------------------------
(* Correctness. *)

\* The scopes are the lexical ones: wherever the walk stands, a name is found
\* exactly when a declaration of it holds there, with the type of that one.
\* (An array or a structure outside of functions is no declaration to the linter.)
ResolvesLexically ==
  pass = "lint" /\ at <= Len(program) /\ Accepted =>
    \A x \in {d.name : d \in Declarations} :
      LET before == {d \in Visible(at, x) : d.at < at} IN
      /\ before = {} <=> Holding(scope_stack, x) = {}
      /\ before # {} => Lookup(scope_stack, x) = (CHOOSE d \in before : \A e \in before : e.at <= d.at).type

\* What is wrong with the names of a program.
Aggregate(x) == \E i \in DOMAIN program : program[i].k = "aggregate" /\ program[i].name = x
Undeclared(i, x) == Visible(i, x) = {} /\ ~Aggregate(x)
Unmet(node) ==
  /\ Functions(node.name) = {} => ~(node.name = "alloc" /\ node.given = 1)
  /\ \A i \in Functions(node.name) :
       LET params == program[i].params
           variadic == params # <<>> /\ Last(params).name = "__varargs"
       IN  IF variadic THEN node.given < Len(params) - 1 ELSE node.given # Len(params)

\* What the word const means something for: not for an array.
Constant(d) == d.const /\ program[d.at].k # "array"

\* Left out, since nothing looks at it: whether the step of a for assigns to a constant,
\* what it assigns, and what a for begins with that is no declaration.
Faulty ==
  \/ \E i \in DOMAIN program : \E expr \in Expressions(program[i]) :
       /\ program[i].k # "global"
       /\ \E j \in DOMAIN expr :
            \/ /\ expr[j].n = "var" /\ Undeclared(i, expr[j].name)
               /\ Functions(expr[j].name) = {} /\ expr[j].name # "alloc"
            \/ expr[j].n \in {"member", "index"} /\ Undeclared(i, expr[j].name)
            \/ expr[j].n = "call" /\ Unmet(expr[j])
  \/ \E i \in DOMAIN program : program[i].k = "assign" /\
       \/ Undeclared(i, program[i].name)
       \/ Visible(i, program[i].name) # {} /\ Constant(Meaning(i, program[i].name))
  \/ \E i \in DOMAIN program :
       /\ program[i].k \in {"for", "forassign"} /\ Undeclared(i, program[i].step.name)
       /\ Functions(program[i].step.name) = {} /\ program[i].step.name # "alloc"
  \/ \E d, e \in Declarations : d # e /\ d.name = e.name /\ d.scope = e.scope
  \/ \E d \in Declarations : Constant(d) /\ ~d.stored /\ program[d.at].k # "struct"

\* A program that is accepted has none of these faults: every name in it is
\* declared, once in its scope, calls fit, and no assignment that is a statement of
\* its own has a constant on its left (the step of a for may: it is not checked).
AcceptedIsSound == pass \in {"lower", "emit"} => ~Faulty

\* A program is refused only for its types or if there is a fault, unless a
\* constant shares its name with a variable, or two functions have one name (of
\* these the linter knows the last, and the code generator calls the first), or
\* there are arrays or structures outside of functions.
Shared ==
  \/ \E d, e \in Declarations : Constant(d) /\ ~Constant(e) /\ d.name = e.name
  \/ \E i, j \in DOMAIN program :
       i # j /\ program[i].k = "function" /\ program[j].k = "function" /\ program[i].name = program[j].name

\* An array or a structure outside of functions: every use of it is refused as
\* undeclared, though the parser takes the declaration (no pass behind it does).
Unheeded == \E i \in DOMAIN program : program[i].k = "aggregate"

RefusedForCause ==
  pass = "done" /\ ~Accepted /\ ~Faulty /\ ~Shared /\ ~Unheeded =>
    \E e \in errors : e.what \in {"comparison", "assignment", "float counter"}
===============================================================================
