------------------------------ MODULE Conditions ------------------------------
(***************************************************************************)
(* From the tokens of a condition to the jumps that decide it: the         *)
(* shunting yard of the parser turns the infix condition into the children *)
(* of the statement's node, generate_condition of the IR generator turns   *)
(* these into one conditional jump per comparison, and the jumps run.      *)
(*                                                                         *)
(* A comparison with its operands is one token: its operator is popped     *)
(* from the operator stack as soon as anything follows it.  The operands   *)
(* matter by how they compare, and is_float_cmp only selects the jumps     *)
(* that read the same from the flags of a floating point comparison.       *)
(***************************************************************************)
EXTENDS Naturals, SequencesExt

CONSTANTS
  Condition,  \* conditions: [tokens, holds: the environments where it is true,
              \* loop: of a while or for rather than an if or a value,
              \* chain: of one logical operator, as the IR generator expects]
  Env         \* [comparison -> "lt", "eq" or "gt"]

Relations == {"==", "!=", ">", "<", ">=", "<="}

Orders == {"lt", "eq", "gt"}

\* How the operands of a comparison compare when it is true.
Means(op) ==
  CASE op = "==" -> {"eq"}
    [] op = "!=" -> {"lt", "gt"}
    [] op = ">"  -> {"gt"}
    [] op = "<"  -> {"lt"}
    [] op = ">=" -> {"gt", "eq"}
    [] op = "<=" -> {"lt", "eq"}

Compare(op, id) == [kind |-> "compare", op |-> op, id |-> id]
Mark(kind) == [kind |-> kind, op |-> "", id |-> 0]

VARIABLES
  env, loop,         \* how the operands compare, and the kind of statement
  chain,             \* whether the condition is a chain
  meaning,           \* whether the condition is true in env
  phase,             \* "parse", "close" (after a right paren), "run", "done"
  input,             \* tokens not read yet
  operator_stack,
  children,          \* expr_cst: the children of the statement's node
  code,              \* jumps: comparison, orders on which it jumps, label
  pc,
  outcome            \* whether the block is entered

condVars == <<env, loop, chain, meaning, phase, input, operator_stack, children, code, pc, outcome>>

CondInit ==
  /\ env \in Env
  /\ \E cond \in Condition :
       /\ input = cond.tokens /\ meaning = (env \in cond.holds)
       /\ loop = cond.loop /\ chain = cond.chain
  /\ phase = "parse"
  /\ operator_stack = <<>> /\ children = <<>> /\ code = <<>>
  /\ pc = 1 /\ outcome = FALSE

-------------------------------------------------------------------------------
(* parse_expression() and shunting_yard(), one token or one pop at a time. *)

Parsing(kinds) == phase = "parse" /\ input # <<>> /\ Head(input).kind \in kinds
Given == UNCHANGED <<env, loop, chain, meaning, code, pc, outcome>>

OperatorTop == Last(operator_stack)

\* Mutant: the two logical operators have the same precedence.
PrecedenceFlat(op) == CASE op = "not" -> 2 [] op = "and" -> 13 [] op = "or" -> 13

\* precedence_map; a lower number binds tighter.
Precedence(op) == CASE op = "not" -> 2 [] op = "and" -> 13 [] op = "or" -> 14

Operand ==
  /\ Parsing({"compare"})
  /\ children' = Append(children, Head(input))
  /\ input' = Tail(input)
  /\ Given /\ UNCHANGED <<phase, operator_stack>>

UnaryNot ==
  /\ Parsing({"not"})
  /\ operator_stack' = Append(operator_stack, "not")
  /\ input' = Tail(input)
  /\ Given /\ UNCHANGED <<phase, children>>

LeftParen ==
  /\ Parsing({"("})
  /\ operator_stack' = Append(operator_stack, "(")
  /\ children' = Append(children, Mark("expr_end"))
  /\ input' = Tail(input)
  /\ Given /\ UNCHANGED phase

\* The operator on top of the stack goes to the output: it binds at least as
\* tightly as the operator read, the parenthesis it is in is closed, or the
\* expression is over.
MustPop ==
  /\ phase = "parse" /\ operator_stack # <<>>
  /\ \/ Parsing({"and", "or"}) /\ OperatorTop # "("
        /\ Precedence(Head(input).kind) >= Precedence(OperatorTop)
     \/ Parsing({")"}) /\ OperatorTop # "("
     \/ input = <<>>

PopOperator ==
  /\ MustPop
  /\ children' = Append(children, Mark(OperatorTop))
  /\ operator_stack' = Front(operator_stack)
  /\ Given /\ UNCHANGED <<phase, input>>

BinaryOperator ==
  /\ Parsing({"and", "or"}) /\ ~MustPop
  /\ operator_stack' = Append(operator_stack, Head(input).kind)
  /\ input' = Tail(input)
  /\ Given /\ UNCHANGED <<phase, children>>

RightParen ==
  /\ Parsing({")"}) /\ operator_stack # <<>> /\ OperatorTop = "("
  /\ operator_stack' = Front(operator_stack)
  /\ input' = Tail(input)
  /\ phase' = "close"
  /\ Given /\ UNCHANGED children

\* Unary operators in front of the parenthesis apply to it.
PopUnary ==
  /\ phase = "close" /\ operator_stack # <<>> /\ OperatorTop = "not"
  /\ children' = Append(children, Mark("not"))
  /\ operator_stack' = Front(operator_stack)
  /\ Given /\ UNCHANGED <<phase, input>>

CloseParen ==
  /\ phase = "close" /\ ~(operator_stack # <<>> /\ OperatorTop = "not")
  /\ children' = Append(children, Mark("expr_start"))
  /\ phase' = "parse"
  /\ Given /\ UNCHANGED <<input, operator_stack>>

-------------------------------------------------------------------------------
(* generate_condition(). *)

Kind(i) == children[i].kind
Comparisons == SelectSeq([i \in DOMAIN children |-> i], LAMBDA i : Kind(i) = "compare")
LogicStack  == SelectSeq([i \in DOMAIN children |-> i], LAMBDA i : Kind(i) \in {"and", "or"})

\* The parentheses with a not whose marking reaches child i: it goes back to
\* the nearest expr_end.
NegatedParensOver(i) ==
  {s \in DOMAIN children :
     /\ Kind(s) = "expr_start" /\ i < s /\ Kind(s - 1) = "not"
     /\ \A j \in i..s : Kind(j) # "expr_end"}

NotCount(s) == Cardinality({j \in 1..s - 1 : \A k \in j..s - 1 : Kind(k) = "not"})

\* Mutant: every not counts, as if there were one.
DoNotUncounted(i) == NegatedParensOver(i) # {}

\* do_not, as the last of these leaves it.
DoNot(i) == NegatedParensOver(i) # {} /\ NotCount(Max(NegatedParensOver(i))) % 2 = 1

\* generate_or_jump() jumps when the comparison is true, generate_and_jump() and
\* generate_normal_jump() when it is not.
OrJump(op)  == Means(op)
AndJump(op) == Orders \ Means(op)
NormalJump(op) == AndJump(op)

\* generate_inverted_jump()
InvertedJump(op) ==
  CASE op = "==" -> {"eq"}
    [] op = "!=" -> {"lt", "gt"}
    [] op = ">"  -> {"lt"}
    [] op = "<"  -> {"gt"}
    [] op = ">=" -> {"lt", "eq"}
    [] op = "<=" -> {"gt", "eq"}

Jump(i, on, to) == [id |-> children[i].id, on |-> on, to |-> to]

\* The k-th comparison goes with the k-th logical operator of the postfix form;
\* the comparisons left over decide by falling through.
JumpOf(k) ==
  LET i == Comparisons[k] op == children[i].op IN
  IF k <= Len(LogicStack)
  THEN IF Kind(LogicStack[k]) = "or"
       THEN Jump(i, IF DoNot(i) THEN AndJump(op) ELSE OrJump(op), "true_label")
       ELSE Jump(i, IF DoNot(i) THEN OrJump(op) ELSE AndJump(op), "false_label")
  ELSE Jump(i, IF DoNot(i) THEN InvertedJump(op) ELSE NormalJump(op), "false_label")

GenerateCondition ==
  /\ phase = "parse" /\ input = <<>> /\ operator_stack = <<>>
  /\ code' = [k \in DOMAIN Comparisons |-> JumpOf(k)]
  /\ phase' = "run"
  /\ UNCHANGED <<env, loop, chain, meaning, input, operator_stack, children, pc, outcome>>

-------------------------------------------------------------------------------
(* The jumps run: generate_if puts true_label in front of the block, which   *)
(* generate_while and generate_for place in front of the condition.          *)

Taken == env[code[pc].id] \in code[pc].on

\* Mutant: a loop places its false label in front of its condition too.
JumpStepFalseLoops ==
  /\ phase = "run" /\ pc <= Len(code)
  /\ IF ~Taken
     THEN pc' = pc + 1 /\ UNCHANGED <<phase, outcome>>
     ELSE IF loop
          THEN pc' = 1 /\ UNCHANGED <<phase, outcome>>
          ELSE /\ outcome' = (code[pc].to = "true_label") /\ phase' = "done"
               /\ UNCHANGED pc
  /\ UNCHANGED <<env, loop, chain, meaning, input, operator_stack, children, code>>

JumpStep ==
  /\ phase = "run" /\ pc <= Len(code)
  /\ IF ~Taken
     THEN pc' = pc + 1 /\ UNCHANGED <<phase, outcome>>
     ELSE IF code[pc].to = "true_label" /\ loop
          THEN pc' = 1 /\ UNCHANGED <<phase, outcome>>
          ELSE /\ outcome' = (code[pc].to = "true_label") /\ phase' = "done"
               /\ UNCHANGED pc
  /\ UNCHANGED <<env, loop, chain, meaning, input, operator_stack, children, code>>

\* No jump was taken: the block follows.
FallThrough ==
  /\ phase = "run" /\ pc > Len(code)
  /\ outcome' = TRUE /\ phase' = "done"
  /\ UNCHANGED <<env, loop, chain, meaning, input, operator_stack, children, code, pc>>

CondNext ==
  \/ Operand \/ UnaryNot \/ LeftParen \/ PopOperator \/ BinaryOperator
  \/ RightParen \/ PopUnary \/ CloseParen
  \/ GenerateCondition \/ JumpStep \/ FallThrough

\* Compiler and compiled code run on until they are done.
CondSpec == CondInit /\ [][CondNext]_condVars /\ WF_condVars(CondNext)

-------------------------------------------------------------------------------
(* Correctness. *)

\* The value of a postfix sequence in env, with a stack.
Evaluate(stack, child) ==
  LET n == Len(stack) IN
  CASE child.kind = "compare" -> Append(stack, env[child.id] \in Means(child.op))
    [] child.kind = "not" -> [stack EXCEPT ![n] = ~@]
    [] child.kind = "and" -> Append(SubSeq(stack, 1, n - 2), stack[n - 1] /\ stack[n])
    [] child.kind = "or"  -> Append(SubSeq(stack, 1, n - 2), stack[n - 1] \/ stack[n])
    [] OTHER -> stack

\* The parser gives every condition its meaning: && binds tighter than ||, a
\* not applies to the parenthesis after it.
PostfixMeansCondition ==
  phase = "run" => FoldLeft(Evaluate, <<>>, children) = <<meaning>>

\* The block of a chain is entered exactly when the condition is true, if the chain
\* comes to a decision.
BranchesRight == phase = "done" /\ chain => outcome = meaning

\* In the condition of a loop, a comparison of a || chain that is true and has others
\* behind it jumps to the label in front of the condition, and so for ever:
\* while a == 1 || b == 1 {} never enters its block when a is 1.
Rewinds == loop /\ \E k \in DOMAIN code : code[k].to = "true_label" /\ env[code[k].id] \in code[k].on

\* A chain comes to a decision, unless it is one of a loop that rewinds: nothing
\* else makes the code jump in circles.
Decides == chain ~> phase = "done" \/ Rewinds
================================================================================
