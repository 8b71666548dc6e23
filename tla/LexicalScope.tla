----------------------------- MODULE LexicalScope -----------------------------
(***************************************************************************)
(* What a program's names mean: blocks nest, a name is the innermost       *)
(* declaration around it, and a declaration holds from where it stands to  *)
(* the end of its block.                                                   *)
(*                                                                         *)
(* A program is its syntax tree in the order the passes walk it: statement *)
(* after statement, a construct with blocks followed by their statements   *)
(* and an "end".  An expression is its nodes in the order lint_expr()      *)
(* visits them; `top' marks those that are not inside an argument.         *)
(***************************************************************************)
EXTENDS Integers, TLC, SequencesExt, FiniteSetsExt

CONSTANT Program   \* sequences of statements

VARIABLE program

Type(base)    == [base |-> base, stars |-> 0, array |-> FALSE]
Pointer(base) == [base |-> base, stars |-> 1, array |-> FALSE]
ArrayOf(base) == [base |-> base, stars |-> 0, array |-> TRUE]

Openers == {"function", "if", "elseif", "else", "while", "loop", "for", "forassign",
            "switch", "case", "default"}

Opens(i) == program[i].k \in Openers
Ends(i)  == program[i].k = "end"

\* How many constructs are open behind statement i of p.
Depth(p, i) ==
  Cardinality({j \in 1..i : p[j].k \in Openers}) - Cardinality({j \in 1..i : p[j].k = "end"})

\* Statement i of p stands in the block of o, and not in one inside of it.
DirectlyIn(p, o, i) ==
  o < i /\ Depth(p, i - 1) = Depth(p, o) /\ \A j \in o..i - 1 : Depth(p, j) >= Depth(p, o)

\* Programs are trees, as the parser builds them: what is opened is closed, a switch
\* consists of cases, what is variadic in a function comes last, and functions stand
\* in no block.  Outside of functions there are declarations only: of what else the
\* parser lets stand there no code is made.  An array or a variable of a structure is
\* an "aggregate" there, since analyze() passes it over.
ASSUME TreeAssumption ==
  \A p \in Program :
    /\ p \in Seq(Range(p)) /\ Depth(p, Len(p)) = 0
    /\ \A i \in DOMAIN p :
         /\ Depth(p, i) >= 0
         /\ \A o \in DOMAIN p : p[o].k = "switch" /\ DirectlyIn(p, o, i) =>
              p[i].k \in {"case", "default", "end"}
         /\ p[i].k \in {"function", "global", "aggregate"} => Depth(p, i - 1) = 0
         /\ Depth(p, i - 1) = 0 => p[i].k \in {"function", "global", "aggregate", "enum"}
         /\ p[i].k = "function" =>
              /\ p[i].params \in Seq(Range(p[i].params))
              /\ \A q \in DOMAIN p[i].params : p[i].params[q].name = "__varargs" => q = Len(p[i].params)

\* The expressions of a statement that belong to the statement itself.  A "forassign"
\* is a for that begins with an assignment to a variable there is, or with another
\* statement that declares no scalar: no pass looks at it, so it is not kept.
Expressions(s) ==
  CASE s.k \in {"declare", "struct", "array", "global"} -> {s.init}
    [] s.k \in {"assign", "expression", "if", "elseif", "while", "forassign", "switch", "case"} -> {s.expr}
    [] s.k = "for" -> {s.init, s.expr}
    [] OTHER -> {}

\* Expressions are sequences too.
ASSUME ExpressionAssumption ==
  \A p \in Program : \A i \in DOMAIN p :
    /\ \A expr \in Expressions(p[i]) : expr \in Seq(Range(expr))
    /\ p[i].k \in {"for", "forassign"} => p[i].step.expr \in Seq(Range(p[i].step.expr))

\* Where the construct at o ends.
Close(o) == Min({c \in o..Len(program) : Depth(program, c) < Depth(program, o)})

\* The construct whose block a statement is in, 0 at the top.
Around(i) == Max({0} \cup {o \in 1..i - 1 : Opens(o) /\ i < Close(o)})

\* Every declaration the linter looks at: where, in the head or the block of which
\* construct.
Declarations ==
  {[at |-> i, name |-> program[i].name, type |-> program[i].type, const |-> program[i].const,
    stored |-> program[i].init # <<>>, scope |-> <<Around(i), "block">>, place |-> 0] :
     i \in {j \in DOMAIN program : program[j].k \in {"global", "declare", "struct", "array"}}}
  \cup {[at |-> i, name |-> program[i].name, type |-> program[i].type, const |-> FALSE,
         stored |-> TRUE, scope |-> <<i, "head">>, place |-> 0] :
          i \in {j \in DOMAIN program : program[j].k = "for"}}
  \cup UNION {{[at |-> i, name |-> program[i].params[p].name, type |-> program[i].params[p].type,
                const |-> FALSE, stored |-> TRUE, scope |-> <<i, "head">>, place |-> p] :
                  p \in DOMAIN program[i].params} :
                i \in {j \in DOMAIN program : program[j].k = "function"}}

\* The declarations a name may mean at a statement, and the one it does mean.
Visible(i, x) ==
  {d \in Declarations : d.name = x /\ d.at <= i /\ (d.scope[1] = 0 \/ i <= Close(d.scope[1]))}

Meaning(i, x) == CHOOSE d \in Visible(i, x) : \A e \in Visible(i, x) : e.at <= d.at

Shadows ==
  \E d, e \in Declarations : d # e /\ d.name = e.name /\ d \in Visible(e.at, e.name)
===============================================================================
