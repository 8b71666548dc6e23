----------------------------- MODULE MCConditions -----------------------------
(***************************************************************************)
(* Conditions of up to three comparisons, each written with its tokens and *)
(* given the set of environments in which it is true.                      *)
(***************************************************************************)
EXTENDS Conditions

MCEnv == [1..3 -> Orders]

Atom(op, id) == [tokens |-> <<Compare(op, id)>>, holds |-> {e \in MCEnv : e[id] \in Means(op)},
                 loop |-> FALSE, chain |-> FALSE]

Paren(p)    == [p EXCEPT !.tokens = <<Mark("(")>> \o @ \o <<Mark(")")>>]
NotParen(p) == [p EXCEPT !.tokens = <<Mark("not")>> \o Paren(p).tokens, !.holds = MCEnv \ @]
NotNotParen(p) == [p EXCEPT !.tokens = <<Mark("not"), Mark("not")>> \o Paren(p).tokens]

And(p, q) == [p EXCEPT !.tokens = @ \o <<Mark("and")>> \o q.tokens, !.holds = @ \cap q.holds]
Or(p, q)  == [p EXCEPT !.tokens = @ \o <<Mark("or")>> \o q.tokens, !.holds = @ \cup q.holds]

InLoop(P) == {[p EXCEPT !.loop = TRUE] : p \in P}

Atoms(ops, id) == {Atom(op, id) : op \in ops}

\* An operand of a logical operator, bare, in parentheses or negated.
Operands(ops, id) ==
  LET a == Atoms(ops, id) IN a \cup {Paren(p) : p \in a} \cup {NotParen(p) : p \in a}

AllAnd(P, Q) == {And(p, q) : p \in P, q \in Q}
AllOr(P, Q)  == {Or(p, q) : p \in P, q \in Q}
Grouped(P)   == {Paren(p) : p \in P} \cup {NotParen(p) : p \in P}

\* Everything: && and || mixed, grouped and negated.
AllConditions ==
  LET a == Operands(Relations, 1)
      p(i) == Operands({">"}, i)
      two == AllAnd(p(1), p(2)) \cup AllOr(p(1), p(2))
  IN  a \cup Grouped(a) \cup Grouped(two)
      \cup AllAnd(Grouped(two), p(3)) \cup AllOr(Grouped(two), p(3))
      \cup AllOr(two, p(3))                             \* a && b || c
      \cup AllAnd(AllAnd(p(1), p(2)), p(3))
      \cup AllOr(p(1), AllAnd(p(2), p(3)))              \* a || b && c

\* One kind of operator, and negation only where it can be inverted: of a
\* comparison that another one follows, of an equality, or twice in a row.
Negatable(id) == Operands({"==", "!="}, id) \cup Atoms(Relations, id)
                 \cup {NotNotParen(p) : p \in Atoms(Relations, id)}
Inner(id) == Operands({"==", ">"}, id)
Outer(id) == Negatable(id)

AndChains ==
  LET two == AllAnd(Inner(1), Outer(2)) IN
  Negatable(1) \cup two \cup {Paren(p) : p \in two}
  \cup AllAnd(AllAnd(Operands({">"}, 1), Inner(2)), Outer(3))
  \cup {And(p, Paren(q)) : p \in Atoms({"=="}, 1), q \in AllAnd(Inner(2), Outer(3))}

OrChains ==
  LET two == AllOr(Inner(1), Outer(2)) IN
  two \cup {Paren(p) : p \in two} \cup AllOr(AllOr(Operands({">"}, 1), Inner(2)), Outer(3))

\* Either chain, in an if and in a loop.
Chains ==
  {[p EXCEPT !.chain = TRUE] : p \in AndChains \cup OrChains \cup InLoop(AndChains \cup OrChains)}

Checked == AllConditions \cup Chains

\* A condition as the tests of the repository have it.
MixedLogic == {[Or(And(Atom("!=", 1), Atom("!=", 2)), Atom("!=", 3)) EXCEPT !.chain = TRUE]}
================================================================================
