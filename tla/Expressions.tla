------------------------------ MODULE Expressions ------------------------------
(***************************************************************************)
(* parse_expression(): the tokens of an expression become nodes in postfix *)
(* order, calls, array and member accesses and casts nodes of their own    *)
(* over the nodes of what they contain.  It stops at the first ; { or , it *)
(* sees, wherever it was told that the expression ends.                    *)
(*                                                                         *)
(* The nodes go into the frame that has the tokens to read; the tokens in  *)
(* the brackets of a call, an access or a cast are read by a call of its   *)
(* own.  Pointers and qualified names are left out.                        *)
(***************************************************************************)
EXTENDS ParserStack

\* Mutant: sums bind as products do.
PrecedenceFlat(t) ==
  CASE t \in Unary -> 2        [] t \in {"*", "+", "-"} -> 4
    [] t = ">>" -> 5
    [] t \in {"<", ">"} -> 8   [] t = "==" -> 9         [] t = "&&" -> 13
    [] t = "||" -> 14          [] t = "=" -> 15         [] OTHER -> 0

\* precedence_map; a token that is not in it gets 0 when it is looked up.
Precedence(t) ==
  CASE t \in Unary -> 2        [] t = "*" -> 3          [] t \in {"+", "-"} -> 4
    [] t = ">>" -> 5
    [] t \in {"<", ">"} -> 8   [] t = "==" -> 9         [] t = "&&" -> 13
    [] t = "||" -> 14          [] t = "=" -> 15         [] OTHER -> 0

\* The tokens of the operator stack that cst_map has a node for.
HasNode(t) == t \in Unary \cup Binary \cup {","}

\* Where the parts of s between the commas outside of these brackets end.
PartEnds(s, open, close) ==
  LET InBrackets(i) == Cardinality({j \in 1..i : s[j] = open}) # Cardinality({j \in 1..i : s[j] = close})
  IN  SetToSortSeq({i \in DOMAIN s : s[i] = "," /\ ~InBrackets(i)} \cup {Len(s) + 1}, <)

PartOf(s, ends, k) == SubSeq(s, (IF k = 1 THEN 0 ELSE ends[k - 1]) + 1, ends[k] - 1)
Parts(s, open, close) ==
  LET ends == PartEnds(s, open, close) IN [k \in DOMAIN ends |-> PartOf(s, ends, k)]

-------------------------------------------------------------------------------
(* The loop over the tokens. *)

Tokens == Now.rest
Stack  == Now.operator_stack

Is(i, t)   == i \in DOMAIN Tokens /\ Tokens[i] = t
IsName(i)  == i \in DOMAIN Tokens /\ Tokens[i] \in Name
From(i)    == SubSeq(Tokens, i, Len(Tokens))

Reading == Doing("tokens") /\ Tokens # <<>> /\ Tokens[1] \notin {";", "{", ","}

\* What is left of the expression behind the first i - 1 tokens.
RestFrom(i, stack) == <<[Now EXCEPT !.rest = From(i), !.operator_stack = stack]>>

\* How many operators the stack keeps when those of `which' leave its top.
Kept(stack, which) == Max({0} \cup {k \in DOMAIN stack : stack[k] \notin which})
Popped(stack, which) == Reverse(SubSeq(stack, Kept(stack, which) + 1, Len(stack)))
Keeps(stack, which)  == SubSeq(stack, 1, Kept(stack, which))
HaveNodes(ops) == \A k \in DOMAIN ops : HasNode(ops[k])

\* shunting_yard_stack_cleanup(): neither brackets nor anything else without a
\* node may be left on the stack.
EndOfExpression ==
  LET ops == Reverse(Stack) IN
  /\ Doing("tokens") /\ ~Reading
  /\ \/ ~HaveNodes(ops) /\ Error(pos)
     \/ /\ HaveNodes(ops)
        /\ calls' = <<[Top EXCEPT !.of = @ \o Leaves(ops), !.todo = Tail(@)]>> \o Tail(calls)
        /\ skipped' = (skipped \/ (Len(Tokens) > Now.closers /\ Tokens[1] # ","))
        /\ UNCHANGED <<source, stream, pos, root, parser_state, custom_type_map, generics>>

-------------------------------------------------------------------------------
(* shunting_yard(). *)

ReadLeaf ==
  /\ Reading /\ ~(IsName(1) /\ \E t \in {"(", "[", "."} : Is(2, t))
  /\ Tokens[1] \in Name \cup Literal
  /\ Goes(pos, <<Leaf(Tokens[1])>>, RestFrom(2, Stack))

ReadUnary ==
  /\ Reading /\ Tokens[1] \in Unary
  /\ Goes(pos, <<>>, RestFrom(2, Append(Stack, Tokens[1])))

ReadLeftParen ==
  /\ Reading /\ Tokens[1] = "("
  /\ Goes(pos, <<Leaf("expr_end")>>, RestFrom(2, Append(Stack, "(")))

\* The operators inside the parentheses, then the signs in front of them.
ReadRightParen ==
  LET inside == Token \ {"("}
      outside == Front(Keeps(Stack, inside))
      ops == Popped(Stack, inside) \o Popped(outside, Unary)
  IN
  /\ Reading /\ Tokens[1] = ")"
  /\ IF Keeps(Stack, inside) = <<>> \/ ~HaveNodes(ops) THEN Error(pos)
     ELSE Goes(pos, Leaves(ops) \o <<Leaf("expr_start")>>, RestFrom(2, Keeps(outside, Unary)))

\* The operators that give way to t; assignments group from the right.
Tighter(t) ==
  {op \in Token \ {"("} : IF t = "=" THEN Precedence(t) > Precedence(op)
                                     ELSE Precedence(t) >= Precedence(op)}

\* Any token without a case of its own is taken for a binary operator.
ReadOperator ==
  LET t == Tokens[1]
      ops == Popped(Stack, Tighter(t))
  IN
  /\ Reading /\ t \notin Name \cup Literal \cup Unary \cup Castable \cup {"(", ")"}
  /\ \/ ~HaveNodes(ops) /\ Error(pos)
     \/ HaveNodes(ops) /\ Goes(pos, Leaves(ops), RestFrom(2, Append(Keeps(Stack, Tighter(t)), t)))

-------------------------------------------------------------------------------
(* Operands with brackets. *)

\* A call whose arguments start at `from'; one that is left open ends with the
\* expression, and what is empty counts unless it is the last.
ReadArguments(from, of) ==
  LET close == Closing(Tokens, from, "(", ")")
      parts == Parts(SubSeq(Tokens, from, IF close = 0 THEN Len(Tokens) ELSE close - 1), "(", ")")
      given == IF Last(parts) = <<>> THEN Front(parts) ELSE parts
      closers == IF close = 0 THEN Now.closers ELSE 0
  IN  Enters(pos, Frame("call", of, [k \in DOMAIN given |->
                    [do |-> "passed", tokens |-> given[k], closers |-> closers]]),
             RestFrom(IF close = 0 THEN Len(Tokens) + 1 ELSE close + 1, Stack))

ReadCall ==
  Reading /\ IsName(1) /\ Is(2, "(") /\ ReadArguments(3, <<Leaf(Tokens[1])>>)

\* A method is a function with a dot in front of its name, and the object its first
\* argument.
IsMethod == IsName(1) /\ Is(2, ".") /\ IsName(3) /\ Is(4, "(")
ReadMethodCall ==
  /\ Reading /\ IsMethod
  /\ ReadArguments(5, <<Node(".", <<Leaf(Tokens[3])>>), Node("arg", <<Leaf(Tokens[1])>>)>>)

ReadArgument == Doing("passed") /\ Enters(pos, Frame("arg", <<>>, <<Expression(Now.tokens, Now.closers)>>), <<>>)

\* name[index][index]...: an access of what the one before it gives.
ReadAccess ==
  LET Outside(i) == Cardinality({j \in 2..i : Tokens[j] = "["}) = Cardinality({j \in 2..i : Tokens[j] = "]"})
      ends == {i \in 2..Len(Tokens) : Tokens[i] = "]" /\ Outside(i) /\ ~Is(i + 1, "[")}
      end == IF ends = {} THEN Len(Tokens) ELSE Min(ends)
      opens == SetToSortSeq({i \in 2..end : Tokens[i] = "[" /\ Outside(i - 1)}, <)
      Index(open) ==
        LET close == Closing(Tokens, open + 1, "[", "]") IN
        IF close = 0 THEN <<Do("unmatched")>>
        ELSE <<Expression(SubSeq(Tokens, open + 1, close - 1), 0)>>
      steps == [k \in DOMAIN opens |-> (IF k = 1 THEN <<>> ELSE <<Do("access")>>) \o Index(opens[k])]
  IN
  /\ Reading /\ IsName(1) /\ Is(2, "[")
  /\ Enters(pos, Frame("access", <<Leaf(Tokens[1])>>, FlattenSeq(steps)), RestFrom(end + 1, Stack))

AccessAgain == Doing("access") /\ Becomes(<<Node("access", Top.of)>>) /\ UNCHANGED custom_type_map

\* The message of the error would name the token behind the last.
UnmatchedBracket == Doing("unmatched") /\ InternalError(pos)

\* name.name.name, until something else follows.
ReadMember ==
  LET chain == {i \in DOMAIN Tokens : \A j \in 1..i :
                  IF j % 2 = 0 THEN Tokens[j] = "." ELSE Tokens[j] \in Name}
      last == Max(chain)
      names == SelectSeq(SubSeq(Tokens, 1, last), LAMBDA t : t # ".")
  IN
  /\ Reading /\ IsName(1) /\ Is(2, ".") /\ ~IsMethod
  /\ \/ Tokens[last] = "." /\ Error(pos)
     \/ Tokens[last] # "." /\ Goes(pos, <<Node("member", Leaves(names))>>, RestFrom(last + 1, Stack))

\* A type without a parenthesis is passed over.
ReadCast ==
  LET close == Closing(Tokens, 3, "(", ")") IN
  /\ Reading /\ Tokens[1] \in Castable
  /\ \/ ~Is(2, "(") /\ Goes(pos, <<>>, RestFrom(2, Stack))
     \/ Is(2, "(") /\ close = 0 /\ Error(pos)
     \/ /\ Is(2, "(") /\ close # 0
        /\ Enters(pos, Frame("cast", <<Leaf(Tokens[1])>>,
                             <<Expression(SubSeq(Tokens, 3, close - 1), 0), Do("cast")>>),
                  RestFrom(close + 1, Stack))

CastOf ==
  /\ Doing("cast")
  /\ \/ Len(Top.of) > 1 /\ Goes(pos, <<>>, <<>>)
     \/ Len(Top.of) = 1 /\ Error(pos)

ExpressionStep ==
  EndOfExpression \/ ReadLeaf \/ ReadUnary \/ ReadLeftParen \/ ReadRightParen \/ ReadOperator
  \/ ReadCall \/ ReadMethodCall \/ ReadArgument \/ ReadAccess \/ AccessAgain \/ UnmatchedBracket
  \/ ReadMember \/ ReadCast \/ CastOf
================================================================================
