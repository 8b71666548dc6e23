--------------------------------- MODULE Parser ---------------------------------
(***************************************************************************)
(* The recursive descent over the tokens of a file, and what the parser    *)
(* does after an error: parse() throws away the declaration it was in,     *)
(* synchronize() skips to a place where the next may start, and what comes *)
(* after is parsed as if nothing had happened, except that the file is     *)
(* refused at the end.                                                     *)
(***************************************************************************)
EXTENDS Generics

\* The value of a declaration or a member, up to the semicolon.
ParseAssignment ==
  /\ Doing("assignment")
  /\ \/ Here # "=" /\ Goes(pos, <<>>, <<>>)
     \/ Here = "=" /\ peek(1) = ";" /\ Error(pos + 1)
     \/ Here = "=" /\ peek(1) # ";" /\ Enters(pos + 1, Frame("=", <<>>, <<Until(";")>>), <<>>)

\* The expression in the tokens from first to last, with the parser at p.
ExpressionIn(first, last, closers) == <<Expression(SubSeq(stream, first, last), closers)>>

-------------------------------------------------------------------------------
(* Types, blocks and functions. *)

ParseBlock ==
  /\ Doing("block")
  /\ \/ Here = "{" /\ Enters(pos + 1, Frame("block", <<>>, <<Do("statements")>>), <<>>)
     \/ Here # "{" /\ Error(pos)

ParseStatements ==
  /\ Doing("statements")
  /\ IF Here = "}" THEN Goes(pos + 1, <<>>, <<>>)
     ELSE Goes(pos, <<>>, <<Statement, Do("statements")>>)

FunctionArguments ==
  Doing("arguments") /\ Enters(pos, Frame("functionargs", <<>>, <<Do("argument")>>), <<>>)

\* After ... nothing but the parenthesis can follow; the arguments added for it
\* are one node here.
FunctionArgument ==
  /\ Doing("argument")
  /\ \/ Here = ")" /\ Goes(pos, <<>>, <<>>)
     \/ Here = "..." /\ Goes(pos + 1, <<Leaf("...")>>, <<>>)
     \/ Here \notin {")", "..."}
        /\ Goes(pos, <<>>, <<Do("datatype"), Do("argument_name"), Maybe(","), Do("argument")>>)

\* An argument without a name, or with nothing but stars, gets one.
ArgumentName ==
  LET arg == Last(Top.of)
      named == \E k \in DOMAIN arg.of : arg.of[k] # Leaf("*")
  IN
  /\ Doing("argument_name")
  /\ \/ arg = None /\ Error(pos)
     \/ arg # None /\ Replaces(IF named THEN arg ELSE [arg EXCEPT !.of = Append(@, Leaf("arg"))])

FunctionAttribute ==
  /\ Doing("attribute")
  /\ IF Here = Arg THEN Goes(pos + 1, <<Leaf(Here)>>, <<>>) ELSE Goes(pos, <<>>, <<>>)

\* A function without a type returns an i64.
ReturnType ==
  Doing("return_type") /\ Replaces(IF Last(Top.of) = None THEN Leaf("i64") ELSE Last(Top.of))

Uses(attribute) == \E k \in DOMAIN Top.of : Top.of[k] = Leaf(attribute)

FunctionBody ==
  /\ Doing("body")
  /\ Goes(pos, <<>>,
       CASE Uses("shellcode") -> <<Expect("{"), Do("bytes"), Expect("}")>>
         [] Uses("asm") /\ ~Uses("shellcode") ->
              <<Expect("{"), Expect("shellcode"), Expect("}")>>
         [] OTHER -> <<Do("block"), Do("implicit")>>)

ShellcodeByte ==
  /\ Doing("bytes")
  /\ \/ Here = "}" /\ Goes(pos, <<>>, <<>>)
     \/ Here \in Literal /\ Goes(pos + 1, <<Leaf(Here)>>, <<Do("bytes")>>)
     \/ Here \notin Literal \cup {"}"} /\ Error(pos)

return_0 == Node("return", <<Leaf("0")>>)

\* A body without a return of its own returns 0.
ImplicitReturn ==
  LET body == Last(Top.of)
      returns == \E k \in DOMAIN body.of : body.of[k].node = "return"
  IN  Doing("implicit") /\ Replaces(IF returns THEN body ELSE [body EXCEPT !.of = Append(@, return_0)])

-------------------------------------------------------------------------------
(* Declarations. *)

parse_integer_type ==
  KeywordFrame(Here, <<Take, Do("stars"), Do("name"), Do("assignment"), Expect(";")>>)
parse_string == KeywordFrame("string", <<Take, Do("name"), Do("assignment"), Expect(";")>>)
parse_custom_type == parse_integer_type
parse_generic_type ==
  KeywordFrame(Here, <<Take, Take, Do("list"), Do("stars"), Do("name"), Do("assignment"), Expect(";")>>)

\* A constant is the declaration behind the word, wrapped in a node here.
parse_const == KeywordFrame("const", <<Take, Statement>>)

\* The name is a type from here on, whatever becomes of the declaration.
RegisterType ==
  /\ Doing("register")
  /\ custom_type_map' = custom_type_map \cup {Last(Top.of).node}
  /\ calls' = <<[Top EXCEPT !.todo = Tail(@)]>> \o Tail(calls)
  /\ UNCHANGED <<source, stream, pos, root, parser_state, skipped, generics>>

\* A member without a type is a null pointer among the children.
StructMember ==
  /\ Doing("members")
  /\ IF Here = "}" THEN Goes(pos + 1, <<>>, <<>>)
     ELSE Goes(pos, <<>>, <<Do("datatype"), Expect(";"), Do("members")>>)

\* The values that are not given count up, and are left out.
parse_enum ==
  KeywordFrame("enum", <<Take, Do("name"), Expect("{"), Do("enumerators")>>)

Enumerator ==
  /\ Doing("enumerators")
  /\ \/ /\ Here = "}"
        /\ pos' = pos + 1
        /\ custom_type_map' = custom_type_map \cup {Head(Top.of).node}
        /\ calls' = <<[Top EXCEPT !.todo = Tail(@)]>> \o Tail(calls)
        /\ UNCHANGED <<source, stream, root, parser_state, skipped, generics>>
     \/ Here \in Name /\ peek(1) # "="
        /\ Goes(pos + 1, <<Leaf(Here)>>, <<Maybe(","), Do("enumerators")>>)
     \/ Here \in Name /\ peek(1) = "=" /\ peek(2) \in Literal
        /\ Goes(pos + 3, <<Leaf(Here), Leaf(peek(2))>>, <<Maybe(","), Do("enumerators")>>)
     \/ Here \in Name /\ peek(1) = "=" /\ peek(2) \notin Literal /\ Error(pos + 2)
     \/ Here \notin Name \cup {"}"} /\ Error(pos)

parse_array ==
  KeywordFrame("array", <<Take, Do("dimensions"), Do("element_type"), Do("initializer"), Expect(";")>>)

\* The token behind the number is taken for the bracket it should be.
ArrayDimension ==
  /\ Doing("dimensions")
  /\ \/ Here # "[" /\ Goes(pos, <<>>, <<>>)
     \/ Here = "[" /\ peek(1) \in Literal
        /\ Goes(pos + 3, <<Leaf(peek(1))>>, <<Do("dimensions")>>)
     \/ Here = "[" /\ peek(1) \notin Literal /\ Error(pos + 1)

ArrayType ==
  /\ Doing("element_type")
  /\ IF Here \in DataType THEN Goes(pos, <<>>, <<Do("datatype")>>) ELSE Error(pos)

ArrayBody == Frame("arraybody", <<>>, <<Take, Do("elements")>>)

ArrayInitializer ==
  /\ Doing("initializer")
  /\ \/ Here # "=" /\ Goes(pos, <<>>, <<>>)
     \/ Here = "=" /\ peek(1) = "{" /\ Enters(pos + 1, ArrayBody, <<>>)
     \/ Here = "=" /\ peek(1) # "{" /\ Error(pos + 1)

\* Where the element at pos ends: at a comma or a brace outside of its brackets.
ElementEnds ==
  LET Within(k, brackets) == Cardinality({j \in pos..k - 1 : stream[j] \in brackets}) IN
  {k \in DOMAIN stream :
     /\ k >= pos /\ stream[k] \in {",", "}"}
     /\ Within(k, {"(", "[", "{"}) = Within(k, {")", "]", "}"})}

\* Without an end the loop goes on reading behind the last token, and for ever.
EndlessElement == Doing("elements") /\ Here \notin {"{", "}"} /\ ElementEnds = {}

ArrayElement ==
  /\ Doing("elements")
  /\ LET more == <<Maybe(","), Do("elements")>> IN
     \/ Here = "}" /\ Goes(pos + 1, <<>>, <<>>)
     \/ Here = "{" /\ Enters(pos, ArrayBody, more)
     \/ Here = "," /\ Goes(pos, <<>>, more)
     \/ /\ Here \notin {"{", "}", ","} /\ ElementEnds # {}
        /\ Enters(Min(ElementEnds),
                  Frame("element", <<>>, ExpressionIn(pos, Min(ElementEnds) - 1, 0)), more)

-------------------------------------------------------------------------------
(* Statements. *)

parse_if     == KeywordFrame("if", <<Take, Until("{"), Do("block"), Do("alternatives")>>)
parse_elseif == Frame("elseif", <<>>, <<Take, Until("{"), Do("block")>>)
parse_else   == Frame("else", <<>>, <<Take, Do("block")>>)

Alternatives ==
  /\ Doing("alternatives")
  /\ \/ Here = "elseif" /\ Enters(pos, parse_elseif, <<Do("alternatives")>>)
     \/ Here = "else" /\ Enters(pos, parse_else, <<>>)
     \/ Here \notin {"elseif", "else"} /\ Goes(pos, <<>>, <<>>)

parse_loop     == KeywordFrame("loop", <<Take, Do("block")>>)
parse_while    == KeywordFrame("while", <<Take, Until("{"), Do("block")>>)
parse_break    == KeywordFrame("break", <<Take, Expect(";")>>)
parse_continue == KeywordFrame("continue", <<Take, Expect(";")>>)
parse_return   == KeywordFrame("return", <<Take, Until(";"), Expect(";")>>)

parse_for == KeywordFrame("for", <<Take, Do("for")>>)

parse_regular_for ==
  <<EndBefore("when"), Statement, Expect("when"),
    EndBefore("do"), Do("condition"), Expect("do"),
    EndBefore("{"), Do("step"), Do("block")>>
parse_for_in == <<EndBefore("in"), Statement, Expect("in"), Do("iterated"), Do("block")>>

\* Which for it is depends on a `when' anywhere in the rest of the file.
ForHeader ==
  /\ Doing("for")
  /\ Goes(pos, <<>>, IF First("when") # 0 THEN parse_regular_for ELSE parse_for_in)

\* Up to `do', behind the semicolon that is in front of it now; without a `do',
\* one token is the condition.
ForCondition ==
  LET do == First("do")
      tokens == IF do = 0 THEN ExpressionIn(pos, pos, 0) ELSE ExpressionIn(pos, do, 2)
  IN  Doing("condition") /\ Enters(IF do = 0 THEN pos ELSE do, Frame("forcondition", <<>>, tokens), <<>>)

ForStep == Doing("step") /\ Enters(pos, Frame("foriterexpr", <<>>, <<Statement>>), <<>>)

ForIterated ==
  /\ Doing("iterated")
  /\ IF Here \in Name /\ peek(1) # "(" THEN Goes(pos + 1, <<Leaf(Here)>>, <<>>)
     ELSE Goes(pos, <<>>, <<EndBefore("{"), Statement>>)

parse_switch ==
  KeywordFrame("switch", <<Take, Expect("("), Do("subject"), Expect("{"), Do("cases")>>)

SwitchSubject ==
  LET close == Closing(stream, pos, "(", ")") IN
  /\ Doing("subject")
  /\ \/ close # 0 /\ Goes(close + 1, <<>>, ExpressionIn(pos, close - 1, 0))
     \/ close = 0 /\ Error(Len(stream) + 1)

\* Up to the end of the file if there is no colon.
CaseLabel ==
  /\ Doing("label")
  /\ \/ First(":") # 0 /\ Goes(First(":") + 1, <<>>, ExpressionIn(pos, First(":") - 1, 0))
     \/ First(":") = 0 /\ Error(Len(stream))

CaseBody ==
  /\ Doing("case_body")
  /\ Goes(pos, <<>>, IF Here = "{" THEN <<Do("block")>> ELSE <<>>)

SwitchCase ==
  /\ Doing("cases")
  /\ \/ Here \in {"}", EOF} /\ Goes(pos, <<>>, <<Expect("}")>>)
     \/ Here = "case" /\ Enters(pos, Frame("case", <<>>, <<Take, Do("label"), Do("case_body")>>), <<Do("cases")>>)
     \/ Here = "default"
        /\ Enters(pos, Frame("default", <<>>, <<Take, Expect(":"), Do("block")>>), <<Do("cases")>>)
     \/ Here \notin {"}", EOF, "case", "default"} /\ Error(pos)

\* A name in front of a statement: what follows it decides.
parse_element == KeywordFrame("access", <<Do("identifier"), Do("index"), Do("assignment"), Expect(";")>>)
parse_member  == KeywordFrame("member", <<Do("identifier"), Do("member"), Do("member_value"), Expect(";")>>)
parse_assignment == KeywordFrame("assign", <<Do("identifier"), Do("value")>>)

\* name[index, index][index]...: each pair of brackets is an access of its own,
\* and the parser is behind an index when it is parsed.
ElementIndex ==
  LET close  == Closing(stream, pos + 1, "[", "]")
      inside == SubSeq(stream, pos + 1, close - 1)
      ends   == PartEnds(inside, "[", "]")
      part   == [k \in DOMAIN ends |-> <<[do |-> "at", place |-> pos + ends[k]], Expression(PartOf(inside, ends, k), 0)>>]
      again  == IF stream[close + 1] = "[" THEN <<Do("access"), Do("index")>> ELSE <<>>
  IN
  /\ Doing("index")
  /\ \/ close = 0 /\ Error(Len(stream))
     \/ close # 0 /\ Goes(pos, <<>>, FlattenSeq(part) \o <<Take>> \o again)

MoveTo == Doing("at") /\ Goes(Now.place, <<>>, <<>>)

MemberName ==
  /\ Doing("member")
  /\ \/ Here # "." /\ Goes(pos, <<>>, <<>>)
     \/ Here = "." /\ peek(1) \in Name
        /\ Goes(pos + 2, <<Leaf(peek(1))>>, <<Do("member")>>)
     \/ Here = "." /\ peek(1) \notin Name /\ Error(pos + 1)

OperatorOf(t) == IF t = "+=" THEN "+" ELSE "-"

\* member op= value is member = member value op.
MemberValue ==
  /\ Doing("member_value")
  /\ \/ Here \notin Compound /\ Goes(pos, <<>>, <<Do("assignment")>>)
     \/ Here \in Compound /\ peek(1) = ";" /\ Error(pos + 1)
     \/ /\ Here \in Compound /\ peek(1) # ";"
        /\ Enters(pos + 1, Frame("=", <<Node("member", Top.of)>>, <<Until(";"), Add(OperatorOf(Here))>>), <<>>)

\* name = value, name op= value, or a name that is a statement of its own.
AssignedValue ==
  /\ Doing("value")
  /\ \/ Here \in Compound \cup {"="} /\ peek(1) = ";" /\ Error(pos + 1)
     \/ Here = "=" /\ peek(1) # ";"
        /\ Goes(pos + 1, <<Leaf("=")>>, <<Until(";"), Expect(";")>>)
     \/ Here \in Compound /\ peek(1) # ";"
        /\ Goes(pos + 1, <<Head(Top.of), Leaf("=")>>, <<Until(";"), Expect(";"), Add(OperatorOf(Here))>>)
     \/ Here \notin Compound \cup {"="} /\ Goes(pos, <<>>, <<>>)

-------------------------------------------------------------------------------
(* parse_keyword(). *)

IsMethodCall == peek(1) = "." /\ peek(2) \in Name /\ peek(3) = "("

\* name < ... > (, however the brackets match; it is not seen behind >>.
IsInstanceCall ==
  /\ peek(1) = "<" /\ ~IsApplied
  /\ \E k \in pos + 2..Len(stream) - 1 :
       stream[k] = ">" /\ stream[k + 1] = "(" /\ \A i \in pos + 2..k - 1 : stream[i] # ";"

IsCall ==
  /\ Here \in Name \ (custom_type_map \cup generic_types)
  /\ peek(1) = "(" \/ IsMethodCall \/ IsInstanceCall

\* What a statement with this token in front of it is; functions only in files.
Production ==
  CASE Here = "const"    -> parse_const
    [] Here = "string"   -> parse_string
    [] Here \in DataType \ {"string"} -> parse_integer_type
    [] Here = "if"       -> parse_if
    [] Here = "loop"     -> parse_loop
    [] Here = "break"    -> parse_break
    [] Here = "continue" -> parse_continue
    [] Here = "while"    -> parse_while
    [] Here = "for"      -> parse_for
    [] Here = "return"   -> parse_return
    [] Here = "array"    -> parse_array
    [] Here = "struct"   -> OfKeyword(parse_struct)
    [] Here = "enum"     -> parse_enum
    [] Here = "switch"   -> parse_switch
    [] Here = "generic"  -> parse_generic
    [] OTHER -> IF IsApplied THEN parse_generic_type
                ELSE IF Here \in custom_type_map \cup generic_types THEN parse_custom_type
                ELSE IF peek(1) = "[" THEN parse_element
                ELSE IF peek(1) = "." THEN parse_member ELSE parse_assignment

Starts ==
  Name \cup DataType
  \cup {"const", "if", "loop", "break", "continue", "while", "for", "return", "array", "struct",
        "enum", "switch", "generic"}

ParseKeyword ==
  /\ Doing("keyword")
  /\ IF TooDeep THEN Error(pos)
     ELSE \/ Here \in Starts /\ ~IsCall /\ Enters(pos, Production, <<>>)
          \/ Here = "fn" /\ Arg = "nested_function" /\ Enters(pos, OfKeyword(parse_function), <<>>)
          \/ /\ Here \notin Starts /\ ~(Here = "fn" /\ Arg = "nested_function")
             /\ Error(pos)

\* A call is an expression up to the next semicolon.
ParseCall ==
  LET end  == First(";")
      only == IF IsMethodCall THEN <<Expect(";"), Do("only_call")>> ELSE <<Do("only_call"), Expect(";")>>
  IN
  /\ Doing("keyword") /\ ~TooDeep /\ IsCall
  /\ \/ end = 0 /\ Error(pos)
     \/ end # 0 /\ Enters(end, KeywordFrame(Splice, ExpressionIn(pos, end, 1) \o only), <<>>)

\* And nothing but the call.
OnlyCall ==
  /\ Doing("only_call")
  /\ IF Len(Top.of) = 1 /\ Head(Top.of).node = "call" THEN Goes(pos, <<>>, <<>>) ELSE Error(pos)

-------------------------------------------------------------------------------
(* parse(). *)

ParseDeclaration ==
  /\ calls = <<>> /\ Here # EOF
  /\ calls' = <<Frame("root", <<>>, <<Item("keyword", "nested_function")>>)>>
  /\ UNCHANGED <<source, stream, pos, root, parser_state, custom_type_map, skipped, generics>>

\* A template is no declaration yet.
Declared == SelectSeq(Top.of, LAMBDA declared : declared.node # "root")

\* Mutant: an earlier error is forgotten.
AddDeclarationForgives ==
  /\ Len(calls) = 1 /\ Top.todo = <<>>
  /\ root' = root \o Declared
  /\ parser_state' = IF Here = EOF THEN "success" ELSE parser_state
  /\ calls' = <<>>
  /\ UNCHANGED <<source, stream, pos, custom_type_map, skipped, generics>>

AddDeclaration ==
  /\ Len(calls) = 1 /\ Top.todo = <<>>
  /\ root' = root \o Declared
  /\ parser_state' = IF Here = EOF /\ parser_state = "neutral" THEN "success" ELSE parser_state
  /\ calls' = <<>>
  /\ UNCHANGED <<source, stream, pos, custom_type_map, skipped, generics>>

ParserInit ==
  /\ source \in Source
  /\ stream = Append(source.text, EOF)
  /\ pos = 1 /\ calls = <<>> /\ root = <<>> /\ parser_state = "neutral"
  /\ custom_type_map = {} /\ skipped = FALSE
  /\ generic_types = {} /\ instantiated_generics = {}
  /\ struct_templates = <<>> /\ func_templates = <<>>

FunctionStep ==
  ParseBlock \/ ParseStatements \/ FunctionArguments \/ FunctionArgument \/ ArgumentName \/ FunctionAttribute
  \/ ReturnType \/ FunctionBody \/ ShellcodeByte \/ ImplicitReturn
DeclarationStep ==
  ParseAssignment \/ RegisterType \/ StructMember \/ Enumerator \/ ArrayDimension
  \/ ArrayType \/ ArrayInitializer \/ ArrayElement
StatementStep ==
  Alternatives \/ ForHeader \/ ForCondition \/ ForStep \/ ForIterated \/ SwitchSubject \/ CaseLabel
  \/ CaseBody \/ SwitchCase \/ ElementIndex \/ MoveTo \/ MemberName \/ MemberValue \/ AssignedValue
  \/ ParseKeyword \/ ParseCall \/ OnlyCall

ParserNext ==
  CommonStep \/ ExpressionStep \/ GenericStep \/ FunctionStep \/ DeclarationStep \/ StatementStep
  \/ ParseDeclaration \/ AddDeclaration

ParserSpec == ParserInit /\ [][ParserNext]_pVars /\ WF_pVars(ParserNext)

-------------------------------------------------------------------------------
(* Properties. *)

\* The cursor stays within the tokens, which end as a file does, and the C++ stack
\* within its limit.
ParserTypeOK ==
  /\ Last(stream) = EOF
  /\ pos \in 1..Len(stream) + 1
  /\ recursion_depth <= MaxDepth
  /\ parser_state \in {"neutral", "failed", "success"}
  /\ generic_types \subseteq Token /\ skipped \in BOOLEAN

\* A for of the kind with `in' in front of one with `when' is taken for one of
\* the other kind.
ForInBeforeWhen ==
  \E i, j \in DOMAIN source.text : i < j /\ source.text[i] = "in" /\ source.text[j] = "when"

\* a < b && c > (d), where a is no template: taken for a call of a with d, and the
\* comparison is dropped without a word.
ComparedToParenthesis ==
  \E i \in DOMAIN source.text :
     IsGenericCall(source.text, i) /\ source.text[i] \notin DOMAIN func_templates

\* A program is parsed without an error, and to the tree it stands for, with one
\* copy of each instance of a template in front of its first use.
Reproduces ==
  Finished /\ source.whole /\ ~ForInBeforeWhen /\ ~ComparedToParenthesis
    => parser_state = "success" /\ root = source.tree

Count(t) == Cardinality({i \in DOMAIN source.text : source.text[i] = t})

\* The label of a case without a colon reaches to the colon of a later one, and
\* what is between them, the body of the case, is dropped without a word.
CaseWithoutColon ==
  \E i, j \in DOMAIN source.text :
     /\ i < j /\ source.text[i] = "case" /\ source.text[j] \in {"{", "case", "default"}
     /\ \A k \in i..j : source.text[k] # ":"

\* The parser is in a copy of a template, not in the file.
InCopy ==
  LET Words(s) == SelectSeq(s, LAMBDA t : t # ";") IN Words(stream) # Words(Append(source.text, EOF))

\* A file that is accepted has a closing brace for each opening one, none of its
\* tokens was passed over because an expression ended at a ; or { before its tokens
\* did (at a comma it may: y = x, 7; assigns x), and it was read to its own end, not
\* that of a copy that an exception has left behind.
AcceptedIsWhole ==
  parser_state = "success" /\ ~CaseWithoutColon
    => Count("{") = Count("}") /\ ~skipped /\ ~InCopy

Matched == Count("{") = Count("}") /\ Count("(") = Count(")") /\ Count("[") = Count("]")

\* The last statement of a function has no semicolon, or a function without one
\* has lost its `fn': both read on to the first semicolon of the next function.
RunsOn ==
  \/ \E i, j \in DOMAIN source.text :
        /\ i + 1 < j /\ source.text[i] \notin {";", "{", "}"} /\ source.text[j] = "fn"
        /\ \A k \in i + 1..j - 1 : source.text[k] = "}"
  \/ \E i, j \in DOMAIN source.text :
        /\ i + 2 < j /\ source.text[i] = "}" /\ source.text[i + 2] = "(" /\ source.text[j] = "fn"
        /\ \A k \in i + 1..j - 1 : source.text[k] \notin {";", "fn"}

\* A list of parameters or types that is not closed where it should be reads on
\* to the next >, or to the end of the file.
ListRunsOn ==
  \E i \in 1..Len(source.text) - 1 :
    /\ source.text[i + 1] = "<"
    /\ \/ source.text[i] = "generic"
       \/ \E j \in 2..Len(source.text) : source.text[j - 1] = "struct" /\ source.text[j] = source.text[i]
    /\ ToSet(TypeList(source.text, i + 2).list) \cap {";", "{"} # {}

\* A mistake costs the function it is in, not those before or behind it, unless
\* brackets do not match, a statement runs on into the next function, or the
\* mistake shows in the copy of a template: the rest of the file is not read then.
DamageIsLocal ==
  Finished /\ Matched /\ ~RunsOn /\ ~ForInBeforeWhen /\ ~InCopy /\ ~ComparedToParenthesis
    /\ ~ListRunsOn
    => \A i \in DOMAIN source.tree : \E j \in DOMAIN root : root[j] = source.tree[i]

\* Whatever the tokens, the parser comes to the end of the file, or is in the
\* initializer of an array or the parameters of a template that have none.
Ends == <>(Finished \/ EndlessElement \/ EndlessParameters)
================================================================================
