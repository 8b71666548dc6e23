------------------------------ MODULE ParserStack ------------------------------
(***************************************************************************)
(* What the functions of the recursive descent have in common: the tokens  *)
(* and the cursor, the nodes they build, the calls they make, and the      *)
(* exceptions that end all of them.                                        *)
(*                                                                         *)
(* The C++ stack is `calls': for each function that has been entered the   *)
(* node it builds and what it has left to do, a sequence of the few things *)
(* these functions are made of.  A token is its lexeme.  The contents of a *)
(* node are its first children here.                                       *)
(***************************************************************************)
EXTENDS Naturals, SequencesExt, FiniteSetsExt

CONSTANTS
  Identifier,  \* names that are written in files
  Literal,     \* number literals
  Source,      \* files: [text: tokens, whole: whether they are a program,
               \* tree: the declarations, of others those without a mistake]
  MaxDepth     \* max_recursion_depth

Castable == {"i8", "i64", "f64"}
DataType == Castable \cup {"bool", "string"}
Unary    == {"neg", "!"}
Binary   == {"+", "-", "*", "<", ">", ">>", "==", "&&", "||"}
Compound == {"+=", "-="}
Keyword  ==
  {"fn", "struct", "enum", "const", "array", "if", "elseif", "else", "loop", "while", "for",
   "when", "do", "in", "break", "continue", "return", "switch", "case", "default", "asm",
   "shellcode", "generic"}
Punctuation == {"(", ")", "[", "]", "{", "}", ";", ",", ":", ".", "...", "="}
EOF == "<EOF>"

Token == Identifier \cup Literal \cup DataType \cup Unary \cup Binary \cup Compound
         \cup Keyword \cup Punctuation \cup {EOF}

ASSUME ParserAssumption ==
  /\ MaxDepth \in Nat \ {0}
  /\ Identifier \cap Literal = {}

Node(kind, of) == [node |-> kind, of |-> of]
Leaf(t)        == Node(t, <<>>)
Leaves(toks)   == [i \in DOMAIN toks |-> Leaf(toks[i])]

VARIABLES
  source,           \* the file
  stream, pos,      \* its tokens, and the next one
  calls,            \* innermost first
  root,             \* the declarations parsed
  parser_state,
  custom_type_map,  \* names of structs and enums
  skipped,          \* whether an expression ended at a ; or { before its tokens did
  generic_types,    \* cst_generic_type_cache: the parameters of the template at hand
  struct_templates, func_templates,
  instantiated_generics

generics == <<generic_types, struct_templates, func_templates, instantiated_generics>>
pVars ==
  <<source, stream, pos, calls, root, parser_state, custom_type_map, skipped, generics>>

\* What the parser takes for an identifier: instances have names of their own.
Name == Identifier \cup instantiated_generics \cup (custom_type_map \ Token)

peek(k) == IF pos + k \in DOMAIN stream THEN stream[pos + k] ELSE EOF
Here == peek(0)
Finished == calls = <<>> /\ Here = EOF

\* find_first_token() from the cursor on; 0 for none.
First(t) ==
  LET at == {k \in DOMAIN stream : k >= pos /\ stream[k] = t}
  IN  IF at = {} THEN 0 ELSE Min(at)

\* Where in s the bracket that is open in front of s[from] is closed; 0 for nowhere.
Closing(s, from, open, close) ==
  LET at == {i \in from..Len(s) :
               /\ s[i] = close
               /\ Cardinality({j \in from..i : s[j] = close})
                    = Cardinality({j \in from..i : s[j] = open}) + 1}
  IN  IF at = {} THEN 0 ELSE Min(at)

-------------------------------------------------------------------------------
(* Calls. *)

\* What a function has left to do: a kind of step and what it is about.
Item(what, arg) == [do |-> what, arg |-> arg]
Do(what)     == Item(what, "")
Take         == Do("take")             \* consume()
Expect(t)    == Item("expect", t)      \* this token or an error
Maybe(t)     == Item("maybe", t)       \* consume this token if it is there
Until(t)     == Item("until", t)       \* parse_expression_until()
EndBefore(t) == Item("insert", t)      \* a semicolon in front of the next t
Add(t)       == Item("add", t)         \* a leaf
Attribute(t) == Item("attribute", t)   \* this token makes a leaf if it is there
Statement    == Do("keyword")          \* parse_keyword()

\* name < ... > ( before a ; or {: taken for a call of an instance, whatever it is.
IsGenericCall(s, at) ==
  /\ at + 1 \in DOMAIN s /\ s[at] \in Name /\ s[at + 1] = "<"
  /\ \E k \in at + 2..Len(s) - 1 :
       /\ s[k] \in {">", ">>"} /\ s[k + 1] = "("
       /\ \A i \in at + 2..k - 1 : s[i] \notin {";", "{"}

\* parse_expression() with what preprocess_generic_calls() has looked at and what
\* it has not; the last tokens only end the expression.
Preprocessed(done, rest, closers) ==
  IF \E at \in DOMAIN rest : IsGenericCall(rest, at)
  THEN [do |-> "expression", done |-> done, rest |-> rest, closers |-> closers]
  ELSE [do |-> "tokens", rest |-> done \o rest, operator_stack |-> <<>>, closers |-> closers]
Expression(tokens, closers) == Preprocessed(<<>>, tokens, closers)

Frame(node, of, todo) == [node |-> node, of |-> of, todo |-> todo, keyword |-> FALSE]

\* A call of parse_keyword(), which counts for recursion_depth.
OfKeyword(frame) == [frame EXCEPT !.keyword = TRUE]
KeywordFrame(node, todo) == OfKeyword(Frame(node, <<>>, todo))

recursion_depth == Cardinality({k \in DOMAIN calls : calls[k].keyword})

\* Mutant: one call more.
TooDeepLate == recursion_depth > MaxDepth

\* Whether parse_keyword() refuses to be called once more.
TooDeep == recursion_depth + 1 > MaxDepth

\* A call that leaves its nodes to the caller instead of making one of them.
Splice == ""

Top == Head(calls)
Doing(what) == calls # <<>> /\ Top.todo # <<>> /\ Head(Top.todo).do = what
Now == Head(Top.todo)
Arg == Now.arg

\* The function at hand goes on at p with these nodes, and with `todo' first.
Goes(p, nodes, todo) ==
  /\ pos' = p
  /\ calls' = <<[Top EXCEPT !.of = @ \o nodes, !.todo = todo \o Tail(@)]>> \o Tail(calls)
  /\ UNCHANGED <<source, stream, root, parser_state, custom_type_map, skipped, generics>>

\* It calls the one with this frame, and goes on with `todo' after it.
Enters(p, frame, todo) ==
  /\ pos' = p
  /\ calls' = <<frame, [Top EXCEPT !.todo = todo \o Tail(@)]>> \o Tail(calls)
  /\ UNCHANGED <<source, stream, root, parser_state, custom_type_map, skipped, generics>>

\* Its last child is this one instead.
Replaces(node) ==
  /\ calls' = <<[Top EXCEPT !.of = Append(Front(@), node), !.todo = Tail(@)]>> \o Tail(calls)
  /\ UNCHANGED <<source, stream, pos, root, parser_state, custom_type_map, skipped, generics>>

\* It has these children instead of those it had.
Becomes(of) ==
  /\ calls' = <<[Top EXCEPT !.of = of, !.todo = Tail(@)]>> \o Tail(calls)
  /\ UNCHANGED <<source, stream, pos, root, parser_state, skipped, generics>>

\* A function returns to its caller.
Return ==
  /\ Len(calls) > 1 /\ Top.todo = <<>>
  /\ LET nodes == IF Top.node = Splice THEN Top.of ELSE <<Node(Top.node, Top.of)>> IN
     calls' = <<[calls[2] EXCEPT !.of = @ \o nodes]>> \o SubSeq(calls, 3, Len(calls))
  /\ UNCHANGED <<source, stream, pos, root, parser_state, custom_type_map, skipped, generics>>

-------------------------------------------------------------------------------
(* Exceptions. *)

\* Mutant: the semicolon or brace is not consumed.
PastNothing(stop) == stop

\* Behind a semicolon, a closing brace, or the block that an opening one starts.
Past(stop) ==
  LET close == Closing(stream, stop + 1, "{", "}")
  IN  IF stream[stop] # "{" THEN stop + 1
      ELSE IF close = 0 THEN Len(stream) ELSE close + 1

\* Mutant: braces do not stop it.
SynchronizeSemicolon(p) ==
  LET stops == {k \in DOMAIN stream : k >= p /\ stream[k] = ";"}
  IN  IF stops = {} THEN Max({p, Len(stream)}) ELSE Past(Min(stops))

\* synchronize() from p.
Synchronize(p) ==
  LET stops == {k \in DOMAIN stream : k >= p /\ stream[k] \in {";", "{", "}"}}
  IN  IF stops = {} THEN Max({p, Len(stream)}) ELSE Past(Min(stops))

\* Whatever has been built of the declaration is gone.
Throws(p) ==
  /\ calls' = <<>>
  /\ parser_state' = "failed"
  /\ pos' = p
  /\ UNCHANGED <<source, stream, root, custom_type_map, skipped, generics>>

\* A parsing_error at p; parse() catches it and goes on where synchronize() ends.
Error(p) == Throws(Synchronize(p))

\* Any other exception costs one token.
InternalError(p) == Throws(IF p < Len(stream) THEN p + 1 ELSE p)

-------------------------------------------------------------------------------
(* Steps of many functions. *)

Consume == Doing("take") /\ Goes(pos + 1, <<>>, <<>>)

ExpectToken ==
  /\ Doing("expect")
  /\ \/ Here = Arg /\ Goes(pos + 1, <<>>, <<>>)
     \/ Here # Arg /\ Error(pos)

MaybeToken == Doing("maybe") /\ Goes(IF Here = Arg THEN pos + 1 ELSE pos, <<>>, <<>>)

AddNode == Doing("add") /\ Goes(pos, <<Leaf(Arg)>>, <<>>)

\* parse_identifier(), whatever the token; previous() refuses the first of all.
ParseIdentifier ==
  /\ Doing("identifier")
  /\ IF pos = 1 THEN InternalError(pos + 1) ELSE Goes(pos + 1, <<Leaf(Here)>>, <<>>)

ParseName ==
  /\ Doing("name")
  /\ \/ Here \in Name /\ Goes(pos + 1, <<Leaf(Here)>>, <<>>)
     \/ Here \notin Name /\ Error(pos)

\* parse_expression_until(): nothing happens if there is no such token.
ParseExpressionUntil ==
  LET end == First(Arg) IN
  /\ Doing("until")
  /\ \/ end = 0 /\ Goes(pos, <<>>, <<>>)
     \/ end # 0 /\ Goes(end, <<>>, <<Expression(SubSeq(stream, pos, end), 1)>>)

\* stream.insert(), one token back when there is no such token.
InsertSemicolon ==
  /\ Doing("insert")
  /\ stream' = InsertAt(stream, IF First(Arg) = 0 THEN pos - 1 ELSE First(Arg), ";")
  /\ calls' = <<[Top EXCEPT !.todo = Tail(@)]>> \o Tail(calls)
  /\ UNCHANGED <<source, pos, root, parser_state, custom_type_map, skipped, generics>>

CommonStep ==
  Return \/ Consume \/ ExpectToken \/ MaybeToken \/ AddNode \/ ParseIdentifier \/ ParseName
  \/ ParseExpressionUntil \/ InsertSemicolon
================================================================================
