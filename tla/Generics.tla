-------------------------------- MODULE Generics --------------------------------
(***************************************************************************)
(* Templates: generic<T> in front of a struct or function keeps its        *)
(* tokens, and where it is used with types, a copy with those in place of  *)
(* the parameters is parsed at once.  For that the parser gives up its own *)
(* tokens and position, and takes them up again after the copy; when an    *)
(* exception ends the copy, it does not.                                   *)
(*                                                                         *)
(* A template that has the name of one of its parameters is left out.      *)
(***************************************************************************)
EXTENDS Expressions

(* Type arguments. *)

\* >> closes two lists.
Singles(s) == FlattenSeq([k \in DOMAIN s |-> IF s[k] = ">>" THEN <<">", ">">> ELSE <<s[k]>>])

\* How many more lists are opened than closed between two places.
Balance(s, from, to) ==
  LET Count(t) == Cardinality({k \in from..to : s[k] = t}) IN Count("<") - Count(">") - 2 * Count(">>")

\* The list of type arguments that starts at s[from], with a comma behind each, and
\* where it ends; a list that is left open has none behind its last.
TypeList(s, from) ==
  LET closed == {k \in from..Len(s) : s[k] \in {">", ">>"} /\ Balance(s, from, k) < 0}
      close  == Min(closed)
      half   == IF s[close] = ">>" /\ Balance(s, from, close) = -1 THEN <<">", ",">> ELSE <<",">>
  IN  IF closed = {} THEN [list |-> Singles(SubSeq(s, from, Len(s))), next |-> Len(s) + 1]
      ELSE [list |-> Singles(SubSeq(s, from, close - 1)) \o half, next |-> close + 1]

TypeArguments(list) == Front(Parts(list, "<", ">"))

\* type_args_have_generic_params(): a use inside of a template, which is no instance.
Depends(args) ==
  \E k \in DOMAIN args : \E i \in DOMAIN args[k] : args[k][i] \in generic_types \cap Name

\* The letters and digits of a token, with _ for any other character.
Sanitized(t) ==
  CASE t = "*" -> "ptr"
    [] t \in Name \cup Literal \cup DataType \cup Keyword -> t
    [] t \in Compound \cup {"==", "&&", "||"} -> "__"
    [] t = "..." -> "___"
    [] OTHER -> "_"

\* The name of an instance: S<S<i64>> and S<S, i64> have the same.
Mangled(name, args) ==
  LET words == SelectSeq(FlattenSeq(args), LAMBDA t : t \notin {",", "<", ">"})
  IN  FlattenSeq(<<name>> \o [k \in DOMAIN words |-> "_" \o Sanitized(words[k])])

-------------------------------------------------------------------------------
(* Instances. *)

\* The tokens of a template with these arguments, and with this name at `places'.
Substituted(template, args, name, places) ==
  LET GivenFor(t) ==
        {i \in DOMAIN template.params : i <= Len(args) /\ t = template.params[i] /\ t \in Name}
      Copied(k) ==
        LET t == template.text[k] IN
        IF GivenFor(t) # {} THEN args[Max(GivenFor(t))] ELSE IF k \in places THEN <<name>> ELSE <<t>>
  IN  Append(FlattenSeq([k \in DOMAIN template.text |-> Copied(k)]), EOF)

PlacesOf(name, template) == {k \in DOMAIN template.text : template.text[k] = name}

\* This text is parsed as `frame' says, and `caller' goes on after it.
Instantiate(frame, caller, text) ==
  LET saved == [stream |-> stream, pos |-> pos, generic_types |-> generic_types] IN
  /\ stream' = text /\ pos' = 1 /\ generic_types' = {}
  /\ calls' = <<frame, [caller EXCEPT !.todo = <<[do |-> "restore", saved |-> saved]>> \o @]>> \o Tail(calls)
  /\ UNCHANGED <<source, root, parser_state, custom_type_map, skipped, struct_templates, func_templates>>

\* The instance comes in front of the declaration that uses it.
Restore ==
  /\ Doing("restore")
  /\ root' = Append(root, Last(Top.of))
  /\ stream' = Now.saved.stream /\ pos' = Now.saved.pos /\ generic_types' = Now.saved.generic_types
  /\ calls' = <<[Top EXCEPT !.of = Front(@), !.todo = Tail(@)]>> \o Tail(calls)
  /\ UNCHANGED <<source, parser_state, custom_type_map, skipped, struct_templates, func_templates,
                 instantiated_generics>>

parse_function ==
  Frame("fn", <<>>, <<Take, Do("identifier"), Expect("("), Do("arguments"), Expect(")"),
                      Attribute("asm"), Attribute("shellcode"), Do("datatype"), Do("return_type"),
                      Do("body")>>)

parse_struct ==
  Frame("struct", <<>>, <<Take, Do("identifier"), Do("register"), Expect("{"), Do("members")>>)

-------------------------------------------------------------------------------
(* Types. *)

\* At name < in a place for a type: a template, or, inside of another, a name whose
\* arguments have a parameter among them, which may be a template that comes later.
IsTemplate == Here \in DOMAIN struct_templates \cap Name /\ peek(1) = "<"
IsForward ==
  LET ends == {k \in pos + 2..Len(stream) : stream[k] \in {">", ">>", ";", "{"}}
      end  == Min(ends)
  IN
  /\ generic_types # {} /\ Here \in Name /\ peek(1) = "<"
  /\ ends # {} /\ stream[end] \in {">", ">>"} /\ end < Len(stream)
  /\ \E k \in pos + 2..end - 1 : stream[k] \in generic_types \cap Name
  /\ stream[end + 1] \in {"*", ")", ";"} \cup Name
IsApplied == IsTemplate \/ IsForward

TypeKnown == Here \in DataType \cup ((custom_type_map \cup generic_types) \cap Name)

\* The null pointer, for no type.
None == Leaf("none")

\* parse_datatype()
ParseDatatype ==
  /\ Doing("datatype")
  /\ \/ IsApplied
        /\ Enters(pos, Frame(Here, <<>>, <<Take, Take, Do("list"), Do("stars"), Do("named")>>), <<>>)
     \/ ~IsApplied /\ TypeKnown
        /\ Enters(pos, Frame(Here, <<>>, <<Take, Do("stars"), Do("named")>>), <<>>)
     \/ ~IsApplied /\ ~TypeKnown /\ Here # "array" /\ Goes(pos, <<None>>, <<>>)
     \/ Here = "array" /\ Error(pos)

ParseStars ==
  /\ Doing("stars")
  /\ IF Here = "*" THEN Goes(pos + 1, <<Leaf("*")>>, <<Do("stars")>>) ELSE Goes(pos, <<>>, <<>>)

TypedName ==
  /\ Doing("named")
  /\ IF Here \in Name THEN Goes(pos + 1, <<Leaf(Here)>>, <<>>) ELSE Goes(pos, <<>>, <<>>)

\* parse_type_argument_tokens()
ReadTypeList ==
  LET read == TypeList(Front(stream), pos) IN
  Doing("list") /\ Goes(read.next, <<>>, <<[do |-> "instance", types |-> read.list]>>)

\* instantiate_generic_struct(): the type is the instance, if this is one.
InstantiateStruct ==
  LET args     == TypeArguments(Now.types)
      instance == Top.node \in DOMAIN struct_templates /\ ~Depends(args)
      mangled  == Mangled(Top.node, args)
      template == struct_templates[Top.node]
      named    == [Top EXCEPT !.node = IF instance THEN mangled ELSE @, !.todo = Tail(@)]
  IN
  /\ Doing("instance")
  /\ \/ /\ ~instance \/ mangled \in custom_type_map
        /\ calls' = <<named>> \o Tail(calls)
        /\ UNCHANGED <<source, stream, pos, root, parser_state, custom_type_map, skipped, generics>>
     \/ /\ instance /\ mangled \notin custom_type_map
        /\ Instantiate(parse_struct, named,
                       Substituted(template, args, mangled, PlacesOf(Top.node, template)))
        /\ UNCHANGED instantiated_generics

-------------------------------------------------------------------------------
(* Calls. *)

\* preprocess_generic_calls(): on to the next call,
FindGenericCall ==
  LET rest == Now.rest
      at   == Min({k \in DOMAIN rest : IsGenericCall(rest, k)})
      call == [Now EXCEPT !.do = "called", !.done = @ \o SubSeq(rest, 1, at - 1),
                          !.rest = SubSeq(rest, at, Len(rest))]
  IN  Doing("expression") /\ Goes(pos, <<>>, <<call>>)

\* its type arguments,
ReadGenericCall ==
  LET read == TypeList(Now.rest, 3)
      call == [do |-> "generic_call", name |-> Now.rest[1], types |-> read.list, done |-> Now.done,
               rest |-> SubSeq(Now.rest, read.next, Len(Now.rest)), closers |-> Now.closers]
  IN  Doing("called") /\ Goes(pos, <<>>, <<call>>)

\* and instantiate_generic_function(); only the name of the function itself is
\* another in the copy.
InstantiateFunction ==
  LET args     == TypeArguments(Now.types)
      name     == Now.name
      instance == name \in DOMAIN func_templates /\ ~Depends(args)
      mangled  == Mangled(name, args)
      template == func_templates[name]
      called   == IF instance THEN mangled ELSE name
      caller   == [Top EXCEPT !.todo =
                     <<Preprocessed(Append(Now.done, called), Now.rest, Now.closers)>> \o Tail(@)]
  IN
  /\ Doing("generic_call")
  /\ \/ /\ ~instance \/ mangled \in instantiated_generics
        /\ calls' = <<caller>> \o Tail(calls)
        /\ UNCHANGED <<source, stream, pos, root, parser_state, custom_type_map, skipped, generics>>
     \/ /\ instance /\ mangled \notin instantiated_generics
        /\ instantiated_generics' = instantiated_generics \cup {mangled}
        /\ Instantiate(parse_function, caller,
                       Substituted(template, args, mangled, {Min(PlacesOf(name, template))}))

-------------------------------------------------------------------------------
(* Definitions. *)

parse_generic ==
  KeywordFrame("root", <<Do("clear"), Take, Expect("<"), Do("parameters"), Do("template")>>)

\* cst_generic_type_cache becomes `types', and this is what the call has left.
KnowsTypes(types, call) ==
  /\ generic_types' = types
  /\ calls' = <<call>> \o Tail(calls)

ClearTypes ==
  /\ Doing("clear") /\ KnowsTypes({}, [Top EXCEPT !.todo = Tail(@)])
  /\ UNCHANGED <<source, stream, pos, root, parser_state, custom_type_map, skipped,
                 struct_templates, func_templates, instantiated_generics>>

\* Without a > the loop goes on reading behind the last token, and for ever.
EndlessParameters == Doing("parameters") /\ First(">") = 0

\* Any token that is no > is a parameter.
TypeParameter ==
  /\ Doing("parameters") /\ First(">") # 0
  /\ \/ Here = ">" /\ Top.of = <<>> /\ Error(pos)
     \/ Here = ">" /\ Top.of # <<>> /\ Goes(pos + 1, <<>>, <<>>)
     \/ Here # ">" /\ peek(1) = "," /\ peek(2) = ">" /\ Error(pos + 1)
     \/ /\ Here # ">" /\ ~(peek(1) = "," /\ peek(2) = ">")
        /\ KnowsTypes(generic_types \cup {Here}, [Top EXCEPT !.of = Append(@, Leaf(Here))])
        /\ pos' = IF peek(1) = "," THEN pos + 2 ELSE pos + 1
        /\ UNCHANGED <<source, stream, root, parser_state, custom_type_map, skipped,
                       struct_templates, func_templates, instantiated_generics>>

\* The definition is parsed once as it is; `from' is where it starts.
Define(from) == [do |-> "define", from |-> from]
ParseTemplate ==
  /\ Doing("template")
  /\ \/ Here = "struct" /\ Enters(pos, parse_struct, <<Define(pos)>>)
     \/ Here = "fn" /\ Enters(pos, parse_function, <<Define(pos)>>)
     \/ Here \notin {"struct", "fn"} /\ Error(pos)

\* The tokens that have been read since are kept, and the node is not.
DefineTemplate ==
  LET defined  == Last(Top.of)
      name     == Head(defined.of).node
      template == [params |-> [k \in 1..Len(Top.of) - 1 |-> Top.of[k].node],
                   text |-> SubSeq(stream, Now.from, pos - 1)]
      struct   == defined.node = "struct"
  IN
  /\ Doing("define")
  /\ struct_templates' = IF struct THEN (name :> template) @@ struct_templates ELSE struct_templates
  /\ func_templates' = IF struct THEN func_templates ELSE (name :> template) @@ func_templates
  /\ custom_type_map' = IF struct THEN custom_type_map \ {name} ELSE custom_type_map
  /\ KnowsTypes({}, [Top EXCEPT !.of = <<>>, !.todo = Tail(@)])
  /\ UNCHANGED <<source, stream, pos, root, parser_state, skipped, instantiated_generics>>

GenericStep ==
  Restore \/ ParseDatatype \/ ParseStars \/ TypedName \/ ReadTypeList \/ InstantiateStruct
  \/ FindGenericCall \/ ReadGenericCall \/ InstantiateFunction
  \/ ClearTypes \/ TypeParameter \/ ParseTemplate \/ DefineTemplate
================================================================================
