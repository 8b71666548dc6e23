-------------------------------- MODULE MCParser --------------------------------
(***************************************************************************)
(* Programs built together with the trees they stand for: every kind of    *)
(* expression and statement, loops and choices around each, and the files  *)
(* that are left when a token is lost or doubled or the file is cut short. *)
(***************************************************************************)
EXTENDS Parser

MCIdentifier == {"f", "g", "x", "y", "S", "R", "T"}
MCLiteral == {"1", "2"}

\* A piece of a program: its tokens and the nodes it stands for.
P(text, nodes) == [text |-> text, nodes |-> nodes]
V(t)           == P(<<t>>, <<Leaf(t)>>)
Op(a, op, b)   == P(a.text \o <<op>> \o b.text, a.nodes \o b.nodes \o <<Leaf(op)>>)
Sign(op, a)    == P(<<op>> \o a.text, a.nodes \o <<Leaf(op)>>)
Marked(nodes)  == <<Leaf("expr_end")>> \o nodes \o <<Leaf("expr_start")>>
Paren(a)       == P(<<"(">> \o a.text \o <<")">>, Marked(a.nodes))
SignParen(op, a) == P(<<op, "(">> \o a.text \o <<")">>, Marked(a.nodes \o <<Leaf(op)>>))
Cast(t, a)     == P(<<t, "(">> \o a.text \o <<")">>, <<Node("cast", <<Leaf(t)>> \o a.nodes)>>)
Element(a, i)  == P(a.text \o <<"[">> \o i.text \o <<"]">>, <<Node("access", a.nodes \o i.nodes)>>)
Member(a, m)   == P(<<a, ".", m>>, <<Node("member", <<Leaf(a), Leaf(m)>>)>>)

Texts(pieces)    == [k \in DOMAIN pieces |-> pieces[k].text]
AllNodes(pieces) == FlattenSeq([k \in DOMAIN pieces |-> pieces[k].nodes])
List(pieces)     == FlattenSeq([k \in DOMAIN pieces |->
                      IF k = 1 THEN pieces[k].text ELSE <<",">> \o pieces[k].text])
Args(args)       == [k \in DOMAIN args |-> Node("arg", args[k].nodes)]
CallOf(f, args)  == P(<<f, "(">> \o List(args) \o <<")">>, <<Node("call", <<Leaf(f)>> \o Args(args))>>)
MethodOf(x, m, args) ==
  P(<<x, ".", m, "(">> \o List(args) \o <<")">>,
    <<Node("call", <<Node(".", <<Leaf(m)>>), Node("arg", <<Leaf(x)>>)>> \o Args(args))>>)

x == V("x")
y == V("y")
one == V("1")
two == V("2")

Less   == Op(x, "<", one)
Sum    == Op(x, "+", two)
Simple == {x, one, Sum, Less}
Exprs ==
  Simple
  \cup {Op(Op(x, "*", y), "+", two), Op(Op(x, "-", y), "-", two), Paren(Sum),
        Op(x, "*", Paren(Op(y, "+", one))), Op(Paren(Less), "&&", Paren(Less)),
        Op(x, ">", one), Op(Less, "&&", Op(y, ">", Sum)), Op(Less, "&&", Op(y, ">", Paren(Sum))),
        SignParen("!", Paren(Less)), SignParen("!", Less), Sign("neg", x), Op(Sign("neg", x), "*", y),
        Op(CallOf("f", <<>>), "+", one), Op(one, "<", MethodOf("x", "f", <<y>>)),
        Op(Member("x", "y"), "+", x), Cast("i8", Sum), Op(Cast("f64", x), "<", Cast("f64", y)),
        Op(Element(x, Sum), "*", two), Element(Element(x, one), Element(y, two))}
  \cup {CallOf("f", <<a, b>>) : a \in Simple, b \in {CallOf("f", <<y>>), Paren(Sum), Element(x, y)}}
\* a + b * c: the product comes first.
Product ==
  P(<<"x", "+", "y", "*", "2">>, <<Leaf("x"), Leaf("y"), Leaf("2"), Leaf("*"), Leaf("+")>>)

End(text) == text \o <<";">>
Unended(s) == [s EXCEPT !.text = Front(@)]
Decl(t, v, e)  == P(End(<<t, v, "=">> \o e.text), <<Node(t, <<Leaf(v), Node("=", e.nodes)>>)>>)
Only(t, v)     == P(<<t, v, ";">>, <<Node(t, <<Leaf(v)>>)>>)
Pointer(t, v)  == P(<<t, "*", v, ";">>, <<Node(t, <<Leaf("*"), Leaf(v)>>)>>)
Const(s)       == P(<<"const">> \o s.text, <<Node("const", s.nodes)>>)
Assign(v, e)   == P(End(<<v, "=">> \o e.text), <<Node("assign", <<Leaf(v), Leaf("=")>> \o e.nodes)>>)
Change(v, e) ==
  P(End(<<v, "+=">> \o e.text),
    <<Node("assign", <<Leaf(v), Leaf(v), Leaf("=")>> \o e.nodes \o <<Leaf("+")>>)>>)
Store(place, e) ==
  P(End(place.text \o <<"=">> \o e.text), <<[place.nodes[1] EXCEPT !.of = Append(@, Node("=", e.nodes))]>>)
Update(place, e) ==
  P(End(place.text \o <<"-=">> \o e.text),
    <<[place.nodes[1] EXCEPT !.of = Append(@, Node("=", place.nodes \o e.nodes \o <<Leaf("-")>>))]>>)
Calls(e)       == [e EXCEPT !.text = End(@)]
Return_(e)     == P(End(<<"return">> \o e.text), <<Node("return", e.nodes)>>)
Jump(word)     == P(<<word, ";">>, <<Node(word, <<>>)>>)

Block(ss)      == P(<<"{">> \o FlattenSeq(Texts(ss)) \o <<"}">>, <<Node("block", AllNodes(ss))>>)
With(word, pieces) == P(<<word>> \o FlattenSeq(Texts(pieces)), <<Node(word, AllNodes(pieces))>>)
If(c, ss, more) == With("if", <<c, Block(ss)>> \o more)
ElseIf(c, ss)   == With("elseif", <<c, Block(ss)>>)
Else(ss)        == With("else", <<Block(ss)>>)
Loop(ss)        == With("loop", <<Block(ss)>>)
While(c, ss)    == With("while", <<c, Block(ss)>>)
Word(word)      == P(<<word>>, <<>>)
ForWhen(init, c, step, ss) ==
  With("for", <<Unended(init), Word("when"), P(c.text, <<Node("forcondition", c.nodes)>>), Word("do"),
                P(Unended(step).text, <<Node("foriterexpr", step.nodes)>>), Block(ss)>>)
ForIn(init, e, ss) == With("for", <<Unended(init), Word("in"), e, Block(ss)>>)
Case(c, body)   == With("case", <<c, Word(":")>> \o body)
Default(ss)     == With("default", <<Word(":"), Block(ss)>>)
Switch(e, cases) == With("switch", <<Word("("), e, Word(")"), Word("{")>> \o cases \o <<Word("}")>>)
Array(dims, t, v, body) ==
  P(<<"array">> \o FlattenSeq([k \in DOMAIN dims |-> <<"[", dims[k], "]">>]) \o <<t, v, "=">>
      \o End(body.text),
    <<Node("array", Leaves(dims) \o <<Node(t, <<Leaf(v)>>)>> \o body.nodes)>>)
Elements(es) ==
  P(<<"{">> \o List(es) \o <<"}">>,
    <<Node("arraybody", [k \in DOMAIN es |->
        IF es[k].nodes[1].node = "arraybody" THEN es[k].nodes[1] ELSE Node("element", es[k].nodes)])>>)

Fn(name, args, type, ss) ==
  P(<<"fn", name, "(">> \o List(args) \o <<")">> \o type \o Block(ss).text,
    <<Node("fn", <<Leaf(name), Node("functionargs", AllNodes(args)),
                   Leaf(IF type = <<>> THEN "i64" ELSE type[1]),
                   Node("block", AllNodes(ss) \o
                     IF \E k \in DOMAIN ss : ss[k].nodes[1].node = "return" THEN <<>> ELSE <<return_0>>)>>)>>)
Main(ss) == Fn("f", <<>>, <<>>, ss)
Arg_(t, v) == P(<<t, v>>, <<Node(t, <<Leaf(v)>>)>>)
Struct(name, ms) ==
  P(<<"struct", name, "{">> \o FlattenSeq(Texts(ms)) \o <<"}">>,
    <<Node("struct", <<Leaf(name)>> \o AllNodes(ms))>>)
Enum(name, text, nodes) ==
  P(<<"enum", name, "{">> \o text \o <<"}">>, <<Node("enum", <<Leaf(name)>> \o nodes)>>)

-------------------------------------------------------------------------------
Plain ==
  {Only("i64", "x"), Only("string", "x"), Pointer("i8", "x"), Const(Decl("i64", "x", one)),
   Assign("x", Sum), Change("x", Sum), Store(Member("x", "y"), Sum), Update(Member("x", "y"), x),
   Store(Element(x, one), y), Store(Element(Element(x, Sum), one), CallOf("f", <<x, y>>)),
   Calls(CallOf("f", <<Sum>>)), Calls(MethodOf("x", "f", <<>>)), Return_(x), Jump("break"), Jump("continue"),
   Decl("string", "y", x), Decl("bool", "y", Product)}
  \cup {Decl("i64", "y", e) : e \in Exprs}
  \cup {Array(<<"2">>, "i64", "x", Elements(<<one, Sum>>)),
        Array(<<"2", "2">>, "f64", "x", Elements(<<Elements(<<one, CallOf("f", <<x, y>>)>>),
                                                  Elements(<<Paren(Sum)>>)>>))}

Init0 == Decl("i64", "x", one)
Step  == Assign("x", Sum)
Around(ss) ==
  {If(Less, ss, <<>>), If(x, ss, <<Else(<<Step>>)>>), If(x, <<>>, <<ElseIf(Less, ss), Else(ss)>>),
   Loop(ss), While(CallOf("f", <<x>>), ss), ForWhen(Init0, Less, Step, ss),
   ForWhen(Init0, Less, Calls(CallOf("f", <<x>>)), ss),
   ForIn(Only("i64", "y"), x, ss), ForIn(Only("i64", "y"), CallOf("f", <<x>>), ss),
   Switch(Sum, <<Case(one, <<Block(ss)>>), Case(two, <<>>), Default(ss)>>)}
Bodies ==
  {<<s>> : s \in Plain}
  \cup {<<s, Return_(x)>> : s \in UNION {Around(<<p>>) : p \in Plain}}
  \cup {<<s>> : s \in UNION {Around(<<t>>) : t \in Around(<<Step>>)}}
  \cup {<<s, t>> : s, t \in Around(<<Step>>)}

Whole(pieces) == [text |-> FlattenSeq(Texts(pieces)), whole |-> TRUE, tree |-> AllNodes(pieces)]

Types ==
  {Whole(<<Struct("S", <<Only("i64", "x"), Pointer("S", "y")>>), d, Main(<<Only("S", "x")>>)>>) :
     d \in {Enum("S", <<"x", ",", "y", "=", "2">>, <<Leaf("x"), Leaf("y"), Leaf("2")>>),
            Enum("y", <<>>, <<>>), Const(Decl("i64", "x", one)), Decl("S", "x", one),
            Array(<<"2">>, "i64", "x", Elements(<<one, Sum>>))}}
Signatures ==
  {Whole(<<Fn("f", <<Arg_("i64", "x"), Arg_("string", "y")>>, <<"f64">>, <<Return_(x)>>)>>),
   Whole(<<Struct("S", <<>>),
           P(<<"fn", "f", "(", "i64", ",", "S", "y", ",", "...", ")", "S", "{", "}">>,
             <<Node("fn", <<Leaf("f"), Node("functionargs", <<Node("i64", <<Leaf("arg")>>),
                              Node("S", <<Leaf("y")>>), Leaf("...")>>),
                            Leaf("S"), Node("block", <<return_0>>)>>)>>)>>),
   Whole(<<P(<<"fn", "f", "(", ")", "shellcode", "i64", "{", "1", "2", "}">>,
             <<Node("fn", <<Leaf("f"), Node("functionargs", <<>>), Leaf("shellcode"), Leaf("i64"),
                            Leaf("1"), Leaf("2")>>)>>)>>),
   Whole(<<P(<<"fn", "f", "(", ")", "asm", "i64", "{", "shellcode", "}">>,
             <<Node("fn", <<Leaf("f"), Node("functionargs", <<>>), Leaf("asm"), Leaf("i64")>>)>>)>>)}

\* Templates, and what is made of them.
Applied(name, args) == P(<<name, "<">> \o List(args) \o <<">">>, <<>>)
Generic(decl) == P(<<"generic", "<", "T", ">">> \o decl.text, <<>>)
Made(decl) == P(<<>>, decl.nodes)
TypeOf(type, name, v) == P(type.text \o <<v, ";">>, <<Node(name, <<Leaf(v)>>)>>)
InstanceCall(f, args, name, passed) ==
  P(Applied(f, args).text \o <<"(">> \o List(passed) \o <<")">>, CallOf(name, passed).nodes)
i64 == V("i64")
f64 == V("f64")

G(name, t, ss) == Fn(name, <<Arg_(t, "x")>>, <<t>>, ss)
Square(name, t) == G(name, t, <<Decl(t, "y", Op(x, "*", x)), Return_(y)>>)
Again(name, t, f) == G(name, t, <<Return_(f)>>)
StructOf(name, t) == Struct(name, <<Only(t, "x"), Pointer(name, "y")>>)
gi64(a) == InstanceCall("g", <<i64>>, "g_i64", <<a>>)
S64 == Applied("S", <<i64>>)

FunctionTemplates ==
  {Whole(<<Generic(Square("g", "T"))>> \o made \o <<Main(<<s>>)>>) :
     <<made, s>> \in
       {<<<<>>, Step>>,
        <<<<Made(Square("g_i64", "i64"))>>, Decl("i64", "y", gi64(Sum))>>,
        <<<<Made(Square("g_i64", "i64"))>>, Calls(gi64(gi64(x)))>>,
        <<<<Made(Square("g_i64", "i64"))>>, If(Op(gi64(x), "<", two), <<Calls(gi64(y))>>, <<>>)>>,
        <<<<Made(Square("g_i64", "i64")), Made(Square("g_f64", "f64"))>>,
          Return_(Op(gi64(x), "+", InstanceCall("g", <<f64>>, "g_f64", <<x>>)))>>}}
StructTemplates ==
  {Whole(<<Generic(StructOf("S", "T"))>> \o made \o <<Main(<<s>>)>>) :
     <<made, s>> \in
       {<<<<Made(StructOf("S_i64", "i64"))>>, TypeOf(S64, "S_i64", "x")>>,
        <<<<Made(StructOf("S_i64", "i64")), Made(StructOf("S_S_i64", "S_i64"))>>,
          TypeOf(P(<<"S", "<", "S", "<", "i64", ">>">>, <<>>), "S_S_i64", "x")>>}}
TemplatesInTemplates ==
  {Whole(<<Generic(Square("g", "T")), Generic(Again("f", "T", InstanceCall("g", <<V("T")>>, "g", <<x>>))),
           Made(Square("g_i64", "i64")), Made(Again("f_i64", "i64", CallOf("g_i64", <<x>>))),
           Fn("f", <<>>, <<>>, <<Return_(InstanceCall("f", <<i64>>, "f_i64", <<x>>))>>)>>),
   Whole(<<P(<<"generic", "<", "T", ",", "g", ">", "struct", "S", "{", "R", "<", "T", ">", "*", "x", ";", "}">>, <<>>),
           Generic(StructOf("R", "T")),
           Made(StructOf("R_i64", "i64")), Made(Struct("S_i64_f64", <<Pointer("R_i64", "x")>>)),
           Fn("f", <<P(<<"S", "<", "i64", ",", "f64", ">", "x">>, <<Node("S_i64_f64", <<Leaf("x")>>)>>)>>,
              <<>>, <<>>)>>),
   Whole(<<Generic(StructOf("S", "T")), Generic(P(Fn("g", <<>>, <<"S", "<", "T", ">">>, <<>>).text, <<>>)),
           Made(StructOf("S_i64", "i64")), Made(Fn("g_i64", <<>>, <<"S_i64">>, <<>>)),
           Main(<<Calls(InstanceCall("g", <<i64>>, "g_i64", <<>>))>>)>>)}

\* Each instance asks for another one.
Growing ==
  P(<<"generic", "<", "T", ">">>
      \o G("g", "T", <<Calls(P(<<"g", "<", "T", "*", ">", "(", "x", ")">>, x.nodes))>>).text
      \o Main(<<Calls(gi64(x))>>).text, <<>>)

Programs == {Whole(<<Main(body)>>) : body \in Bodies} \cup Types \cup Signatures
  \cup FunctionTemplates \cup StructTemplates \cup TemplatesInTemplates

\* Two functions with something between them that has a mistake.
Before == Main(<<Return_(x)>>)
Behind == Main(<<Only("i64", "x"), Return_(x)>>)
Between(text) == [text |-> Before.text \o text \o Behind.text, whole |-> FALSE,
                  tree |-> Before.nodes \o Behind.nodes]

\* The token at one of these places is lost or doubled.
Damages(text, places) ==
  {Between(RemoveAt(text, i)) : i \in places} \cup {Between(InsertAt(text, i, text[i])) : i \in places}

\* Only the beginning or only the end of a file is left.
Cut(text) == [text |-> text, whole |-> FALSE, tree |-> <<>>]
Beginnings(text) == {Cut(SubSeq(text, 1, i)) : i \in DOMAIN text}
Endings(text) == {Cut(SubSeq(text, i, Len(text))) : i \in DOMAIN text}

Statements == Plain \cup {Assign("x", one), Assign("y", Cast("i8", x))}
InFunction(s) == Main(<<s, Step, Return_(x)>>).text
Constructs ==
  {InFunction(v) : v \in Around(<<Step>>)}
  \cup {file.text : file \in Types \cup Signatures \cup StructTemplates \cup TemplatesInTemplates}
Damaged ==
  UNION {Damages(InFunction(s), 6..5 + Len(s.text)) \cup Beginnings(InFunction(s)) : s \in Statements}
  \cup UNION {Damages(text, DOMAIN text) \cup Beginnings(text) \cup Endings(text) : text \in Constructs}
  \cup {Between(Growing.text)}

MCSource == Programs \cup Damaged
================================================================================
