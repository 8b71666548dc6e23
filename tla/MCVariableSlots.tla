---------------------------- MODULE MCVariableSlots ----------------------------
(***************************************************************************)
(* Programs for the linter and the passes behind it: short sequences of    *)
(* statements in a few frames.                                             *)
(***************************************************************************)
EXTENDS VariableSlots

Node(n, name) == [n |-> n, name |-> name, type |-> Unknown, given |-> 0, top |-> TRUE]
V(x) == Node("var", x)
One  == Node("number", "1")
Nil  == Node("number", "0")
Half == Node("float", "0.5")
Cast(type) == [Node("cast", "") EXCEPT !.type = type]
Inside(node) == [node EXCEPT !.top = FALSE]
Call(f, args) ==
  <<[Node("call", f) EXCEPT !.given = Len(args)]>> \o [j \in DOMAIN args |-> Inside(args[j])]
Index(a, expr) == <<Node("index", a)>> \o [j \in DOMAIN expr |-> Inside(expr[j])]
Op(o) == Node(o, "")
Is(x) == <<V(x), One, Op("==")>>

I64 == Type("int64")
I8  == Type("int8")
F64 == Type("float64")
Variable(k, name, type, const, init) ==
  [k |-> k, name |-> name, type |-> type, const |-> const, init |-> init]
Let(name, type, init) == Variable("declare", name, type, FALSE, init)
Const(name, init) == Variable("declare", name, I64, TRUE, init)
Assign(name, expr) == [k |-> "assign", name |-> name, expr |-> expr]
Do(expr) == [k |-> "expression", expr |-> expr]
Stmt(k, expr) == [k |-> k, expr |-> expr]
Plain(k) == [k |-> k]
For(name, type, init, expr, step) ==
  [k |-> "for", name |-> name, type |-> type, init |-> init, expr |-> expr, step |-> step]
ForAssign(expr, step) == [k |-> "forassign", expr |-> expr, step |-> step]
Step(name, expr) == [name |-> name, expr |-> expr]
Param(x, type) == [name |-> x, type |-> type]
Fn(name, params, type) == [k |-> "function", name |-> name, params |-> params, type |-> type]
End == Plain("end")
Main(params) == Fn("main", params, I64)

\* Blocks are closed; a branch follows a branch, a case stands in a switch.
Opening(s, i) == s[i].k \in Openers
Parent(s, i) == Max({0} \cup {j \in 1..i - 1 : Opening(s, j) /\ Depth(s, j) = Depth(s, i - 1)
                                                /\ \A m \in j..i - 1 : Depth(s, m) >= Depth(s, j)})
\* The construct that ends in front of i.
Sibling(s, i) == Max({0} \cup {j \in 1..i - 1 : Opening(s, j) /\ Depth(s, j) = Depth(s, i - 1) + 1
                                                 /\ \A m \in j..i - 2 : Depth(s, m) >= Depth(s, j)})
WellFormed(s) ==
  /\ \A i \in DOMAIN s : Depth(s, i) >= 0
  /\ s # <<>> => Depth(s, Len(s)) = 0
  /\ \A i \in DOMAIN s :
       /\ s[i].k \in {"else", "elseif"} =>
            i > 1 /\ s[i - 1].k = "end" /\ Sibling(s, i) # 0 /\ s[Sibling(s, i)].k \in {"if", "elseif"}
       /\ (s[i].k \in {"case", "default"}) <=>
            (s[i].k # "end" /\ Parent(s, i) # 0 /\ s[Parent(s, i)].k = "switch")

Bodies(statements, n) == {s \in UNION {[1..m -> statements] : m \in 0..n} : WellFormed(s)}

\* Declarations, assignments and uses of two names in nested and following blocks.
Scopes == {Let("a", I64, <<One>>), Let("a", F64, <<Half>>), Let("c", I64, <<V("a")>>), Let("a", I64, <<>>),
           Assign("a", <<V("b")>>), Do(<<V("a")>>), Stmt("if", Is("a")), Plain("loop"), End}
Loops == {For("a", I64, <<One>>, Is("a"), Step("a", <<V("a"), One, Op("+")>>)),
          For("a", F64, <<V("a")>>, <<V("b")>>, Step("b", <<V("c")>>)),
          ForAssign(Is("a"), Step("a", <<V("a"), One, Op("+")>>)),
          Let("a", I64, <<One>>), Do(<<V("a")>>), Assign("a", <<One>>), End}

\* Counters of other types, steps that assign to a constant, to a function and to
\* nothing that is declared.
OddLoops == {For("a", Type("bool"), <<One>>, Is("a"), Step("c", <<V("b")>>)),
             For("a", Pointer("int64"), <<V("b")>>, Is("b"), Step("b", <<V("a")>>)),
             ForAssign(Is("b"), Step("c", <<V("b")>>)),
             ForAssign(Is("b"), Step("main", <<V("b")>>)), ForAssign(<<V("c")>>, Step("y", <<One>>)),
             Const("c", <<One>>), Let("main", I64, <<One>>), Do(<<V("main")>>), Assign("c", <<V("a")>>), End}
Branches == {Stmt("if", Is("a")), Stmt("elseif", <<V("a")>>), Plain("else"), Stmt("while", Is("a")),
             Stmt("switch", <<V("a")>>), Stmt("case", <<One>>), Plain("default"), Let("b", I64, <<One>>), End}
Constants == {Const("a", <<One>>), Const("a", <<>>), Let("a", I64, <<One>>), Assign("a", <<One>>),
              Stmt("if", <<One, One, Op("==")>>), End}

Expressions1 ==
  {<<V("a"), V("x"), Op("==")>>, <<V("a"), Half, Op("+")>>, <<V("a"), Nil, Op("/"), One, Op("+")>>,
   <<V("x"), Op("not")>>, <<V("a"), V("x"), Op("+")>>, <<Node("string", ""), Op("minus")>>,
   <<Cast(F64), Inside(V("a"))>>, <<Op("reference"), V("a")>>, <<Op("reference"), One>>,
   <<V("p"), Op("deref")>>, Call("f", <<One, V("a")>>), Call("f", <<>>), Call("g", <<V("y"), One>>),
   Call("alloc", <<One>>), Call("alloc", <<>>), Call("g", <<>>), Call("h", <<>>), <<V("f")>>, Index("t", <<V("y")>>),
   Index("a", <<One>>), Index("y", <<One>>), <<Node("member", "s")>>, <<Node("member", "f")>>,
   <<V("a"), One, Op("=="), V("x"), Op("&&")>>, <<V("x"), Op("==")>>}

Typed == {Let("r", t, e) : t \in {I64, F64, Type("bool"), Type("str"), Pointer("int64")}, e \in Expressions1}
         \cup {Stmt("while", e) : e \in Expressions1} \cup {Do(e) : e \in Expressions1}
Declared == <<Variable("array", "t", ArrayOf("int64"), FALSE, <<One>>),
              Variable("struct", "s", Type("S"), FALSE, <<>>),
              Variable("struct", "e", Type("E"), FALSE, <<One>>)>>

InMain(prefix, bodies) == {prefix \o b \o <<End>> : b \in bodies}
F == <<Fn("f", <<Param("i", I64), Param("j", I8)>>, I64), End>>
G == <<Fn("g", <<Param("i", I64), Param("__varargs", I64)>>, F64), End>>
Enum == [k |-> "enum", name |-> "E"]
Globals == {<<>>, <<Variable("global", "a", I64, FALSE, <<One>>)>>,
            <<Variable("global", "a", I64, TRUE, <<One>>)>>,
            <<Variable("global", "a", I64, TRUE, <<>>), Variable("global", "a", F64, FALSE, <<>>)>>}

\* Globals with and without a value, in front of a function and behind it.
Global(name, init) == Variable("global", name, I64, FALSE, init)
Touching == {Let("c", I64, <<V("a")>>), Let("a", I64, <<One>>), Let("c", I64, <<>>),
             Assign("a", <<One>>), Do(<<V("a")>>), Do(Call("f", <<One, One>>))}
Around2 == {<<>>, <<Global("a", <<One>>)>>, <<Global("a", <<>>)>>, <<Global("c", <<One>>), Global("a", <<V("c")>>)>>,
            <<Variable("aggregate", "a", ArrayOf("int64"), TRUE, <<One>>)>>, F, F \o G,
            <<Fn("f", <<Param("a", I64)>>, I64), Assign("a", <<One>>), End>>,
            <<Fn("f", <<>>, I64), Const("a", <<One>>), End>>}
Behind == {<<>>, <<Global("a", <<One>>)>>, F \o G}

Programs ==
  InMain(<<Main(<<Param("b", I64)>>)>>, Bodies(Scopes, 5))
  \cup InMain(<<Main(<<Param("a", I8), Param("b", I64)>>)>>, Bodies(Loops, 5) \cup Bodies(Branches, 6))
  \cup InMain(<<Main(<<Param("b", I64)>>)>>, Bodies(OddLoops, 4))
  \cup UNION {InMain(g \o <<Main(<<>>)>>, Bodies(Constants, 4)) : g \in Globals}
  \cup InMain(<<Main(<<Param("a", I64)>>), Let("b", I64, <<One>>), End, Main(<<>>)>>, Bodies(Scopes, 2))
  \cup {g \o <<Main(m)>> \o b \o <<End>> \o h :
          g \in Around2, h \in Behind, m \in {<<>>, <<Param("a", I64)>>}, b \in Bodies(Touching, 2)}
  \cup {<<Enum, Main(<<Param("a", I64), Param("x", F64), Param("p", Pointer("int64"))>>)>>
          \o d \o <<s>> \o (IF s.k = "while" THEN <<End>> ELSE <<>>) \o <<End>> \o F \o G :
        s \in Typed, d \in {<<>>, Declared}}
===============================================================================
