----------------------------- MODULE MCControlFlow -----------------------------
(***************************************************************************)
(* Functions of one loop of each kind around every small if and switch,    *)
(* two nested loops, code outside of loops, and a few that break where     *)
(* there is no loop or end without a return.                               *)
(***************************************************************************)
EXTENDS ControlFlow

MCCaseValue == {1, 2, 3}

D(id) == Stmt("do", id, <<>>)
Break == Stmt("break", 0, <<>>)
Continue == Stmt("continue", 0, <<>>)
Return == Stmt("return", 0, <<>>)
If(parts) == Stmt("if", 0, parts)
Switch(parts) == Stmt("switch", 40, parts)

Loop(body)  == Stmt("loop", 0, <<Part(0, body)>>)
While(body) == Stmt("while", 0, <<Part(50, body)>>)
For(body)   == Stmt("for", 60, <<Part(61, body), Part(0, <<D(62)>>)>>)
ForAssign(body) == Stmt("forassign", 63, <<Part(64, body), Part(0, <<D(65)>>)>>)
LoopsOf(body) == {Loop(body), While(body), For(body), ForAssign(body)}

Leaves == {<<>>, <<Break>>, <<Continue>>, <<Return>>, <<D(1)>>}
Few    == {<<D(1)>>, <<Break>>}

Ifs ==
  {If(<<Part(11, a)>>) : a \in Leaves}
  \cup {If(<<Part(11, a), Part(0, b)>>) : a, b \in Leaves}
  \cup {If(<<Part(11, a), Part(12, b), Part(0, c)>>) : a \in Few, b \in Leaves, c \in Few}
  \cup {If(<<Part(11, a), Part(12, b), Part(13, c)>>) : a \in Few, b \in Few, c \in Few}

Cases == {<<>>, <<BareCase(1)>>} \cup {<<Part(1, a)>> : a \in Few \cup {<<Continue>>}}
Defaults == {<<>>, <<Part(0, <<D(2)>>)>>, <<Part(0, <<Break>>)>>}
Switches ==
  {Switch(c \o k \o d) : c \in Cases, d \in Defaults,
     k \in {<<>>, <<BareCase(2)>>, <<Part(2, <<D(3)>>)>>, <<Part(2, <<D(3)>>), BareCase(1)>>}}

Around(s) == {<<l, D(9), Return>> : l \in LoopsOf(<<D(4), s, D(5)>>)}
Nested(s) == UNION {Around(l) : l \in LoopsOf(<<D(6), s>>)}
Small == {If(<<Part(11, a), Part(0, b)>>) : a, b \in {<<Break>>, <<Continue>>, <<D(1)>>}}
         \cup {Switch(<<Part(1, <<Break>>), Part(2, <<If(<<Part(11, <<Continue>>)>>)>>)>>)}

Straight == {If(<<Part(11, a), Part(12, b), Part(0, <<D(7)>>)>>) :
               a, b \in {<<>>, <<D(1)>>, <<Return>>}}

MCStray == {<<D(1), Break, D(2), Return>>, <<If(<<Part(11, <<Continue>>)>>), Return>>,
            <<Switch(<<Part(1, <<Break>>)>>), Return>>}

Bare == {<<>>, <<D(1)>>, <<Loop(<<D(1), If(<<Part(11, <<Break>>)>>)>>)>>}

MCProgram ==
  Bare \cup UNION {Around(s) : s \in Ifs \cup Switches}
  \cup UNION {Nested(s) : s \in Small}
  \cup {<<s, D(9), Return>> : s \in Straight}
  \cup {<<D(8), s>> : s \in Straight}
  \cup {<<Switch(<<Part(1, <<s>>), Part(0, <<D(7)>>)>>), Return>> : s \in Straight}
  \cup MCStray

\* The blocks in a body, three statements deep.
BlocksIn(bodies) ==
  UNION {UNION {{s.parts[k].body : k \in DOMAIN s.parts} : s \in Range(body)} : body \in bodies}
WithBlocks(bodies) == bodies \cup BlocksIn(bodies)

MCBodies ==
  LET whole == MCProgram \cup {ImplicitReturn(source) : source \in MCProgram}
  IN  WithBlocks(WithBlocks(WithBlocks(whole)))

\* No break or continue outside of a loop, through two ifs or switches.
Quits(body) == \E s \in Range(body) : s.kind \in {"break", "continue"}
IfsOf(body) ==
  UNION {{s.parts[k].body : k \in DOMAIN s.parts} :
           s \in {s \in Range(body) : s.kind \in {"if", "switch"}}}
MCClosedBodies ==
  {body \in MCBodies :
     ~Quits(body) /\ \A b \in IfsOf(body) : ~Quits(b) /\ \A c \in IfsOf(b) : ~Quits(c)}
================================================================================
