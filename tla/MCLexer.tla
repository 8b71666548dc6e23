-------------------------------- MODULE MCLexer --------------------------------
(***************************************************************************)
(* Texts put together from pieces that a rule of the lexer tells apart.    *)
(***************************************************************************)
EXTENDS Lexer

Chars(s) == [i \in 1..Len(s) |-> SubSeq(s, i, i)]

\* What is written, what it means, and what it is.
Piece(s, tokens, sort) == [chars |-> Chars(s), tokens |-> tokens, sort |-> sort]
Of(tt, s, sort) == Piece(s, <<Token(tt, Chars(s))>>, sort)

Words == {Of("identifier", s, "word") : s \in {"a", "x1", "_e", "ifs"}}
         \cup {Of("keyword", s, "word") : s \in {"if", "else", "return"}}
         \cup {Piece(s, <<Token("keyword", Chars("elseif"))>>, "word") : s \in {"elseif", "else  if"}}
Numbers == {Of("number", s, "decimal") : s \in {"1", "20"}}
           \cup {Of("number", s, "number") : s \in {"0", "07", "0x1f", "0b10"}}
           \cup {Of("float", s, "decimal") : s \in {"0.5", "1e-2"}}
Quoted == {Piece("\"\"", <<Token("string", <<>>)>>, "quoted"),
           Piece("\"a\\\"//\"", <<Token("string", Chars("a\"//"))>>, "quoted"),
           Piece("\"\\\\\"", <<Token("string", Chars("\\"))>>, "quoted"),
           Piece("'\\n'", <<Token("char", Chars("\n"))>>, "quoted")}
Operators == {Of("operator", s, "operator") :
                s \in {"<", "<<", "<<=", "=", "==", "&", "&&", "!", "*", "/", "+", "-"}}
Delimiting == {Of("delimiter", s, "delimiter") : s \in {"(", ")", "[", "]", "{", ";", "."}}
Others == {Piece("...", <<Token("variadic", <<>>)>>, "other"),
           Of("colon", ":", "other"), Of("colon", "::", "other"),
           Piece("#", <<>>, "unknown")}
AsmBlock == {Piece("asm a {a{}\n}",
               <<Token("keyword", Asm), Token("identifier", <<"a">>), Token("delimiter", <<"{">>),
                 Token("asm_body", Chars("a{}\n")), Token("delimiter", <<"}">>)>>, "asm")}
Blanks == {Piece(s, <<>>, "blank") : s \in {" ", "\n", "// \"#\n", "/*a\n*/", "/***/", "/*/*/"}}

Pieces == Words \cup Numbers \cup Quoted \cup Operators \cup Delimiting \cup Others \cup AsmBlock
          \cup Blanks

Longer(p) ==
  {o \in DoubleOperators \cup TripleOperators \cup {Chars("//"), Chars("/*")} :
     Len(o) > Len(p.chars)}

\* Two pieces side by side that are read as something else.
Glued(p, q) ==
  LET first == Head(q.chars) IN
  \/ p.sort \in {"word", "decimal", "number"} /\ q.sort \in {"word", "decimal", "number", "asm"}
  \/ p.sort = "decimal" /\ first \in {".", "-", "+"}
  \/ p.chars = <<"0">> /\ first = "."
  \/ p.sort = "operator" /\ \E o \in Longer(p) : IsPrefix(o, p.chars \o q.chars)
  \/ p.chars \in {<<".">>, <<":">>} /\ first = p.chars[1]
  \/ p.chars = Else /\ q.chars = <<" ">>

Operand(token) ==
  token.tt \in {"identifier", "number", "float", "string", "char"}
  \/ token \in {Token("delimiter", <<c>>) : c \in {")", "]"}}

\* In front of a sign: what the rules make nothing of.
Unclear(token) ==
  \/ token.tt \in {"unary", "colon", "variadic"}
  \/ token \in {Token("operator", Chars(o)) : o \in {"&&", "!"}}
  \/ token \in {Token("delimiter", <<c>>) : c \in {"[", "}", "."}}
  \/ token.tt = "keyword" /\ token.lexeme # Return

\* The tokens meant: a sign with nothing to its left belongs to what follows.
RECURSIVE Meant(_, _)
Meant(pieces, before) ==
  IF pieces = <<>> THEN <<>> ELSE
  LET tokens == Head(pieces).tokens
      sign == tokens # <<>> /\ Head(tokens) \in Sign
      meant == IF sign /\ ~Operand(before) THEN <<[tokens[1] EXCEPT !.tt = "unary"]>> ELSE tokens
  IN  meant \o Meant(Tail(pieces), IF meant = <<>> THEN before ELSE Last(meant))

Lists == UNION {[1..n -> Pieces] : n \in 0..2}
         \cup {<<p, q, r>> : p \in Pieces, q \in Operators \cup Delimiting \cup Blanks, r \in Pieces}

Clear(pieces) ==
  /\ \A i \in 1..Len(pieces) - 1 : ~Glued(pieces[i], pieces[i + 1])
  /\ LET tokens == Meant(pieces, EndOfFile) IN
     \A i \in 2..Len(tokens) :
       tokens[i].lexeme \in {<<"+">>, <<"-">>} /\ tokens[i].tt \in {"operator", "unary"}
         => ~Unclear(tokens[i - 1])

Text(pieces) ==
  [chars |-> FlattenSeq([i \in DOMAIN pieces |-> pieces[i].chars]),
   written |-> Append(Meant(pieces, EndOfFile), EndOfFile),
   whole |-> TRUE,
   known |-> \A i \in DOMAIN pieces : pieces[i].sort # "unknown"]

\* Texts that break off.
Broken ==
  {[chars |-> Chars(s), written |-> <<>>, whole |-> FALSE, known |-> TRUE] :
     s \in {"\"a", "\"\\", "'", "0x", "/*a\n", "//a", "/", "asm", "asm a", "asm a {", "asm a {{\n}"}}

AllTexts == {Text(pieces) : pieces \in {l \in Lists : Clear(l)}} \cup Broken
================================================================================
