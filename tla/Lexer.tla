--------------------------------- MODULE Lexer ---------------------------------
(***************************************************************************)
(* The lexer: analyze() calls get_next_token(), which tries one rule after *)
(* another at the cursor, until it meets the end of the text.  A step is   *)
(* one token, one comment or one blank (which are unknown tokens, skipped  *)
(* by analyze()).  A text comes with the tokens its author wrote.          *)
(*                                                                         *)
(* A character is a string of length one, a lexeme a sequence of them; a   *)
(* number keeps the characters it was read from instead of its value.      *)
(* Only the letters and keywords that a rule tells apart are listed.        *)
(***************************************************************************)
EXTENDS Naturals, SequencesExt, FiniteSetsExt

CONSTANT Source   \* texts: [chars, written: the tokens its author wrote,
                  \* whole: FALSE when it breaks off within one,
                  \* known: whether the language has all its characters]

VARIABLES
  text,    \* an element of Source
  pos, line,
  token_stream,
  mode     \* "analyze"; after asm "type", "brace" and "body"; "done"

lexVars == <<text, pos, line, token_stream, mode>>

source == text.chars

Token(tt, lexeme) == [tt |-> tt, lexeme |-> lexeme]
EndOfFile == Token("end_of_file", <<>>)

\* Mutant: the end of a line is not whitespace.
WhitespaceBlanks == {" ", "\t"}

Whitespace == {" ", "\t", "\n", "\r"}
Newlines   == {"\n", "\r"}
Digit   == {"0", "1", "2", "3", "4", "5", "6", "7", "8", "9"}
Octal   == Digit \ {"8", "9"}
HexDigit == Digit \cup {"a", "b", "c", "d", "e", "f", "A", "B", "C", "D", "E", "F"}
Alphanumeric == Digit \cup {"a", "b", "d", "e", "f", "i", "l", "m", "n", "r", "s", "t", "u", "x", "_"}
Delimiters == {")", "(", "]", "[", "}", "{", ";", ",", "."}

SingleOperators == {<<c>> : c \in {">", "<", "!", "+", "-", "*", "/", "%", "^", "&", "~", "|", "=", "@", "$"}}
DoubleOperators ==
  {<<c, "=">> : c \in {"=", "!", ">", "<", "+", "-", "*", "/", "%", "&", "|", "^"}}
  \cup {<<c, c>> : c \in {"&", "|", "<", ">"}}
TripleOperators == {<<"<", "<", "=">>, <<">", ">", "=">>}

If     == <<"i", "f">>
Else   == <<"e", "l", "s", "e">>
Return == <<"r", "e", "t", "u", "r", "n">>
Asm    == <<"a", "s", "m">>
Keywords == {If, Else, Else \o If, Return, Asm}

\* After these a sign belongs to what follows it; nothing comes before the first.
UnaryContext ==
  {EndOfFile, Token("keyword", Return)}
  \cup {Token("delimiter", <<c>>) : c \in {"(", ",", "{", ";"}}
  \cup {Token("operator", o) :
          o \in (SingleOperators \ {<<c>> : c \in {"!", "~", "@", "$"}})
                \cup (DoubleOperators \ {<<"&", "&">>, <<"|", "|">>}) \cup TripleOperators}

Sign == {Token("operator", <<"+">>), Token("operator", <<"-">>)}

LexInit ==
  /\ text \in Source
  /\ pos = 1 /\ line = 1 /\ token_stream = <<>> /\ mode = "analyze"

-------------------------------------------------------------------------------
(* The cursor. *)

\* The characters at the cursor; past the end of the text there are none.
Ahead(n) == SubSeq(source, pos, Min({pos + n - 1, Len(source)}))
AtEnd == pos > Len(source)
Here  == source[pos]

Scanning == mode \in {"analyze", "type", "brace"} /\ ~AtEnd

\* The position behind a closing character, if the text has it.
Past(end) == Min({end + 1, Len(source) + 1})

\* Mutant: an end of line inside a comment is not counted.
SkipUncounted(to) ==
  /\ pos' = to
  /\ line' = line + IF Here \in Newlines THEN 1 ELSE 0
  /\ UNCHANGED <<text, token_stream, mode>>

\* increment(): the cursor moves over the characters in front of `to'.
Skip(to) ==
  /\ pos' = to
  /\ line' = line + Cardinality({i \in pos..Min({to - 1, Len(source)}) : source[i] \in Newlines})
  /\ UNCHANGED <<text, token_stream, mode>>

\* Mutant: the previous token is the one before the last.
PreviousStale ==
  IF Len(token_stream) < 2 THEN EndOfFile ELSE token_stream[Len(token_stream) - 1]

Previous == IF token_stream = <<>> THEN EndOfFile ELSE Last(token_stream)

\* analyze() makes a sign unary; the type and the brace behind asm go in as they are.
Take(token, to) ==
  LET unary == mode = "analyze" /\ token \in Sign /\ Previous \in UnaryContext IN
  /\ token_stream' = Append(token_stream, IF unary THEN [token EXCEPT !.tt = "unary"] ELSE token)
  /\ mode' = CASE mode = "analyze" /\ token = Token("keyword", Asm) -> "type"
               [] mode = "analyze" /\ token # Token("keyword", Asm) -> "analyze"
               [] mode = "type" -> "brace"
               [] mode = "brace" -> "body"
  /\ pos' = to
  /\ UNCHANGED <<text, line>>

\* The first position from `from' on whose character is not in the set.
EndOf(from, set) == Min({i \in from..Len(source) : source[i] \notin set} \cup {Len(source) + 1})

-------------------------------------------------------------------------------
(* The rules of get_next_token(), in order. *)

HandleWhitespace == Scanning /\ Here \in Whitespace /\ Skip(pos + 1)

\* handle_escape_sequences(): the characters up to the quote, and where it is.
EscapeSequences(quote, from) ==
  LET Escaped(i) == IF i > Len(source) THEN <<>> ELSE
        CASE source[i] = "n" -> <<"\n">> [] source[i] = "r" -> <<"\r">>
          [] source[i] = "t" -> <<"\t">> [] OTHER -> <<source[i]>>
      read[i \in from..Len(source) + 2] ==
        IF i > Len(source) \/ source[i] = quote THEN [chars |-> <<>>, end |-> i]
        ELSE IF source[i] = "\\" THEN [read[i + 2] EXCEPT !.chars = Escaped(i + 1) \o @]
        ELSE [read[i + 1] EXCEPT !.chars = <<source[i]>> \o @]
  IN  read[from]

HandleString ==
  LET body == EscapeSequences("\"", pos + 1) IN
  /\ Scanning /\ Here = "\""
  /\ Take(Token("string", body.chars), Past(body.end))

HandleChar ==
  LET body == EscapeSequences("'", pos + 1) IN
  /\ Scanning /\ Here = "'"
  /\ Take(Token("char", body.chars), Past(body.end))

\* handle_numeric(): hexadecimal, binary and octal numbers, and the rest, which
\* takes every point, e and sign that follows.
NumberEnd ==
  LET second == SubSeq(source, pos + 1, Min({pos + 1, Len(source)})) IN
  CASE Here = "0" /\ second \in {<<"x">>, <<"X">>} -> EndOf(pos + 2, HexDigit)
    [] Here = "0" /\ second \in {<<"b">>, <<"B">>} -> EndOf(pos + 2, {"0", "1"})
    [] Here = "0" /\ second \notin {<<c>> : c \in {"x", "X", "b", "B", "."}} -> EndOf(pos + 1, Octal)
    [] OTHER -> EndOf(pos, Digit \cup {".", "e", "E", "-", "+"})

HandleNumeric ==
  LET number == SubSeq(source, pos, NumberEnd - 1)
      prefixed == Here = "0" /\ Ahead(2) # <<"0", ".">>
      float == ~prefixed /\ Range(number) \cap {".", "e", "E"} # {}
  IN
  /\ Scanning /\ Here \in Digit
  /\ Take(Token(IF float THEN "float" ELSE "number", number), NumberEnd)

Variadic == Ahead(3) = <<".", ".", ".">>

HandleVariadic == Scanning /\ Variadic /\ Take(Token("variadic", <<>>), pos + 3)

HandleDelimiter ==
  /\ Scanning /\ Here \in Delimiters /\ ~Variadic
  /\ Take(Token("delimiter", <<Here>>), pos + 1)

Comment == Ahead(2) \in {<<"/", "/">>, <<"/", "*">>}

\* The longest operator at the cursor.
Operator ==
  CASE Ahead(3) \in TripleOperators -> Ahead(3)
    [] Ahead(3) \notin TripleOperators /\ Ahead(2) \in DoubleOperators -> Ahead(2)
    [] OTHER -> Ahead(1)

HandleOperator ==
  /\ Scanning /\ ~Comment
  /\ Operator \in SingleOperators \cup DoubleOperators \cup TripleOperators
  /\ Take(Token("operator", Operator), pos + Len(Operator))

\* handle_comment(), reached through handle_operator().
HandleComment ==
  LET closing == {i \in pos + 2..Len(source) - 1 : source[i] = "*" /\ source[i + 1] = "/"} IN
  /\ Scanning /\ Comment
  /\ Skip(IF source[pos + 1] = "/" THEN EndOf(pos, {source[i] : i \in DOMAIN source} \ Newlines)
          ELSE Min({i + 2 : i \in closing} \cup {Len(source) + 1}))

HandleColon ==
  /\ Scanning /\ Here = ":"
  /\ Take(Token("colon", Ahead(IF Ahead(2) = <<":", ":">> THEN 2 ELSE 1)),
          pos + IF Ahead(2) = <<":", ":">> THEN 2 ELSE 1)

\* handle_symbol(): else, spaces and if are one keyword.
HandleSymbol ==
  LET end == EndOf(pos, Alphanumeric)
      lexeme == SubSeq(source, pos, end - 1)
      after == EndOf(end, {" "})
      elseif == lexeme = Else /\ after > end
                /\ SubSeq(source, after, Min({after + 1, Len(source)})) = If
      tt == IF lexeme \in Keywords THEN "keyword" ELSE "identifier"
  IN
  /\ Scanning /\ Here \in Alphanumeric \ Digit
  /\ IF elseif THEN Take(Token("keyword", Else \o If), after + 2)
     ELSE Take(Token(tt, lexeme), end)

\* No rule knows the character: the unknown token leaves the cursor where it is.
UnknownToken ==
  /\ Scanning
  /\ Here \notin Whitespace \cup Delimiters \cup Alphanumeric \cup {"\"", "'", ":"}
  /\ <<Here>> \notin SingleOperators
  /\ UNCHANGED lexVars

\* The token at the end of the text ends analyze(), except behind asm.
HandleEndOfFile ==
  /\ mode \in {"analyze", "type", "brace"} /\ AtEnd
  /\ token_stream' = Append(token_stream, EndOfFile)
  /\ mode' = CASE mode = "analyze" -> "done" [] mode = "type" -> "brace" [] mode = "brace" -> "body"
  /\ UNCHANGED <<text, pos, line>>

\* The brace that closes the one in front of the body.
AsmEnd ==
  LET Braces(c, i) == Cardinality({j \in pos..i : source[j] = c})
  IN  Min({i \in pos..Len(source) : Braces("}", i) > Braces("{", i)} \cup {Len(source) + 1})

\* handle_asm_block(): the body is one token, and its brace another.
HandleAsmBlock ==
  /\ mode = "body"
  /\ token_stream' = token_stream \o <<Token("asm_body", SubSeq(source, pos, AsmEnd - 1)),
                                       Token("delimiter", <<"}">>)>>
  /\ pos' = Past(AsmEnd)
  /\ line' = line + Cardinality({i \in pos..AsmEnd - 1 : source[i] \in Newlines})
  /\ mode' = "analyze"
  /\ UNCHANGED text

LexNext ==
  \/ HandleWhitespace \/ HandleString \/ HandleChar \/ HandleNumeric
  \/ HandleVariadic \/ HandleDelimiter \/ HandleOperator \/ HandleComment
  \/ HandleColon \/ HandleSymbol \/ UnknownToken
  \/ HandleEndOfFile \/ HandleAsmBlock

\* analyze() goes on calling get_next_token().
LexSpec == LexInit /\ [][LexNext]_lexVars /\ WF_lexVars(LexNext)

-------------------------------------------------------------------------------
(* Correctness. *)

\* analyze() finds the tokens that were written, whatever stands between them:
\* blanks, comments, or nothing at all.
ReadsAsWritten == mode = "done" /\ text.whole => token_stream = text.written

\* Errors are reported at the right line: every end of line in front of the
\* cursor counts, in a comment and in an asm block too.
LineRight ==
  line = 1 + Cardinality({i \in 1..pos - 1 : source[i] = "\n"})

\* A text made of characters of the language is read to its end.
Analyzed == text.known ~> mode = "done"
================================================================================
