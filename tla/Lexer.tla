------------------------------- MODULE Lexer -------------------------------
(***************************************************************************)
(* src/lexer/mod.rs: tokenize, as a function of the source text.           *)
(*                                                                         *)
(* A text is a sequence of characters; a run of letters that belongs       *)
(* together is one "character", as nothing looks inside it.  A token is    *)
(* [k, v, line]: its kind, which for keywords and punctuation is how it is *)
(* written, the value of an identifier or literal, and the line it starts  *)
(* on.  Columns are left out.                                              *)
(***************************************************************************)
EXTENDS Integers, SequencesExt

CONSTANT MaxInt         \* the largest number that an i64 literal may have: 2^63 - 1

ASSUME MaxIntAssumption == MaxInt \in Nat

DigitSeq == <<"0", "1", "2", "3", "4", "5", "6", "7", "8", "9">>

Digits == {DigitSeq[n] : n \in DOMAIN DigitSeq}

Blanks == {" ", "\t", "\r"}

NewLine == "\n"

Quote == "\""

\* Operators and punctuation of one and of two characters.
Short == {"{", "}", "(", ")", "[", "]", ",", ".", ":", ";", "=", "+", "-", "*", "/", "%", "?",
          "&", "|", "!", "<", ">", "@"}

Long == {"::", "==", "=>", "+=", "++", "->", "-=", "--", "*=", "/=", "%=", "&&", "||", "!=",
         "<=", ">="}

\* Characters that begin no token.
Strange == {"$", "\\", "#", "^", "~", "'"}

IsDigit(c) == c \in Digits

IsLetter(c) == c \notin Digits \cup Blanks \cup Short \cup Strange \cup {NewLine, Quote}

IsWord(c) == IsLetter(c) \/ IsDigit(c)

Keywords == {"func", "var", "class", "return", "if", "else", "while", "for", "break", "continue",
             "true", "false", "null", "extern", "mut", "region", "infs", "with", "imp", "try",
             "catch", "throw", "finally", "module", "import", "this"}

-----------------------------------------------------------------------------

\* The character at i; beyond the end there is none.
At(text, i) == IF i <= Len(text) THEN text[i] ELSE ""

\* The characters at i and behind it, as an operator would be written.
Two(text, i) == At(text, i) \o At(text, i + 1)

\* The end of the run of such characters that begins at i.
SpanEnd(text, i, Belongs(_)) ==
  CHOOSE j \in i .. Len(text) + 1 :
    /\ \A k \in i .. j - 1 : Belongs(text[k])
    /\ j <= Len(text) => ~Belongs(text[j])

\* The characters from i to before j, as one string; there is at least one.
Joined(text, i, j) == FlattenSeq(SubSeq(text, i, j - 1))

LinesIn(text, i, j) == Cardinality({k \in i .. j - 1 : text[k] = NewLine})

\* The position behind a block comment whose inside begins at i; a comment that is never
\* closed ends with the text.
RECURSIVE CommentEnd(_, _, _)
CommentEnd(text, i, depth) ==
  IF depth = 0 \/ i > Len(text) THEN i
  ELSE CASE Two(text, i) = "/*" -> CommentEnd(text, i + 2, depth + 1)
         [] Two(text, i) = "*/" -> CommentEnd(text, i + 2, depth - 1)
         [] OTHER -> CommentEnd(text, i + 1, depth)

\* The number that digits write.
NumberOf(digits) ==
  FoldLeft(LAMBDA n, d : 10 * n + (CHOOSE v \in 0 .. 9 : DigitSeq[v + 1] = d), 0, digits)

-----------------------------------------------------------------------------
(* String literals: [i, text, parts, line, ok] is a scan that has read up  *)
(* to i; text is what has been read since the last part.  A part is        *)
(* <<"text", s>> or <<"expr", characters>>, and ok says whether the        *)
(* literal is closed.                                                      *)

Literal(i, line) == [i |-> i, text |-> "", parts |-> <<>>, line |-> line, ok |-> FALSE]

WithText(s) == IF s.text = "" THEN s.parts ELSE Append(s.parts, <<"text", s.text>>)

\* What an escape stands for.
Escaped(c) ==
  CASE c = "n" -> NewLine
    [] c = "t" -> "\t"
    [] c = "r" -> "\r"
    [] c = "0" -> "NUL"
    [] OTHER -> c

\* \u{41} is the only code point that texts write; one that is none is dropped.
CodePoint(hex) == IF hex = <<"4", "1">> THEN "A" ELSE ""

\* The end of a string literal inside an interpolation: behind its quote.
RECURSIVE InnerEnd(_, _)
InnerEnd(text, i) ==
  CASE At(text, i) = "" -> i
    [] At(text, i) = Quote -> i + 1
    [] At(text, i) = "\\" /\ i < Len(text) -> InnerEnd(text, i + 2)
    [] OTHER -> InnerEnd(text, i + 1)

\* The position behind the bracket that closes ${, or 0.
RECURSIVE InterpEnd(_, _, _)
InterpEnd(text, i, depth) ==
  CASE At(text, i) = "" -> 0
    [] At(text, i) = Quote -> InterpEnd(text, InnerEnd(text, i + 1), depth)
    [] At(text, i) \in {"{", "(", "["} -> InterpEnd(text, i + 1, depth + 1)
    [] At(text, i) \in {"}", ")", "]"} ->
         IF depth = 1 THEN i + 1 ELSE InterpEnd(text, i + 1, depth - 1)
    [] OTHER -> InterpEnd(text, i + 1, depth)

\* The expression from i to before j is a part; the literal goes on at next.
WithExpr(text, s, i, j, next) ==
  [s EXCEPT !.parts = Append(WithText(s), <<"expr", SubSeq(text, i, j - 1)>>),
            !.text = "", !.i = next]

Plain(s, c, width) == [s EXCEPT !.text = @ \o c, !.i = @ + width]

RECURSIVE ScanString(_, _)
ScanString(text, s) ==
  LET c == At(text, s.i)
      next == At(text, s.i + 1)
      brace == SpanEnd(text, s.i, LAMBDA x : x # "}")
      interp == InterpEnd(text, s.i + 2, 1)
      name == SpanEnd(text, s.i + 1, IsWord)
      unicode == c = "\\" /\ next = "u" /\ At(text, s.i + 2) = "{"
  IN CASE c = "" -> s
       [] c = Quote -> [s EXCEPT !.i = @ + 1, !.ok = TRUE, !.parts = WithText(s)]
       [] unicode ->
            ScanString(text, Plain([s EXCEPT !.i = brace + 1],
                                   CodePoint(SubSeq(text, s.i + 3, brace - 1)), 0))
       [] c = "\\" /\ next # "" /\ ~unicode -> ScanString(text, Plain(s, Escaped(next), 2))
       [] c = "$" /\ next = "{" ->
            IF interp = 0 THEN s
            ELSE ScanString(text, WithExpr(text, s, s.i + 2, interp - 1, interp))
       [] c = "$" /\ next # "" /\ IsLetter(next) ->
            ScanString(text, WithExpr(text, s, s.i + 1, name, name))
       [] c = NewLine -> ScanString(text, [Plain(s, c, 1) EXCEPT !.line = @ + 1])
       [] OTHER -> ScanString(text, Plain(s, c, 1))

IsPlain(parts) == \A n \in DOMAIN parts : parts[n][1] = "text"

-----------------------------------------------------------------------------
(* The text as a whole: [i, line, newline, toks, ok] is a scan that has    *)
(* read up to i; newline says that nothing but blanks has been read since  *)
(* the last line end.                                                      *)

Token(k, v, line) == [k |-> k, v |-> v, line |-> line]

\* One round of the loop has read up to i, and perhaps found a token.
Skip(s, i) == [s EXCEPT !.i = i, !.newline = FALSE]

Found(s, i, k, v) ==
  [s EXCEPT !.i = i, !.newline = FALSE, !.toks = Append(@, Token(k, v, s.line))]

Wrong(s) == [s EXCEPT !.ok = FALSE]

\* A run of line ends, with blanks between them, is one token.
ScanNewLine(s) ==
  [s EXCEPT !.i = @ + 1, !.line = @ + 1, !.newline = TRUE,
            !.toks = IF s.newline THEN @ ELSE Append(@, Token("newline", "", s.line))]

\* Mutant: the line ends in a comment are not counted.
ScanCommentUncounted(text, s) == Skip(s, CommentEnd(text, s.i + 2, 1))

ScanComment(text, s) ==
  LET end == CommentEnd(text, s.i + 2, 1)
  IN [Skip(s, end) EXCEPT !.line = @ + LinesIn(text, s.i, end)]

ScanWord(text, s) ==
  LET end == SpanEnd(text, s.i, IsWord)
      word == Joined(text, s.i, end)
  IN IF word \in Keywords THEN Found(s, end, word, "") ELSE Found(s, end, "ident", word)

ScanNumber(text, s) ==
  LET whole == SpanEnd(text, s.i, IsDigit)
      value == NumberOf(SubSeq(text, s.i, whole - 1))
      end == SpanEnd(text, whole + 1, IsDigit)
  IN CASE At(text, whole) = "." /\ IsDigit(At(text, whole + 1)) ->
            Found(s, end, "float", Joined(text, s.i, end))
       [] value > MaxInt -> Wrong(s)
       [] OTHER -> Found(s, whole, "number", value)

ScanLiteral(text, s) ==
  LET literal == ScanString(text, Literal(s.i + 1, s.line))
      plain == IF literal.parts = <<>> THEN "" ELSE literal.parts[1][2]
  IN IF ~literal.ok THEN Wrong(s)
     ELSE [(IF IsPlain(literal.parts) THEN Found(s, literal.i, "string", plain)
            ELSE Found(s, literal.i, "interp", literal.parts))
             EXCEPT !.line = literal.line]

ScanOperator(text, s) ==
  IF Two(text, s.i) \in Long THEN Found(s, s.i + 2, Two(text, s.i), "")
  ELSE IF text[s.i] \in Short THEN Found(s, s.i + 1, text[s.i], "") ELSE Wrong(s)

ScanToken(text, s) ==
  LET c == text[s.i]
  IN CASE c \in Blanks -> [s EXCEPT !.i = @ + 1]
       [] c = NewLine -> ScanNewLine(s)
       [] Two(text, s.i) = "//" -> Skip(s, SpanEnd(text, s.i, LAMBDA x : x # NewLine))
       [] Two(text, s.i) = "/*" -> ScanComment(text, s)
       [] IsLetter(c) -> ScanWord(text, s)
       [] IsDigit(c) -> ScanNumber(text, s)
       [] c = Quote -> ScanLiteral(text, s)
       [] OTHER -> ScanOperator(text, s)

RECURSIVE Scan(_, _)
Scan(text, s) == IF s.i > Len(text) \/ ~s.ok THEN s ELSE Scan(text, ScanToken(text, s))

\* tokenize: the tokens, or an error.
Tokenize(text) ==
  LET s == Scan(text, [i |-> 1, line |-> 1, newline |-> FALSE, toks |-> <<>>, ok |-> TRUE])
  IN [ok |-> s.ok, toks |-> Append(s.toks, Token("eof", "", s.line))]

\* strip_newlines
NoNewlines(toks) == SelectSeq(toks, LAMBDA tok : tok.k # "newline")
=============================================================================
