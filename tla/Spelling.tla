------------------------------ MODULE Spelling ------------------------------
(***************************************************************************)
(* How a program is written, after sections 5.2 to 5.6 of docs.md: the     *)
(* reference that Lexer and Parser are compared with.                      *)
(*                                                                         *)
(* Spell gives the tokens of a node, <<kind, value>>, with parentheses     *)
(* only where the precedences of section 5.5 ask for them.  Two kinds that *)
(* no lexer knows stand for places: "sep" ends a statement, and at "brk" a *)
(* line may end.  Written lays such a sequence out as a text.              *)
(***************************************************************************)
EXTENDS Ast, SequencesExt, Integers, TLC

LOCAL Word(s) == <<<<s, "">>>>
LOCAL Id(x) == <<<<"ident", x>>>>
LOCAL Brk == Word("brk")
LOCAL Sep == Word("sep")

\* Between the items of a list, and around them, lines may end.
LOCAL Commas(items) ==
  FoldLeftDomain(LAMBDA s, i : s \o (IF i = 1 THEN <<>> ELSE Word(",") \o Brk) \o items[i],
                 <<>>, items)

LOCAL Parens(items) == Word("(") \o Brk \o Commas(items) \o Brk \o Word(")")

\* A module of a module is named "a::b".
LOCAL Split[s \in STRING] ==
  LET ends == {i \in 1 .. Len(s) - 1 : SubSeq(s, i, i + 1) = "::"}
      end == CHOOSE i \in ends : \A j \in ends : i <= j
  IN IF ends = {} THEN Id(s)
     ELSE Id(SubSeq(s, 1, end - 1)) \o Word("::") \o Split[SubSeq(s, end + 2, Len(s))]

LOCAL Name(n) == IF n[1] = NoModule THEN Id(n[2]) ELSE Split[n[1]] \o Word("::") \o Id(n[2])

\* A statement in words of one's own.
AsWritten(toks) == [k |-> "written", toks |-> toks]

-----------------------------------------------------------------------------
(* Types.                                                                  *)

RECURSIVE SpellType(_)
SpellType(t) ==
  CASE t[1] = "str" -> Id("String")
    [] t[1] \in {"int", "bool", "void", "float"} -> Id(t[1])
    [] t[1] = "named" -> Name(t[2])
    [] t[1] = "ptr" -> Word("&") \o (IF t[2] THEN Word("mut") ELSE <<>>) \o SpellType(t[3])
    [] t[1] = "array" -> Word("[") \o SpellType(t[2]) \o Word("]")
    [] t[1] = "list" -> Id("List") \o Word("[") \o SpellType(t[2]) \o Word("]")
    [] t[1] = "map" ->
         Id("Map") \o Word("[") \o Commas(<<SpellType(t[2]), SpellType(t[3])>>) \o Word("]")
    [] t[1] = "generic" ->
         Id(t[2]) \o Word("[") \o Commas([i \in DOMAIN t[3] |-> SpellType(t[3][i])]) \o Word("]")
    [] t[1] = "trait" -> Id("dyn") \o Name(t[2])
    [] t[1] = "fn" ->
         Parens([i \in DOMAIN t[2] |-> SpellType(t[2][i])]) \o Word("->") \o SpellType(t[3])

LOCAL Types(ts) == Commas([i \in DOMAIN ts |-> SpellType(ts[i])])

LOCAL Result(t) == IF t = TVoid THEN <<>> ELSE Word("->") \o SpellType(t)

LOCAL SpellParam(p) ==
  Id(p.name) \o (IF p.ty = NoType THEN <<>> ELSE Word(":") \o SpellType(p.ty))

LOCAL Params(ps) == [i \in DOMAIN ps |-> SpellParam(ps[i])]

-----------------------------------------------------------------------------
(* Expressions and statements.  A node binds as tightly as its row says:   *)
(* 0 assignment and closure, 1 ternary, 2 to 7 the binary operators, 8     *)
(* prefix operators, 9 what follows an operand, 10 the rest.               *)

LOCAL BinaryRow ==
  [op \in {"||", "&&", "==", "!=", "<", "<=", ">", ">=", "+", "-", "*", "/", "%"} |->
     CASE op = "||" -> 2
       [] op = "&&" -> 3
       [] op \in {"==", "!="} -> 4
       [] op \in {"<", "<=", ">", ">="} -> 5
       [] op \in {"+", "-"} -> 6
       [] OTHER -> 7]

LOCAL Row(e) ==
  CASE e.k \in {"assign", "closure", "ifonly"} -> 0
    [] e.k = "ternary" -> 1
    [] e.k = "binary" -> BinaryRow[e.op]
    [] e.k = "unary" -> 8
    [] e.k \in {"call", "method", "field", "index"} -> 9
    [] OTHER -> 10

\* A member or an element that is called is put in parentheses: o.f(x) is a method, and
\* x[T](y) calls a generic function.
LOCAL CalleeRow(e) == IF e.k \in {"field", "index"} THEN 10 ELSE 9

LOCAL Labels(what) == [i \in DOMAIN what |-> Id(what[i][1]) \o Word(":") \o what[i][2]]

RECURSIVE Spell(_), Block_(_), AtRow(_, _)

\* Parentheses where a node stands that must bind at least as tightly as row.
AtRow(e, row) == IF Row(e) < row THEN Parens(<<Spell(e)>>) ELSE Spell(e)

LOCAL All(es) == [i \in DOMAIN es |-> Spell(es[i])]

LOCAL Enclosed(items) == Word("{") \o Brk \o Commas(items) \o Brk \o Word("}")

LOCAL Fields(fs) == Enclosed([i \in DOMAIN fs |-> Id(fs[i][1]) \o Word(":") \o Spell(fs[i][2])])

Block_(stmts) ==
  Word("{") \o Brk \o FlattenSeq([i \in DOMAIN stmts |-> Spell(stmts[i]) \o Sep]) \o Word("}")

\* An expression that would begin like a statement of another kind is put in parentheses.
LOCAL Effect(toks) == IF toks[1][1] = "if" THEN Parens(<<toks>>) ELSE toks

LOCAL Condition(c) == Word("(") \o Brk \o Spell(c) \o Word(")")

Spell(n) ==
  CASE n.k = "int" -> <<<<"number", n.int>>>>
    [] n.k = "floatlit" -> <<<<"float", n.name>>>>
    [] n.k = "bool" -> Word(IF n.bool THEN "true" ELSE "false")
    [] n.k = "str" -> <<<<"string", n.str>>>>
    [] n.k = "null" -> Word("null")
    [] n.k = "id" -> IF n.name = "this" THEN Word("this") ELSE Id(n.name)
    [] n.k = "path" -> Name(<<n.mod, n.name>>)
    [] n.k = "binary" ->
         AtRow(n.l, BinaryRow[n.op]) \o Word(n.op) \o AtRow(n.r, BinaryRow[n.op] + 1)
    [] n.k = "unary" ->
         (IF n.op = "&mut" THEN Word("&") \o Word("mut") ELSE Word(n.op)) \o AtRow(n.e, 8)
    [] n.k = "ternary" ->
         AtRow(n.c, 2) \o Word("?") \o Brk \o AtRow(n.l, 2) \o Word(":") \o Brk \o AtRow(n.r, 1)
    [] n.k = "assign" -> AtRow(n.l, 1) \o Word("=") \o Brk \o Spell(n.r)
    [] n.k = "call" -> AtRow(n.e, CalleeRow(n.e)) \o Parens(All(n.args))
    [] n.k = "field" -> AtRow(n.e, 9) \o Word(".") \o Id(n.name)
    [] n.k = "method" -> AtRow(n.e, 9) \o Word(".") \o Id(n.name) \o Parens(All(n.args))
    [] n.k = "index" -> AtRow(n.l, 9) \o Word("[") \o Spell(n.r) \o Brk \o Word("]")
    [] n.k = "struct" -> Name(n.type) \o Fields(n.fields)
    [] n.k = "glit" -> Id(n.name) \o Word("[") \o Types(n.targs) \o Word("]") \o Fields(n.fields)
    [] n.k = "gcall" ->
         Id(n.name) \o Word("[") \o Types(n.targs) \o Word("]") \o Parens(All(n.args))
    [] n.k = "list" -> Word("[") \o Brk \o Commas(All(n.args)) \o Brk \o Word("]")
    [] n.k = "map" ->
         SpellType(Map(TStr, TInt))
           \o Enclosed([i \in DOMAIN n.pairs |->
                          Spell(n.pairs[i][1]) \o Word(":") \o Spell(n.pairs[i][2])])
    [] n.k = "closure" ->
         Word("|") \o Commas(Params(n.params)) \o Word("|") \o Result(n.ret) \o Brk \o Spell(n.e)
    [] n.k = "block" -> Block_(n.body)
    [] n.k = "ifexpr" ->
         Word("if") \o Condition(n.c) \o Brk \o AtRow(n.l, 10) \o Brk \o Word("else") \o Brk
           \o AtRow(n.r, 10)
    [] n.k = "ifonly" -> Word("if") \o Condition(n.c) \o Brk \o AtRow(n.l, 10)
    [] n.k = "interp" ->
         <<<<"interp", [i \in DOMAIN n.args |->
                          IF n.args[i].k = "str" THEN <<"text", n.args[i].str>>
                          ELSE <<"expr", Spell(n.args[i])>>]>>>>
    [] n.k = "let" ->
         Word("var") \o SpellParam(Param(n.name, n.ty))
           \o (IF n.e = NullLit THEN <<>> ELSE Brk \o Word("=") \o Brk \o Spell(n.e))
    [] n.k = "expr" -> Effect(Spell(n.e))
    [] n.k = "return" -> Word("return") \o Spell(n.e)
    [] n.k \in {"returnvoid", "break", "continue", "absent"} ->
         IF n.k = "absent" THEN <<>> ELSE Word(IF n.k = "returnvoid" THEN "return" ELSE n.k)
    [] n.k = "throw" -> Word("throw") \o Spell(n.e)
    [] n.k = "if" ->
         Word("if") \o Condition(n.c) \o Brk \o Block_(n.then)
           \o CASE n.else = <<>> -> <<>>
                [] Len(n.else) = 1 /\ n.else[1].k = "if" ->
                     Brk \o Word("else") \o Brk \o Spell(n.else[1])
                [] OTHER -> Brk \o Word("else") \o Brk \o Block_(n.else)
    [] n.k = "while" -> Word("while") \o Condition(n.c) \o Brk \o Block_(n.body)
    [] n.k = "for" ->
         Word("for") \o Word("(") \o (IF n.init = <<>> THEN <<>> ELSE Spell(n.init[1]))
           \o Word(";") \o Spell(n.c) \o Word(";") \o Spell(n.step) \o Word(")")
           \o Brk \o Block_(n.body)
    [] n.k = "try" ->
         Word("try") \o Brk \o Block_(n.body)
           \o (IF n.catch = <<>> THEN <<>>
               ELSE Brk \o Word("catch") \o Word("(") \o Id(n.catch[1][1]) \o Word(")") \o Brk
                      \o Block_(n.catch[1][2]))
           \o (IF n.finally = <<>> THEN <<>>
               ELSE Brk \o Word("finally") \o Brk \o Block_(n.finally[1]))
    [] n.k = "written" -> n.toks
    [] n.k = "directive" ->
         Word("@") \o Id(n.ann.name) \o Parens([i \in DOMAIN n.ann.args |->
           (IF n.ann.args[i][1] = "" THEN <<>> ELSE Id(n.ann.args[i][1]) \o Word("="))
             \o <<n.ann.args[i][2]>>])

-----------------------------------------------------------------------------
(* Declarations: [kind, v], as they follow each other in a file.           *)

LOCAL TypeParams(ps) ==
  IF ps = <<>> THEN <<>>
  ELSE Word("[") \o Commas([i \in DOMAIN ps |->
         Id(ps[i][1]) \o (IF ps[i][2] = <<>> THEN <<>> ELSE Word(":") \o Name(ps[i][2][1]))])
       \o Word("]")

LOCAL Annotations(anns) ==
  FlattenSeq([i \in DOMAIN anns |-> Spell(Directive(anns[i]))])

LOCAL Signature(name, params, ret) == Id(name) \o Parens(Params(params)) \o Result(ret)

LOCAL Func(f) ==
  Annotations(f.anns) \o Brk \o Word("func") \o Id(f.def.name) \o TypeParams(f.tparams)
    \o Parens(Params(f.def.params)) \o Brk \o Result(f.def.ret) \o Brk \o Block_(f.def.body)

LOCAL Members(items) ==
  Word("{") \o Brk \o FlattenSeq([i \in DOMAIN items |-> items[i] \o Sep]) \o Word("}")

SpellDecl(d) ==
  CASE d.kind = "modules" -> Word("module") \o Id(d.v)
    [] d.kind = "imports" -> Word("import") \o <<<<"string", d.v>>>>
    [] d.kind = "globals" -> Spell(d.v)
    [] d.kind = "written" -> d.v
    [] d.kind = "funcs" -> Func(d.v)
    [] d.kind = "structs" ->
         Annotations(d.v.anns) \o Word("class") \o Id(d.v.def.name) \o TypeParams(d.v.tparams)
           \o Brk \o Members(Params(d.v.def.fields))
    [] d.kind = "externs" ->
         Word("extern") \o <<<<"string", d.v.abi>>>> \o Word("func")
           \o Signature(d.v.name, d.v.params, d.v.ret)
    [] d.kind = "traits" ->
         Word("infs") \o Id(d.v.name)
           \o Members([i \in DOMAIN d.v.methods |->
                Word("func") \o Signature(d.v.methods[i].name, d.v.methods[i].params,
                                          d.v.methods[i].ret)])
    [] d.kind = "impls" ->
         (IF d.v.trait = <<>> THEN Word("with")
          ELSE Word("imp") \o Name(d.v.trait[1]) \o Word("for"))
           \o Name(d.v.type) \o TypeParams(d.v.tparams)
           \o Members([i \in DOMAIN d.v.methods |-> Func(d.v.methods[i])])

SpellFile(decls) == FlattenSeq([i \in DOMAIN decls |-> SpellDecl(decls[i]) \o Sep])

-----------------------------------------------------------------------------
(* Layouts: how the tokens stand in the text.                              *)

LOCAL Chars(s) == [i \in 1 .. Len(s) |-> SubSeq(s, i, i)]

LOCAL Numeral[n \in Nat] ==
  IF n < 10 THEN Chars(ToString(n)) ELSE Numeral[n \div 10] \o Chars(ToString(n % 10))

\* Letters of one word are one character.
LOCAL Letters == {"ident", "if", "else", "while", "for", "var", "return", "break", "continue",
                  "throw", "try", "catch", "finally", "func", "class", "infs", "with", "imp",
                  "extern", "module", "import", "true", "false", "null", "mut", "this"}

LOCAL Wordlike == Letters \cup {"number", "float"}

\* What a string contains is written with escapes where it has to be.
LOCAL Escape(s) ==
  CASE s = "\n" -> <<"\\", "n">>
    [] s = "\"" -> <<"\\", "\"">>
    [] s = "$" -> <<"\\", "$">>
    [] s = "A" -> <<"\\", "u", "{", "4", "1", "}">>
    [] s = "" -> <<>>
    [] OTHER -> <<s>>

\* Two tokens that must be kept apart: together they would be read as something else.
Together ==
  {"::", "==", "=>", "+=", "++", "->", "-=", "--", "*=", "/=", "%=", "&&", "||", "!=", "<=", ">=",
   "//", "/*"}

LOCAL LastChar(k) == SubSeq(k, Len(k), Len(k))

LOCAL Apart(a, b) ==
  \/ a \in Wordlike /\ b \in Wordlike
  \/ /\ a \notin Wordlike \cup {"", "string", "interp"}
     /\ b \notin Wordlike \cup {"string", "interp"}
     /\ LastChar(a) \o SubSeq(b, 1, 1) \in Together

\* The characters of a token, where the expressions in a string are written with blanks.
RECURSIVE Glyphs(_), Inside(_)
Glyphs(tok) ==
  CASE tok[1] = "ident" -> <<tok[2]>>
    [] tok[1] = "number" -> Numeral[tok[2]]
    [] tok[1] = "float" -> Chars(tok[2])
    [] tok[1] = "string" -> <<"\"">> \o Escape(tok[2]) \o <<"\"">>
    [] tok[1] = "interp" ->
         <<"\"">> \o FlattenSeq([i \in DOMAIN tok[2] |->
             IF tok[2][i][1] = "text" THEN Escape(tok[2][i][2])
             ELSE <<"$", "{">> \o Inside(tok[2][i][2]) \o <<"}">>]) \o <<"\"">>
    [] OTHER -> IF tok[1] \in Letters THEN <<tok[1]>> ELSE Chars(tok[1])

Inside(toks) ==
  FoldLeft(LAMBDA s, tok :
             CASE tok[1] = "brk" -> s
               [] tok[1] = "sep" -> s \o <<";">>
               [] OTHER -> s \o <<" ">> \o Glyphs(tok), <<>>, toks)

\* The value that the token has for the lexer.
LOCAL Value(tok) ==
  IF tok[1] = "interp"
  THEN [i \in DOMAIN tok[2] |->
          IF tok[2][i][1] = "text" THEN tok[2][i] ELSE <<"expr", Inside(tok[2][i][2])>>]
  ELSE tok[2]

\* A sheet is what has been written: its characters and tokens, the line reached, the last
\* token and whether nothing follows the last line end.
LOCAL Sheet == [text |-> <<>>, toks |-> <<>>, line |-> 1, last |-> "", fresh |-> FALSE]

LOCAL Blank(sheet, chars) == [sheet EXCEPT !.text = @ \o chars]

LOCAL Token(sheet, tok) ==
  [sheet EXCEPT !.text = @ \o Glyphs(tok), !.last = tok[1], !.fresh = FALSE,
                !.toks = Append(@, [k |-> tok[1], v |-> Value(tok), line |-> sheet.line])]

LOCAL LineEnd(sheet) ==
  [sheet EXCEPT !.text = Append(@, "\n"), !.line = @ + 1, !.last = "", !.fresh = TRUE,
                !.toks = IF sheet.fresh THEN @
                         ELSE Append(@, [k |-> "newline", v |-> "", line |-> sheet.line])]

LOCAL Comment == <<"/", "*", "\n", "/", "*", "\"", "*", "/", "*", "/">>

LOCAL Remark(sheet) == [Blank(sheet, <<" ", "/", "/", "c", "/", "*", "\"">>) EXCEPT !.fresh = FALSE]

\* The next token in a layout.
LOCAL Put(sheet, tok, layout) ==
  CASE tok[1] = "sep" ->
         CASE layout = "lines" -> LineEnd(Remark(sheet))
           [] layout = "plain" -> LineEnd(sheet)
           [] OTHER -> Token(sheet, <<";", "">>)
    [] tok[1] = "brk" -> IF layout = "lines" THEN LineEnd(Blank(sheet, <<"\t">>)) ELSE sheet
    [] OTHER ->
         CASE layout = "tight" ->
                Token(IF Apart(sheet.last, tok[1]) THEN Blank(sheet, <<" ">>) ELSE sheet, tok)
           [] layout = "commented" -> Token([Blank(sheet, Comment) EXCEPT !.line = @ + 1], tok)
           [] OTHER -> Token(Blank(sheet, <<" ">>), tok)

Layouts == {"tight", "lines", "commented"}

RECURSIVE WrittenFrom(_, _, _, _)
WrittenFrom(sheet, toks, i, layout) ==
  LET next == Put(sheet, toks[i], layout)
  IN IF i > Len(toks) THEN sheet
     ELSE IF next.line = 0 THEN sheet ELSE WrittenFrom(next, toks, i + 1, layout)

Written(toks, layout) ==
  LET sheet == WrittenFrom(Sheet, toks, 1, layout)
  IN [text |-> sheet.text,
      toks |-> Append(sheet.toks, [k |-> "eof", v |-> "", line |-> sheet.line])]
=============================================================================
