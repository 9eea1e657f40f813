----------------------------- MODULE MCFrontEnd -----------------------------
(***************************************************************************)
(* Lexer and parser on programs as the language description writes them,   *)
(* in several layouts, and on token sequences that differ from a program   *)
(* in one place.                                                           *)
(***************************************************************************)
EXTENDS Parser

S == INSTANCE Spelling

CONSTANTS
  Cases,    \* the programs of this run, with their layouts,
  Changes   \* and its changes of samples

VARIABLES
  input,    \* the case: a program, or a change of a sample
  text,     \* the source text
  toks,     \* what the lexer has made of it
  tree,     \* what the parser has made of that, and where it has stopped
  stage,    \* "program" or "near", "text", "tokens", "tree" or "rejected"
  meant     \* what the text was written from

vars == <<input, text, toks, tree, stage, meant>>

Unknown == [toks |-> <<>>, prog |-> <<>>]

-----------------------------------------------------------------------------
(* Programs: sequences of declarations.                                    *)

X(x) == Ident(x)

Func(name, body) == FuncDecl(FuncDef(NoModule, name, <<>>, TVoid, body), <<>>, <<>>)

\* The body of a function that is the whole program.
Body(stmts) == <<[kind |-> "funcs", v |-> Func("main", stmts)]>>

\* Every place that an expression may stand in.
P == Param("p", TInt)

Places(e) ==
  {Binary(op, e, X("b")) : op \in {"||", "&&", "==", "<", "+", "-", "*", "/"}}
    \cup {Binary(op, X("a"), e) : op \in {"||", "&&", "!=", ">=", "+", "-", "%", "/"}}
    \cup {Unary(op, e) : op \in {"-", "!", "*", "&", "&mut"}}
    \cup {Ternary(e, X("l"), X("r")), Ternary(X("c"), e, X("r")), Ternary(X("c"), X("l"), e),
          Assign(e, X("r")), Assign(X("l"), e), Call(e, <<X("a"), IntLit(12)>>), Call(X("f"), <<e>>),
          Field(e, "f"), Method(e, "m", <<>>), Method(X("o"), "m", <<X("a"), e>>),
          Index(e, X("i")), Index(X("xs"), e), ListLit(<<e, X("b")>>),
          MapLit(<<<<StrLit("k"), e>>, <<e, NullLit>>>>),
          StructLit(<<NoModule, "S">>, <<<<"f", e>>, <<"g", X("b")>>>>),
          StructLit(<<"m", "S">>, <<<<"f", e>>>>), GenericLit("G", <<TInt>>, <<<<"f", e>>>>),
          GenericCall("g", <<TStr, Named(<<NoModule, "S">>)>>, <<e>>),
          Closure(<<P, Param("q", NoType)>>, TVoid, e), Closure(<<>>, TInt, Block(<<Return(e)>>)),
          Block(<<Expr(e)>>), IfExpr(e, X("l"), X("r")), IfExpr(X("c"), e, e), IfOnly(X("c"), e),
          Interp(<<StrLit("s"), e, X("x")>>)}

Expressions == UNION {Places(e) : e \in Places(X("x")) \cup {Path("m", "f"), IntLit(7)}}

\* Every form of statement, around a statement.
Forms(s) ==
  {If(X("c"), <<s>>, <<>>), If(X("c"), <<s, Expr(X("y"))>>, <<s>>),
   If(X("c"), <<>>, <<If(X("d"), <<s>>, <<Break>>)>>), While(X("c"), <<s>>),
   For(<<Let("i", TInt, IntLit(0))>>, X("c"), Assign(X("i"), X("n")), <<s>>),
   For(<<Expr(Call(X("f"), <<>>))>>, Absent, Absent, <<s, Continue>>),
   For(<<>>, X("c"), Absent, <<s>>),
   Try(<<s>>, <<<<"e", <<s>>>>>>, <<>>), Try(<<s>>, <<>>, <<<<s>>>>),
   Try(<<>>, <<<<"e", <<>>>>>>, <<<<s, s>>>>), Expr(Block(<<s>>)),
   Let("h", NoType, Closure(<<P>>, TVoid, Block(<<s, ReturnVoid>>)))}

Types ==
  {TInt, TBool, TStr, TFloat, Named(<<NoModule, "S">>), Named(<<"m", "S">>), Ptr(TRUE, TInt),
   Ptr(FALSE, Ptr(TRUE, Named(<<NoModule, "S">>))), Array(TInt), List(List(TInt)),
   Map(TStr, List(TBool)), Generic("G", <<TInt, Generic("H", <<TStr>>)>>), Trait(<<"m", "T">>),
   Fn(<<TInt, Ptr(FALSE, TStr)>>, TVoid), Fn(<<>>, Fn(<<TInt>>, TInt))}

Simple ==
  {ReturnVoid, Return(X("x")), Throw(StrLit("$")), Break,
   Directive(Annotation("note", <<<<"", <<"ident", "Heap">>>>, <<"n", <<"number", 3>>>>>>)),
   Expr(Interp(<<X("a"), StrLit("\n"), Call(X("f"), <<StrLit("\"")>>)>>)),
   Expr(IfExpr(X("c"), StrLit("A"), StrLit(""))), Expr(FloatLit("1.50")), Expr(X("this"))}
    \cup {Let("v", t, NullLit) : t \in Types}

Statements ==
  Simple \cup UNION {Forms(s) : s \in Simple \cup UNION {Forms(t) : t \in {Break, ReturnVoid}}}

Bodies ==
  {<<Expr(e), Return(e)>> : e \in Expressions} \cup {<<s, Expr(X("z"))>> : s \in Statements}

\* Files with declarations of every kind.
Decl(kind, v) == [kind |-> kind, v |-> v]

Method1 == FuncDecl(FuncDef(NoModule, "m", <<P>>, TInt, <<Return(X("p"))>>), <<>>, <<>>)

Declarations ==
  <<Decl("imports", "lib"), Decl("globals", Let("g", NoType, IntLit(3))),
    Decl("structs", StructDecl(StructDef(NoModule, "S", <<P, Param("l", List(TInt))>>),
                               <<<<"T", <<>>>>>>, <<Annotation("stack", <<>>)>>)),
    Decl("modules", "M"),
    Decl("funcs", FuncDecl(FuncDef(NoModule, "f", <<P>>, TInt, <<Return(X("p"))>>),
                           <<<<"T", <<<<"m", "Show">>>>>>, <<"U", <<>>>>>>,
                           <<Annotation("Manual", <<<<"fixed", <<"number", 4>>>>>>),
                             Annotation("x", <<>>)>>)),
    Decl("externs", ExternDecl(NoModule, "c", "puts", <<Param("s", TStr)>>, TInt)),
    Decl("traits", TraitDecl("Show", <<TraitMethod("show", <<>>, TStr),
                                       TraitMethod("hide", <<P>>, TVoid)>>)),
    Decl("impls", ImplDecl(NoModule, <<>>, <<NoModule, "S">>, <<<<"T", <<>>>>>>, <<Method1, Method1>>)),
    Decl("impls", ImplDecl(NoModule, <<<<"m", "Show">>>>, <<NoModule, "S">>, <<>>, <<Method1>>))>>

Files == {<<Declarations[i], Declarations[j], Declarations[k]>> :
            i \in DOMAIN Declarations, j \in DOMAIN Declarations, k \in DOMAIN Declarations}

\* What the spelling above never uses: the tokens, and the statements they stand for.
W(s) == IF s \in {"x", "y", "f", "c", "int", "bool", "String", "List", "fn", "main"} THEN <<"ident", s>> ELSE <<s, "">>
Ws(words) == [i \in DOMAIN words |-> W(words[i])]

Sugar ==
  {<<Ws(<<"x", op \o "=", "y">>), Expr(Assign(X("x"), Binary(op, X("x"), X("y"))))>> :
     op \in {"+", "-", "*", "/", "%"}}
    \cup {<<Ws(<<"x", "[", "y", "]", op \o op>>),
            Expr(Assign(Index(X("x"), X("y")), Binary(op, Index(X("x"), X("y")), IntLit(1))))>> :
            op \in {"+", "-"}}
    \cup {<<Ws(<<op \o op, "x">>), Expr(Assign(X("x"), Binary(op, X("x"), IntLit(1))))>> :
            op \in {"+", "-"}}
    \cup {<<Ws(<<"List", "[", "int", "]", "{", "x", "brk", ",", "y", "sep", "f", "}">>),
            Expr(ListLit(<<X("x"), X("y"), X("f")>>))>>,
          <<Ws(<<"while", "c", "==", "null", "{", "}">>),
            While(Binary("==", X("c"), NullLit), <<>>)>>,
          <<Ws(<<"if", "-", "c", "(", ")", "brk", "{", "x", ";", ";", "}", "brk", "else", "{",
                "}">>),
            If(Unary("-", Call(X("c"), <<>>)), <<Expr(X("x"))>>, <<>>)>>,
          <<Ws(<<"for", ";", "c", ";", "f", "(", ")", "{", "y", "}">>),
            For(<<>>, X("c"), Call(X("f"), <<>>), <<Expr(X("y"))>>)>>,
          <<Ws(<<"while", "c", "(", ")", "{", "return", "}">>),
            While(Call(X("c"), <<>>), <<ReturnVoid>>)>>,
          <<Ws(<<"@", "f", "(", "-">>) \o <<<<"number", 5>>>> \o Ws(<<")">>),
            Directive(Annotation("f", <<<<"", <<"number", -5>>>>>>))>>,
          <<Ws(<<"@", "f", "(", "x", "=", "-">>) \o <<<<"float", "0.5">>>> \o Ws(<<")">>),
            Directive(Annotation("f", <<<<"x", <<"float", "-0.5">>>>>>))>>}

-----------------------------------------------------------------------------
(* Token sequences near a program: one token replaced, put in or left out. *)

Samples ==
  <<<<Let("v", TInt, Ternary(X("c"), Call(X("f"), <<X("x"), Unary("&mut", X("y"))>>), X("z"))),
      Return(Method(Field(X("o"), "p"), "m", <<X("a")>>))>>,
    <<If(Binary("<", X("a"), X("b")), <<Expr(Assign(X("x"), X("y")))>>, <<Break, Continue>>),
      Throw(Index(X("xs"), X("i")))>>,
    <<For(<<Let("i", NoType, X("n"))>>, X("c"), Assign(X("i"), X("k")),
          <<Expr(Call(X("f"), <<X("i")>>))>>), ReturnVoid>>,
    <<Try(<<Expr(X("a"))>>, <<<<"e", <<Return(X("e"))>>>>>>, <<<<Expr(X("z"))>>>>)>>,
    <<Let("h", NoType, Closure(<<P, Param("q", TStr)>>, TInt,
                               Block(<<Return(Binary("-", X("p"), X("q")))>>))),
      Expr(StructLit(<<"m", "S">>, <<<<"f", ListLit(<<X("a"), Path("m", "g")>>)>>>>))>>,
    <<While(X("c"), <<Expr(Block(<<ReturnVoid>>))>>), Expr(IfExpr(X("c"), X("l"), X("r"))),
      Expr(GenericCall("g", <<TStr>>, <<Unary("*", X("p"))>>))>>>>

Vocabulary ==
  <<"ident", "(", ")", "{", "}", "[", "]", ",", ":", "::", ";", "=", "+", "-", "*", "&", "&&", "?",
    "|", "->", ".", "if", "else", "while", "return", "var", "try", "catch", "finally", "break",
    "newline", "mut", "this">>

Stray(k) == Token(k, IF k = "ident" THEN "s" ELSE "", 1)

Clean == [n \in DOMAIN Samples |-> S!Written(S!SpellFile(Body(Samples[n])), "spaced").toks]

-----------------------------------------------------------------------------
(* The front end, stage by stage.                                          *)

\* Cases: programs from declarations, bodies, each in some layouts, and sequences near
\* a program.
Programs ==
  {[decls |-> Body(b), layout |-> l] : b \in Bodies, l \in {"tight", "lines"}}
    \cup {[decls |-> f, layout |-> l] : f \in Files, l \in S!Layouts}
    \cup {[decls |-> Body(<<S!AsWritten(s[1])>>), says |-> Body(<<s[2]>>), layout |-> l] :
            s \in Sugar, l \in S!Layouts}

-----------------------------------------------------------------------------
(* Programs that the language description shows.                           *)

Shown(words, stmts) == [decls |-> Body(<<S!AsWritten(words)>>), says |-> Body(stmts), layout |-> "tight"]

\* docs.md:205 and :228, functions begin with fn.
FnMain ==
  [decls |-> <<Decl("written", Ws(<<"fn", "main", "(", ")", "{", "}">>))>>, says |-> Body(<<>>),
   layout |-> "tight"]

\* docs.md:732, @region(Heap).
Region ==
  [decls |-> <<Decl("structs", StructDecl(StructDef(NoModule, "S", <<P>>), <<>>,
                                          <<Annotation("region", <<<<"", <<"ident", "Heap">>>>>>)>>))>>,
   layout |-> "tight"]

\* docs.md:242, a line end ends a statement: var y = m::f and, on the next line, -x.
LineEnds ==
  [decls |-> Body(<<Let("y", NoType, Path("m", "f")), Expr(Unary("-", X("x")))>>), layout |-> "plain"]

\* docs.md:484, if (c) 1 else -1.
NegativeBranch ==
  Shown(Ws(<<"x", "=", "if", "(", "c", ")">>) \o <<<<"number", 1>>>> \o Ws(<<"else", "-">>)
          \o <<<<"number", 1>>>>,
        <<Expr(Assign(X("x"), IfExpr(X("c"), IntLit(1), Unary("-", IntLit(1)))))>>)

\* parser/mod.rs:1217, arr[0] is an index access: its element is called.
CalledElement ==
  Shown(Ws(<<"f", "[">>) \o <<<<"number", 0>>>> \o Ws(<<"]", "(", "x", ")">>),
        <<Expr(Call(Index(X("f"), IntLit(0)), <<X("x")>>))>>)

Documented == {FnMain, Region, LineEnds, NegativeBranch, CalledElement}

NoChanges == {}

\* The declarations that a text stands for.
Says(c) == IF "says" \in DOMAIN c THEN c.says ELSE c.decls

Near ==
  {c \in [sample : DOMAIN Samples, at : 1 .. 70, how : {"out", "in", "as"}, word : DOMAIN Vocabulary] :
     /\ c.at < Len(Clean[c.sample])
     /\ c.how = "out" => c.word = 1}

Changed(ts, c) ==
  CASE c.how = "out" -> RemoveAt(ts, c.at)
    [] c.how = "in" -> InsertAt(ts, c.at, Stray(Vocabulary[c.word]))
    [] c.how = "as" -> [ts EXCEPT ![c.at] = Stray(Vocabulary[c.word])]

Init ==
  /\ text = <<>> /\ toks = <<>> /\ tree = Failed /\ meant = Unknown
  /\ \/ input \in Cases /\ stage = "program"
     \/ input \in Changes /\ stage = "near"

\* The text of a program is written down.
Write ==
  /\ stage = "program"
  /\ LET sheet == S!Written(S!SpellFile(input.decls), input.layout)
     IN /\ text' = sheet.text
        /\ meant' = [toks |-> sheet.toks, prog |-> FoldLeft(Declare, NoDeclarations, Says(input))]
  /\ stage' = "text"
  /\ UNCHANGED <<input, toks, tree>>

Change ==
  /\ stage = "near"
  /\ toks' = Changed(Clean[input.sample], input)
  /\ stage' = "tokens"
  /\ UNCHANGED <<input, text, tree, meant>>

\* tokenize
Lex ==
  /\ stage = "text"
  /\ LET lexed == Tokenize(text)
     IN toks' = lexed.toks /\ stage' = IF lexed.ok THEN "tokens" ELSE "rejected"
  /\ UNCHANGED <<input, text, tree, meant>>

\* Parser::new, parse
ParseAll ==
  /\ stage = "tokens"
  /\ tree' = Parsed(toks)
  /\ stage' = IF tree'.p = 0 THEN "rejected" ELSE "tree"
  /\ UNCHANGED <<input, text, toks, meant>>

Next == Write \/ Change \/ Lex \/ ParseAll

Spec == Init /\ [][Next]_vars

-----------------------------------------------------------------------------

Written == meant.toks # <<>>

SameToken(a, b) == a.k = b.k /\ a.line = b.line /\ a.v = b.v

\* The lexer finds the tokens that the text was written from, on the lines they stand on.
TokensBack ==
  Written /\ stage \notin {"text", "rejected"} =>
    /\ Len(toks) = Len(meant.toks)
    /\ \A i \in DOMAIN toks : SameToken(toks[i], meant.toks[i])

\* The parser finds the program that the text was written from, in every layout.
RoundTrip == Written => stage # "rejected" /\ (stage = "tree" => tree.v = meant.prog)

\* What the language description shows is the program that it says.
AsShown == stage \notin {"program", "text", "tokens"} => stage = "tree" /\ tree.v = meant.prog

\* Parentheses, commas and ends of statements leave no trace in a tree.
Lasting(kinds) ==
  SelectSeq(kinds, LAMBDA k : k \notin {"(", ")", ",", ";", "newline", "eof", "sep", "brk"})

\* A sequence of tokens that is accepted is the spelling of its tree: the parser loses no
\* token, makes none up and changes no order.
Faithful ==
  ~Written /\ stage = "tree" =>
    LET spelled == S!SpellFile([i \in DOMAIN tree.v.funcs |-> Decl("funcs", tree.v.funcs[i])])
    IN Lasting([i \in DOMAIN toks |-> toks[i].k]) = Lasting([i \in DOMAIN spelled |-> spelled[i][1]])
=============================================================================
