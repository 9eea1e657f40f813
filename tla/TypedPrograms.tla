--------------------------- MODULE TypedPrograms ----------------------------
(***************************************************************************)
(* Families of programs for the run of analyser, code generator and VM,    *)
(* and the three together: a program that is accepted is compiled and has  *)
(* a meaning.                                                              *)
(***************************************************************************)
EXTENDS ExprCompiler, Evaluation

LOCAL INSTANCE SequencesExt

LOCAL N(n) == IntLit(n)
LOCAL X(x) == Ident(x)
LOCAL Say(e) == Expr(Call(Ident("say"), <<e>>))
LOCAL Write(e) == Expr(Call(Ident("write"), <<e>>))
LOCAL Add(a, b) == Binary("+", a, b)
LOCAL Set(x, e) == Expr(Assign(Ident(x), e))
LOCAL Infer(x, e) == Let(x, NoType, e)
LOCAL Do(o, m, args) == Expr(Method(Ident(o), m, args))

Prog(funcs, structs, impls, globals) ==
  [funcs |-> funcs, structs |-> structs, impls |-> impls, globals |-> globals, imports |-> <<>>,
   scheduled |-> {}]

\* The files that a program imports are programs themselves; Builds says which they are.
Importing(p, files) == [p EXCEPT !.imports = files]

\* The functions of these names have an @Auto or @Manual.
Scheduling(p, names) == [p EXCEPT !.scheduled = names]

Main(body) == FuncDef(NoModule, "main", <<>>, TInt, body)

-----------------------------------------------------------------------------
(* Expressions over a local number, a local string and a global.           *)

Atoms == {N(1), N(0), BoolLit(TRUE), StrLit("a"), X("n"), X("s"), X("g")}

Simple == {Binary(op, a, b) : op \in {"+", "-", "/", "%", "==", ">", "||"}, a \in Atoms, b \in Atoms}

Deep == {Binary(op, e, a) : op \in {"+", "=="}, e \in Simple, a \in {N(1), StrLit("a"), X("n")}}
        \cup {Unary(op, e) : op \in {"-", "!"}, e \in Simple}
        \cup {Ternary(e, a, a) : e \in Simple, a \in {N(1), StrLit("a")}}
        \cup {IfExpr(X("b"), a, e) : e \in Simple, a \in {N(1), StrLit("a")}}
        \cup {Interp(<<e, StrLit("."), X("s")>>) : e \in Simple}

ExpressionPrograms ==
  {Prog(<<Main(<<Infer("n", N(2)), Infer("s", StrLit("b")), Infer("b", BoolLit(FALSE)),
                 Infer("r", e), Say(X("r")), Return(X("n"))>>)>>,
        <<>>, <<>>, <<GlobalVar("g", Add(N(2), N(3)))>>) : e \in Deep}

-----------------------------------------------------------------------------
(* Loops around two statements.                                            *)

LOCAL Less(x, n) == Binary("<", X(x), N(n))
LOCAL Inc(x) == Set(x, Add(X(x), N(1)))

LoopBodies ==
  {Inc("x"), Say(X("x")), Return(X("x")),
   If(Less("x", 2), <<Inc("x")>>, <<Break>>),
   If(Binary("&&", Less("x", 1), Binary(">=", X("i"), N(1))), <<Inc("x"), Continue>>, <<>>),
   If(Binary("!=", X("i"), N(1)), <<Infer("y", X("i")), Say(X("y"))>>, <<Continue>>),
   While(Less("x", 3), <<Inc("x"), If(Less("x", 2), <<Continue>>, <<Break>>)>>),
   For(<<Infer("j", N(0))>>, Less("j", 2), Assign(X("j"), Add(X("j"), N(1))),
       <<If(Binary("==", X("j"), X("i")), <<Break>>, <<Inc("x")>>)>>),
   For(<<>>, Absent, Absent, <<Inc("x"), If(Less("x", 4), <<>>, <<Break>>)>>)}

LoopPrograms ==
  {Prog(<<Main(<<Infer("x", N(0)),
                 For(<<Infer("i", N(0))>>, Less("i", 2), Assign(X("i"), Add(X("i"), N(1))),
                     <<a, b>>),
                 Say(X("x")), Return(X("x"))>>)>>, <<>>, <<>>, <<>>)
     : a \in LoopBodies, b \in LoopBodies}

-----------------------------------------------------------------------------
(* Three statements over a structure with a method, a list, a map and      *)
(* pointers.                                                               *)

Pair == StructDef(NoModule, "Pair", <<Param("a", TInt), Param("l", List(TInt))>>)
PairImpl ==
  [mod |-> NoModule, type |-> "Pair", methods |->
     <<FuncDef(NoModule, "bump", <<Param("by", TInt)>>, TInt,
               <<Expr(Assign(Field(X("this"), "a"), Add(Field(X("this"), "a"), X("by")))),
                 Expr(Method(Field(X("this"), "l"), "push", <<X("by")>>)),
                 Return(Field(X("this"), "a"))>>)>>]

Touches ==
  {Expr(Assign(Field(X("o"), "a"), N(7))), Set("o", X("t")),
   Say(Method(X("o"), "bump", <<N(2)>>)),
   Do("xs", "push", <<N(4)>>), Say(Method(X("xs"), "pop", <<>>)),
   Expr(Assign(Index(X("xs"), N(1)), N(8))), Say(Index(X("xs"), N(2))),
   Do("xs", "set", <<N(0), X("n")>>),
   Expr(Assign(Index(X("m"), StrLit("k")), N(1))), Say(Method(X("m"), "get", <<StrLit("j")>>)),
   Say(Method(X("m"), "remove", <<StrLit("k")>>)), Say(Method(X("m"), "len", <<>>)),
   Expr(Assign(Unary("*", X("p")), N(5))), Set("p", Unary("&mut", X("n"))), Inc("n"),
   Write(Method(X("m"), "has", <<StrLit("k")>>)), Say(Method(X("m"), "keys", <<>>)),
   Say(Method(Method(StrLit("abc"), "substr", <<X("n"), N(3)>>), "len", <<>>)),
   Set("n", Call(X("terminal_rows"), <<>>)),
   Say(Unary("*", X("p"))), Say(Field(X("q"), "a")), Set("xs", Field(X("o"), "l"))}

ObjectPrograms ==
  {Prog(<<Main(<<Infer("o", StructLit(<<NoModule, "Pair">>,
                                      <<<<"l", ListLit(<<N(1), N(2)>>)>>, <<"a", N(3)>>>>)),
                 Infer("t", StructLit(<<NoModule, "Pair">>,
                                      <<<<"a", N(6)>>, <<"l", Field(X("o"), "l")>>>>)),
                 Infer("xs", Field(X("t"), "l")),
                 Infer("m", MapLit(<<<<StrLit("k"), N(4)>>>>)),
                 Infer("n", N(2)), Infer("k", N(9)),
                 Let("p", Ptr(TRUE, TInt), Unary("&mut", X("k"))), Infer("q", Unary("&", X("o"))),
                 a, b, Say(Field(X("o"), "a")), Say(Method(X("xs"), "len", <<>>)), Say(X("n")),
                 Say(X("m")), Return(X("k"))>>)>>,
        <<Pair>>, <<PairImpl>>, <<>>) : a \in Touches, b \in Touches}

-----------------------------------------------------------------------------
(* Pointers to variables and to fields that are pointers themselves.       *)

LOCAL IntBox(n) == StructLit(<<NoModule, "Box">>, <<<<"next", N(n)>>>>)
LOCAL Next(e) == Field(e, "next")

Boxes == <<StructDef(NoModule, "Link", <<Param("next", Ptr(FALSE, Named(<<NoModule, "Box">>))),
                                         Param("on", TBool)>>),
           StructDef(NoModule, "Box", <<Param("next", TInt)>>)>>

PointerUses ==
  {Infer("p", Unary("&mut", Next(X("a")))), Infer("p", Unary("&", Next(X("a")))),
   Infer("q", Unary("&mut", Next(X("a")))), Infer("q", Unary("&", Field(X("a"), "on"))),
   Infer("r", Unary("&", Next(X("b")))),
   Expr(Assign(Unary("*", X("p")), Unary("&", X("c")))),
   Expr(Assign(Next(Unary("*", X("p"))), N(8))), Expr(Assign(Next(X("a")), Unary("&", X("c")))),
   Set("b", X("c")), Say(Next(Next(X("a"))))}

PointerPrograms ==
  {Prog(<<Main(<<Infer("b", IntBox(3)), Infer("c", IntBox(4)),
                 Infer("a", StructLit(<<NoModule, "Link">>,
                                      <<<<"next", Unary("&", X("b"))>>, <<"on", BoolLit(TRUE)>>>>)),
                 x, y, z, Say(Next(Next(X("a")))), Return(Next(X("b")))>>)>>,
        Boxes, <<>>, <<>>) : x \in PointerUses, y \in PointerUses, z \in PointerUses}

-----------------------------------------------------------------------------
(* Functions as values, closures in closures, recursion, modules.          *)

LOCAL IntParam(x) == <<Param(x, TInt)>>
LOCAL IntFn == Fn(<<TInt>>, TInt)
LOCAL Fun(mod, name, body) == FuncDef(mod, name, IntParam("x"), TInt, body)

\* Values of type (int) -> int where n, k and the global gv are in scope; some are of another type.
Functional ==
  {Closure(IntParam("x"), TInt, Add(X("x"), X("n"))),
   Closure(IntParam("n"), TInt, Add(X("n"), X("gv"))),
   Closure(IntParam("x"), TInt, Block(<<Inc("n"), Return(Add(X("n"), X("x")))>>)),
   Closure(IntParam("x"), TInt, Block(<<Set("gv", X("x")), Return(X("gv"))>>)),
   Closure(IntParam("x"), TInt, Call(X("k"), <<Add(X("x"), N(1))>>)),
   Closure(IntParam("x"), TInt,
           Block(<<Infer("h", Closure(IntParam("y"), TInt, Add(X("y"), X("x")))),
                   Return(Call(X("h"), <<X("n")>>))>>)),
   Closure(IntParam("x"), TInt, Call(Closure(IntParam("y"), TInt, Add(X("y"), X("n"))), <<X("x")>>)),
   Closure(IntParam("x"), TStr, StrLit("s")), Closure(IntParam("x"), TInt, StrLit("s")),
   Closure(IntParam("x"), TInt, X("unknown")),
   X("fact"), X("twice"), N(3)}

FuncBodies ==
  <<Fun(NoModule, "fact", <<Write(X("x")), If(Binary("<=", X("x"), N(1)), <<Return(N(1))>>, <<>>),
                            Return(Binary("*", X("x"),
                                     Call(X("fact"), <<Binary("-", X("x"), N(1))>>)))>>),
    Fun(NoModule, "twice", <<Return(Binary("*", X("x"), N(2)))>>),
    FuncDef(NoModule, "apply", <<Param("h", IntFn), Param("x", TInt)>>, TInt,
            <<Return(Call(X("h"), <<Call(X("h"), <<X("x")>>)>>))>>)>>

\* A file of its own with two functions.
Module(mod, n) ==
  Prog(<<Fun(mod, "f", <<Return(Add(X("x"), N(n)))>>),
         Fun(mod, "g", <<Return(Call(X("f"), <<X("x")>>))>>)>>, <<>>, <<>>, <<>>)

Uses ==
  {Call(X("h"), <<N(3)>>), Call(X("apply"), <<X("h"), N(2)>>), Call(X("apply"), <<X("h"), X("h")>>),
   Call(Path("A", "g"), <<Call(X("h"), <<N(1)>>)>>), Call(Path("B", "g"), <<X("n")>>),
   Call(X("f"), <<Call(X("g"), <<N(1)>>)>>), Call(Path("C", "f"), <<N(1)>>)}

FunctionPrograms ==
  {Importing(
     Prog(Append(FuncBodies,
                 Main(<<Infer("n", N(1)),
                        Infer("k", Closure(IntParam("x"), TInt, Add(X("x"), N(100)))),
                        Let("h", IntFn, h), Inc("n"), Inc("gv"), Say(e), Say(X("gv")),
                        Return(X("n"))>>)),
          <<>>, <<>>, <<GlobalVar("gv", N(4))>>),
     <<Module("A", 10), Module("B", 20)>>) : h \in Functional, e \in Uses}

-----------------------------------------------------------------------------
(* Scheduled functions that get numbers, and return values of every kind.  *)

Kit == StructDef(NoModule, "Kit", <<Param("a", TInt), Param("l", List(TInt)),
                                    Param("m", Map(TStr, List(TInt)))>>)
LOCAL KitOf(x) ==
  StructLit(<<NoModule, "Kit">>,
            <<<<"a", X(x)>>, <<"l", Call(X("items"), <<X(x)>>)>>,
              <<"m", MapLit(<<<<StrLit("k"), ListLit(<<X(x)>>)>>>>)>>>>)

Tasks ==
  <<Fun(NoModule, "sum", <<If(Binary("<=", X("x"), N(0)), <<Return(N(0))>>, <<>>), Write(X("x")),
                           Return(Add(X("x"), Call(X("sum"), <<Binary("-", X("x"), N(1))>>)))>>),
    Fun(NoModule, "over", <<Say(StrLit("o")), Return(Binary("/", N(8), X("x")))>>),
    FuncDef(NoModule, "text", IntParam("x"), TStr, <<Return(Interp(<<StrLit("<"), X("x")>>))>>),
    FuncDef(NoModule, "items", IntParam("x"), List(TInt),
            <<Infer("l", ListLit(<<X("x")>>)), Expr(Method(X("l"), "push", <<Call(X("sum"), <<X("x")>>)>>)),
              Return(X("l"))>>),
    FuncDef(NoModule, "kit", IntParam("x"), Named(<<NoModule, "Kit">>), <<Return(KitOf("x"))>>),
    FuncDef(NoModule, "adder", IntParam("x"), IntFn,
            <<Infer("l", Call(X("items"), <<X("x")>>)),
              Return(Closure(IntParam("y"), TInt, Add(Index(X("l"), N(0)), X("y"))))>>),
    FuncDef(NoModule, "part", IntParam("x"), Ptr(FALSE, Named(<<NoModule, "Kit">>)),
            <<Infer("k", KitOf("x")), Return(Unary("&", X("k")))>>)>>

ScheduledSets ==
  {{<<NoModule, n>> : n \in names} :
     names \in {{"sum", "kit"}, {"items", "part"}, {"over", "sum", "items", "text"},
               {"sum", "over", "text", "items", "kit", "adder", "part"}}}

Results ==
  {Say(Add(N(1), Call(X("sum"), <<N(2)>>))), Say(Call(X("over"), <<N(2)>>)),
   Say(Call(X("over"), <<N(0)>>)), Say(Add(Call(X("text"), <<N(3)>>), Call(X("text"), <<N(4)>>))),
   Expr(Method(X("l"), "push", <<N(9)>>)), Say(Add(Index(X("l"), N(0)), Call(X("sum"), <<N(1)>>))),
   Set("l", Call(X("items"), <<N(4)>>)), Expr(Assign(Field(X("k"), "a"), N(8))),
   Set("l", Field(X("k"), "l")), Expr(Method(Field(X("k"), "l"), "push", <<Call(X("h"), <<N(1)>>)>>)),
   Set("h", Call(X("adder"), <<N(5)>>)), Set("h", X("sum")),
   Say(Field(Unary("*", Call(X("part"), <<N(2)>>)), "a")), Set("k", Call(X("kit"), <<N(1)>>)),
   Say(Field(X("k"), "l"))}

ScheduledPrograms ==
  {Scheduling(
     Prog(Append(Tasks,
            Main(<<Infer("l", Call(X("items"), <<N(2)>>)), Infer("k", Call(X("kit"), <<N(3)>>)),
                   Let("h", IntFn, Call(X("adder"), <<N(7)>>)), a, b, Say(Call(X("h"), <<N(2)>>)),
                   Say(X("l")), Say(Field(X("k"), "m")), Return(Field(X("k"), "a"))>>)),
          <<Kit>>, <<>>, <<>>), names) : a, b \in Results, names \in ScheduledSets}

-----------------------------------------------------------------------------
(* Programs that the language description shows, or that it describes.     *)

LOCAL Alone(funcs, body) == Prog(Append(funcs, Main(body)), <<>>, <<>>, <<>>)
LOCAL Label(mod, ret, e) == FuncDef(mod, "label", <<>>, ret, <<Return(e)>>)

\* docs.md:478, let r = { let t = 1; t + 2 }.
BlockValue ==
  Alone(<<>>, <<Infer("r", Block(<<Infer("t", N(1)), Expr(Add(X("t"), N(2)))>>)), Say(X("r")),
                Return(N(0))>>)

\* docs.md:469, |x, y| x + y.
UntypedClosure ==
  Alone(<<>>, <<Infer("f", Closure(<<Param("x", NoType), Param("y", NoType)>>, TVoid,
                                   Add(X("x"), X("y")))),
                Say(Call(X("f"), <<N(1), N(2)>>)), Return(N(0))>>)

\* docs.md:597, a short name in a module means the module's own function.
OwnModule ==
  Alone(<<Label("A", TStr, StrLit("a")), Label("B", TInt, N(1)),
          FuncDef("A", "twice", <<>>, TStr,
                  <<Return(Add(Call(X("label"), <<>>), Call(X("label"), <<>>)))>>)>>,
        <<Say(Call(Path("A", "twice"), <<>>)), Return(N(0))>>)

\* arr[1] = 99 of docs.md:305, in a function that is called within an expression.
IndexStored ==
  Alone(<<FuncDef(NoModule, "put", <<Param("xs", List(TInt))>>, TInt,
                  <<Expr(Assign(Index(X("xs"), N(0)), N(99))), Return(N(1))>>)>>,
        <<Say(Add(N(1), Call(X("put"), <<ListLit(<<N(5)>>)>>))), Return(N(0))>>)

\* docs.md:596, an import merges the imported file.
ImportedGlobal ==
  Importing(Alone(<<>>, <<Say(Call(X("get"), <<>>)), Return(N(0))>>),
            <<Prog(<<FuncDef(NoModule, "get", <<>>, TInt, <<Return(X("v"))>>)>>, <<>>, <<>>,
                   <<GlobalVar("v", N(5))>>)>>)

LOCAL Scheduled(funcs, globals, body, names) ==
  Scheduling(Prog(Append(funcs, Main(body)), <<>>, <<>>, globals), names)

\* A pointer that is passed to an @Auto function; docs.md:746, no pointer dangles.
ScheduledPointer ==
  Scheduled(<<FuncDef(NoModule, "look", <<Param("p", Ptr(FALSE, TInt))>>, TInt,
                      <<Return(Unary("*", X("p")))>>)>>, <<GlobalVar("g", N(5))>>,
            <<Infer("n", N(3)), Say(Call(X("look"), <<Unary("&", X("n"))>>)), Return(N(0))>>,
            {<<NoModule, "look">>})

LOCAL Read(mod) == FuncDef(mod, "read", <<>>, TInt, <<Return(Add(X("g"), N(1)))>>)

\* A global in an @Auto function; analyzer.rs:91, visible in every function body.
ScheduledGlobal ==
  Scheduled(<<Read(NoModule)>>, <<GlobalVar("g", N(5))>>,
            <<Say(Call(X("read"), <<>>)), Return(N(0))>>, {<<NoModule, "read">>})

\* A function without annotation, of the same short name as one with.
NamesakeScheduled ==
  Scheduled(<<Read("A"), FuncDef("B", "read", <<>>, TInt, <<Return(N(1))>>)>>,
            <<GlobalVar("g", N(5))>>, <<Say(Call(Path("A", "read"), <<>>)), Return(N(0))>>,
            {<<"B", "read">>})

\* The result is in a list that it has.
CyclicResult ==
  Scheduling(
    Prog(<<FuncDef(NoModule, "make", <<>>, Named(<<NoModule, "Node">>),
                   <<Infer("n", StructLit(<<NoModule, "Node">>, <<<<"kids", ListLit(<<>>)>>>>)),
                     Expr(Method(Field(X("n"), "kids"), "push", <<X("n")>>)), Return(X("n"))>>),
           Main(<<Infer("n", Call(X("make"), <<>>)), Say(Method(Field(X("n"), "kids"), "len", <<>>)),
                  Return(N(0))>>)>>,
         <<StructDef(NoModule, "Node", <<Param("kids", List(Named(<<NoModule, "Node">>)))>>)>>,
         <<>>, <<>>), {<<NoModule, "make">>})

Documented == {BlockValue, UntypedClosure, OwnModule, IndexStored, ImportedGlobal,
               ScheduledPointer, ScheduledGlobal, NamesakeScheduled, CyclicResult}

-----------------------------------------------------------------------------
(* What becomes of a program: its verdict, image and meaning.              *)

\* schedule_tag: the functions that are scheduled.  The table is asked for the short name,
\* and the last declaration of that name is what it has.
ScheduleTags(p, funcs) ==
  {i \in DOMAIN funcs :
     \E j \in DOMAIN funcs :
       /\ funcs[j].name = funcs[i].name
       /\ \A k \in DOMAIN funcs : funcs[k].name = funcs[i].name => k <= j
       /\ <<funcs[j].mod, funcs[j].name>> \in p.scheduled}

Ran(p, typed, im) ==
  IF im.err \/ im.wild THEN [verdict |-> "uncompiled"]
  ELSE [verdict |-> "run", meaning |-> Meaning(p), scheduled |-> ScheduleTags(p, typed.funcs),
        image |-> [funcs |-> im.funcs, main |-> im.main, init |-> im.init]]

Judged(p, typed) ==
  IF typed.ok THEN Ran(p, typed, CompileProgram(typed)) ELSE [verdict |-> "rejected"]

\* merge_imports: the declarations of an imported file behind those of its importer.
MergeFile(p, file) ==
  [p EXCEPT !.funcs = @ \o file.funcs, !.structs = @ \o file.structs, !.impls = @ \o file.impls]

\* What an import means: the whole file is part of the program.
JoinFile(p, file) == [MergeFile(p, file) EXCEPT !.globals = file.globals \o @]

Outcome(p) ==
  Judged(FoldLeft(JoinFile, p, p.imports), AnalyseProgram(FoldLeft(MergeFile, p, p.imports)))

Outcomes(programs) == {Outcome(p) : p \in programs}

Families == ExpressionPrograms \cup LoopPrograms \cup ObjectPrograms \cup PointerPrograms
            \cup FunctionPrograms \cup ScheduledPrograms
=============================================================================
