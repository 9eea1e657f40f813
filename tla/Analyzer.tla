------------------------------ MODULE Analyzer ------------------------------
(***************************************************************************)
(* The semantic analyser, src/semantic/analyzer.rs: which programs it      *)
(* accepts, the type it gives to every expression, and the annotations it  *)
(* leaves on `let` for the code generator.                                 *)
(*                                                                         *)
(* Err(..) of the code is Bad, and an expression with a bad part is bad.   *)
(* Generic functions and structs and traits are left out, and float goes   *)
(* the way of int.                                                         *)
(***************************************************************************)
EXTENDS Pointers, TLC

Bad == <<"bad">>

Require(cond, t) == IF cond THEN t ELSE Bad

\* A pointer is looked through.
Deref(t) == IF t[1] = "ptr" THEN t[3] ELSE t

\* May a value of type actual stand where expected is asked for?  A type variable is a
\* wildcard, a pointer may be given as its pointee's value, and containers
\* agree whatever they contain.
Compat(expected, actual) ==
  /\ Bad \notin {expected, actual}
  /\ \/ expected = actual
     \/ "var" \in {expected[1], actual[1]}
     \/ expected[1] = "ptr" /\ expected[3] = actual
     \/ expected[1] = actual[1] /\ expected[1] \in {"list", "map"}

AllCompat(params, types) ==
  /\ Len(params) = Len(types)
  /\ \A i \in DOMAIN params : Compat(params[i], types[i])

-----------------------------------------------------------------------------
(* Declarations.                                                           *)

Sig(params, ret) == [params |-> params, ret |-> ret]

SigOf(f) == Sig([i \in DOMAIN f.params |-> f.params[i].ty], f.ret)

ImplFuncName(type, method) == "impl::" \o type \o "::" \o method

\* The methods of the impl blocks become functions without a module, with the receiver as
\* first parameter.
Lifted(prog) ==
  LET Methods[b \in 0 .. Len(prog.impls)] ==
        IF b = 0 THEN <<>>
        ELSE LET blk == prog.impls[b]
                 recv == Param("this", Named(<<blk.mod, blk.type>>))
             IN Methods[b - 1] \o
                [i \in DOMAIN blk.methods |->
                   LET m == blk.methods[i]
                   IN FuncDef(NoModule, ImplFuncName(blk.type, m.name),
                              <<recv>> \o m.params, m.ret, m.body)]
  IN prog.funcs \o Methods[Len(prog.impls)]

\* (type name, method) to the name of the impl function, under both names of the type.
ImplResolver(prog) ==
  LET Keys(blk) == {<<n, blk.methods[i].name>> :
                      n \in DeclNames(blk.mod, blk.type), i \in DOMAIN blk.methods}
  IN [k \in UNION {Keys(prog.impls[b]) : b \in DOMAIN prog.impls} |->
        <<NoModule, ImplFuncName(k[1][2], k[2])>>]

\* What the analyser knows when it begins with the bodies; funcs, structs and methods.
Tables(prog) ==
  LET funcs == Lifted(prog)
      F == NameTable(funcs)
      S == NameTable(prog.structs)
  IN [funcs |-> [n \in DOMAIN F |-> SigOf(funcs[F[n]])],
      structs |-> [n \in DOMAIN S |-> prog.structs[S[n]].fields],
      methods |-> ImplResolver(prog), layouts |-> Layouts(prog.structs),
      globals |-> [x \in {prog.globals[i].name : i \in DOMAIN prog.globals} |-> AnyType]]

-----------------------------------------------------------------------------
(* Scopes.  An environment is the stack of frames, the module of the       *)
(* function, the loop depth and the tables.                                *)

EmptyFrame == [x \in {} |-> Bad]

Push(env) == [env EXCEPT !.frames = Append(@, EmptyFrame)]
Declare(env, x, ty) == [env EXCEPT !.frames[Len(env.frames)] = (x :> ty) @@ @]
InLoop(env) == [env EXCEPT !.loop = @ + 1]

\* Innermost frame first, then globals, then functions by their short name.
TypeOfName(x, env) ==
  LET holding == {i \in DOMAIN env.frames : x \in DOMAIN env.frames[i]}
      short == <<NoModule, x>>
  IN IF holding # {}
     THEN env.frames[CHOOSE i \in holding : \A j \in holding : j <= i][x]
     ELSE IF x \in DOMAIN env.tab.globals THEN env.tab.globals[x]
     ELSE IF short \in DOMAIN env.tab.funcs
          THEN Fn(env.tab.funcs[short].params, env.tab.funcs[short].ret)
     ELSE Bad

FieldType(n, f, env) ==
  LET s == Resolve(env.mod, n, env.tab.structs)
  IN IF s \notin DOMAIN env.tab.structs THEN Bad
     ELSE LET fields == env.tab.structs[s]
              at == {i \in DOMAIN fields : fields[i].name = f}
          IN IF at = {} THEN Bad ELSE fields[CHOOSE i \in at : TRUE].ty

-----------------------------------------------------------------------------
(* Operators, builtins and container methods.                              *)

Arithmetic == {"-", "*", "/", "%"}
Comparisons == {"<", "<=", ">", ">="}
Equalities == {"==", "!="}
Logical == {"&&", "||"}

BinaryType(op, l, r) ==
  LET other == IF l[1] = "var" THEN r ELSE l     \* the concrete side, if there is one
      vars == "var" \in {l[1], r[1]}
  IN IF Bad \in {l, r} THEN Bad
     ELSE
     CASE op = "+" -> IF TStr \in {l, r} THEN TStr
                      ELSE Require(vars \/ (l = r /\ l = TInt), other)
       [] op \in Arithmetic -> Require(vars \/ (l = r /\ l = TInt), other)
       [] op \in Equalities -> Require(Compat(l, r), TBool)
       [] op \in Comparisons -> Require(vars \/ (l = r /\ l = TInt), TBool)
       [] op \in Logical -> Require(vars \/ (l = TBool /\ r = TBool), TBool)

UnaryType(op, e, t, env) ==
  IF t = Bad THEN Bad
  ELSE
  CASE op = "-" -> Require(t = TInt \/ t[1] = "var", t)
    [] op = "!" -> Require(t = TBool \/ t[1] = "var", TBool)
    [] op \in {"&", "&mut"} -> Require(Legal(e, t, env.tab.layouts), Ptr(op = "&mut", t))
    [] op = "*" -> Require(t[1] = "ptr", Deref(t))

\* Functions of the language itself.  AnyType is an argument whose type is not checked.
BuiltinSigs ==
  LET Ints(n) == [i \in 1 .. n |-> TInt]
  IN [say |-> Sig(<<AnyType>>, TVoid), write |-> Sig(<<AnyType>>, TVoid),
      args |-> Sig(<<>>, List(TStr)), ask |-> Sig(<<TStr>>, TStr), readLine |-> Sig(<<TStr>>, TStr),
      printf |-> Sig(<<TStr>>, TVoid), fmt |-> Sig(<<TStr>>, TStr),
      clear_screen |-> Sig(<<>>, TVoid), reset_color |-> Sig(<<>>, TVoid),
      hide_cursor |-> Sig(<<>>, TVoid), show_cursor |-> Sig(<<>>, TVoid),
      cursor |-> Sig(Ints(2), TVoid), color |-> Sig(Ints(2), TVoid), rgb |-> Sig(Ints(3), TInt),
      key |-> Sig(<<>>, TStr), key_available |-> Sig(<<>>, TBool),
      terminal_cols |-> Sig(<<>>, TInt), terminal_rows |-> Sig(<<>>, TInt),
      window |-> Sig(<<TStr, TInt, TInt>>, TInt), window_close |-> Sig(<<AnyType>>, TVoid),
      window_title |-> Sig(<<AnyType, TStr>>, TVoid),
      draw_text |-> Sig(<<TInt, TInt, TInt, TStr>>, TVoid),
      draw_rect |-> Sig(Ints(6), TVoid), fill_rect |-> Sig(Ints(6), TVoid),
      clear_canvas |-> Sig(<<TInt>>, TVoid),
      on_key |-> Sig(<<AnyType, AnyType>>, TVoid), on_click |-> Sig(<<AnyType, AnyType>>, TVoid),
      event_loop |-> Sig(<<>>, TVoid),
      thread_id |-> Sig(<<>>, TInt), sleep |-> Sig(<<TInt>>, TVoid)]

\* printf and fmt take anything after the format, ask and readLine may go without
\* a prompt.
BuiltinType(n, types) ==
  LET sig == BuiltinSigs[n]
      checked == CASE n \in {"printf", "fmt"} -> SubSeq(types, 1, 1)
                   [] n \in {"ask", "readLine"} /\ types = <<>> -> sig.params
                   [] OTHER -> types
  IN Require(\A i \in DOMAIN types : types[i] # Bad, Require(AllCompat(sig.params, checked), sig.ret))

\* The methods of containers and strings; pop, len and keys do not count their arguments.
MethodSig(t, m, types) ==
  CASE t[1] = "list" ->
         (CASE m = "push" -> Sig(<<t[2]>>, TVoid)
            [] m = "pop" -> Sig(types, t[2])
            [] m = "len" -> Sig(types, TInt)
            [] m = "get" -> Sig(<<TInt>>, t[2])
            [] m = "set" -> Sig(<<TInt, t[2]>>, TVoid)
            [] OTHER -> Sig(<<>>, Bad))
    [] t[1] = "map" ->
         (CASE m = "set" -> Sig(<<t[2], t[3]>>, TVoid)
            [] m = "get" -> Sig(<<t[2]>>, t[3])
            [] m = "has" -> Sig(<<t[2]>>, TBool)
            [] m = "remove" -> Sig(<<t[2]>>, TBool)
            [] m = "len" -> Sig(types, TInt)
            [] m = "keys" -> Sig(types, List(t[2]))
            [] OTHER -> Sig(<<>>, Bad))
    [] t = TStr ->
         (CASE m \in {"len", "to_int"} -> Sig(types, TInt)
            [] m \in {"trim", "to_upper", "to_lower"} -> Sig(types, TStr)
            [] m = "substr" -> Sig(<<AnyType, AnyType>>, TStr)
            [] OTHER -> Sig(<<>>, Bad))
    [] OTHER -> Sig(<<>>, Bad)

CheckCall(sig, types) == Require(AllCompat(sig.params, types), sig.ret)

-----------------------------------------------------------------------------
(* Expressions and statements.  An analysed statement is                   *)
(* [env, ok, out]: the environment after it, whether it was accepted, and  *)
(* the statement with the types of its lets filled in.                     *)

RECURSIVE TypeOf(_, _), Analyse(_, _, _), AnalyseAll(_, _, _)

TypesOf(es, env) == [i \in DOMAIN es |-> TypeOf(es[i], env)]

\* Elements of a literal agree with the first.
Uniform(types) ==
  CASE types = <<>> -> TVoid
    [] \A i \in DOMAIN types : Compat(types[1], types[i]) -> types[1]
    [] OTHER -> Bad

\* A builtin, a function of the program, or a value that is a closure, in this order.
CallType(e, env) ==
  LET types == TypesOf(e.args, env)
      target == Resolve(env.mod, IF e.e.k = "path" THEN <<e.e.mod, e.e.name>>
                                 ELSE <<NoModule, e.e.name>>, env.tab.funcs)
      named == e.e.k \in {"id", "path"}
      closure == TypeOf(e.e, env)
  IN IF e.e.k = "id" /\ e.e.name \in DOMAIN BuiltinSigs THEN BuiltinType(e.e.name, types)
     ELSE IF named /\ target \in DOMAIN env.tab.funcs
     THEN CheckCall(env.tab.funcs[target], types)
     ELSE IF closure[1] = "fn" THEN CheckCall(Sig(closure[2], closure[3]), types)
     ELSE Bad

\* A method of an impl block, without its receiver; else one of a container or string.
MethodType(e, env) ==
  LET t == Deref(TypeOf(e.e, env))
      types == TypesOf(e.args, env)
      key == <<t[2], e.name>>
  IN IF t[1] = "named" /\ key \in DOMAIN env.tab.methods
     THEN LET sig == env.tab.funcs[env.tab.methods[key]]
          IN CheckCall(Sig(Tail(sig.params), sig.ret), types)
     ELSE CheckCall(MethodSig(t, e.name, types), types)

StructLitType(e, env) ==
  LET s == Resolve(env.mod, e.type, env.tab.structs)
      written == {e.fields[i][1] : i \in DOMAIN e.fields}
      declared == {env.tab.structs[s][i].name : i \in DOMAIN env.tab.structs[s]}
  IN Require(/\ s \in DOMAIN env.tab.structs
             /\ written = declared
             /\ \A i \in DOMAIN e.fields :
                  Compat(FieldType(e.type, e.fields[i][1], env), TypeOf(e.fields[i][2], env)),
             Named(e.type))

IndexType(l, r) ==
  CASE l[1] = "list" -> Require(Compat(TInt, r), l[2])
    [] l[1] = "map" -> Require(Compat(l[2], r), l[3])
    [] OTHER -> Bad

\* Only the closure's own parameters and body are new; the loop depth stays.
ClosureType(e, env) ==
  LET params == [i \in DOMAIN e.params |-> e.params[i].ty]
      Bind[i \in 0 .. Len(e.params)] ==
        IF i = 0 THEN Push(env) ELSE Declare(Bind[i - 1], e.params[i].name, params[i])
      inner == Bind[Len(e.params)]
      fits == IF e.e.k = "block" THEN AnalyseAll(e.e.body, inner, e.ret).ok
              ELSE LET t == TypeOf(e.e, inner)
                   IN t # Bad /\ (e.ret = TVoid \/ Compat(e.ret, t))
  IN Require((\A i \in DOMAIN params : params[i] # NoType) /\ fits, Fn(params, e.ret))

\* The type of a block is that of its last expression statement, wherever that stands.
BlockType(e, env) ==
  LET exprs == {i \in DOMAIN e.body : e.body[i].k = "expr"}
      last == CHOOSE i \in exprs : \A j \in exprs : j <= i
      before == AnalyseAll(SubSeq(e.body, 1, last - 1), Push(env), TVoid)
  IN IF ~AnalyseAll(e.body, Push(env), TVoid).ok THEN Bad
     ELSE IF exprs = {} THEN TVoid ELSE TypeOf(e.body[last].e, before.env)

TypeOf(e, env) ==
  CASE e.k = "int" -> TInt
    [] e.k = "bool" -> TBool
    [] e.k = "str" -> TStr
    [] e.k = "null" -> TVoid
    [] e.k = "id" -> TypeOfName(e.name, env)
    [] e.k = "path" -> LET n == <<e.mod, e.name>> IN
         IF n \in DOMAIN env.tab.funcs
         THEN Fn(env.tab.funcs[n].params, env.tab.funcs[n].ret) ELSE Bad
    [] e.k = "binary" -> BinaryType(e.op, TypeOf(e.l, env), TypeOf(e.r, env))
    [] e.k = "unary" -> UnaryType(e.op, e.e, TypeOf(e.e, env), env)
    [] e.k = "call" -> CallType(e, env)
    [] e.k = "field" -> LET t == Deref(TypeOf(e.e, env)) IN
         IF t[1] = "named" THEN FieldType(t[2], e.name, env) ELSE Bad
    [] e.k = "method" -> MethodType(e, env)
    [] e.k = "assign" -> LET t == Deref(TypeOf(e.l, env)) IN
         Require(Compat(t, TypeOf(e.r, env)), t)
    [] e.k = "struct" -> StructLitType(e, env)
    [] e.k = "list" -> LET t == Uniform(TypesOf(e.args, env)) IN Require(t # Bad, List(t))
    [] e.k = "map" ->
         LET Side(i) == Uniform([p \in DOMAIN e.pairs |-> TypeOf(e.pairs[p][i], env)])
         IN Require(Bad \notin {Side(1), Side(2)}, Map(Side(1), Side(2)))
    [] e.k = "index" -> IndexType(Deref(TypeOf(e.l, env)), TypeOf(e.r, env))
    [] e.k = "closure" -> ClosureType(e, env)
    [] e.k = "block" -> BlockType(e, env)
    [] e.k \in {"ifexpr", "ternary"} ->
         LET l == TypeOf(e.l, env)
             r == TypeOf(e.r, env)
         IN Require(/\ TypeOf(e.c, env) = TBool /\ Bad \notin {l, r}
                    /\ l = r \/ (e.k = "ifexpr" /\ r = TVoid), l)
    [] e.k = "ifonly" -> Require(TypeOf(e.c, env) = TBool, TypeOf(e.l, env))
    [] e.k = "interp" -> Require(\A i \in DOMAIN e.args : TypeOf(e.args[i], env) # Bad, TStr)

Accepted(env, ok, stmt) == [env |-> env, ok |-> ok, out |-> <<stmt>>]

Analyse(s, env, ret) ==
  LET Inner(body, e) == AnalyseAll(body, e, ret)
      IsBool(c) == TypeOf(c, env) = TBool
  IN CASE s.k = "let" ->
            LET t == TypeOf(s.e, env)
                ty == IF s.ty = NoType THEN t ELSE s.ty
            IN Accepted(Declare(env, s.name, ty),
                        IF s.ty = NoType THEN t \notin {Bad, TVoid} ELSE Compat(s.ty, t),
                        [s EXCEPT !.ty = ty])
       [] s.k = "expr" -> Accepted(env, TypeOf(s.e, env) # Bad, s)
       [] s.k = "returnvoid" -> Accepted(env, TRUE, s)
       [] s.k = "return" ->
            LET t == TypeOf(s.e, env)
            IN Accepted(env, Compat(ret, t) /\ (ret = TVoid => t = TVoid), s)
       [] s.k = "if" ->
            LET then == Inner(s.then, Push(env))
                else == Inner(s.else, Push(env))
            IN Accepted(env, IsBool(s.c) /\ then.ok /\ else.ok,
                        [s EXCEPT !.then = then.out, !.else = else.out])
       [] s.k = "while" ->
            LET body == Inner(s.body, InLoop(Push(env)))
            IN Accepted(env, IsBool(s.c) /\ body.ok, [s EXCEPT !.body = body.out])
       [] s.k = "for" ->
            LET init == Inner(s.init, InLoop(Push(env)))
                body == Inner(s.body, init.env)
            IN Accepted(env, /\ init.ok /\ body.ok
                             /\ s.c.k = "absent" \/ TypeOf(s.c, init.env) = TBool
                             /\ s.step.k = "absent" \/ TypeOf(s.step, init.env) # Bad,
                        [s EXCEPT !.init = init.out, !.body = body.out])
       [] s.k \in {"break", "continue"} -> Accepted(env, env.loop > 0, s)

AnalyseAll(stmts, env, ret) ==
  IF stmts = <<>> THEN [env |-> env, ok |-> TRUE, out |-> <<>>]
  ELSE LET first == Analyse(Head(stmts), env, ret)
           rest == AnalyseAll(Tail(stmts), first.env, ret)
       IN [env |-> rest.env, ok |-> first.ok /\ rest.ok, out |-> first.out \o rest.out]

-----------------------------------------------------------------------------
(* A program.                                                              *)

StartEnv(tab, mod) == [frames |-> <<>>, mod |-> mod, loop |-> 0, tab |-> tab]

\* All globals begin as wildcards; then each gets the type of its initialiser, in order.
WithGlobal(tab, g) ==
  [tab EXCEPT !.globals[g.name] = TypeOf(g.e, StartEnv(tab, NoModule))]

GlobalTypes(prog) ==
  LET After[i \in 0 .. Len(prog.globals)] ==
        IF i = 0 THEN Tables(prog) ELSE WithGlobal(After[i - 1], prog.globals[i])
  IN After[Len(prog.globals)]

AnalyseFunc(f, tab) ==
  LET Bind[i \in 0 .. Len(f.params)] ==
        IF i = 0 THEN Push(StartEnv(tab, f.mod))
        ELSE Declare(Bind[i - 1], f.params[i].name, f.params[i].ty)
  IN AnalyseAll(f.body, Bind[Len(f.params)], f.ret)

\* The typed program: accepted or not, the tables, and the functions with annotated bodies.
Bodies(funcs) ==
  LET After[i \in 0 .. Len(funcs)] == IF i = 0 THEN <<>> ELSE After[i - 1] \o funcs[i].body
  IN After[Len(funcs)]

Analysed(prog, funcs, results, tab) ==
  [ok |-> /\ \A x \in DOMAIN tab.globals : tab.globals[x] # Bad
          /\ \A i \in DOMAIN funcs : results[i].ok
          /\ AllLaidOut(prog.structs, tab.layouts)
          /\ NoAliases(Bodies(funcs)),
   tab |-> tab, globals |-> prog.globals,
   funcs |-> [i \in DOMAIN funcs |-> [funcs[i] EXCEPT !.body = results[i].out]]]

AnalyseBodies(funcs, tab) == [i \in DOMAIN funcs |-> AnalyseFunc(funcs[i], tab)]

AnalyseProgram(prog) ==
  LET tab == GlobalTypes(prog)
      funcs == Lifted(prog)
  IN Analysed(prog, funcs, AnalyseBodies(funcs, tab), tab)
=============================================================================
