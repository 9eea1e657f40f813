----------------------------- MODULE Evaluation -----------------------------
(***************************************************************************)
(* What a program of the language means, without compiler or VM: a direct  *)
(* evaluation of the syntax tree.  A name means the innermost declaration  *)
(* of the block structure around it; an initialiser is evaluated before    *)
(* its name exists; a closure keeps the values that its free names had     *)
(* where it was made; a block that stands for a value has that of its last *)
(* expression.                                                             *)
(*                                                                         *)
(* A state s holds the cells of variables, the objects, the output and the *)
(* first fault.  An environment has the cells of the visible names and the *)
(* current module.  Evaluation gives [v, s].                               *)
(***************************************************************************)
EXTENDS Ast, Integers, TLC

LOCAL Nothing == <<"null">>
LOCAL Given(v, s) == [v |-> v, s |-> s]
\* What comes after r, which a fault in r prevents.
LOCAL Then(r, next) == IF r.s.fault # "" THEN [v |-> <<"null">>, s |-> r.s] ELSE next
LOCAL Faulty(kind, s) == [v |-> Nothing, s |-> [s EXCEPT !.fault = kind]]

\* The function of a position in the program's functions or impl blocks.
MethodNamed(prog, tag, m) ==
  LET of == prog.structs[tag]
      Blocks == {b \in DOMAIN prog.impls :
                   prog.impls[b].type = of.name /\ prog.impls[b].mod = of.mod}
      Found == {bm \in UNION {{b} \X DOMAIN prog.impls[b].methods : b \in Blocks} :
                  prog.impls[bm[1]].methods[bm[2]].name = m}
  IN [mod |-> of.mod,
      defs |-> {prog.impls[bm[1]].methods[bm[2]] : bm \in Found}]

NewCell(s, v) == [s EXCEPT !.cells = Append(@, v)]
Bound(env, x, s) == [env EXCEPT !.vars = (x :> Len(s.cells)) @@ @]

RECURSIVE TextOf(_, _)
TextOf(v, s) ==
  LET o == s.objs[v[2]]
      Items[i \in 0 .. Len(o.items)] ==
        IF i = 0 THEN ""
        ELSE Items[i - 1] \o (IF i = 1 THEN "" ELSE ", ") \o
             (IF o.kind = "list" THEN TextOf(o.items[i], s)
              ELSE TextOf(o.items[i][1], s) \o ": " \o TextOf(o.items[i][2], s))
  IN CASE v[1] = "int" -> ToString(v[2])
       [] v[1] = "bool" -> IF v[2] THEN "true" ELSE "false"
       [] v[1] = "null" -> "null"
       [] v[1] = "str" -> v[2]
       [] v[1] = "obj" -> (CASE o.kind = "list" -> "[" \o Items[Len(o.items)] \o "]"
                             [] o.kind = "map" -> "{" \o Items[Len(o.items)] \o "}"
                             [] OTHER -> "<object>")
       [] OTHER -> "<object>"

\* A pointer leads to a variable's cell or to an item of an object.
LoadAt(p, s) == IF p[1] = "cell" THEN s.cells[p[2]] ELSE s.objs[p[2]].items[p[3]]
StoreAt(p, v, s) == IF p[1] = "cell" THEN [s EXCEPT !.cells[p[2]] = v]
                    ELSE [s EXCEPT !.objs[p[2]].items[p[3]] = v]
IsPointer(v) == v[1] \in {"cell", "item"}
Through(v, s) == IF IsPointer(v) THEN LoadAt(v, s) ELSE v

\* Equality of numbers, truth values and strings by value, of objects by identity.
Operate(op, a, b, s) ==
  LET truth(x) == Given(<<"bool", x>>, s)
      num(n) == Given(<<"int", n>>, s)
      x == a[2]
      y == b[2]
      abs(n) == IF n < 0 THEN 0 - n ELSE n
      quot == IF (x < 0) = (y < 0) THEN abs(x) \div abs(y) ELSE 0 - (abs(x) \div abs(y))
  IN CASE op = "+" -> IF "str" \in {a[1], b[1]}
                      THEN Given(<<"str", TextOf(a, s) \o TextOf(b, s)>>, s) ELSE num(x + y)
       [] op = "-" -> num(x - y)
       [] op = "*" -> num(x * y)
       [] op = "/" -> IF y = 0 THEN Faulty("panic", s) ELSE num(quot)
       [] op = "%" -> IF y = 0 THEN Faulty("value", s) ELSE num(x - y * quot)
       [] op = "==" -> truth(a = b)
       [] op = "!=" -> truth(a # b)
       [] op = "<" -> truth(x < y)
       [] op = "<=" -> truth(x <= y)
       [] op = ">" -> truth(x > y)
       [] op = ">=" -> truth(x >= y)
       [] op = "&&" -> truth(x /\ y)
       [] op = "||" -> truth(x \/ y)

\* Containers.
Positions(o, key) == {i \in DOMAIN o.items : o.items[i][1] = key}
At1(o, i) == i[1] = "int" /\ i[2] + 1 \in DOMAIN o.items

ItemOf(v, i, s) ==
  LET o == s.objs[v[2]]
  IN IF o.kind = "list"
     THEN IF At1(o, i) THEN Given(o.items[i[2] + 1], s) ELSE Faulty("value", s)
     ELSE LET at == Positions(o, i)
          IN Given(IF at = {} THEN Nothing ELSE o.items[CHOOSE p \in at : TRUE][2], s)

PutItem(v, i, x, s) ==
  LET o == s.objs[v[2]]
      at == Positions(o, i)
  IN IF o.kind = "list"
     THEN IF At1(o, i) THEN [s EXCEPT !.objs[v[2]].items[i[2] + 1] = x]
          ELSE [s EXCEPT !.fault = "value"]
     ELSE IF at = {} THEN [s EXCEPT !.objs[v[2]].items = Append(@, <<i, x>>)]
     ELSE [s EXCEPT !.objs[v[2]].items[CHOOSE p \in at : TRUE] = <<i, x>>]

NewObj(kind, items, tag, s) ==
  Given(<<"obj", Len(s.objs) + 1>>,
        [s EXCEPT !.objs = Append(@, [kind |-> kind, items |-> items, tag |-> tag])])

ListOp(v, m, args, s) ==
  LET items == s.objs[v[2]].items
      n == Len(items)
      With(new) == [s EXCEPT !.objs[v[2]].items = new]
  IN CASE m = "len" -> Given(<<"int", n>>, s)
       [] m = "push" -> Given(Nothing, With(Append(items, args[1])))
       [] m = "pop" -> IF n = 0 THEN Given(Nothing, s)
                       ELSE Given(items[n], With(SubSeq(items, 1, n - 1)))
       [] m = "get" -> Given(IF At1(s.objs[v[2]], args[1]) THEN items[args[1][2] + 1]
                             ELSE Nothing, s)
       [] m = "set" -> Given(Nothing, IF At1(s.objs[v[2]], args[1])
                                      THEN PutItem(v, args[1], args[2], s) ELSE s)

MapOp(v, m, args, s) ==
  LET o == s.objs[v[2]]
  IN CASE m = "len" -> Given(<<"int", Len(o.items)>>, s)
       [] m = "set" -> Given(Nothing, PutItem(v, args[1], args[2], s))
       [] m = "get" -> ItemOf(v, args[1], s)
       [] m = "has" -> Given(<<"bool", Positions(o, args[1]) # {}>>, s)
       [] m = "remove" ->
            Given(<<"bool", Positions(o, args[1]) # {}>>,
                  [s EXCEPT !.objs[v[2]].items = SelectSeq(@, LAMBDA p : p[1] # args[1])])
       [] m = "keys" -> NewObj("list", [i \in DOMAIN o.items |-> o.items[i][1]], 0, s)

StrOp(t, m, args, s) ==
  LET from == IF args[1][2] < 0 THEN 0 ELSE args[1][2]
      upto == IF args[2][2] > Len(t) THEN Len(t) ELSE args[2][2]
  IN CASE m = "len" -> Given(<<"int", Len(t)>>, s)
       [] m = "substr" -> IF from > Len(t) THEN Faulty("panic", s)
                          ELSE Given(<<"str", SubSeq(t, from + 1, upto)>>, s)

-----------------------------------------------------------------------------

RECURSIVE Eval(_, _, _, _), EvalAll(_, _, _, _), Run(_, _, _, _), RunAll(_, _, _, _),
          Loop(_, _, _, _, _)

EvalAll(es, env, s, prog) ==
  IF es = <<>> THEN Given(<<>>, s)
  ELSE LET first == Eval(Head(es), env, s, prog)
           rest == EvalAll(Tail(es), env, first.s, prog)
       IN Given(<<first.v>> \o rest.v, rest.s)

\* Parameters become cells of their own.
Bind(params, args, env, s) ==
  LET After[i \in 0 .. Len(params)] ==
        IF i = 0 THEN [env |-> env, s |-> s]
        ELSE LET t == NewCell(After[i - 1].s, args[i])
             IN [env |-> Bound(After[i - 1].env, params[i].name, t), s |-> t]
  IN After[Len(params)]

Invoke(f, args, env, s, prog) ==
  LET b == Bind(f.params, args, env, s)
      r == RunAll(f.body, b.env, b.s, prog)
  IN Given(IF r.sig = "return" THEN r.v ELSE Nothing, r.s)

Apply(fn, args, s, prog) ==
  LET seeded == Bind([i \in DOMAIN fn[3] |-> [name |-> fn[3][i][1]]],
                     [i \in DOMAIN fn[3] |-> fn[3][i][2]], fn[4], s)
      c == fn[2]
      b == Bind(c.params, args, seeded.env, seeded.s)
  IN IF c.e.k = "block" THEN Invoke([params |-> <<>>, body |-> c.e.body], <<>>, b.env, b.s, prog)
     ELSE Eval(c.e, b.env, b.s, prog)

FunctionNamed(prog, mod, n) == Resolve(mod, n, NameTable(prog.funcs))
HasFunction(prog, mod, n) == FunctionNamed(prog, mod, n) \in DOMAIN NameTable(prog.funcs)

CallFunction(f, args, env, s, prog) ==
  Invoke(f, args, [vars |-> env.globals, globals |-> env.globals, mod |-> f.mod], s, prog)

\* A closure is its expression with the values of the visible locals.
Capture(e, env, s) ==
  LET locals == {x \in DOMAIN env.vars : x \notin DOMAIN env.globals \/
                                         env.vars[x] # env.globals[x]}
      Pairs(S) == LET RECURSIVE Seq1(_)
                      Seq1(T) == IF T = {} THEN <<>>
                                 ELSE LET x == CHOOSE x \in T : TRUE
                                      IN <<<<x, s.cells[env.vars[x]]>>>> \o Seq1(T \ {x})
                  IN Seq1(S)
  IN <<"fn", e, Pairs(locals), [vars |-> env.globals, globals |-> env.globals, mod |-> env.mod]>>

\* Where an assignable expression is: a pointer, or for an entry of a container the container
\* and its index.
Place(e, env, s, prog) ==
  CASE e.k = "id" -> Given(<<"cell", env.vars[e.name]>>, s)
    [] e.k = "field" ->
         LET o == Eval(e.e, env, s, prog)
             v == Through(o.v, o.s)
             fields == prog.structs[o.s.objs[v[2]].tag].fields
         IN Given(<<"item", v[2], CHOOSE i \in DOMAIN fields : fields[i].name = e.name>>, o.s)
    [] e.k = "unary" -> Eval(e.e, env, s, prog)
    [] e.k = "index" ->
         LET o == Eval(e.l, env, s, prog)
             i == Eval(e.r, env, o.s, prog)
         IN Given(<<"entry", Through(o.v, o.s), i.v>>, i.s)

EvalCall(e, env, s, prog) ==
  LET n == IF e.e.k = "path" THEN <<e.e.mod, e.e.name>> ELSE <<NoModule, e.e.name>>
      args == EvalAll(e.args, env, s, prog)
      f == prog.funcs[NameTable(prog.funcs)[FunctionNamed(prog, env.mod, n)]]
      callee == Eval(e.e, env, s, prog)
      given == EvalAll(e.args, env, callee.s, prog)
      Printed(end) == Given(Nothing, [args.s EXCEPT !.out = @ \o TextOf(args.v[1], args.s) \o end])
  IN IF args.s.fault # "" THEN Given(Nothing, args.s)
     ELSE IF e.e.k = "id" /\ e.e.name = "say" THEN Printed(";")
     ELSE IF e.e.k = "id" /\ e.e.name = "write" THEN Printed("")
     ELSE IF e.e.k = "id" /\ e.e.name = "terminal_rows" THEN Given(<<"int", 24>>, s)
     ELSE IF e.e.k \in {"id", "path"} /\ HasFunction(prog, env.mod, n)
     THEN CallFunction(f, args.v, env, args.s, prog)
     ELSE Apply(callee.v, given.v, given.s, prog)

EvalMethod(e, env, s, prog) ==
  LET o == Eval(e.e, env, s, prog)
      recv == Through(o.v, o.s)
      args == EvalAll(e.args, env, o.s, prog)
      obj == o.s.objs[recv[2]]
      found == MethodNamed(prog, obj.tag, e.name)
      m == CHOOSE m \in found.defs : TRUE
  IN IF args.s.fault # "" THEN Given(Nothing, args.s)
     ELSE IF recv[1] = "str" THEN StrOp(recv[2], e.name, args.v, args.s)
     ELSE CASE obj.kind = "list" -> ListOp(recv, e.name, args.v, args.s)
            [] obj.kind = "map" -> MapOp(recv, e.name, args.v, args.s)
            [] obj.kind = "struct" ->
                 Invoke([params |-> <<Param("this", NoType)>> \o m.params, body |-> m.body],
                        <<recv>> \o args.v,
                        [vars |-> env.globals, globals |-> env.globals, mod |-> found.mod],
                        args.s, prog)

EvalStructLit(e, env, s, prog) ==
  LET table == NameTable(prog.structs)
      tag == table[Resolve(env.mod, e.type, table)]
      declared == prog.structs[tag].fields
      r == EvalAll([i \in DOMAIN declared |->
                      e.fields[CHOOSE j \in DOMAIN e.fields :
                                 e.fields[j][1] = declared[i].name][2]], env, s, prog)
  IN NewObj("struct", r.v, tag, r.s)

\* The last expression of a block gives its value, in the scope of the block.
EvalBlock(e, env, s, prog) ==
  LET exprs == {i \in DOMAIN e.body : e.body[i].k = "expr"}
      last == CHOOSE i \in exprs : \A j \in exprs : j <= i
      r == RunAll(SubSeq(e.body, 1, last - 1), env, s, prog)
      v == Eval(e.body[last].e, r.env, r.s, prog)
      after == RunAll(SubSeq(e.body, last + 1, Len(e.body)), r.env, v.s, prog)
  IN IF exprs = {} THEN Given(Nothing, RunAll(e.body, env, s, prog).s) ELSE Given(v.v, after.s)

Eval(e, env, s, prog) ==
  LET Sub(x) == Eval(x, env, s, prog)
      two == EvalAll(<<e.l, e.r>>, env, s, prog)
      args == EvalAll(e.args, env, s, prog)
  IN IF s.fault # "" THEN Given(Nothing, s)
     ELSE
     CASE e.k = "int" -> Given(<<"int", e.int>>, s)
       [] e.k = "bool" -> Given(<<"bool", e.bool>>, s)
       [] e.k = "str" -> Given(<<"str", e.str>>, s)
       [] e.k = "null" -> Given(Nothing, s)
       [] e.k = "id" ->
            LET f == FunctionNamed(prog, env.mod, <<NoModule, e.name>>)
                def == prog.funcs[NameTable(prog.funcs)[f]]
            IN IF e.name \in DOMAIN env.vars THEN Given(s.cells[env.vars[e.name]], s)
               ELSE Given(<<"fn", Closure(def.params, def.ret, Block(def.body)), <<>>,
                            [vars |-> env.globals, globals |-> env.globals,
                             mod |-> def.mod]>>, s)
       [] e.k = "binary" ->
            Then(two, Operate(e.op, two.v[1], two.v[2], two.s))
       [] e.k = "unary" ->
            (CASE e.op \in {"&", "&mut"} -> Place(e.e, env, s, prog)
               [] e.op = "*" -> LET p == Sub(e.e) IN Then(p, Given(LoadAt(p.v, p.s), p.s))
               [] e.op = "-" -> LET n == Sub(e.e) IN Then(n, Given(<<"int", 0 - n.v[2]>>, n.s))
               [] e.op = "!" -> LET b == Sub(e.e) IN Then(b, Given(<<"bool", ~b.v[2]>>, b.s)))
       [] e.k = "call" -> EvalCall(e, env, s, prog)
       [] e.k = "field" -> LET p == Place(e, env, s, prog) IN Given(LoadAt(p.v, p.s), p.s)
       [] e.k = "method" -> EvalMethod(e, env, s, prog)
       [] e.k = "assign" ->
            LET p == Place(e.l, env, s, prog)
                r == Eval(e.r, env, p.s, prog)
            IN Then(r, Given(Nothing,
                                IF p.v[1] = "entry" THEN PutItem(p.v[2], p.v[3], r.v, r.s)
                                ELSE StoreAt(p.v, r.v, r.s)))
       [] e.k = "struct" -> EvalStructLit(e, env, s, prog)
       [] e.k = "list" -> NewObj("list", args.v, 0, args.s)
       [] e.k = "map" ->
            LET kv == EvalAll([i \in 1 .. 2 * Len(e.pairs) |->
                                 e.pairs[(i + 1) \div 2][2 - (i % 2)]], env, s, prog)
            IN NewObj("map", [i \in DOMAIN e.pairs |-> <<kv.v[2 * i - 1], kv.v[2 * i]>>],
                      0, kv.s)
       [] e.k = "index" -> Then(two, ItemOf(Through(two.v[1], two.s), two.v[2], two.s))
       [] e.k = "closure" -> Given(Capture(e, env, s), s)
       [] e.k = "block" -> EvalBlock(e, env, s, prog)
       [] e.k \in {"ifexpr", "ternary"} ->
            LET c == Sub(e.c) IN Then(c, Eval(IF c.v[2] THEN e.l ELSE e.r, env, c.s, prog))
       [] e.k = "ifonly" ->
            LET c == Sub(e.c) IN Then(c, IF c.v[2] THEN Eval(e.l, env, c.s, prog) ELSE c)
       [] e.k = "interp" ->
            LET Joined[i \in 0 .. Len(args.v)] ==
                  IF i = 0 THEN "" ELSE Joined[i - 1] \o TextOf(args.v[i], args.s)
            IN Then(args, Given(<<"str", Joined[Len(args.v)]>>, args.s))

-----------------------------------------------------------------------------
(* Statements: [env, s, sig, v], where sig is how the statement ended.     *)

Ended(sig, v, env, s) == [env |-> env, s |-> s, sig |-> sig, v |-> v]

RunAll(stmts, env, s, prog) ==
  IF stmts = <<>> \/ s.fault # "" THEN Ended("next", Nothing, env, s)
  ELSE LET first == Run(Head(stmts), env, s, prog)
       IN IF first.sig # "next" THEN first ELSE RunAll(Tail(stmts), first.env, first.s, prog)

\* Runs body and step as long as the condition holds.
Loop(c, step, body, env, sp) ==
  LET cond == Eval(c, env, sp.s, sp.prog)
      go == c.k = "absent" \/ cond.v[2]
      tested == IF c.k = "absent" THEN sp.s ELSE cond.s
      r == RunAll(body, env, tested, sp.prog)
      stepped == IF step.k = "absent" THEN r.s ELSE Eval(step, env, r.s, sp.prog).s
  IN IF tested.fault # "" THEN Ended("next", Nothing, env, tested)
     ELSE IF ~go THEN Ended("next", Nothing, env, tested)
     ELSE CASE r.sig = "return" -> r
            [] r.sig = "break" -> Ended("next", Nothing, env, r.s)
            [] OTHER -> IF r.s.fault # "" THEN Ended("next", Nothing, env, r.s)
                        ELSE Loop(c, step, body, env, [sp EXCEPT !.s = stepped])

Run(st, env, s, prog) ==
  CASE st.k = "let" ->
         LET r == Eval(st.e, env, s, prog)
             t == NewCell(r.s, r.v)
         IN Ended("next", Nothing, Bound(env, st.name, t), t)
    [] st.k = "expr" -> Ended("next", Nothing, env, Eval(st.e, env, s, prog).s)
    [] st.k = "return" -> LET r == Eval(st.e, env, s, prog)
                          IN Ended("return", r.v, env, r.s)
    [] st.k = "returnvoid" -> Ended("return", Nothing, env, s)
    [] st.k = "if" -> LET c == Eval(st.c, env, s, prog)
                      IN IF c.s.fault # "" THEN Ended("next", Nothing, env, c.s)
                         ELSE [RunAll(IF c.v[2] THEN st.then ELSE st.else, env, c.s, prog)
                                 EXCEPT !.env = env]
    [] st.k = "while" ->
         [Loop(st.c, Absent, st.body, env, [s |-> s, prog |-> prog]) EXCEPT !.env = env]
    [] st.k = "for" ->
         LET init == RunAll(st.init, env, s, prog)
         IN [Loop(st.c, st.step, st.body, init.env, [s |-> init.s, prog |-> prog])
               EXCEPT !.env = env]
    [] st.k \in {"break", "continue"} -> Ended(st.k, Nothing, env, s)

-----------------------------------------------------------------------------

LOCAL InCell(i, r) == [r.s EXCEPT !.cells[i] = r.v]
LOCAL Ending(r) ==
  [out |-> r.s.out, end |-> IF r.s.fault # "" THEN r.s.fault ELSE "done", v |-> r.v]

\* What a program prints, and how it ends: "done" with the value of main, or a fault.
Meaning(prog) ==
  LET n == Len(prog.globals)
      Cells == [i \in 1 .. n |-> Nothing]
      vars == [x \in {prog.globals[i].name : i \in 1 .. n} |->
                 CHOOSE i \in 1 .. n : prog.globals[i].name = x]
      env == [vars |-> vars, globals |-> vars, mod |-> NoModule]
      s0 == [cells |-> <<>> \o Cells, objs |-> <<>>, out |-> "", fault |-> ""]
      Init[i \in 0 .. n] ==
        IF i = 0 THEN s0
        ELSE InCell(i, Eval(prog.globals[i].e, env, Init[i - 1], prog))
  IN Ending(Eval(Call(Ident("main"), <<>>), env, Init[n], prog))
=============================================================================
