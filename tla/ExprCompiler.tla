---------------------------- MODULE ExprCompiler ----------------------------
(***************************************************************************)
(* The code generator for expressions, closures and declarations,          *)
(* src/codegen/bytecode.rs, on a program that the analyser has typed.      *)
(*                                                                         *)
(* The compiler is a state c that the code threads through its recursive   *)
(* functions: the buffer of the function in hand, its flat scope, the      *)
(* stack of loops, and the functions emitted so far.  Jumps are by         *)
(* instruction index.  Errors of the compiler set err.                     *)
(***************************************************************************)
EXTENDS Analyzer

-----------------------------------------------------------------------------
(* The compiler's state.                                                   *)

\* A function whose code is still to come.
NewFunc == [nlocals |-> 0, code |-> <<>>]

NoScope == [x \in {} |-> [idx |-> 0, ty |-> NoType]]

\* typed is what AnalyseProgram returns; mod is the module of the current function, buffer
\* its index, init the function for the globals, and wild is set when a jump of one
\* buffer is patched in another.
StartCompiler(typed) ==
  [code |-> <<>>, scope |-> NoScope, next |-> 0, nlocals |-> 0, loops |-> <<>>,
   mod |-> NoModule, buffer |-> 0, init |-> 0, err |-> FALSE, wild |-> FALSE,
   funcs |-> <<>> \o [i \in DOMAIN typed.funcs |-> NewFunc]]

Emit(c, i) == [c EXCEPT !.code = Append(@, i)]
Op(c, op) == Emit(c, [op |-> op])
OpN(c, op, n) == Emit(c, [op |-> op, n |-> n])
Push1(c, v) == Emit(c, [op |-> "PUSH", v |-> v])
Failed(c) == [c EXCEPT !.err = TRUE]

\* Where the next instruction goes, and the patch of the jump at pos.
Mark(c) == Len(c.code) + 1

\* Mutant: one instruction too far.
PatchBehind(c, pos, target) == [c EXCEPT !.code[pos].n = target + 1]

Patch(c, pos, target) == [c EXCEPT !.code[pos].n = target]

\* Mutant: slots are numbered from 1.
DeclareLocalFromOne(c, x, ty) ==
  [c EXCEPT !.scope = (x :> [idx |-> c.next + 1, ty |-> ty]) @@ @, !.next = @ + 1]

\* A name is bound to a new slot; the one it was bound to is forgotten.
DeclareLocal(c, x, ty) ==
  [c EXCEPT !.scope = (x :> [idx |-> c.next, ty |-> ty]) @@ @, !.next = @ + 1]

DeclareParams(c, params) ==
  LET Bind[i \in 0 .. Len(params)] ==
        IF i = 0 THEN c ELSE DeclareLocal(Bind[i - 1], params[i].name, params[i].ty)
  IN Bind[Len(params)]

Maximum(a, b) == IF a >= b THEN a ELSE b

-----------------------------------------------------------------------------
(* The types that the code generator reconstructs.  NoType is None.        *)

RECURSIVE StaticType(_, _, _)

SigRet(n, typed) == IF n \in DOMAIN typed.tab.funcs THEN typed.tab.funcs[n].ret ELSE NoType

\* Mutant: the types of locals are not looked up.
StaticOfGlobal(x, c, typed) ==
  IF x \in DOMAIN typed.tab.globals THEN typed.tab.globals[x] ELSE NoType

StaticOfName(x, c, typed) ==
  LET short == <<NoModule, x>>
  IN IF x \in DOMAIN c.scope /\ c.scope[x].ty # NoType THEN c.scope[x].ty
     ELSE IF x \in DOMAIN typed.tab.globals THEN typed.tab.globals[x]
     ELSE IF short \in DOMAIN typed.tab.funcs
          THEN Fn(typed.tab.funcs[short].params, typed.tab.funcs[short].ret)
     ELSE NoType

StaticType(e, c, typed) ==
  LET Static(x) == StaticType(x, c, typed)
      OrVoid(t) == IF t = NoType THEN TVoid ELSE t
  IN CASE e.k = "int" -> TInt
       [] e.k = "bool" -> TBool
       [] e.k = "str" -> TStr
       [] e.k = "null" -> TVoid
       [] e.k = "id" -> StaticOfName(e.name, c, typed)
       [] e.k = "binary" ->
            (CASE e.op \in Equalities \cup Comparisons \cup Logical -> TBool
               [] e.op = "+" -> IF TStr \in {Static(e.l), Static(e.r)} THEN TStr
                                ELSE IF Static(e.l) # NoType THEN Static(e.l) ELSE Static(e.r)
               [] OTHER -> NoType)
       [] e.k = "unary" ->
            LET t == Static(e.e)
            IN (CASE e.op = "-" -> t
                  [] e.op = "!" -> TBool
                  [] e.op \in {"&", "&mut"} -> IF t = NoType THEN t ELSE Ptr(e.op = "&mut", t)
                  [] e.op = "*" -> IF t[1] = "ptr" THEN t[3] ELSE NoType)
       [] e.k = "call" -> IF e.e.k = "id" THEN SigRet(<<NoModule, e.e.name>>, typed)
                          ELSE IF e.e.k = "path" THEN SigRet(<<e.e.mod, e.e.name>>, typed)
                          ELSE NoType
       [] e.k = "field" ->
            LET t == Deref(Static(e.e))
            IN IF t[1] # "named" \/ t[2] \notin DOMAIN typed.tab.structs THEN NoType
               ELSE LET fields == typed.tab.structs[t[2]]
                        at == {i \in DOMAIN fields : fields[i].name = e.name}
                    IN IF at = {} THEN NoType ELSE fields[CHOOSE i \in at : TRUE].ty
       [] e.k = "method" ->
            LET t == Deref(Static(e.e))
            IN IF t[1] = "named" /\ <<t[2], e.name>> \in DOMAIN typed.tab.methods
               THEN SigRet(typed.tab.methods[<<t[2], e.name>>], typed)
               ELSE IF e.name = "len" THEN TInt ELSE TStr
       [] e.k = "assign" -> Static(e.r)
       [] e.k = "struct" -> Named(e.type)
       [] e.k = "list" -> List(IF e.args = <<>> THEN TVoid ELSE OrVoid(Static(e.args[1])))
       [] e.k = "map" -> IF e.pairs = <<>> THEN Map(TVoid, TVoid)
                         ELSE Map(OrVoid(Static(e.pairs[1][1])), OrVoid(Static(e.pairs[1][2])))
       [] e.k = "index" -> LET t == Deref(Static(e.l)) IN
            IF t[1] = "list" THEN t[2] ELSE IF t[1] = "map" THEN t[3] ELSE NoType
       [] e.k = "closure" -> Fn([i \in DOMAIN e.params |-> e.params[i].ty], e.ret)
       [] e.k = "interp" -> TStr
       [] e.k \in {"path", "block", "ifexpr", "ifonly", "ternary"} -> NoType

\* Mutant: printing counts as leaving a value.
LeavesUnlessStored(e) == e.k # "assign"

\* Does the code of an expression leave a value on the operand stack?
LeavesValue(e) ==
  ~(\/ e.k = "assign"
    \/ e.k = "call" /\ e.e.k = "id" /\ e.e.name \in {"say", "write"})

-----------------------------------------------------------------------------
(* The free variables of a closure: identifiers that it does not declare   *)
(* and that no function has, in the order of their first appearance.       *)

RECURSIVE FreeVars(_, _, _, _)

FreeVarsOfAll(nodes, decl, caps, F) ==
  LET After[i \in 0 .. Len(nodes)] ==
        IF i = 0 THEN caps ELSE FreeVars(nodes[i], decl, After[i - 1], F)
  IN After[Len(nodes)]

\* Only the lets directly in a block are known to be its own.
FreeVars(n, decl, caps, F) ==
  CASE n.k = "id" ->
         IF \/ n.name \in decl \cup {"say", "write"}
            \/ <<NoModule, n.name>> \in DOMAIN F
            \/ \E i \in DOMAIN caps : caps[i] = n.name
         THEN caps ELSE Append(caps, n.name)
    [] n.k = "closure" ->
         FreeVars(n.e, decl \cup {n.params[i].name : i \in DOMAIN n.params}, caps, F)
    [] n.k = "block" ->
         LET lets == {i \in DOMAIN n.body : n.body[i].k = "let"}
         IN FreeVarsOfAll(n.body, decl \cup {n.body[i].name : i \in lets}, caps, F)
    [] OTHER -> FreeVarsOfAll(SubNodes(n), decl, caps, F)

-----------------------------------------------------------------------------
(* Expressions.                                                            *)

RECURSIVE Compile(_, _, _), CompileAll(_, _, _)

CompileAll(nodes, c, typed) ==
  IF c.err \/ nodes = <<>> THEN c
  ELSE CompileAll(Tail(nodes), Compile(Head(nodes), c, typed), typed)

\* An object, seen through a pointer.
Receiver(e, c, typed) ==
  LET d == Compile(e, c, typed)
  IN IF StaticType(e, c, typed)[1] = "ptr" THEN Op(d, "DEREF") ELSE d

\* The slot of field f in objects of type t; 0 when there is none.
FieldSlot(t, f, c, typed) ==
  IF t[1] # "named" THEN 0
  ELSE LET s == Resolve(c.mod, t[2], typed.tab.structs)
           fields == typed.tab.structs[s]
           at == {i \in DOMAIN fields : fields[i].name = f}
       IN IF s \notin DOMAIN typed.tab.structs \/ at = {} THEN 0 ELSE CHOOSE i \in at : TRUE

OnField(e, op, c, typed) ==
  LET slot == FieldSlot(Deref(StaticType(e.e, c, typed)), e.name, c, typed)
  IN IF slot = 0 THEN Failed(c) ELSE OpN(c, op, slot)

GlobalSlot(x, typed) == CHOOSE i \in DOMAIN typed.globals : typed.globals[i].name = x

Functions(typed) == NameTable(typed.funcs)

\* A local, else a global, else a function, which becomes a closure without captures.
LoadName(x, c, typed) ==
  LET f == Resolve(c.mod, <<NoModule, x>>, Functions(typed))
  IN IF x \in DOMAIN c.scope THEN OpN(c, "LOAD_LOCAL", c.scope[x].idx)
     ELSE IF x \in DOMAIN typed.tab.globals THEN OpN(c, "GLOAD", GlobalSlot(x, typed))
     ELSE IF f \in DOMAIN Functions(typed)
          THEN Emit(c, [op |-> "NEW_CLOSURE", fn |-> Functions(typed)[f], n |-> 0])
     ELSE Failed(c)

\* Mutant: only the left side is looked at.
ConcatOnLeft(op, l, r) == IF op = "+" /\ l = TStr THEN "CONCAT" ELSE op

\* + is a concatenation when the code generator knows one side to be a string.
BinaryOp(op, l, r) == IF op = "+" /\ TStr \in {l, r} THEN "CONCAT" ELSE op

CompileBinary(e, c, typed) ==
  LET d == Compile(e.r, Compile(e.l, c, typed), typed)
  IN Op(d, BinaryOp(e.op, StaticType(e.l, d, typed), StaticType(e.r, d, typed)))

CompileUnary(e, c, typed) ==
  LET x == e.e
      Of(op) == Op(Compile(x, c, typed), op)
  IN CASE e.op = "-" -> Of("NEG")
       [] e.op = "!" -> Of("NOT")
       [] e.op = "*" -> Of("DEREF")
       [] e.op \in {"&", "&mut"} ->
            (CASE x.k = "id" -> IF x.name \notin DOMAIN c.scope THEN Failed(c)
                                ELSE OpN(c, "ADDR_LOCAL", c.scope[x.name].idx)
               [] x.k = "field" -> OnField(x, "ADDR_FIELD", Receiver(x.e, c, typed), typed)
               [] x.k = "unary" -> IF x.op = "*" THEN Compile(x.e, c, typed) ELSE Failed(c)
               [] OTHER -> Failed(c))

CompileAssign(l, r, c, typed) ==
  LET Value(d) == Compile(r, d, typed)
  IN CASE l.k = "id" ->
            IF l.name \in DOMAIN c.scope THEN OpN(Value(c), "STORE_LOCAL", c.scope[l.name].idx)
            ELSE IF l.name \in DOMAIN typed.tab.globals
                 THEN OpN(Value(c), "GSTORE", GlobalSlot(l.name, typed))
            ELSE Failed(c)
       [] l.k = "field" ->
            LET d == Receiver(l.e, c, typed)
                slot == FieldSlot(Deref(StaticType(l.e, d, typed)), l.name, d, typed)
            IN IF slot = 0 THEN Failed(d) ELSE OpN(Value(d), "STORE_FIELD", slot)
       [] l.k = "unary" ->
            IF l.op = "*" THEN Op(Value(Compile(l.e, c, typed)), "DEREF_STORE")
            ELSE Failed(c)
       [] l.k = "index" ->
            Op(Value(Compile(l.r, Receiver(l.l, c, typed), typed)), "INDEX_STORE")
       [] OTHER -> Failed(c)

\* The output builtins, then the other builtins, then a function by name, and last a value
\* that is a closure.
CompileCall(e, c, typed) ==
  LET named == e.e.k \in {"id", "path"}
      name == IF e.e.k = "id" THEN <<NoModule, e.e.name>> ELSE <<e.e.mod, e.e.name>>
      f == Resolve(c.mod, name, Functions(typed))
      builtin == e.e.k = "id" /\ e.e.name \in DOMAIN BuiltinSigs
      given == CompileAll(e.args, c, typed)
  IN IF builtin
     THEN IF e.e.name \in {"say", "write"}
          THEN IF Len(e.args) # 1 THEN Failed(c)
               ELSE Op(given, IF e.e.name = "say" THEN "PRINTLN" ELSE "PRINT")
          ELSE Emit(given, [op |-> "CALL_EXTERN", name |-> e.e.name, n |-> Len(e.args)])
     ELSE IF named /\ f \in DOMAIN Functions(typed)
     THEN Emit(given, [op |-> "CALL", fn |-> Functions(typed)[f], n |-> Len(e.args)])
     ELSE OpN(CompileAll(e.args, Compile(e.e, c, typed), typed), "CALL_CLOSURE",
              Len(e.args))

\* An impl method is called with its receiver as first argument.
CompileMethod(e, c, typed) ==
  LET d == Receiver(e.e, c, typed)
      t == Deref(StaticType(e.e, d, typed))
      given == CompileAll(e.args, d, typed)
      n == Len(e.args)
  IN IF t[1] = "named" /\ <<t[2], e.name>> \in DOMAIN typed.tab.methods
     THEN Emit(given, [op |-> "CALL", n |-> n + 1,
                       fn |-> Functions(typed)[typed.tab.methods[<<t[2], e.name>>]]])
     ELSE Emit(given, [op |-> "METHOD", name |-> e.name, n |-> n])

\* The fields in declared order; one that is not written is null.
CompileStructLit(e, c, typed) ==
  LET s == Resolve(c.mod, e.type, typed.tab.structs)
      declared == typed.tab.structs[s]
      Written(i) == {j \in DOMAIN e.fields : e.fields[j][1] = declared[i].name}
      inOrder == [i \in DOMAIN declared |->
                    IF Written(i) = {} THEN NullLit
                    ELSE e.fields[CHOOSE j \in Written(i) :
                                    \A k \in Written(i) : j <= k][2]]
  IN IF s \notin DOMAIN typed.tab.structs THEN Failed(c)
     ELSE OpN(CompileAll(inOrder, c, typed), "NEW_STRUCT", Len(declared))

\* n - 1 concatenations over n parts.
CompileInterp(e, c, typed) ==
  LET Joined[i \in 1 .. Len(e.args)] ==
        IF i = 1 THEN CompileAll(e.args, c, typed) ELSE Op(Joined[i - 1], "CONCAT")
  IN IF e.args = <<>> THEN Push1(c, <<"str", "">>) ELSE Joined[Len(e.args)]

\* Without else, the jump over the other value is missing.
CompileChoice(e, c, typed) ==
  LET jz == Compile(e.c, c, typed)
      then == Compile(e.l, OpN(jz, "JZ", 0), typed)
      jmp == OpN(then, "JMP", 0)
      else == Compile(e.r, Patch(jmp, Mark(jz), Mark(jmp)), typed)
  IN IF e.k = "ifonly" THEN Push1(Patch(then, Mark(jz), Mark(then)), <<"null">>)
     ELSE Patch(else, Mark(then), Mark(else))

\* Free variables that are locals are captured by value, globals need no capture, any
\* other is an error.  The body is a function of its own with a scope of captures and
\* parameters; the loop stack stays.
CompileClosure(e, c, typed) ==
  LET own == {e.params[i].name : i \in DOMAIN e.params}
      free == FreeVars(e.e, own, <<>>, Functions(typed))
      caps == SelectSeq(free, LAMBDA x : x \in DOMAIN c.scope)
      lost == \E i \in DOMAIN free :
                free[i] \notin DOMAIN c.scope \cup DOMAIN typed.tab.globals
      Loaded[i \in 0 .. Len(caps)] ==
        IF i = 0 THEN c ELSE OpN(Loaded[i - 1], "LOAD_LOCAL", c.scope[caps[i]].idx)
      outer == Loaded[Len(caps)]
      fidx == Len(c.funcs) + 1
      fresh == [outer EXCEPT !.code = <<>>, !.scope = NoScope, !.next = 0, !.buffer = fidx,
                             !.nlocals = Len(caps) + Len(e.params),
                             !.funcs = Append(@, NewFunc)]
      captured == [i \in DOMAIN caps |-> Param(caps[i], c.scope[caps[i]].ty)]
      start == DeclareParams(DeclareParams(fresh, captured), e.params)
      body == IF e.e.k = "block" THEN Op(CompileAll(e.e.body, start, typed), "RETURN_VOID")
              ELSE Op(Compile(e.e, start, typed), "RETURN")
      after == [body EXCEPT !.code = outer.code, !.scope = c.scope, !.next = c.next,
                            !.nlocals = c.nlocals, !.buffer = c.buffer,
                            !.funcs[fidx] = [nlocals |-> body.nlocals, code |-> body.code]]
  IN IF lost THEN Failed(c)
     ELSE Emit(after, [op |-> "NEW_CLOSURE", fn |-> fidx, n |-> Len(caps)])

CompileExpr(e, c, typed) ==
  CASE e.k = "int" -> Push1(c, <<"int", e.int>>)
    [] e.k = "bool" -> Push1(c, <<"bool", e.bool>>)
    [] e.k = "str" -> Push1(c, <<"str", e.str>>)
    [] e.k = "null" -> Push1(c, <<"null">>)
    [] e.k = "id" -> LoadName(e.name, c, typed)
    [] e.k = "path" -> Failed(c)
    [] e.k = "binary" -> CompileBinary(e, c, typed)
    [] e.k = "unary" -> CompileUnary(e, c, typed)
    [] e.k = "call" -> CompileCall(e, c, typed)
    [] e.k = "field" -> OnField(e, "LOAD_FIELD", Receiver(e.e, c, typed), typed)
    [] e.k = "method" -> CompileMethod(e, c, typed)
    [] e.k = "assign" -> CompileAssign(e.l, e.r, c, typed)
    [] e.k = "struct" -> CompileStructLit(e, c, typed)
    [] e.k = "list" -> OpN(CompileAll(e.args, c, typed), "NEW_LIST", Len(e.args))
    [] e.k = "map" -> OpN(CompileAll(SubNodes(e), c, typed), "NEW_MAP", Len(e.pairs))
    [] e.k = "index" -> Op(Compile(e.r, Receiver(e.l, c, typed), typed), "INDEX")
    [] e.k = "closure" -> CompileClosure(e, c, typed)
    [] e.k = "block" -> Push1(CompileAll(e.body, c, typed), <<"null">>)
    [] e.k \in {"ifexpr", "ifonly", "ternary"} -> CompileChoice(e, c, typed)
    [] e.k = "interp" -> CompileInterp(e, c, typed)

-----------------------------------------------------------------------------
(* Statements.                                                             *)

CompileDiscarded(e, c, typed) ==
  LET d == Compile(e, c, typed)
  IN IF LeavesValue(e) THEN Op(d, "POP") ELSE d

\* The slot is declared before the initialiser is compiled.
CompileLet(s, c, typed) ==
  LET slot == c.next
      d == Compile(s.e, DeclareLocal(c, s.name, s.ty), typed)
  IN [OpN(d, "STORE_LOCAL", slot) EXCEPT !.nlocals = Maximum(@, slot + 1)]

CompileIf(s, c, typed) ==
  LET jz == Compile(s.c, c, typed)
      then == CompileAll(s.then, OpN(jz, "JZ", 0), typed)
      jmp == OpN(then, "JMP", 0)
      else == CompileAll(s.else, Patch(jmp, Mark(jz), Mark(jmp)), typed)
  IN IF s.else = <<>> THEN Patch(then, Mark(jz), Mark(then))
     ELSE Patch(else, Mark(then), Mark(else))

\* Jumps out of a loop body are remembered in the innermost loop; one from another buffer
\* is patched in the wrong code.
LoopJump(kind, c) ==
  LET n == Len(c.loops)
  IN IF c.loops = <<>> THEN Failed(c)
     ELSE IF c.loops[n].buffer # c.buffer
     THEN [OpN(c, "JMP", 0) EXCEPT !.wild = TRUE]
     ELSE [OpN(c, "JMP", 0) EXCEPT !.loops[n][kind] = @ \cup {Mark(c)}]

EnterLoop(c) ==
  [c EXCEPT !.loops = Append(@, [buffer |-> c.buffer, break |-> {}, continue |-> {}])]

\* Closes the innermost loop: continue goes to next, break and the failed condition behind
\* the jump back to start.
CloseLoop(c, start, exit, next) ==
  LET d == OpN(c, "JMP", start)
      loop == d.loops[Len(d.loops)]
      Target(i) == IF i \in loop.break \cup exit THEN Mark(d)
                   ELSE IF i \in loop.continue THEN next ELSE d.code[i].n
      Jumps == loop.break \cup loop.continue \cup exit
  IN [d EXCEPT !.loops = SubSeq(@, 1, Len(@) - 1),
               !.code = <<>> \o [i \in DOMAIN @ |->
                           IF i \in Jumps THEN [@[i] EXCEPT !.n = Target(i)] ELSE @[i]]]

CompileWhile(s, c, typed) ==
  LET jz == Compile(s.c, c, typed)
      body == CompileAll(s.body, EnterLoop(OpN(jz, "JZ", 0)), typed)
  IN CloseLoop(body, Mark(c), {Mark(jz)}, Mark(c))

\* The initialiser's variable stays in the scope of the function.
CompileFor(s, c, typed) ==
  LET init == CompileAll(s.init, c, typed)
      jz == Compile(s.c, init, typed)
      entered == IF s.c.k = "absent" THEN init ELSE OpN(jz, "JZ", 0)
      exit == IF s.c.k = "absent" THEN {} ELSE {Mark(jz)}
      body == CompileAll(s.body, EnterLoop(entered), typed)
      step == IF s.step.k = "absent" THEN body ELSE CompileDiscarded(s.step, body, typed)
  IN CloseLoop(step, Mark(init), exit, Mark(body))

CompileStmt(s, c, typed) ==
  CASE s.k = "let" -> CompileLet(s, c, typed)
    [] s.k = "expr" -> CompileDiscarded(s.e, c, typed)
    [] s.k = "return" -> Op(Compile(s.e, c, typed), "RETURN")
    [] s.k = "returnvoid" -> Op(c, "RETURN_VOID")
    [] s.k = "if" -> CompileIf(s, c, typed)
    [] s.k = "while" -> CompileWhile(s, c, typed)
    [] s.k = "for" -> CompileFor(s, c, typed)
    [] s.k \in {"break", "continue"} -> LoopJump(s.k, c)

Statements == {"let", "expr", "return", "returnvoid", "if", "while", "for", "break", "continue"}

Compile(node, c, typed) ==
  IF node.k \in Statements THEN CompileStmt(node, c, typed) ELSE CompileExpr(node, c, typed)

-----------------------------------------------------------------------------
(* Declarations.                                                           *)

StartFunc(c, i, mod) ==
  [c EXCEPT !.code = <<>>, !.scope = NoScope, !.next = 0, !.nlocals = 0,
            !.mod = mod, !.buffer = i]

KeepCode(i, c) == [c EXCEPT !.funcs[i].code = Op(c, "RETURN_VOID").code]
KeepLocals(i, c) == [c EXCEPT !.funcs[i].nlocals = c.nlocals]

\* A function's body, with the return that an end without one needs.
CompileFunc(i, c, typed) ==
  LET f == typed.funcs[i]
      start == DeclareParams(StartFunc(c, i, f.mod), f.params)
  IN KeepLocals(i, KeepCode(i,
       CompileAll(f.body, [start EXCEPT !.nlocals = Len(f.params)], typed)))

\* A function that stores every global's initialiser, in order, and has no locals.
CompileGlobals(c, typed) ==
  LET i == Len(c.funcs) + 1
      start == StartFunc([c EXCEPT !.funcs = Append(@, NewFunc), !.init = i], i, c.mod)
      Stored[g \in 0 .. Len(typed.globals)] ==
        IF g = 0 THEN start
        ELSE OpN(Compile(typed.globals[g].e, Stored[g - 1], typed), "GSTORE",
                 GlobalSlot(typed.globals[g].name, typed))
  IN IF typed.globals = <<>> THEN c ELSE KeepCode(i, Stored[Len(typed.globals)])

\* The program as the VM gets it; init is 0 when there are no globals.
Linked(c, F) ==
  LET main == <<NoModule, "main">>
  IN [funcs |-> c.funcs, err |-> c.err \/ main \notin DOMAIN F, wild |-> c.wild,
      main |-> IF main \in DOMAIN F THEN F[main] ELSE 0, init |-> c.init]

CompileProgram(typed) ==
  LET Compiled[i \in 0 .. Len(typed.funcs)] ==
        IF i = 0 THEN StartCompiler(typed) ELSE CompileFunc(i, Compiled[i - 1], typed)
  IN Linked(CompileGlobals(Compiled[Len(typed.funcs)], typed), Functions(typed))
=============================================================================
