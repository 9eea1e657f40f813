-------------------------------- MODULE Ast --------------------------------
(***************************************************************************)
(* The abstract syntax that the parser hands to the semantic analyser and  *)
(* the analyser to the code generator: src/parser/ast.rs.                  *)
(*                                                                         *)
(* A node is a record whose field k names the variant.  Positions are left *)
(* out.  Statements that only move control between handlers (throw, try)   *)
(* are the subject of TryCompiler.                                         *)
(***************************************************************************)
EXTENDS Naturals, Sequences

-----------------------------------------------------------------------------
(* Types.  A type is a tuple that begins with its variant.                 *)

TInt == <<"int">>
TBool == <<"bool">>
TStr == <<"str">>
TVoid == <<"void">>
Var(v) == <<"var", v>>
Named(n) == <<"named", n>>              \* n is a name: <<module, short name>>
Ptr(mut, t) == <<"ptr", mut, t>>
List(t) == <<"list", t>>
Map(k, v) == <<"map", k, v>>
Fn(params, ret) == <<"fn", params, ret>>

AnyType == Var("Any")

\* Types that only the parser's part of the model knows.
TFloat == <<"float">>
Array(t) == <<"array", t>>
Generic(n, args) == <<"generic", n, args>>
Trait(n) == <<"trait", n>>

\* The annotation of a declaration that has none.
NoType == <<"none">>

-----------------------------------------------------------------------------
(* Expressions.                                                            *)

IntLit(n) == [k |-> "int", int |-> n]
BoolLit(b) == [k |-> "bool", bool |-> b]
StrLit(s) == [k |-> "str", str |-> s]
NullLit == [k |-> "null"]
Ident(x) == [k |-> "id", name |-> x]
Path(m, x) == [k |-> "path", mod |-> m, name |-> x]
Binary(op, l, r) == [k |-> "binary", op |-> op, l |-> l, r |-> r]
Unary(op, e) == [k |-> "unary", op |-> op, e |-> e]
Call(f, args) == [k |-> "call", e |-> f, args |-> args]
Field(e, f) == [k |-> "field", e |-> e, name |-> f]
Method(e, m, args) == [k |-> "method", e |-> e, name |-> m, args |-> args]
Assign(l, r) == [k |-> "assign", l |-> l, r |-> r]
\* Fields are pairs of a name and an expression, in the order written.
StructLit(n, fields) == [k |-> "struct", type |-> n, fields |-> fields]
ListLit(elems) == [k |-> "list", args |-> elems]
MapLit(pairs) == [k |-> "map", pairs |-> pairs]
Index(e, i) == [k |-> "index", l |-> e, r |-> i]
\* The body is a block, or an expression whose value is the closure's.
Closure(params, ret, body) ==
  [k |-> "closure", params |-> params, ret |-> ret, e |-> body]
Block(stmts) == [k |-> "block", body |-> stmts]
IfExpr(c, l, r) == [k |-> "ifexpr", c |-> c, l |-> l, r |-> r]
IfOnly(c, l) == [k |-> "ifonly", c |-> c, l |-> l]
Ternary(c, l, r) == [k |-> "ternary", c |-> c, l |-> l, r |-> r]
Interp(parts) == [k |-> "interp", args |-> parts]

\* Expressions that only the parser's part of the model knows.
FloatLit(x) == [k |-> "floatlit", name |-> x]
GenericCall(f, targs, args) == [k |-> "gcall", name |-> f, targs |-> targs, args |-> args]
GenericLit(n, targs, fields) ==
  [k |-> "glit", name |-> n, targs |-> targs, fields |-> fields]

-----------------------------------------------------------------------------
(* Statements and declarations.                                            *)

Let(x, ty, e) == [k |-> "let", name |-> x, ty |-> ty, e |-> e]
Expr(e) == [k |-> "expr", e |-> e]
Return(e) == [k |-> "return", e |-> e]
ReturnVoid == [k |-> "returnvoid"]
If(c, then, else) == [k |-> "if", c |-> c, then |-> then, else |-> else]
While(c, body) == [k |-> "while", c |-> c, body |-> body]
For(init, c, step, body) ==
  [k |-> "for", init |-> init, c |-> c, step |-> step, body |-> body]
\* A condition or step that a for loop does not have.
Absent == [k |-> "absent"]
Break == [k |-> "break"]
Continue == [k |-> "continue"]

\* Statements that only the parser's part of the model knows.  A catch and a
\* finally are sequences of at most one.
Throw(e) == [k |-> "throw", e |-> e]
Try(body, catch, finally) == [k |-> "try", body |-> body, catch |-> catch, finally |-> finally]
Directive(annotation) == [k |-> "directive", ann |-> annotation]

\* The nodes directly below a node, in the order they are written.
SubNodes(n) ==
  CASE n.k \in {"binary", "assign", "index"} -> <<n.l, n.r>>
    [] n.k \in {"unary", "field", "closure", "let", "expr", "return"} -> <<n.e>>
    [] n.k \in {"call", "method"} -> <<n.e>> \o n.args
    [] n.k \in {"list", "interp"} -> n.args
    [] n.k = "struct" -> [i \in DOMAIN n.fields |-> n.fields[i][2]]
    [] n.k = "map" -> [i \in 1 .. 2 * Len(n.pairs) |-> n.pairs[(i + 1) \div 2][2 - (i % 2)]]
    [] n.k \in {"ifexpr", "ternary"} -> <<n.c, n.l, n.r>>
    [] n.k = "ifonly" -> <<n.c, n.l>>
    [] n.k = "block" -> n.body
    [] n.k = "if" -> <<n.c>> \o n.then \o n.else
    [] n.k = "while" -> <<n.c>> \o n.body
    [] n.k = "for" -> n.init \o <<n.c, n.step>> \o n.body
    [] OTHER -> <<>>

Param(x, ty) == [name |-> x, ty |-> ty]
FuncDef(mod, name, params, ret, body) ==
  [mod |-> mod, name |-> name, params |-> params, ret |-> ret, body |-> body]
StructDef(mod, name, fields) == [mod |-> mod, name |-> name, fields |-> fields]
GlobalVar(x, e) == [name |-> x, e |-> e]

\* What the parser knows of declarations beyond that: annotations, type parameters
\* with their bounds, traits.
Annotation(name, args) == [name |-> name, args |-> args]
FuncDecl(def, tparams, anns) == [def |-> def, tparams |-> tparams, anns |-> anns]
StructDecl(def, tparams, anns) == [def |-> def, tparams |-> tparams, anns |-> anns]
ImplDecl(mod, trait, type, tparams, methods) ==
  [mod |-> mod, trait |-> trait, type |-> type, tparams |-> tparams, methods |-> methods]
ExternDecl(mod, abi, name, params, ret) ==
  [mod |-> mod, abi |-> abi, name |-> name, params |-> params, ret |-> ret]
TraitDecl(name, methods) == [name |-> name, methods |-> methods]
TraitMethod(name, params, ret) == [name |-> name, params |-> params, ret |-> ret]

\* "" is the module of a declaration that is in none.
NoModule == ""

\* decl_names: a declaration is known by its short name, and in a module also by
\* the qualified one.
DeclNames(mod, name) ==
  IF mod = NoModule THEN {<<NoModule, name>>} ELSE {<<mod, name>>, <<NoModule, name>>}

\* prefer a member of the current module, else the global short name; a path
\* a::b is left as it is.
Resolve(mod, n, table) ==
  IF n[1] = NoModule /\ <<mod, n[2]>> \in DOMAIN table THEN <<mod, n[2]>> ELSE n

\* What the declarations of a sequence are registered as: name to position, where a
\* later declaration takes a name from an earlier one.
NameTable(decls) ==
  [n \in UNION {DeclNames(decls[i].mod, decls[i].name) : i \in DOMAIN decls} |->
     CHOOSE i \in DOMAIN decls :
       /\ n \in DeclNames(decls[i].mod, decls[i].name)
       /\ \A j \in DOMAIN decls :
            n \in DeclNames(decls[j].mod, decls[j].name) => j <= i]
=============================================================================
