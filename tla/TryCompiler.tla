---------------------------- MODULE TryCompiler -----------------------------
(***************************************************************************)
(* The code generator (src/codegen/bytecode.rs) for the statements that    *)
(* decide control flow: what compile_stmt and compile_expr emit for        *)
(* blocks, calls, loops, break/continue, return, throw and                 *)
(* try/catch/finally, with the flat Scope that binds names to local slots. *)
(*                                                                         *)
(* A jump operand is the index of its target instruction; the code stores  *)
(* the byte distance (CodeBuilder::patch).                                 *)
(***************************************************************************)
EXTENDS TrySyntax

LOCAL INSTANCE Integers
LOCAL INSTANCE Sequences

-----------------------------------------------------------------------------
(* Compiler state: the code emitted so far, the scope, the loop context.   *)

NewScope == [code |-> <<>>, vars |-> [x \in {} |-> 0], next |-> 0,
             nlocals |-> 0, brk |-> <<>>, cont |-> <<>>]

Here(c) == Len(c.code) + 1

Emit(c, ins) == [c EXCEPT !.code = Append(@, ins)]

Op(c, op) == Emit(c, [op |-> op])

Jump(c, op, to) == Emit(c, [op |-> op, to |-> to])

Overwrite(c, i, ins) ==
  [c EXCEPT !.code = SubSeq(@, 1, i - 1) \o <<ins>> \o SubSeq(@, i + 1, Len(@))]

\* CodeBuilder::patch of every placeholder of ps.
RECURSIVE Patch(_, _, _)
Patch(c, ps, to) ==
  IF ps = <<>> THEN c
  ELSE Patch(Overwrite(c, Head(ps), [c.code[Head(ps)] EXCEPT !.to = to]),
             Tail(ps), to)

Bind(c, x, slot) ==
  [c EXCEPT !.vars = [y \in DOMAIN @ \cup {x} |-> IF y = x THEN slot ELSE @[y]]]

\* Scope::declare, and the nlocals update its callers make.  Nothing ever
\* undoes it: the scope is flat for the whole function.
Declare(c, x) ==
  LET slot == c.next + 1 IN
  [Bind(c, x, slot) EXCEPT !.next = slot,
                           !.nlocals = IF slot > @ THEN slot ELSE @]

-----------------------------------------------------------------------------
(* Expressions *)

RECURSIVE CompileExpr(_, _)
RECURSIVE CompileArgs(_, _)

CompileArgs(c, as) ==
  IF as = <<>> THEN c ELSE CompileArgs(CompileExpr(c, Head(as)), Tail(as))

CompileExpr(c, x) ==
  CASE x.e = "const" -> Emit(c, [op |-> "PUSH", val |-> x.k])
    [] x.e = "var"   -> Emit(c, [op |-> "LOAD_LOCAL", slot |-> c.vars[x.x]])
    [] x.e = "ask"   -> Op(c, "CALL_EXTERN")
    [] x.e = "fault" -> Op(c, "FAIL")
    [] x.e = "sum"   -> Op(CompileExpr(CompileExpr(c, x.l), x.r), "ADD")
    [] x.e = "call"  -> Emit(CompileArgs(c, x.args),
                             [op |-> "CALL", func |-> x.f, nargs |-> Len(x.args)])
    [] x.e = "on"    -> Emit(CompileArgs(c, x.args),
                             [op |-> "CALL_EXTERN", lib |-> "on", kind |-> x.kind,
                              func |-> x.f, nargs |-> Len(x.args)])
    [] x.e = "loop"  -> Emit(c, [op |-> "CALL_EXTERN", lib |-> "event_loop"])

-----------------------------------------------------------------------------
(* Statements *)

RECURSIVE CompileStmt(_, _)
RECURSIVE CompileBlock(_, _)

CompileBlock(c, ss) ==
  IF ss = <<>> THEN c ELSE CompileBlock(CompileStmt(c, Head(ss)), Tail(ss))

CompileIf(c, s) ==
  LET c1 == Jump(CompileExpr(c, s.c), "JZ", 1)
      c2 == CompileBlock(c1, s.then)
      c3 == Jump(c2, "JMP", 1)
      c4 == CompileBlock(Patch(c3, <<Len(c1.code)>>, Here(c3)), s.else)
  IN IF s.else = <<>> THEN Patch(c2, <<Len(c1.code)>>, Here(c2))
                      ELSE Patch(c4, <<Len(c3.code)>>, Here(c4))

\* The body is compiled with a loop context of its own (loop_stack.push).
CompileLoopBody(c, ss) == CompileBlock([c EXCEPT !.brk = <<>>, !.cont = <<>>], ss)

\* Close the loop: jump back, resolve break and the exit test to the end,
\* continue to `again`, and restore the loop context of the enclosing loop.
CloseLoop(c, outer, start, again, exit) ==
  LET c1 == Jump(Patch(c, c.cont, again), "JMP", start) IN
  [Patch(c1, Append(c.brk, exit), Here(c1))
     EXCEPT !.brk = outer.brk, !.cont = outer.cont]

CompileWhile(c, s) ==
  LET c1 == Jump(CompileExpr(c, s.c), "JZ", 1)
      c2 == CompileLoopBody(c1, s.body)
  IN CloseLoop(c2, c, Here(c), Here(c), Len(c1.code))

\* `continue` runs the step expression, whose value is popped.
CompileFor(c, s) ==
  LET c1 == Jump(CompileExpr(c, s.c), "JZ", 1)
      c2 == CompileLoopBody(c1, s.body)
      c3 == Op(CompileExpr(c2, s.step), "POP")
  IN CloseLoop(c3, c, Here(c), Here(c2), Len(c1.code))

(***************************************************************************)
(*   TRY  body  ENDTRY  JMP end                                            *)
(*   [catch: body  JMP end]  [finally: body  FINALLY_END]                  *)
(* where `end` is the finally, if there is one, or else what follows.  The *)
(* catch variable is declared before the try body is compiled.             *)
(***************************************************************************)
CompileCatch(c, s, slot) ==
  IF s.hasCatch
    THEN Jump(CompileBlock(Bind(c, s.v, slot), s.catch), "JMP", 1)
    ELSE c

CompileFinally(c, s) ==
  IF s.hasFinally THEN Op(CompileBlock(c, s.finally), "FINALLY_END") ELSE c

CompileTry(c, s) ==
  LET c0   == IF s.hasCatch THEN Declare(c, s.v) ELSE c
      slot == IF s.hasCatch THEN c0.next ELSE 0
      c1   == CompileBlock(Op(c0, "TRY"), s.body)
      c2   == Jump(Op(c1, "ENDTRY"), "JMP", 1)
      c3   == CompileCatch(c2, s, slot)
      c4   == CompileFinally(c3, s)
      ends == <<Len(c2.code)>> \o (IF s.hasCatch THEN <<Len(c3.code)>> ELSE <<>>)
  IN Overwrite(Patch(c4, ends, Here(c3)), Here(c0),
       [op |-> "TRY", hasCatch |-> s.hasCatch, hasFinally |-> s.hasFinally,
        catch |-> Here(c2), finally |-> Here(c3), slot |-> slot])

\* say leaves no value (leaves_value), so none is popped.
CompileSay(c, s) == Op(CompileExpr(c, s.x), "PRINTLN")

CompileStmt(c, s) ==
  CASE s.s = "say"        -> CompileSay(c, s)
    [] s.s = "do"         -> Op(CompileExpr(c, s.x), "POP")
    [] s.s = "throw"      -> Op(CompileExpr(c, s.x), "THROW")
    [] s.s = "return"     -> Op(CompileExpr(c, s.x), "RETURN")
    [] s.s = "returnVoid" -> Op(c, "RETURN_VOID")
    [] s.s = "let"        -> LET d == Declare(c, s.v) IN
                             Emit(CompileExpr(d, s.x),
                                  [op |-> "STORE_LOCAL", slot |-> d.next])
    [] s.s = "if"         -> CompileIf(c, s)
    [] s.s = "while"      -> CompileWhile(c, s)
    [] s.s = "for"        -> CompileFor(c, s)
    [] s.s = "break"      -> Jump([c EXCEPT !.brk = Append(@, Here(c))], "JMP", 1)
    [] s.s = "continue"   -> Jump([c EXCEPT !.cont = Append(@, Here(c))], "JMP", 1)
    [] s.s = "try"        -> CompileTry(c, s)

RECURSIVE DeclareAll(_, _)
DeclareAll(c, xs) ==
  IF xs = <<>> THEN c ELSE DeclareAll(Declare(c, Head(xs)), Tail(xs))

CompileFuncBody(f) ==
  Op(CompileBlock(DeclareAll(NewScope, f.params), f.body), "RETURN_VOID")

(***************************************************************************)
(* A source program is a sequence of functions [name, params, body]; the   *)
(* functions keep their order and their short name.                        *)
(***************************************************************************)
CompileProgram(P) ==
  LET compiled == [i \in 1..Len(P) |-> CompileFuncBody(P[i])] IN
  [name    |-> [i \in 1..Len(P) |-> P[i].name],
   code    |-> [i \in 1..Len(P) |-> compiled[i].code],
   nlocals |-> [i \in 1..Len(P) |-> compiled[i].nlocals]]

=============================================================================
