----------------------------- MODULE Generator ------------------------------
(***************************************************************************)
(* The code generator (src/codegen/bytecode.rs) at work, one node of the   *)
(* syntax tree at a time.  TryCompiler says what the code of a program is; *)
(* here it comes into being: instructions are appended, jumps are emitted  *)
(* with a target that nobody knows yet, and patched when it is reached.    *)
(*                                                                         *)
(* compile_stmt and compile_expr call each other.  The calls in progress   *)
(* are the tasks `todo`, the next one first: each is what a call has still *)
(* to do, with the positions of the instructions it is going to patch.     *)
(* loop_stack is the tasks "step" among them, innermost first.             *)
(*                                                                         *)
(* A task is tagged with `t`.  Its fields h and m are ghosts, and so are   *)
(* heights and tries: how many operands there are, and how many try blocks *)
(* are open, where the task begins, and at each instruction.               *)
(***************************************************************************)
EXTENDS Bytecode

CONSTANTS
  Sources,      \* a set of source programs; function 1 is `main`
  Statements,   \* the syntax trees of their statements (see TrySyntax)
  Expressions   \* and of their expressions

VARIABLES
  source,       \* the program that is compiled
  made,         \* its functions that are done
  todo,         \* what is left of the function in hand
  code,         \* self.cur, the code of this function so far
  names,        \* scope.vars, the slot that a name is bound to
  next,         \* scope.next, the slots given out; nlocals is as large
  heights,      \* ghost: operands at each instruction, and at the next one
  tries,        \* ghost: open try blocks, likewise
  phase         \* "run", "done" or "error"

genVars == <<source, made, todo, code, names, next, heights, tries, phase>>

-----------------------------------------------------------------------------
(* Syntax trees: what the parser makes of a function. *)

IsExpression(x) ==
  \/ x.e = "const" /\ x.k \in Value
  \/ x.e \in {"var", "ask", "fault", "loop"}
  \/ x.e = "sum" /\ x.l \in Expressions /\ x.r \in Expressions
  \/ x.e \in {"call", "on"} /\ x.f \in Nat /\ x.args \in Seq(Expressions)

IsStatement(s) ==
  \/ s.s \in {"say", "do", "throw", "return", "let"} /\ s.x \in Expressions
  \/ s.s \in {"returnVoid", "break", "continue"}
  \/ /\ s.s = "if" /\ s.c \in Expressions
     /\ s.then \in Seq(Statements) /\ s.else \in Seq(Statements)
  \/ s.s = "while" /\ s.c \in Expressions /\ s.body \in Seq(Statements)
  \/ /\ s.s = "for" /\ s.c \in Expressions /\ s.step \in Expressions
     /\ s.body \in Seq(Statements)
  \/ /\ s.s = "try" /\ s.hasCatch \in BOOLEAN /\ s.hasFinally \in BOOLEAN
     /\ s.hasCatch \/ s.hasFinally
     /\ s.body \in Seq(Statements) /\ s.catch \in Seq(Statements)
     /\ s.finally \in Seq(Statements)

FunctionTrees == [name : STRING, params : Seq(STRING), body : Seq(Statements)]

ASSUME SourcesAssumption ==
  /\ \A x \in Expressions : IsExpression(x)
  /\ \A s \in Statements : IsStatement(s)
  /\ \A P \in Sources : P \in Seq(FunctionTrees) /\ P # <<>>

-----------------------------------------------------------------------------
(* Tasks *)

ExprTask(x, h, m)  == [t |-> "expr", x |-> x, h |-> h, m |-> m]
ArgsTask(xs, h, m) == [t |-> "args", xs |-> xs, h |-> h, m |-> m]

\* An instruction that needs no patch; it leaves `left` operands.
EmitTask(ins, h, left, m) == [t |-> "emit", ins |-> ins, left |-> left, h |-> h, m |-> m]

BlockTask(ss, m) == [t |-> "block", ss |-> ss, h |-> 0, m |-> m]
StmtTask(s, m)   == [t |-> "stmt", s |-> s, h |-> 0, m |-> m]

\* An if behind its condition, behind its first block, and at its end.
ThenTask(s, m)     == [t |-> "then", s |-> s, h |-> 1, m |-> m]
ElseTask(s, at, m) == [t |-> "else", s |-> s, at |-> at, h |-> 0, m |-> m]
JoinTask(at, m)    == [t |-> "join", at |-> at, h |-> 0, m |-> m]

\* A loop behind its condition, behind its body, and at its end.
LoopTask(s, start, m) == [t |-> "loop", s |-> s, start |-> start, h |-> 1, m |-> m]
StepTask(s, start, exit, brk, cont, m) ==
  [t |-> "step", s |-> s, start |-> start, exit |-> exit, brk |-> brk, cont |-> cont,
   h |-> 0, m |-> m]
AgainTask(start, again, exit, brk, cont, m) ==
  [t |-> "again", start |-> start, again |-> again, exit |-> exit, brk |-> brk,
   cont |-> cont, h |-> 0, m |-> m]

\* A try behind its ENDTRY, behind its catch, and where its finally goes.
LeftTask(s, at, m)          == [t |-> "left", s |-> s, at |-> at, h |-> 0, m |-> m]
CaughtTask(s, at, jmp, m)   == [t |-> "caught", s |-> s, at |-> at, jmp |-> jmp,
                                h |-> 0, m |-> m]
FinallyTask(s, at, ends, m) == [t |-> "finally", s |-> s, at |-> at, ends |-> ends,
                                h |-> 0, m |-> m]

-----------------------------------------------------------------------------
(* Instructions and patches *)

Goto(op, to) == [op |-> op, to |-> to]

\* A TRY of s; until they are patched, its targets are its own position.
TryOf(s, catch, finally, slot) ==
  [op |-> "TRY", hasCatch |-> s.hasCatch, hasFinally |-> s.hasFinally,
   catch |-> catch, finally |-> finally, slot |-> slot]

\* CodeBuilder::patch of all positions of ps.
Patched(c, ps, to) == [i \in DOMAIN c |-> IF i \in ps THEN Goto(c[i].op, to) ELSE c[i]]

PatchedTry(c, at, ins) == [i \in DOMAIN c |-> IF i = at THEN ins ELSE c[i]]

Marked == Len(code) + 1

\* What open tries there are behind an instruction, of m in front of it.
TriesBehind(ins, m) == IF ins.op = "ENDTRY" THEN m - 1 ELSE m

\* The parameters have the first slots; of a name that occurs twice the last.
ParamNames(params) ==
  [x \in {params[i] : i \in DOMAIN params} |->
     CHOOSE i \in DOMAIN params :
       params[i] = x /\ \A j \in DOMAIN params : params[j] = x => j <= i]

\* Scope::declare and Scope::force.
BoundTo(x, slot) ==
  [y \in DOMAIN names \cup {x} |-> IF y = x THEN slot ELSE names[y]]

GenInit ==
  /\ source \in Sources
  /\ made = <<>> /\ phase = "run"
  /\ todo = <<BlockTask(source[1].body, 0)>>
  /\ names = ParamNames(source[1].params) /\ next = Len(source[1].params)
  /\ code = <<>> /\ heights = <<0>> /\ tries = <<0>>

Task == Head(todo)

Work(t) == phase = "run" /\ todo # <<>> /\ Task.t = t

WorkExpr(kinds) == Work("expr") /\ Task.x.e \in kinds
WorkStmt(kinds) == Work("stmt") /\ Task.s.s \in kinds

\* The task in hand is done, but for these.
Becomes(tasks) == todo' = tasks \o Tail(todo)

scope == <<names, next>>
lasting == <<source, made, phase>>
text == <<code, heights, tries>>

\* c has one more instruction, behind which there are h operands and m open tries.
Grown(c, h, m) ==
  code' = c /\ heights' = Append(heights, h) /\ tries' = Append(tries, m)

Put(ins, h, m) == Grown(Append(code, ins), h, m)

Plan(tasks) == Becomes(tasks) /\ UNCHANGED <<text, scope, lasting>>

-----------------------------------------------------------------------------
(* compile_expr *)

LeafCode(x) ==
  CASE x.e = "const" -> [op |-> "PUSH", val |-> x.k]
    [] x.e = "ask"   -> [op |-> "CALL_EXTERN"]
    [] x.e = "fault" -> [op |-> "FAIL"]
    [] x.e = "loop"  -> [op |-> "CALL_EXTERN", lib |-> "event_loop"]

CompileLeaf ==
  /\ WorkExpr({"const", "ask", "fault", "loop"})
  /\ Put(LeafCode(Task.x), Task.h + 1, Task.m)
  /\ Becomes(<<>>) /\ UNCHANGED <<scope, lasting>>

CompileVar ==
  /\ WorkExpr({"var"}) /\ Task.x.x \in DOMAIN names
  /\ Put([op |-> "LOAD_LOCAL", slot |-> names[Task.x.x]], Task.h + 1, Task.m)
  /\ Becomes(<<>>) /\ UNCHANGED <<scope, lasting>>

CompileSum ==
  /\ WorkExpr({"sum"})
  /\ Plan(<<ExprTask(Task.x.l, Task.h, Task.m), ExprTask(Task.x.r, Task.h + 1, Task.m),
            EmitTask([op |-> "ADD"], Task.h + 2, Task.h + 1, Task.m)>>)

CallCode(x) ==
  IF x.e = "call" THEN [op |-> "CALL", func |-> x.f, nargs |-> Len(x.args)]
  ELSE [op |-> "CALL_EXTERN", lib |-> "on", kind |-> x.kind, func |-> x.f,
        nargs |-> Len(x.args)]

CompileCall ==
  /\ WorkExpr({"call", "on"}) /\ Task.x.f \in DOMAIN source
  /\ Plan(<<ArgsTask(Task.x.args, Task.h, Task.m),
            EmitTask(CallCode(Task.x), Task.h + Len(Task.x.args), Task.h + 1, Task.m)>>)

CompileArg ==
  /\ Work("args")
  /\ IF Task.xs = <<>> THEN Plan(<<>>)
     ELSE Plan(<<ExprTask(Head(Task.xs), Task.h, Task.m),
                 ArgsTask(Tail(Task.xs), Task.h + 1, Task.m)>>)

EmitOp ==
  /\ Work("emit")
  /\ Put(Task.ins, Task.left, TriesBehind(Task.ins, Task.m))
  /\ Becomes(<<>>) /\ UNCHANGED <<scope, lasting>>

-----------------------------------------------------------------------------
(* compile_stmt: blocks, the statements of one value, if *)

CompileNext ==
  /\ Work("block")
  /\ IF Task.ss = <<>> THEN Plan(<<>>)
     ELSE Plan(<<StmtTask(Head(Task.ss), Task.m), BlockTask(Tail(Task.ss), Task.m)>>)

OpOf == [say |-> "PRINTLN", do |-> "POP", throw |-> "THROW", return |-> "RETURN"]

CompileValue ==
  /\ WorkStmt(DOMAIN OpOf)
  /\ Plan(<<ExprTask(Task.s.x, 0, Task.m),
            EmitTask([op |-> OpOf[Task.s.s]], 1, 0, Task.m)>>)

CompileReturnVoid ==
  /\ WorkStmt({"returnVoid"})
  /\ Plan(<<EmitTask([op |-> "RETURN_VOID"], 0, 0, Task.m)>>)

\* The name is bound before its initial value is compiled.
CompileLet ==
  /\ WorkStmt({"let"})
  /\ names' = BoundTo(Task.s.v, next + 1) /\ next' = next + 1
  /\ Becomes(<<ExprTask(Task.s.x, 0, Task.m),
               EmitTask([op |-> "STORE_LOCAL", slot |-> next + 1], 1, 0, Task.m)>>)
  /\ UNCHANGED <<text, lasting>>

BeginIf ==
  /\ WorkStmt({"if"})
  /\ Plan(<<ExprTask(Task.s.c, 0, Task.m), ThenTask(Task.s, Task.m)>>)

BeginThen ==
  /\ Work("then")
  /\ Put(Goto("JZ", 1), 0, Task.m)
  /\ Becomes(<<BlockTask(Task.s.then, Task.m), ElseTask(Task.s, Marked, Task.m)>>)
  /\ UNCHANGED <<scope, lasting>>

BeginElse ==
  /\ Work("else") /\ Task.s.else # <<>>
  /\ Grown(Patched(Append(code, Goto("JMP", 1)), {Task.at}, Marked + 1), 0, Task.m)
  /\ Becomes(<<BlockTask(Task.s.else, Task.m), JoinTask(Marked, Task.m)>>)
  /\ UNCHANGED <<scope, lasting>>

\* Both blocks end here, or the only one does.
EndIf ==
  /\ Work("join") \/ (Work("else") /\ Task.s.else = <<>>)
  /\ code' = Patched(code, {Task.at}, Marked)
  /\ Becomes(<<>>) /\ UNCHANGED <<heights, tries, scope, lasting>>

-----------------------------------------------------------------------------
(* compile_stmt: loops *)

BeginLoop ==
  /\ WorkStmt({"while", "for"})
  /\ Plan(<<ExprTask(Task.s.c, 0, Task.m), LoopTask(Task.s, Marked, Task.m)>>)

\* Mutant: the loop goes back behind its condition.
BeginLoopBodyLate ==
  /\ Work("loop")
  /\ Put(Goto("JZ", 1), 0, Task.m)
  /\ Becomes(<<BlockTask(Task.s.body, Task.m),
               StepTask(Task.s, Marked, Marked, {}, {}, Task.m)>>)
  /\ UNCHANGED <<scope, lasting>>

BeginLoopBody ==
  /\ Work("loop")
  /\ Put(Goto("JZ", 1), 0, Task.m)
  /\ Becomes(<<BlockTask(Task.s.body, Task.m),
               StepTask(Task.s, Task.start, Marked, {}, {}, Task.m)>>)
  /\ UNCHANGED <<scope, lasting>>

\* Mutant: `continue` goes to the condition, also in a for.
CompileStepSkipped ==
  /\ Work("step")
  /\ Plan((IF Task.s.s = "while" THEN <<>>
           ELSE <<ExprTask(Task.s.step, 0, Task.m), EmitTask([op |-> "POP"], 1, 0, Task.m)>>)
          \o <<AgainTask(Task.start, Task.start, Task.exit, Task.brk, Task.cont, Task.m)>>)

\* `continue` runs the step expression of a for, whose value is popped.
CompileStep ==
  /\ Work("step")
  /\ IF Task.s.s = "while"
     THEN Plan(<<AgainTask(Task.start, Task.start, Task.exit, Task.brk, Task.cont, Task.m)>>)
     ELSE Plan(<<ExprTask(Task.s.step, 0, Task.m), EmitTask([op |-> "POP"], 1, 0, Task.m),
                 AgainTask(Task.start, Marked, Task.exit, Task.brk, Task.cont, Task.m)>>)

EndLoop ==
  /\ Work("again")
  /\ Grown(Patched(Append(Patched(code, Task.cont, Task.again), Goto("JMP", Task.start)),
                   Task.brk \cup {Task.exit}, Marked + 1), 0, Task.m)
  /\ Becomes(<<>>) /\ UNCHANGED <<scope, lasting>>

Loops == {k \in DOMAIN todo : todo[k].t = "step"}

Innermost == CHOOSE k \in Loops : \A j \in Loops : k <= j

\* The loop t, with one more break or continue to patch.
WithLeave(t, kind, at) ==
  StepTask(t.s, t.start, t.exit,
           IF kind = "break" THEN t.brk \cup {at} ELSE t.brk,
           IF kind = "break" THEN t.cont ELSE t.cont \cup {at}, t.m)

CompileLeave ==
  /\ WorkStmt({"break", "continue"}) /\ Loops # {}
  /\ Put(Goto("JMP", 1), 0, Task.m)
  /\ todo' = [k \in 1..(Len(todo) - 1) |->
                IF k + 1 = Innermost THEN WithLeave(todo[k + 1], Task.s.s, Marked)
                                     ELSE todo[k + 1]]
  /\ UNCHANGED <<scope, lasting>>

-----------------------------------------------------------------------------
(* compile_stmt: try *)

BeginTry ==
  /\ WorkStmt({"try"})
  /\ Put(TryOf(Task.s, Marked, Marked, IF Task.s.hasCatch THEN next + 1 ELSE 0),
         0, Task.m + 1)
  /\ Becomes(<<BlockTask(Task.s.body, Task.m + 1),
               EmitTask([op |-> "ENDTRY"], 0, 0, Task.m + 1),
               LeftTask(Task.s, Marked, Task.m)>>)
  /\ IF Task.s.hasCatch THEN names' = BoundTo(Task.s.v, next + 1) /\ next' = next + 1
                        ELSE UNCHANGED scope
  /\ UNCHANGED lasting

\* The name is bound again: the body may have declared another of its own.
BeginCatch ==
  /\ Work("left")
  /\ Grown(PatchedTry(Append(code, Goto("JMP", 1)), Task.at,
                      TryOf(Task.s, Marked + 1, code[Task.at].finally, code[Task.at].slot)),
           0, Task.m)
  /\ IF Task.s.hasCatch
     THEN /\ names' = BoundTo(Task.s.v, code[Task.at].slot)
          /\ Becomes(<<BlockTask(Task.s.catch, Task.m),
                       CaughtTask(Task.s, Task.at, Marked, Task.m)>>)
     ELSE /\ Becomes(<<FinallyTask(Task.s, Task.at, {Marked}, Task.m)>>)
          /\ UNCHANGED names
  /\ UNCHANGED <<next, lasting>>

EndCatch ==
  /\ Work("caught")
  /\ Put(Goto("JMP", 1), 0, Task.m)
  /\ Becomes(<<FinallyTask(Task.s, Task.at, {Task.jmp, Marked}, Task.m)>>)
  /\ UNCHANGED <<scope, lasting>>

\* Mutant: a finally ends with an ENDTRY.
BeginFinallyEndsTry ==
  /\ Work("finally")
  /\ code' = PatchedTry(Patched(code, Task.ends, Marked), Task.at,
                TryOf(Task.s, code[Task.at].catch, Marked, code[Task.at].slot))
  /\ Becomes(IF Task.s.hasFinally
             THEN <<BlockTask(Task.s.finally, Task.m),
                    EmitTask([op |-> "ENDTRY"], 0, 0, Task.m)>>
             ELSE <<>>)
  /\ UNCHANGED <<heights, tries, scope, lasting>>

\* Where the finally begins, or else what follows the try.
BeginFinally ==
  /\ Work("finally")
  /\ code' = PatchedTry(Patched(code, Task.ends, Marked), Task.at,
                TryOf(Task.s, code[Task.at].catch, Marked, code[Task.at].slot))
  /\ Becomes(IF Task.s.hasFinally
             THEN <<BlockTask(Task.s.finally, Task.m),
                    EmitTask([op |-> "FINALLY_END"], 0, 0, Task.m)>>
             ELSE <<>>)
  /\ UNCHANGED <<heights, tries, scope, lasting>>

-----------------------------------------------------------------------------
(* compile_func_body, and the errors that end the compilation *)

\* The function in hand is done: it ends with the implicit return.
Finished ==
  [code |-> Append(code, [op |-> "RETURN_VOID"]), nlocals |-> next,
   heights |-> heights, tries |-> tries]

EndFunction ==
  /\ phase = "run" /\ todo = <<>>
  /\ made' = Append(made, Finished)
  /\ IF Len(made) + 1 = Len(source)
     THEN phase' = "done" /\ UNCHANGED <<todo, text, scope>>
     ELSE LET f == source[Len(made) + 2] IN
          /\ todo' = <<BlockTask(f.body, 0)>>
          /\ names' = ParamNames(f.params) /\ next' = Len(f.params)
          /\ code' = <<>> /\ heights' = <<0>> /\ tries' = <<0>>
          /\ UNCHANGED phase
  /\ UNCHANGED source

\* A name or a function that is not there, break or continue outside a loop.
Refuse ==
  /\ \/ WorkExpr({"var"}) /\ Task.x.x \notin DOMAIN names
     \/ WorkExpr({"call", "on"}) /\ Task.x.f \notin DOMAIN source
     \/ WorkStmt({"break", "continue"}) /\ Loops = {}
  /\ phase' = "error"
  /\ UNCHANGED <<source, made, todo, text, scope>>

GenNext ==
  \/ CompileLeaf \/ CompileVar \/ CompileSum \/ CompileCall \/ CompileArg \/ EmitOp
  \/ CompileNext \/ CompileValue \/ CompileReturnVoid \/ CompileLet
  \/ BeginIf \/ BeginThen \/ BeginElse \/ EndIf
  \/ BeginLoop \/ BeginLoopBody \/ CompileStep \/ EndLoop \/ CompileLeave
  \/ BeginTry \/ BeginCatch \/ EndCatch \/ BeginFinally
  \/ EndFunction \/ Refuse

GenSpec == GenInit /\ [][GenNext]_genVars

-----------------------------------------------------------------------------
(* What is made *)

\* The program, when it is done, as the VM gets it.
Program ==
  [name    |-> [i \in 1..Len(source) |-> source[i].name],
   code    |-> [i \in 1..Len(source) |-> made[i].code],
   nlocals |-> [i \in 1..Len(source) |-> made[i].nlocals]]

(***************************************************************************)
(* Whatever program is compiled, the VM can trust the bytecode: operands   *)
(* are in range, every jump is patched to an instruction of its function,  *)
(* every instruction finds on the stack what it pops on every path to it,  *)
(* and a handler starts where a statement does.                            *)
(***************************************************************************)
GeneratedFits ==
  phase = "done" =>
    /\ WellFormedProgram(Program)
    /\ \A f \in DOMAIN source : Fits(Program, f, made[f].heights)

\* No try block of c that has a finally is inside of another one.
FlatFinallys(c, m) ==
  \A i, j \in DOMAIN c :
    /\ c[i].op = "TRY" /\ c[i].hasFinally
    /\ c[j].op = "TRY" /\ c[j].hasFinally
    => m[i] = m[j]

(***************************************************************************)
(* Every ENDTRY ends a try block that its activation has begun, on every   *)
(* path to it, and no handler or jump finds more of them than were open    *)
(* where it comes from: also around break, continue, catch and finally.    *)
(***************************************************************************)
GeneratedCloses ==
  phase = "done" =>
    \A f \in DOMAIN source :
      FlatFinallys(made[f].code, made[f].tries) => Closes(Program, f, made[f].tries)

=============================================================================
