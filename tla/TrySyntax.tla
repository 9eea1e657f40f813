----------------------------- MODULE TrySyntax ------------------------------
(***************************************************************************)
(* The syntax trees of the statements that decide control flow, and of the *)
(* expressions they need: a record per node, where `s` tags a statement    *)
(* and `e` an expression.  Ast has the trees of the other statements.      *)
(***************************************************************************)

\* Syntax of expressions
Const(k)     == [e |-> "const", k |-> k]
Var(x)       == [e |-> "var", x |-> x]
Ask          == [e |-> "ask"]                 \* an extern call
Fault        == [e |-> "fault"]               \* an operation that fails
Sum2(l, r)   == [e |-> "sum", l |-> l, r |-> r]
CallOf(f, a) == [e |-> "call", f |-> f, args |-> a]

\* on_key(w, h), on_click(w, h) where h is a closure of f over `a`; event_loop()
On(k, f, a)  == [e |-> "on", kind |-> k, f |-> f, args |-> a]
EventLoop    == [e |-> "loop"]

\* Syntax of statements
Say(x)          == [s |-> "say", x |-> x]     \* Stmt::Expr(say(x))
Do(x)           == [s |-> "do", x |-> x]      \* Stmt::Expr of any other call
Let(v, x)       == [s |-> "let", v |-> v, x |-> x]
ThrowIt(x)      == [s |-> "throw", x |-> x]
ReturnIt(x)     == [s |-> "return", x |-> x]
ReturnNothing   == [s |-> "returnVoid"]
If(c, t, f)     == [s |-> "if", c |-> c, then |-> t, else |-> f]
While(c, b)     == [s |-> "while", c |-> c, body |-> b]
For(c, step, b) == [s |-> "for", c |-> c, step |-> step, body |-> b]
Break           == [s |-> "break"]
Continue        == [s |-> "continue"]

Try(b, v, c, f) ==
  [s |-> "try", body |-> b, v |-> v, catch |-> c, hasCatch |-> TRUE,
   finally |-> f, hasFinally |-> TRUE]

TryCatch(b, v, c) == [Try(b, v, c, <<>>) EXCEPT !.hasFinally = FALSE]

TryFinally(b, f)  == [Try(b, "", <<>>, f) EXCEPT !.hasCatch = FALSE]

=============================================================================
