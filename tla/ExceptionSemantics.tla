------------------------ MODULE ExceptionSemantics --------------------------
(***************************************************************************)
(* What docs.md (5.4, try-catch-finally) promises of try/catch/finally and  *)
(* throw, as a big-step semantics of the syntax of TryCompiler: variables  *)
(* are lexically scoped, an exception goes to the nearest enclosing catch  *)
(* of the activation that throws or of its nearest caller, a finally runs  *)
(* exactly once on every way out of its try, and an abrupt end of the      *)
(* finally itself overrides the one it interrupts.  A failing operation is *)
(* not an exception: it stops the program.                                 *)
(*                                                                         *)
(* An event runs the handler that was registered last for its kind, with   *)
(* the values its closure captured and those of the event, as a program of *)
(* its own: whatever its end, the program that waits goes on waiting       *)
(* (docs.md 5.7).                                                       *)
(*                                                                         *)
(* A result says what was printed, which answers the outside gave, and how *)
(* the statement ended; a statement has a set of results because the       *)
(* answers are free.                                                       *)
(***************************************************************************)
LOCAL INSTANCE Integers
LOCAL INSTANCE Sequences

CONSTANTS Null, MaxAnswers

\* `on` is the handler registered for each kind of event, <<>> if there is none.
Start == [out |-> <<>>, asked |-> <<>>, end |-> "normal", val |-> Null,
          on |-> [key |-> <<>>, click |-> <<>>]]

Ends(r, end, val) == [r EXCEPT !.end = end, !.val = val]

Prints(r, v) == [Ends(r, "normal", Null) EXCEPT !.out = Append(@, v)]

Answers(r) ==
  {[Ends(r, "normal", v) EXCEPT !.asked = Append(@, v)] :
     v \in {0} \cup (IF Len(r.asked) < MaxAnswers THEN {1} ELSE {})}

\* Apply `next` to the results that ended normally; the others stay.
Then(rs, next(_)) == UNION {IF r.end = "normal" THEN next(r) ELSE {r} : r \in rs}

NoVars == [x \in {} |-> Null]

\* Declare x in the environment E.
With(E, x, v) == [y \in DOMAIN E \cup {x} |-> IF y = x THEN v ELSE E[y]]

-----------------------------------------------------------------------------
(* Expressions: P is the program, E the environment, r the state before.   *)

RECURSIVE EvalExpr(_, _, _, _)
RECURSIVE EvalAll(_, _, _, _, _)
RECURSIVE EvalLoop(_, _)
RECURSIVE ExecBlock(_, _, _, _)
RECURSIVE ExecStmt(_, _, _, _)
RECURSIVE ExecLoop(_, _, _, _)

\* A call ends with what its body returns, or with its exception.
AsCall(x) ==
  IF x.end \in {"return", "normal"}
    THEN Ends(x, "normal", IF x.end = "return" THEN x.val ELSE Null)
    ELSE x

\* The values of `as`, evaluated from left to right; vs are those so far.
EvalAll(P, E, as, vs, r) ==
  IF as = <<>> THEN {Ends(r, "normal", vs)}
  ELSE Then(EvalExpr(P, E, Head(as), r),
            LAMBDA a : EvalAll(P, E, Tail(as), Append(vs, a.val), a))

\* The body of f, with values for its parameters.
ExecBody(P, f, vs, r) ==
  LET params == P[f].params IN
  ExecBlock(P, [y \in {params[i] : i \in 1..Len(params)} |->
                  vs[CHOOSE i \in 1..Len(params) : params[i] = y]],
            P[f].body, r)

\* What the window system tells of an event, and how it is known outside.
Payload == [key |-> <<1>>, click |-> <<2, 3>>]
Told    == [key |-> 1, click |-> 2]

Hears(r, v) == [r EXCEPT !.asked = Append(@, v)]

\* The windows are closed, or an event runs its handler and the wait goes on.
EvalLoop(P, r) ==
  {Ends(Hears(r, 0), "normal", Null)} \cup
  UNION {UNION {EvalLoop(P, Ends(b, "normal", Null)) :
                  b \in ExecBody(P, r.on[k][1].f, r.on[k][1].seed \o Payload[k],
                                 Hears(r, Told[k]))} :
           k \in {k \in DOMAIN r.on : r.on[k] # <<>> /\ Len(r.asked) < MaxAnswers}}

Plus(r, a, b) ==
  IF a = Null \/ b = Null THEN Ends(r, "error", Null) ELSE Ends(r, "normal", a + b)

EvalExpr(P, E, x, r) ==
  CASE x.e = "const" -> {Ends(r, "normal", x.k)}
    [] x.e = "var"   -> {Ends(r, "normal", E[x.x])}
    [] x.e = "ask"   -> Answers(r)
    [] x.e = "fault" -> {Ends(r, "error", Null)}
    [] x.e = "sum"   -> Then(EvalExpr(P, E, x.l, r), LAMBDA a :
                          Then(EvalExpr(P, E, x.r, a), LAMBDA b :
                            {Plus(b, a.val, b.val)}))
    [] x.e = "call"  -> Then(EvalAll(P, E, x.args, <<>>, r), LAMBDA a :
                          {AsCall(b) : b \in ExecBody(P, x.f, a.val, a)})
    [] x.e = "on"    -> Then(EvalAll(P, E, x.args, <<>>, r), LAMBDA a :
                          {[Ends(a, "normal", Null) EXCEPT
                              !.on[x.kind] = <<[f |-> x.f, seed |-> a.val]>>]})
    [] x.e = "loop"  -> EvalLoop(P, r)

-----------------------------------------------------------------------------
(* Statements *)

\* What was bound inside a block is gone behind it; `let` binds to the end
\* of its block.
ExecBlock(P, E, ss, r) ==
  IF ss = <<>> THEN {Ends(r, "normal", Null)}
  ELSE LET s == Head(ss) IN
       IF s.s = "let"
         THEN Then(EvalExpr(P, E, s.x, r),
                   LAMBDA a : ExecBlock(P, With(E, s.v, a.val), Tail(ss), a))
         ELSE Then(ExecStmt(P, E, s, r), LAMBDA a : ExecBlock(P, E, Tail(ss), a))

\* One test of the condition and what follows from it.
ExecLoop(P, E, s, r) ==
  Then(EvalExpr(P, E, s.c, r), LAMBDA c :
    IF c.val \in {0, Null} THEN {c}
    ELSE LET Again(b) == IF s.s = "for"
                           THEN Then(EvalExpr(P, E, s.step, b),
                                     LAMBDA a : ExecLoop(P, E, s, a))
                           ELSE ExecLoop(P, E, s, b)
         IN UNION {CASE b.end = "break" -> {Ends(b, "normal", Null)}
                     [] b.end \in {"normal", "continue"} ->
                          Again(Ends(b, "normal", Null))
                     [] OTHER -> {b}
                   : b \in ExecBlock(P, E, s.body, c)})

\* The try body and, if it throws, the catch.
ExecGuarded(P, E, s, r) ==
  UNION {IF s.hasCatch /\ b.end = "throw"
           THEN ExecBlock(P, With(E, s.v, b.val), s.catch, Ends(b, "normal", Null))
           ELSE {b}
         : b \in ExecBlock(P, E, s.body, r)}

\* The finally runs on every way out except a stopped program; the try then
\* ends as before, unless the finally itself ends abruptly.
ExecTry(P, E, s, r) ==
  UNION {IF s.hasFinally /\ b.end # "error"
           THEN Then(ExecBlock(P, E, s.finally, Ends(b, "normal", Null)),
                     LAMBDA f : {Ends(f, b.end, b.val)})
           ELSE {b}
         : b \in ExecGuarded(P, E, s, r)}

ExecStmt(P, E, s, r) ==
  CASE s.s = "say"    -> Then(EvalExpr(P, E, s.x, r), LAMBDA a : {Prints(a, a.val)})
    [] s.s = "do"     -> EvalExpr(P, E, s.x, r)
    [] s.s = "throw"  -> Then(EvalExpr(P, E, s.x, r),
                              LAMBDA a : {Ends(a, "throw", a.val)})
    [] s.s = "return" -> Then(EvalExpr(P, E, s.x, r),
                              LAMBDA a : {Ends(a, "return", a.val)})
    [] s.s = "returnVoid" -> {Ends(r, "return", Null)}
    [] s.s = "if"     -> Then(EvalExpr(P, E, s.c, r), LAMBDA a :
                           ExecBlock(P, E, IF a.val \in {0, Null}
                                             THEN s.else ELSE s.then, a))
    [] s.s \in {"while", "for"}      -> ExecLoop(P, E, s, r)
    [] s.s \in {"break", "continue"} -> {Ends(r, s.s, Null)}
    [] s.s = "try"    -> ExecTry(P, E, s, r)

-----------------------------------------------------------------------------
(* Whole programs *)

EndStatus == [normal |-> "done", return |-> "done", throw |-> "uncaught",
              error |-> "error"]

Outcomes(P) ==
  {[out |-> x.out, asked |-> x.asked, status |-> EndStatus[x.end],
    result |-> x.val] : x \in ExecBlock(P, NoVars, P[1].body, Start)}

=============================================================================
