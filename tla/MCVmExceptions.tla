--------------------------- MODULE MCVmExceptions ---------------------------
(***************************************************************************)
(* Model checking of VmExceptions: families of source programs, compiled   *)
(* with TryCompiler.  A configuration chooses a family for Programs; the   *)
(* outcomes that docs.md promises for it come from ExceptionSemantics.     *)
(*                                                                         *)
(* A family is the product of a few bodies for each function, so that      *)
(* every way out of one function meets every shape of its caller.          *)
(***************************************************************************)
EXTENDS VmExceptions, TryCompiler, TLC

Semantics == INSTANCE ExceptionSemantics

\* A program carries the outcomes that docs.md promises for its source.
Promised(P) == CompileProgram(P) @@ [outcomes |-> Semantics!Outcomes(P)]

Func(name, params, body) == [name |-> name, params |-> params, body |-> body]

-----------------------------------------------------------------------------
(* Exceptions and catches across functions; no finally, no break out of a  *)
(* try, no recursion inside a try.  main calls f or g, g calls f.          *)

F == 2
G == 3

CallF == CallOf(F, <<Const(1)>>)
CallG == CallOf(G, <<>>)
E == Var("e")
Say1 == <<Say(Const(1))>>

CatchF ==
  { <<Say(Var("x"))>>,
     <<ThrowIt(Var("x"))>>,
     <<ReturnIt(Const(3))>>,
     <<Do(Fault)>>,
     <<TryCatch(<<ThrowIt(Const(4))>>, "e", <<Say(E)>>), ReturnIt(Const(5))>>,
     <<TryCatch(<<ThrowIt(Const(4))>>, "e", <<ThrowIt(E)>>)>>,
     <<TryCatch(<<ReturnIt(Const(6))>>, "e", Say1), Say(Const(7))>>,
     <<If(Ask, <<ThrowIt(Const(8))>>, <<>>), ReturnIt(Const(9))>>,
     <<If(Ask, <<Do(CallF)>>, <<TryCatch(<<ThrowIt(Var("x"))>>, "e", <<Say(E)>>)>>),
       ThrowIt(Const(2))>> }

CatchG ==
  { <<ReturnIt(CallF)>>,
     <<TryCatch(<<Say(Sum2(CallF, Const(10)))>>, "e",
                <<If(Ask, <<ThrowIt(E)>>, <<ReturnIt(E)>>)>>)>>,
     <<While(Ask, <<TryCatch(<<Say(CallF)>>, "e", <<Say(E)>>),
                    If(Ask, <<Break>>, <<>>)>>)>> }

CatchMain ==
  { <<TryCatch(<<Say(CallF), Say(CallG)>>, "e", <<Say(E)>>), Say(Const(11))>>,
     <<TryCatch(<<TryCatch(<<Do(CallG)>>, "a", <<Say(Var("a")), ThrowIt(Const(12))>>)>>,
                "b", <<Say(Var("b"))>>), Do(CallF)>>,
     <<TryCatch(<<Say(Sum2(Const(10), CallF))>>, "e", <<Say(Sum2(E, CallG))>>)>>,
     <<For(Ask, Sum2(Const(0), Const(0)),
           <<TryCatch(<<Do(CallG)>>, "e", <<Say(E)>>),
             If(Ask, <<Continue>>, <<>>), Say(Const(13))>>),
       Let("y", Const(14)), Do(CallG), Say(Var("y"))>> }

CatchPrograms ==
  {Promised(<<Func("main", <<>>, m), Func("f", <<"x">>, f), Func("g", <<>>, g)>>) :
     m \in CatchMain, f \in CatchF, g \in CatchG}

-----------------------------------------------------------------------------
(* finally: every way out of the body, of the catch and of the finally     *)
(* itself, in a function called under another finally.  No function nests  *)
(* a try in a try/finally with a finally of its own, leaves a finally      *)
(* abruptly after a catch, or breaks out of a try.                         *)

Bodies == {<<Say(Const(1))>>, <<ThrowIt(Const(2))>>, <<ReturnIt(Const(3))>>,
           <<Do(CallG), Say(Const(4))>>}

CatchBodies == {<<Say(E)>>, <<ThrowIt(E)>>, <<ReturnIt(Const(5))>>, <<Do(CallG)>>}

LoopBodies == {<<While(Ask, b \o <<If(Ask, <<Break>>, <<Continue>>), Say(Const(6))>>)>> :
                 b \in Bodies}

FinallyF ==
  {<<Try(b, "e", c, <<Say(Const(7))>>), ReturnIt(Const(8))>> :
     b \in Bodies, c \in CatchBodies}
  \cup {<<TryFinally(b, <<Say(Const(7))>> \o d), ReturnIt(Const(8))>> :
          b \in Bodies \cup LoopBodies, d \in Bodies}
  \cup {<<TryFinally(<<TryCatch(b, "e", c)>>, <<Say(Const(7))>>)>> :
          b \in Bodies, c \in CatchBodies}
  \cup {<<TryCatch(<<TryFinally(b, <<Say(Const(7))>>)>>, "e", c), ReturnIt(Const(8))>> :
          b \in Bodies, c \in CatchBodies}

FinallyG == {<<Say(Const(10))>>, <<ThrowIt(Const(11))>>,
             <<TryFinally(<<ThrowIt(Const(12))>>, <<Say(Const(13))>>)>>}

FinallyMain ==
  { <<Try(<<Say(CallF)>>, "e", <<Say(E)>>, <<Say(Const(20))>>), Say(Const(21))>>,
    <<TryFinally(<<Do(CallF), Do(Fault)>>, <<Say(Const(20))>>)>> }

FinallyPrograms ==
  {Promised(<<Func("main", <<>>, m), Func("f", <<"x">>, f), Func("g", <<>>, g)>>) :
     m \in FinallyMain, f \in FinallyF, g \in FinallyG}

StructuredPrograms == CatchPrograms \cup FinallyPrograms

-----------------------------------------------------------------------------
(* Anything goes: try in try, in catch and in finally, break and continue  *)
(* out of a try, recursion inside a try, a runtime error in a try.         *)

Leaves == {<<ThrowIt(Const(1))>>, <<ReturnIt(Const(2))>>, <<Break>>, <<Continue>>,
           <<Do(CallF)>>, <<Say(Sum2(Const(3), CallOf(1, <<>>)))>>}

Tries == {Try(b, "e", c, f) : b, c, f \in Leaves}

Nested(t) ==
  {Try(<<t>>, "e", <<ThrowIt(E)>>, <<Say(Const(4))>>),
   Try(<<ThrowIt(Const(5))>>, "e", <<t>>, <<Say(E)>>),
   TryFinally(<<ReturnIt(Const(6))>>, <<t>>)}

AnyF ==
  {<<While(Ask, <<t>>), ThrowIt(Const(7))>> : t \in Tries}
  \cup {<<While(Ask, <<Say(Const(8))>>), TryCatch(b, "e", c)>> :
          b, c \in Leaves \ {<<Break>>, <<Continue>>, <<Do(CallF)>>}}

AnyMain == {<<While(Ask, <<n>>)>> : n \in UNION {Nested(t) : t \in
              {Try(b, "e", <<Do(CallF)>>, <<Do(CallF)>>) : b \in Leaves}}}
  \cup {<<Let("y", Const(9)),
          While(Ask, <<Try(<<Do(CallF), Do(Fault)>>, "e", <<Say(Var("y"))>>,
                           <<Do(CallF)>>)>>)>>}

\* Without a promise: for these only the VM's own invariants are checked.
Unpromised(P) == CompileProgram(P) @@ [outcomes |-> {}]

AnyPrograms ==
  {Unpromised(<<Func("main", <<>>, m), Func("f", <<"x">>, f)>>) :
     m \in AnyMain, f \in AnyF}

-----------------------------------------------------------------------------
(* One program per disagreement between the VM and docs.md (README).       *)

Main(body) == {Promised(<<Func("main", <<>>, body)>>)}

MainAndF(body, f) == {Promised(<<Func("main", <<>>, body), Func("f", <<"x">>, f)>>)}

\* break leaves a try: its finally is skipped.
BreakOutOfTry ==
  Main(<<While(Ask, <<TryFinally(<<Break>>, <<Say(Const(1))>>)>>), Say(Const(2))>>)

\* The inner try/finally ends normally; then the outer body throws, or the
\* caller does, whose try the inner function has popped.
NestedFinally ==
  Main(<<TryFinally(<<TryFinally(<<Say(Const(1))>>, <<Say(Const(2))>>),
                      ThrowIt(Const(3))>>, <<Say(Const(4))>>)>>)
  \cup
  MainAndF(<<TryCatch(<<Do(CallF), ThrowIt(Const(1))>>, "e", <<Say(E)>>)>>,
           <<TryFinally(<<TryFinally(<<Say(Const(2))>>, <<Say(Const(3))>>)>>,
                        <<Say(Const(4))>>)>>)

\* Each activation throws inside its own try.
RecursionInTry ==
  MainAndF(<<Do(CallF)>>,
           <<TryCatch(<<If(Ask, <<Do(CallF)>>, <<>>), ThrowIt(Var("x"))>>,
                      "e", <<Say(E)>>)>>)

\* A throw replaces a pending return; later another finally completes.
\* The finally of a try whose catch has completed returns.
AbruptFinally ==
  Main(<<TryCatch(<<TryFinally(<<ReturnIt(Const(1))>>, <<ThrowIt(Const(2))>>)>>,
                  "e", <<Say(E)>>),
         TryFinally(<<Say(Const(3))>>, <<Say(Const(4))>>), Say(Const(5))>>)
  \cup
  Main(<<Try(<<ThrowIt(Const(1))>>, "e", <<Say(E)>>,
             <<Say(Const(2)), ReturnIt(Const(3))>>)>>)

\* Two modules have a function with the same short name.
SameShortName ==
  {Promised(<<Func("main", <<>>, <<Do(CallF)>>),
              Func("f", <<"x">>, <<TryCatch(<<Do(CallG)>>, "e", <<Say(Const(1))>>)>>),
              Func("f", <<>>, <<TryCatch(<<ThrowIt(Const(7))>>, "e", <<ThrowIt(E)>>)>>)>>)}

\* Each of these programs alone breaks the promise of finally, each of those
\* enters a handler that is not its own.
FinallyBroken == BreakOutOfTry \cup NestedFinally \cup AbruptFinally

WrongHandler == RecursionInTry \cup SameShortName

\* An exception interrupts a sum, in a function called from another sum.
InterruptedSum ==
  {Promised(<<Func("main", <<>>, <<Say(Sum2(Const(100), CallF))>>),
              Func("f", <<"x">>, <<TryCatch(<<Say(Sum2(Const(10), CallG))>>, "e",
                                            <<ReturnIt(E)>>)>>),
              Func("g", <<>>, <<ThrowIt(Const(1))>>)>>)}

\* A catch inside a catch binds the same name.
NestedCatchName ==
  Main(<<TryCatch(<<ThrowIt(Const(1))>>, "e",
                  <<TryCatch(<<ThrowIt(Const(2))>>, "e", <<Say(E)>>), Say(E)>>)>>)

\* All of them.
BrokenRuns == FinallyBroken \cup WrongHandler \cup InterruptedSum \cup NestedCatchName

-----------------------------------------------------------------------------
(* What the theorems ask of programs, asked of the compiled ones.          *)

\* Statements begin and end with no operand, so a jump and what follows one
\* that is always taken have none.
HeightsOf(P, f) ==
  LET code == P.code[f]
      h[i \in DOMAIN code] ==
        IF i = 1 \/ code[i - 1].op \in {"JMP", "RETURN", "RETURN_VOID", "THROW"} THEN 0
        ELSE h[i - 1] - Pops(code[i - 1])
               + (IF code[i - 1].op = "FAIL" THEN 1 ELSE Pushes(code[i - 1])) IN h

ASSUME CompiledCodeFits ==
  \A P \in AnyPrograms \cup StructuredPrograms :
    UniqueNames(P) /\ \A f \in DOMAIN P.code : Fits(P, f, HeightsOf(P, f))

\* A try block is between its TRY and its ENDTRY, in the text of the code.
TriesAt(P, f) ==
  LET code == P.code[f]
      m[i \in DOMAIN code] ==
        IF i = 1 THEN 0
        ELSE m[i - 1] + (CASE code[i - 1].op = "TRY" -> 1
                           [] code[i - 1].op = "ENDTRY" -> -1
                           [] OTHER -> 0) IN m

ASSUME StructuredTriesClose ==
  \A P \in StructuredPrograms : \A f \in DOMAIN P.code : Closes(P, f, TriesAt(P, f))

\* One f of CatchF calls itself, outside of its try: the run has it, the
\* theorem has not.
ASSUME StructuredProgramsNest ==
  \A P \in StructuredPrograms : Calls(P, F, F) \/ NoTryReentered(P)

=============================================================================
