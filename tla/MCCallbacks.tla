----------------------------- MODULE MCCallbacks -----------------------------
(***************************************************************************)
(* Model checking of Callbacks, and with it of VmExceptions: the families  *)
(* of MCVmExceptions, and programs that register handlers and wait in      *)
(* event_loop, in every place of a try and of an expression, against the   *)
(* outcomes that ExceptionSemantics gives for them.                        *)
(***************************************************************************)
EXTENDS Callbacks, MCVmExceptions

H == 4

\* main calls f, which waits; h handles the events and may call g.
WaitIn(main, f, g, h) ==
  Promised(<<Func("main", <<>>, main), Func("f", <<"x">>, f), Func("g", <<>>, g),
             Func("h", <<"y", "p">>, h)>>)

Registering == <<Do(On("key", H, <<Const(50)>>))>>

\* A place to wait in: a try body, a catch, a finally, an expression.
Waits ==
  { Registering \o
      <<TryCatch(<<Do(EventLoop), ThrowIt(Const(1))>>, "e", <<Say(E)>>)>>,
    <<TryCatch(Registering \o <<ThrowIt(Const(1))>>, "e",
               <<Do(EventLoop), Do(EventLoop), ThrowIt(E)>>)>>,
    Registering \o
      <<Try(<<ReturnIt(Const(2))>>, "e", Say1,
            <<Do(EventLoop), Say(Var("x"))>>)>>,
    Registering \o
      <<Do(On("click", G, <<>>)),
        Say(Sum2(Const(3), CallOf(G, <<>>))), Do(EventLoop), ReturnIt(Const(4))>> }

Handlings ==
  { <<Say(Sum2(Var("y"), Var("p")))>>,
    <<Say(Sum2(Const(5), CallG))>>,
    <<ReturnIt(Const(6))>>,
    <<ThrowIt(Var("p"))>>,
    <<Do(Fault)>>,
    <<TryCatch(<<Do(CallG), ThrowIt(Var("y"))>>, "e", <<Say(E), ThrowIt(E)>>)>>,
    <<Try(<<ThrowIt(Var("p"))>>, "e", <<ReturnIt(E)>>, <<Say(Const(7))>>)>>,
    <<TryFinally(<<Do(CallG)>>, <<Say(Const(8))>>), Say(Var("p"))>>,
    <<While(Ask, <<TryCatch(<<Do(CallG)>>, "e", <<Say(E)>>)>>)>>,
    <<Do(On("key", G, <<>>)), Say(Var("y"))>>,
    <<Do(On("click", H, <<Var("p")>>)), Say(Var("y"))>> }

HandlerG == {<<Say(Const(10)), ReturnIt(Const(11))>>, <<ThrowIt(Const(12))>>,
             <<TryFinally(<<ThrowIt(Const(13))>>, <<Say(Const(14))>>)>>}

Waiting ==
  { <<Try(<<Say(Sum2(Const(20), CallF)), ThrowIt(Const(21))>>, "e", <<Say(E)>>,
          <<Say(Const(22))>>)>>,
    <<TryFinally(<<Do(CallF)>>, <<Do(EventLoop)>>)>> }

CallbackPrograms ==
  {WaitIn(m, f, g, h) : m \in Waiting, f \in Waits, g \in HandlerG, h \in Handlings}

PromisedPrograms == StructuredPrograms \cup CallbackPrograms

-----------------------------------------------------------------------------
(* What callbacks do to the program that waits, and to each other.         *)

\* A callback calls the function that waits inside its try.
CallbackCallsWaiter ==
  {WaitIn(<<Do(On("key", H, <<>>)), Do(CallF)>>,
          <<If(Var("x"),
               <<TryCatch(<<Do(EventLoop), ThrowIt(Const(1))>>, "e", <<Say(E)>>)>>, <<>>)>>,
          <<>>, <<Do(CallOf(F, <<Const(0)>>))>>)}

\* A callback fails inside a try; the next one throws outside of it.
CallbackFailsInTry ==
  {WaitIn(<<Do(On("key", H, <<>>)), Do(EventLoop)>>, <<>>, <<>>,
          <<If(Ask, <<TryCatch(<<Do(Fault)>>, "e", <<Say(Const(1))>>)>>, <<>>),
            ThrowIt(Const(2))>>)}

\* Each of these programs alone breaks what docs.md or a comment says.
BrokenPromises == BrokenRuns \cup CallbackCallsWaiter \cup CallbackFailsInTry

-----------------------------------------------------------------------------
(* What the theorems ask of programs, asked of these.                      *)

\* The least relation, and the least sets, that Apart may speak of.
Reach(P) ==
  LET Fns == DOMAIN P.code
      Twice(Q) == Q \cup {fh \in Fns \X Fns :
                           \E g \in Fns : <<fh[1], g>> \in Q /\ <<g, fh[2]>> \in Q}
  IN Twice(Twice({fg \in Fns \X Fns : Calls(P, fg[1], fg[2])}))

InCallbacks(P) ==
  {g \in DOMAIN P.code :
     \E f \in DOMAIN P.code : HandlesEvents(P, f) /\ (f = g \/ <<f, g>> \in Reach(P))}

Waiters(P) ==
  {f \in DOMAIN P.code :
     \E g \in DOMAIN P.code : EntersLoop(P, g) /\ (f = g \/ <<f, g>> \in Reach(P))}

LeastApart(P) == Apart(P, Reach(P), InCallbacks(P), Waiters(P))

ASSUME CallbackProgramsFit ==
  \A P \in CallbackPrograms :
    /\ UniqueNames(P) /\ LeastApart(P)
    /\ \A f \in DOMAIN P.code : Closes(P, f, TriesAt(P, f))

\* One f of CatchF calls itself, outside of its try (see MCVmExceptions).
ASSUME StructuredProgramsFit ==
  \A P \in StructuredPrograms : Calls(P, F, F) \/ LeastApart(P)

\* What the theorems exclude is what breaks.
ASSUME BrokenCallbacksDoNotFit ==
  \A P \in CallbackCallsWaiter \cup CallbackFailsInTry : ~LeastApart(P)

-----------------------------------------------------------------------------
(* The reference: while a callback runs, the program has not ended.        *)

Seen == INSTANCE StructuredRun WITH
  outcomes <- prog.outcomes,
  status   <- IF suspended = <<>> THEN status ELSE "running",
  result   <- IF suspended = <<>> THEN result ELSE Null

\* The VM runs a program as docs.md promises: what it prints and how it ends is
\* what the structured semantics gives (docs.md 5.4: catch and throw, unwinding
\* to the nearest caller's catch, finally on every exit path), also with
\* handlers that run while it waits: they are calls from outside, whose
\* exceptions and errors end with them (docs.md 5.7; gui.rs:173).
AsPromised == Seen!Safety

=============================================================================
