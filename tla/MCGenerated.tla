---------------------------- MODULE MCGenerated -----------------------------
(***************************************************************************)
(* Model checking of Generator beside the VM that runs what it makes: it   *)
(* compiles some of the programs of AnyPrograms, and sources that it       *)
(* refuses, and only then does the VM start.                               *)
(***************************************************************************)
EXTENDS MCVmExceptions, Generator

\* Every shape of f under one main, and every shape of main over one f.
OneF    == CHOOSE f \in AnyF : TRUE
OneMain == CHOOSE m \in AnyMain : TRUE

AnySource(m, f) == <<Func("main", <<>>, m), Func("f", <<"x">>, f)>>

\* What the families have not: if with else, for, callbacks, slots and names.
Other ==
  {AnySource(<<For(Ask, Sum2(Const(0), CallF), <<If(Ask, <<Continue>>, <<Break>>)>>),
               ReturnNothing>>,
             <<Let("x", Var("x")), If(Var("x"), Say1, <<>>),
               TryCatch(<<Let("e", Const(1))>>, "e", <<ReturnIt(E)>>)>>),
   AnySource(<<Do(On("key", F, <<Const(1)>>)), Do(EventLoop)>>, Say1)}

\* A name, a callee and a loop that are not there.
RefusedSources ==
  {AnySource(Say1, <<Say(Var("y"))>>), AnySource(<<Do(CallG)>>, Say1),
   AnySource(<<While(Ask, Say1), Break>>, Say1)}

MCSources ==
  {AnySource(OneMain, f) : f \in AnyF} \cup {AnySource(m, OneF) : m \in AnyMain}
  \cup Other \cup RefusedSources

\* The VM has another program when there is none of the source.
MCPrograms ==
  AnyPrograms
  \cup {Unpromised(P) @@ [source |-> P] : P \in MCSources \ RefusedSources}
  \cup {Unpromised(AnySource(Say1, Say1)) @@ [source |-> P] : P \in RefusedSources}

-----------------------------------------------------------------------------
(* All the trees of the sources *)

SubBlocks(s) ==
  CASE s.s = "if"               -> {s.then, s.else}
    [] s.s \in {"while", "for"} -> {s.body}
    [] s.s = "try"              -> {s.body, s.catch, s.finally}
    [] OTHER                    -> {}

Of(blocks) == UNION {{b[i] : i \in DOMAIN b} : b \in blocks}

RECURSIVE Within(_)
Within(S) ==
  IF S = {} THEN {} ELSE S \cup Within(Of(UNION {SubBlocks(s) : s \in S}))

MCStatements == Within(Of({P[i].body : P \in MCSources, i \in {1, 2}}))

ExpressionsOf(s) ==
  CASE s.s \in {"say", "do", "throw", "return", "let"} -> {s.x}
    [] s.s \in {"if", "while"} -> {s.c}
    [] s.s = "for"             -> {s.c, s.step}
    [] OTHER                   -> {}

SubExpressions(x) ==
  CASE x.e = "sum"            -> {x.l, x.r}
    [] x.e \in {"call", "on"} -> {x.args[i] : i \in DOMAIN x.args}
    [] OTHER                  -> {}

RECURSIVE WithinExpressions(_)
WithinExpressions(S) ==
  IF S = {} THEN {} ELSE S \cup WithinExpressions(UNION {SubExpressions(x) : x \in S})

MCExpressions == WithinExpressions(UNION {ExpressionsOf(s) : s \in MCStatements})

-----------------------------------------------------------------------------
(* The generator first, for the programs that are given with their source. *)

MCInit ==
  /\ Init
  /\ IF "source" \in DOMAIN prog
     THEN source = prog.source /\ GenInit
     ELSE /\ source = <<>> /\ phase = "idle" /\ made = <<>> /\ todo = <<>>
          /\ names = <<>> /\ next = 0 /\ code = <<>> /\ heights = <<>> /\ tries = <<>>

Generating == phase = "run" /\ GenNext /\ UNCHANGED vars

\* The program is done, or refused, and the VM starts.
HandOver ==
  /\ phase \in {"done", "error"} /\ phase' = "idle"
  /\ UNCHANGED <<vars, source, made, todo, code, names, next, heights, tries>>

Running == phase = "idle" /\ Next /\ UNCHANGED genVars

MCNext == Running \/ HandOver \/ Generating

MCSpec ==
  /\ MCInit /\ [][MCNext]_<<vars, genVars>>
  /\ WF_<<vars, genVars>>(MCNext)

\* The machine makes the code that TryCompiler defines.
MakesTheProgram ==
  phase = "done" => Program = CompileProgram(source)

=============================================================================
