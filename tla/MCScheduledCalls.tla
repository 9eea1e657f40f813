-------------------------- MODULE MCScheduledCalls --------------------------
(***************************************************************************)
(* Model checking of ScheduledCalls: programs of main (1) and the          *)
(* functions 2, 3 and 4, each of which calls only later ones.              *)
(***************************************************************************)
EXTENDS CallRefinement

C(f) == [callee |-> f, guarded |-> FALSE]
T(f) == [callee |-> f, guarded |-> TRUE]     \* inside a try/catch

Fn(schedule, size, body, ends) ==
  [schedule |-> schedule, size |-> size, body |-> body, ends |-> ends]

Main(body) == Fn("single", 0, body, {"value"})

Program(funcs, callbacks) == [funcs |-> funcs, callbacks |-> callbacks]

\* The schedules that share and that do not share a pool, single among them.
Schedules == {<<"single", 0>>, <<"auto", 0>>, <<"manual", 0>>, <<"manual", 1>>,
              <<"manual", 2>>}

\* Nested calls on every mix of pools.  The innermost function ends in every
\* way but a panic; only calls that stay in one VM are inside a try.
NestedPrograms ==
  {Program(<<Main(<<C(2), C(4)>>), Fn(s[1], s[2], <<C(3), T(4)>>, {"value", "error"}),
             Fn(t[1], t[2], <<C(4)>>, {"value"}),
             Fn("single", 0, <<>>, {"value", "throw"})>>, {}) :
     s, t \in Schedules}
  \cup
  {Program(<<Main(<<>>), Fn(s[1], s[2], <<C(3)>>, {"value", "error"}),
             Fn(t[1], t[2], <<C(4)>>, {"value", "throw"}),
             Fn("manual", 1, <<>>, {"value", "error"})>>, {2}) :
     s, t \in Schedules}

\* Callbacks whose second task panics, and that panic themselves.
SomePanics ==
  {Program(<<Main(<<>>), Fn("single", 0, <<C(3), C(4)>>, e),
             Fn("manual", 2, <<>>, {"value"}), Fn(s, n, <<>>, {"value", "panic"})>>, {2}) :
     s \in {"auto", "manual"}, n \in {2, 3}, e \in {{"value"}, {"value", "panic"}}}

CallPrograms == NestedPrograms \cup SomePanics

\* Callbacks whose only task panics.
PanicPrograms ==
  {Program(<<Main(<<>>), Fn("single", 0, <<C(3)>>, {"value"}),
             Fn("manual", n, <<>>, {"value", "panic"})>>, {2}) : n \in {1, 2}}

\* main calls a scheduled function inside a try; it throws.
ThrowInTask ==
  {Program(<<Main(<<T(2)>>), Fn("auto", 0, <<>>, {"throw"})>>, {})}

BrokenCalls == PanicPrograms \cup ThrowInTask

\* In these programs only calls that stay in one VM are inside a try, as the
\* proof of the refinement asks; those of BrokenCalls that panic are too.
ASSUME TriesAreInside ==
  /\ \A P \in CallPrograms \cup PanicPrograms : TriesStayInside(P)
  /\ \A P \in ThrowInTask : ~TriesStayInside(P)

=============================================================================
