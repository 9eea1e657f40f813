----------------------------- MODULE InlineCalls -----------------------------
(***************************************************************************)
(* What a caller may expect of a call, whatever the schedule of the callee *)
(* (docs.md 5.4 and 7): the callee runs, and then the caller goes on; an   *)
(* exception goes to the nearest try of the callers; an error ends the     *)
(* entry, which is main or a callback of the event loop.  There is one     *)
(* call stack and no thread.                                               *)
(***************************************************************************)
EXTENDS Integers, Sequences

CONSTANT MaxEvents

VARIABLES
  prog,     \* as in ScheduledCalls
  stack,    \* the activations, the last one runs
  failing,  \* an error is on its way out
  phase, events

vars == <<prog, stack, failing, phase, events>>

Activation(f) == [func |-> f, at |-> 1]

Init ==
  /\ stack = <<Activation(1)>> /\ failing = FALSE
  /\ phase = "main" /\ events = 0

Top == stack[Len(stack)]

Body(f) == prog.funcs[f].body

Runs == stack # <<>> /\ ~failing

Ending(how) ==
  Runs /\ Top.at > Len(Body(Top.func)) /\ how \in prog.funcs[Top.func].ends

Call ==
  /\ Runs /\ Top.at <= Len(Body(Top.func))
  /\ stack' = Append(stack, Activation(Body(Top.func)[Top.at].callee))
  /\ UNCHANGED <<prog, failing, phase, events>>

\* Cut the stack behind the n-th activation, whose call is over.
Continue(n) ==
  /\ stack' = [SubSeq(stack, 1, n) EXCEPT ![n].at = @ + 1]
  /\ UNCHANGED <<prog, failing, phase, events>>

EndEntry(next) == stack' = <<>> /\ phase' = next /\ failing' = FALSE

Return ==
  /\ Ending("value")
  /\ \/ Len(stack) > 1 /\ Continue(Len(stack) - 1)
     \/ /\ Len(stack) = 1
        /\ EndEntry(IF prog.callbacks # {} THEN "loop" ELSE "exited")
        /\ UNCHANGED <<prog, events>>

\* An error drops activations until the entry has ended.
Drop(n) ==
  /\ \/ /\ n > 0
        /\ stack' = SubSeq(stack, 1, n) /\ failing' = TRUE /\ UNCHANGED phase
     \/ n = 0 /\ EndEntry(IF phase = "loop" THEN "loop" ELSE "exited")
  /\ UNCHANGED <<prog, events>>

Guarded == {d \in 1 .. Len(stack) - 1 : Body(stack[d].func)[stack[d].at].guarded}

Throw ==
  /\ Ending("throw")
  /\ \/ \E d \in Guarded : (\A e \in Guarded : e <= d) /\ Continue(d)
     \/ Guarded = {} /\ \E n \in 0..Len(stack) : Drop(n)

Fail == Ending("error") /\ \E n \in 0..Len(stack) : Drop(n)

\* A panic is an error for the caller of a scheduled function, and otherwise
\* the end of the process.
Panic ==
  /\ Ending("panic")
  /\ \/ \E n \in 0..Len(stack) : Drop(n)
     \/ EndEntry("exited") /\ UNCHANGED <<prog, events>>

Propagate == failing /\ \E n \in 0 .. Len(stack) - 1 : Drop(n)

Step == Call \/ Return \/ Throw \/ Fail \/ Panic \/ Propagate

Event ==
  /\ phase = "loop" /\ stack = <<>> /\ events < MaxEvents
  /\ \E f \in prog.callbacks : stack' = <<Activation(f)>>
  /\ events' = events + 1
  /\ UNCHANGED <<prog, failing, phase>>

Close ==
  /\ phase = "loop" /\ stack = <<>>
  /\ phase' = "exited"
  /\ UNCHANGED <<prog, stack, failing, events>>

Next == Step \/ Event \/ Close

Spec == Init /\ [][Next]_vars /\ WF_vars(Step)

=============================================================================
