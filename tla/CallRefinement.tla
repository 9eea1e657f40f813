--------------------------- MODULE CallRefinement ---------------------------
(***************************************************************************)
(* ScheduledCalls implements InlineCalls: the stacks of the VMs that wait  *)
(* for each other, one upon the other, are the one call stack of a program *)
(* that runs every function where it is called.                            *)
(***************************************************************************)
EXTENDS ScheduledCalls

\* The stacks of the first n VMs, one upon the other, for every n; a VM that
\* is gone has none.
Stacks(vs) ==
  LET upto[n \in 0 .. Len(vs)] ==
        IF n = 0 THEN <<>>
        ELSE IF vs[n].state = "gone" THEN upto[n - 1]
        ELSE upto[n - 1] \o vs[n].stack
  IN upto

CallStack == Stacks(vms)[Len(vms)]

\* An Err or a hang-up waits to be received.
Failing == \E v \in DOMAIN vms : vms[v].state = "answered" /\ vms[v].answer # "value"

Inline == INSTANCE InlineCalls WITH stack <- CallStack, failing <- Failing

\* Running a function on a pool is running it: the caller goes on when the
\* callee has returned, errors reach the entry, and every call ends.
Implements == Inline!Spec

\* The functions in I run in the VM of their caller, and so does all they call.
StayInside(P, I) ==
  \A f \in I :
    /\ P.funcs[f].schedule = "single"
    /\ \A i \in DOMAIN P.funcs[f].body : P.funcs[f].body[i].callee \in I

\* Everything that P calls inside a try is in I.
TriedIn(P, I) ==
  \A f \in DOMAIN P.funcs : \A i \in DOMAIN P.funcs[f].body :
    P.funcs[f].body[i].guarded => P.funcs[f].body[i].callee \in I

\* Nothing that is called inside a try of P, however indirectly, is scheduled.
\* Where something is, its exception does not find the handler (see the run
\* broken_calls).
TriesStayInside(P) ==
  \E I \in SUBSET DOMAIN P.funcs : StayInside(P, I) /\ TriedIn(P, I)

=============================================================================
