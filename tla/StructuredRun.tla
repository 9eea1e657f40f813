--------------------------- MODULE StructuredRun ----------------------------
(***************************************************************************)
(* The abstract specification of a run: one program prints values and gets *)
(* answers one at a time, never anything that could not still become one   *)
(* of the program's outcomes, and it ends exactly as one of them does.     *)
(***************************************************************************)
EXTENDS Integers, Sequences

CONSTANTS Null

VARIABLES
  outcomes,    \* what the program may do: a set of [out, asked, status, result]
  out, asked, status, result

vars == <<outcomes, out, asked, status, result>>

\* s is a prefix of t.
Begins(s, t) == Len(s) <= Len(t) /\ SubSeq(t, 1, Len(s)) = s

\* The outcomes the run can still reach.
Reachable(o, a) == {x \in outcomes : Begins(o, x.out) /\ Begins(a, x.asked)}

Init ==
  /\ outcomes # {}
  /\ out = <<>> /\ asked = <<>>
  /\ status = "running" /\ result = Null

Output ==
  /\ status = "running"
  /\ \E x \in Reachable(out, asked) :
       /\ Len(out) < Len(x.out)
       /\ out' = Append(out, x.out[Len(out) + 1])
  /\ UNCHANGED <<outcomes, asked, status, result>>

Answer ==
  /\ status = "running"
  /\ \E x \in Reachable(out, asked) :
       /\ Len(asked) < Len(x.asked)
       /\ asked' = Append(asked, x.asked[Len(asked) + 1])
  /\ UNCHANGED <<outcomes, out, status, result>>

Finish ==
  /\ status = "running"
  /\ \E x \in Reachable(out, asked) :
       /\ x.out = out /\ x.asked = asked
       /\ status' = x.status /\ result' = x.result
  /\ UNCHANGED <<outcomes, out, asked>>

Next == Output \/ Answer \/ Finish

\* A run that may also stop or wait for ever.
Safety == Init /\ [][Next]_vars

Spec == Safety /\ WF_vars(Next)

=============================================================================
