---------------------------- MODULE Supervision ----------------------------
(***************************************************************************)
(* What the documentation promises of a run of a program (docs.md,         *)
(* section 9): a supervised program is attempted again after every failure *)
(* until an attempt succeeds or the restarts are used up; its exit status  *)
(* is a success if and only if the last attempt was one.  A program        *)
(* without a watchdog has a budget of no restarts.                         *)
(***************************************************************************)
EXTENDS Naturals

CONSTANT Runs    \* runs of programs, independent of each other

VARIABLES
  budget,      \* how often the program of each run may be restarted
  supervised,  \* does a supervisor launch it?
  state,       \* "idle", "running", and in the end "success" or "failure"
  attempt,     \* how the current attempt has ended: "none", "zero", "nonzero"
  restarts     \* restarts so far

vars == <<budget, supervised, state, attempt, restarts>>

Init ==
  /\ budget \in [Runs -> Nat] /\ supervised \in [Runs -> BOOLEAN]
  /\ state = [r \in Runs |-> "idle"]
  /\ attempt = [r \in Runs |-> "none"]
  /\ restarts = [r \in Runs |-> 0]

Ends(r, how) ==
  /\ state' = [state EXCEPT ![r] = how]
  /\ UNCHANGED <<budget, supervised, attempt, restarts>>

Begin(r) == state[r] = "idle" /\ Ends(r, "running")

Attempt(r) ==
  /\ state[r] = "running" /\ attempt[r] = "none"
  /\ \E how \in {"zero", "nonzero"} : attempt' = [attempt EXCEPT ![r] = how]
  /\ UNCHANGED <<budget, supervised, state, restarts>>

Succeed(r) == state[r] = "running" /\ attempt[r] = "zero" /\ Ends(r, "success")

Restart(r) ==
  /\ state[r] = "running" /\ attempt[r] = "nonzero"
  /\ supervised[r] /\ restarts[r] < budget[r]
  /\ restarts' = [restarts EXCEPT ![r] = @ + 1]
  /\ attempt' = [attempt EXCEPT ![r] = "none"]
  /\ UNCHANGED <<budget, supervised, state>>

GiveUp(r) ==
  /\ state[r] = "running" /\ attempt[r] = "nonzero"
  /\ ~supervised[r] \/ restarts[r] = budget[r]
  /\ Ends(r, "failure")

\* The command line or the file was refused, or no child process could be
\* created.
NotLaunched(r) ==
  /\ state[r] = "running" /\ attempt[r] = "none"
  /\ Ends(r, "failure")

Proceed(r) == Attempt(r) \/ Succeed(r) \/ Restart(r) \/ GiveUp(r) \/ NotLaunched(r)

Next == \E r \in Runs : Begin(r) \/ Proceed(r)

\* Whatever was started ends.
Spec == Init /\ [][Next]_vars /\ \A r \in Runs : WF_vars(Proceed(r))

=============================================================================
