----------------------------- MODULE MCHostRun -----------------------------
(***************************************************************************)
(* Model checking of HostRun: runs of a source and of a package, alone and *)
(* beside each other, and the promise of supervision.                      *)
(***************************************************************************)
EXTENDS HostRun

CONSTANTS
  file,      \* the one file
  r1, r2     \* the two runs

Job(subcommand, noDaemon, dash) ==
  [file |-> file, subcommand |-> subcommand, noDaemon |-> noDaemon, dash |-> dash]

PlainJob == Job(FALSE, FALSE, FALSE)

\* Runs meet only in the daemon: what one does there, an ordinary run does to
\* the other, which is one of `pss file`, `pss file --no-daemon`, `pss file -x` and
\* `pss run file -x`.
SomeJobs ==
  [r \in Runs |->
     IF r = r1 THEN {PlainJob, Job(FALSE, TRUE, FALSE), Job(FALSE, FALSE, TRUE),
                     Job(TRUE, FALSE, TRUE)}
     ELSE {PlainJob}]

PlainJobs == [r \in Runs |-> {PlainJob}]

OffOrOne == {Off, 1}

ZeroAndNegative == {0, -2}

ZeroAndByte == {0, 256}

-----------------------------------------------------------------------------
\* Every process that executes a program has the bytecode of a version at least
\* as new as the one on disk when it began: the help text's "compile and run".
\* The daemon's cache breaks it, see the run broken_host.
Fresh ==
  \A r \in Runs : pc[r] = "execute" => image[r] >= since[r]

\* What the documentation says of running a file: the program that is there is
\* compiled and run, and under a watchdog it is restarted until it has succeeded
\* or the budget is used up.  See the run broken_host.
Promised == Implements /\ []Fresh

=============================================================================
