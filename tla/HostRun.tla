------------------------------ MODULE HostRun ------------------------------
(***************************************************************************)
(* How the host runs a program (src/cli.rs): a .project package is read    *)
(* and executed; a .psp source is compiled, or its bytecode comes from the *)
(* resident daemon (src/daemon/mod.rs), or the run supervises a child      *)
(* process that does the same (src/watchdog.rs).  Runs, their children and *)
(* the daemon are processes of their own; the files change under them.     *)
(*                                                                         *)
(* A file is its version number.  A supervisor only waits while its child  *)
(* runs, so that one pc stands for the two.                                *)
(***************************************************************************)
EXTENDS Integers

CONSTANTS
  Runs,         \* processes that users start
  Files,        \* the files they run
  Jobs,         \* the command lines that each run may have
  Watches,      \* watchdogs: max_auto_restarts, or Off
  Returns,      \* what main may return, an i64
  Broken,       \* versions that do not compile (decode, if a package)
  MaxVersion    \* bound: edits of one file

VARIABLES
  job,          \* the command line of each run (never changes)
  packages,     \* the files that are .project packages (never changes)
  watch,        \* the watchdog that each run finds in the .pspc or the
                \* package when it starts (never changes)
  source,       \* the version on disk of each file
  daemon,       \* "down", "starting" or "up"
  cache,        \* the daemon's map from path to bytecode
  inFlight,     \* per run: the PUT that the daemon has not handled yet
  pc,           \* where each run is
  child,        \* is it in its supervised child process?
  image,        \* the version that it executes
  restarts,     \* supervise: restarts
  status,       \* exit status of the process that ended last
  since,        \* ghost: the version on disk when that process began
  attempt       \* ghost: what the program's last attempt really was

vars == <<job, packages, watch, source, daemon, cache, inFlight, pc, child, image,
          restarts, status, since, attempt>>

Off == -1       \* no watchdog block, or auto_restart: false
None == -1      \* no bytecode
Signal == -1    \* ExitStatus::code() of a process that a signal ended

\* bin/pss.rs, of an Err.  A panic gives 101, which nothing tells from it.
ErrorExit == 2

\* subcommand: `pss run <file>` rather than `pss <file>`; dash: an argument
\* for the program begins with a dash.
CommandLines ==
  [file : Files, subcommand : BOOLEAN, noDaemon : BOOLEAN, dash : BOOLEAN]

ASSUME HostAssumption ==
  /\ Jobs \in [Runs -> SUBSET CommandLines]
  /\ Watches \subseteq Nat \cup {Off}
  /\ Returns \subseteq Int /\ Broken \subseteq Nat /\ MaxVersion \in Nat

Init ==
  /\ job \in {j \in [Runs -> CommandLines] : \A r \in Runs : j[r] \in Jobs[r]}
  /\ packages \in SUBSET Files
  /\ watch \in [Runs -> Watches]
  /\ source = [f \in Files |-> 0]
  /\ daemon = "down"
  /\ cache = [f \in Files |-> None]
  /\ inFlight = [r \in Runs |-> None]
  /\ pc = [r \in Runs |-> "idle"]
  /\ child = [r \in Runs |-> FALSE]
  /\ image = [r \in Runs |-> None]
  /\ restarts = [r \in Runs |-> 0]
  /\ status = [r \in Runs |-> 0]
  /\ since = [r \in Runs |-> 0]
  /\ attempt = [r \in Runs |-> "none"]

File(r) == job[r].file

ofDaemon == <<daemon, cache, inFlight>>
ofHost == <<job, packages, watch, source>>

-----------------------------------------------------------------------------
(* One process: cli.rs *)

\* cmd_run takes an argument with a dash for an unknown option; a bare
\* `pss <file> -x` does not go through it, its supervised child does.
Rejected(r) == job[r].dash /\ (job[r].subcommand \/ child[r])

\* Mutant: the flag of the command line alone.
FlagOnly(r) == job[r].noDaemon

\* A child of a source is launched with --no-daemon.  A package knows no
\* daemon.
NoDaemon(r) == job[r].noDaemon \/ child[r]

Supervised(r) == watch[r] # Off /\ ~child[r]

Goto(r, l) == pc' = [pc EXCEPT ![r] = l]

\* The process ends with the status st, the program's attempt having been a.
Exit(r, st, a) ==
  /\ Goto(r, "ended")
  /\ status' = [status EXCEPT ![r] = st]
  /\ attempt' = [attempt EXCEPT ![r] = a]

Begin(r) ==
  /\ pc[r] = "idle" /\ Goto(r, "start")
  /\ since' = [since EXCEPT ![r] = source[File(r)]]
  /\ UNCHANGED <<ofHost, ofDaemon, child, image, restarts, status, attempt>>

\* An Err before the program, or its supervisor, had control.
Refuse(r) == Exit(r, ErrorExit, IF child[r] THEN "nonzero" ELSE "none")

Reject(r) ==
  /\ pc[r] = "start" /\ Rejected(r)
  /\ Refuse(r)
  /\ UNCHANGED <<ofHost, ofDaemon, child, image, restarts, since>>

\* run_package reads the file before it looks for a watchdog in it.
RunPackage(r) ==
  /\ pc[r] = "start" /\ ~Rejected(r) /\ File(r) \in packages
  /\ \/ /\ source[File(r)] \in Broken
        /\ Refuse(r)
        /\ UNCHANGED image
     \/ /\ source[File(r)] \notin Broken
        /\ Goto(r, IF Supervised(r) THEN "launch" ELSE "execute")
        /\ image' = [image EXCEPT ![r] = source[File(r)]]
        /\ UNCHANGED <<status, attempt>>
  /\ UNCHANGED <<ofHost, ofDaemon, child, restarts, since>>

RunSource(r) ==
  /\ pc[r] = "start" /\ ~Rejected(r) /\ File(r) \notin packages
  /\ Goto(r, IF Supervised(r) THEN "launch"
             ELSE IF NoDaemon(r) THEN "compile" ELSE "ask")
  /\ UNCHANGED <<ofHost, ofDaemon, child, image, restarts, status, since, attempt>>

\* try_fast_start: no daemon, a MISS, or no complete answer within 500 ms.
Miss(r) ==
  /\ pc[r] = "ask" /\ Goto(r, "compile")
  /\ UNCHANGED <<ofHost, ofDaemon, child, image, restarts, status, since, attempt>>

Hit(r) ==
  /\ pc[r] = "ask" /\ daemon = "up" /\ cache[File(r)] # None
  /\ Goto(r, "execute")
  /\ image' = [image EXCEPT ![r] = cache[File(r)]]
  /\ UNCHANGED <<ofHost, ofDaemon, child, restarts, status, since, attempt>>

Compile(r) ==
  /\ pc[r] = "compile"
  /\ \/ /\ source[File(r)] \in Broken
        /\ Exit(r, ErrorExit, "nonzero")
        /\ UNCHANGED image
     \/ /\ source[File(r)] \notin Broken
        /\ Goto(r, IF NoDaemon(r) THEN "execute" ELSE "warm")
        /\ image' = [image EXCEPT ![r] = source[File(r)]]
        /\ UNCHANGED <<status, attempt>>
  /\ UNCHANGED <<ofHost, ofDaemon, child, restarts, since>>

\* warm_cache: whoever finds no daemon listening spawns one.  Of several that
\* are starting one gets the port and the others end.
Connect(r) ==
  /\ pc[r] = "warm" /\ Goto(r, "put")
  /\ daemon' = IF daemon = "down" THEN "starting" ELSE daemon
  /\ UNCHANGED <<ofHost, cache, inFlight, child, image, restarts, status, since, attempt>>

\* The second connect, after 80 ms if a daemon was spawned.  Nobody waits for
\* the PUT to be handled: the client gives up on the answer after 300 ms.
Put(r) ==
  /\ pc[r] = "put" /\ Goto(r, "execute")
  /\ inFlight' = IF daemon = "up" THEN [inFlight EXCEPT ![r] = image[r]] ELSE inFlight
  /\ UNCHANGED <<ofHost, daemon, cache, child, image, restarts, status, since, attempt>>

Byte(n) == n % 256

\* vm::execute_bytes: main's i64 `as u8`; an Err of the VM or a panic.
Execute(r) ==
  /\ pc[r] = "execute"
  /\ \/ \E n \in Returns : Exit(r, Byte(n), IF n = 0 THEN "zero" ELSE "nonzero")
     \/ Exit(r, ErrorExit, "nonzero")
  /\ UNCHANGED <<ofHost, ofDaemon, child, image, restarts, since>>

\* A signal ends the process that runs the program.
Kill(r) ==
  /\ pc[r] \in {"ask", "compile", "warm", "put", "execute"}
  /\ Exit(r, Signal, "nonzero")
  /\ UNCHANGED <<ofHost, ofDaemon, child, image, restarts, since>>

Done(r) ==
  /\ pc[r] = "ended" /\ ~child[r] /\ Goto(r, "done")
  /\ UNCHANGED <<ofHost, ofDaemon, child, image, restarts, status, since, attempt>>

-----------------------------------------------------------------------------
(* The supervisor: watchdog.rs *)

\* The process calls itself again as `pss run <file> ...`.
Launch(r) ==
  /\ pc[r] = "launch" /\ Goto(r, "start")
  /\ child' = [child EXCEPT ![r] = TRUE]
  /\ since' = [since EXCEPT ![r] = source[File(r)]]
  /\ UNCHANGED <<ofHost, ofDaemon, image, restarts, status, attempt>>

\* spawn()? gives up at once.
NotLaunched(r) ==
  /\ pc[r] = "launch" /\ Goto(r, "done")
  /\ status' = [status EXCEPT ![r] = ErrorExit]
  /\ UNCHANGED <<ofHost, ofDaemon, child, image, restarts, since, attempt>>

\* Mutants: a child ended by a signal taken for a success; one restart too many.
SignalIsSuccess(st) == IF st = Signal THEN 0 ELSE st

OneMore(r) == restarts[r] > watch[r]

\* exit_code: 1 if the child was ended by a signal.
ExitCode(st) == IF st = Signal THEN 1 ELSE st

Exhausted(r) == restarts[r] + 1 > watch[r]

Leave(r) ==
  /\ pc[r] = "ended" /\ child[r]
  /\ ExitCode(status[r]) = 0 \/ Exhausted(r)
  /\ Goto(r, "done")
  /\ child' = [child EXCEPT ![r] = FALSE]
  /\ status' = [status EXCEPT ![r] = ExitCode(status[r])]
  /\ UNCHANGED <<ofHost, ofDaemon, image, restarts, since, attempt>>

Restart(r) ==
  /\ pc[r] = "ended" /\ child[r]
  /\ ExitCode(status[r]) # 0 /\ ~Exhausted(r)
  /\ Goto(r, "launch")
  /\ child' = [child EXCEPT ![r] = FALSE]
  /\ restarts' = [restarts EXCEPT ![r] = @ + 1]
  /\ attempt' = [attempt EXCEPT ![r] = "none"]
  /\ UNCHANGED <<ofHost, ofDaemon, image, status, since>>

-----------------------------------------------------------------------------
(* The daemon and the disk *)

\* Mutant: the map survives.
Kept == cache

Empty == [f \in Files |-> None]

DaemonBinds ==
  /\ daemon = "starting" /\ daemon' = "up"
  /\ UNCHANGED <<ofHost, cache, inFlight, pc, child, image, restarts, status, since, attempt>>

\* It could not bind, was stopped by the user, or accept failed: with the
\* process go its cache and the connections.
DaemonEnds ==
  /\ daemon # "down" /\ daemon' = "down"
  /\ cache' = Empty
  /\ inFlight' = [r \in Runs |-> None]
  /\ UNCHANGED <<ofHost, pc, child, image, restarts, status, since, attempt>>

\* handle, in a thread per connection: PUTs are stored in any order.
Store(r) ==
  /\ inFlight[r] # None
  /\ cache' = [cache EXCEPT ![File(r)] = inFlight[r]]
  /\ inFlight' = [inFlight EXCEPT ![r] = None]
  /\ UNCHANGED <<ofHost, daemon, pc, child, image, restarts, status, since, attempt>>

Edit(f) ==
  /\ source[f] < MaxVersion
  /\ source' = [source EXCEPT ![f] = @ + 1]
  /\ UNCHANGED <<job, packages, watch, ofDaemon, pc, child, image, restarts, status, since, attempt>>

-----------------------------------------------------------------------------
\* What a run does by itself; programs are taken to end.
Proceed(r) ==
  \/ Reject(r) \/ RunPackage(r) \/ RunSource(r) \/ Miss(r) \/ Hit(r)
  \/ Compile(r) \/ Connect(r) \/ Put(r) \/ Execute(r) \/ Done(r)
  \/ Launch(r) \/ NotLaunched(r) \/ Leave(r) \/ Restart(r)

Next ==
  \/ \E r \in Runs : Begin(r) \/ Proceed(r) \/ Kill(r) \/ Store(r)
  \/ DaemonBinds \/ DaemonEnds
  \/ \E f \in Files : Edit(f)

Spec == Init /\ [][Next]_vars /\ \A r \in Runs : WF_vars(Proceed(r))

-----------------------------------------------------------------------------
(* Properties *)

Places == {"idle", "start", "ask", "compile", "warm", "put", "execute", "ended",
           "launch", "done"}

Version == 0..MaxVersion

\* Every variable has its type, and only a daemon that is up has a cache and
\* requests.
TypeOK ==
  /\ job \in [Runs -> CommandLines] /\ packages \in SUBSET Files
  /\ watch \in [Runs -> Watches]
  /\ source \in [Files -> Version]
  /\ daemon \in {"down", "starting", "up"}
  /\ cache \in [Files -> Version \cup {None}]
  /\ inFlight \in [Runs -> Version \cup {None}]
  /\ pc \in [Runs -> Places] /\ child \in [Runs -> BOOLEAN]
  /\ image \in [Runs -> Version \cup {None}]
  /\ restarts \in [Runs -> Nat]
  /\ status \in [Runs -> 0..255 \cup {Signal}]
  /\ since \in [Runs -> Version]
  /\ attempt \in [Runs -> {"none", "zero", "nonzero"}]
  /\ daemon # "up" => /\ \A f \in Files : cache[f] = None
                      /\ \A r \in Runs : inFlight[r] = None

\* A process that is told not to ask the daemon, every supervised child among
\* them, and one that runs a package, executes a version at least as new as the
\* one on disk when the process began: a restart takes an edit into account,
\* whatever the daemon has cached.
FreshWithoutDaemon ==
  \A r \in Runs :
    pc[r] = "execute" /\ (job[r].noDaemon \/ child[r] \/ File(r) \in packages) =>
      image[r] >= since[r]

-----------------------------------------------------------------------------
(* The promise of docs.md, section 9 *)

Outcome(r) ==
  IF pc[r] = "idle" THEN "idle"
  ELSE IF pc[r] # "done" THEN "running"
  ELSE IF status[r] = 0 THEN "success" ELSE "failure"

Sup == INSTANCE Supervision WITH
  budget <- [r \in Runs |-> IF watch[r] = Off THEN 0 ELSE watch[r]],
  supervised <- [r \in Runs |-> watch[r] # Off],
  state <- [r \in Runs |-> Outcome(r)]

\* Every run ends: with success if and only if its last attempt returned zero, after
\* a restart for each failure, up to the budget.  This through cache misses, a
\* daemon that dies at any moment, signals, and files that do not compile.
Implements == Sup!Spec

=============================================================================
