--------------------------- MODULE HostRun_proofs ---------------------------
(***************************************************************************)
(* Theorems about HostRun, for any number of runs and files, any command   *)
(* lines and any watchdogs.                                                *)
(***************************************************************************)
EXTENDS HostRun, TLAPS

\* A version on disk never goes back.
Begun == \A r \in Runs : since[r] <= source[File(r)]

\* Only a process that may use the daemon comes near it, and no package is
\* compiled.
AtDaemon ==
  \A r \in Runs :
    /\ pc[r] \in {"ask", "warm", "put"} => ~job[r].noDaemon /\ ~child[r]
    /\ pc[r] \in {"ask", "compile", "warm", "put"} => File(r) \notin packages

\* `as u8` makes a success of no other value than zero.
ReturnsFit == \A n \in Returns : Byte(n) = 0 => n = 0

FreshInv == TypeOK /\ Begun /\ AtDaemon /\ FreshWithoutDaemon

Running == {"ask", "compile", "warm", "put", "execute"}

\* With a watchdog only a child runs the program, and no child has children.
Roles(r) ==
  /\ child[r] => watch[r] # Off
  /\ pc[r] \in {"idle", "launch", "done"} => ~child[r]
  /\ pc[r] = "launch" => watch[r] # Off
  /\ pc[r] \in Running /\ watch[r] # Off => child[r]

\* The status of a process that has ended tells how the attempt went.
Statuses(r) ==
  /\ pc[r] \notin {"ended", "done"} => attempt[r] = "none"
  /\ pc[r] = "ended" => /\ status[r] = 0 <=> attempt[r] = "zero"
                        /\ child[r] => attempt[r] # "none"
                        /\ ~child[r] /\ watch[r] # Off => attempt[r] = "none"

Budgets(r) == watch[r] # Off => restarts[r] <= watch[r]

LinkInv == TypeOK /\ \A r \in Runs : Roles(r) /\ Statuses(r) /\ Budgets(r)

-----------------------------------------------------------------------------
(* Types *)

\* The file of a run is a file.
LEMMA FileType ==
  ASSUME TypeOK, NEW r \in Runs
  PROVE  File(r) \in Files
  BY DEF TypeOK, File, CommandLines

\* Exit codes are bytes.
LEMMA ByteType ==
  ASSUME NEW n \in Returns
  PROVE  Byte(n) \in 0..255
  BY HostAssumption DEF HostAssumption, Byte

\* The program starts in a state of the right type.
LEMMA InitTypeOK == Init => TypeOK
  BY HostAssumption DEF HostAssumption, Init, TypeOK, Places, Version, None, Signal

\* No step of a run leaves the types.
LEMMA RunTypeOK ==
  ASSUME TypeOK, NEW r \in Runs, Begin(r) \/ Proceed(r) \/ Kill(r) \/ Store(r)
  PROVE  TypeOK'
  <1> USE HostAssumption DEF HostAssumption, ofHost, ofDaemon, Goto, Exit, Refuse, Places
  <1>1. CASE Begin(r)
    BY <1>1, FileType DEF Begin, TypeOK
  <1>2. CASE Reject(r)
    BY <1>2 DEF Reject, TypeOK, ErrorExit
  <1>3. CASE RunPackage(r)
    BY <1>3, FileType DEF RunPackage, TypeOK, ErrorExit
  <1>4. CASE RunSource(r)
    BY <1>4 DEF RunSource, TypeOK
  <1>5. CASE Miss(r)
    BY <1>5 DEF Miss, TypeOK
  <1>6. CASE Hit(r)
    BY <1>6, FileType DEF Hit, TypeOK
  <1>7. CASE Compile(r)
    BY <1>7, FileType DEF Compile, TypeOK, ErrorExit
  <1>8. CASE Connect(r)
    BY <1>8 DEF Connect, TypeOK
  <1>9. CASE Put(r)
    BY <1>9 DEF Put, TypeOK
  <1>10. CASE Execute(r)
    BY <1>10, ByteType DEF Execute, TypeOK, ErrorExit
  <1>11. CASE Done(r)
    BY <1>11 DEF Done, TypeOK
  <1>12. CASE Launch(r)
    BY <1>12, FileType DEF Launch, TypeOK
  <1>13. CASE NotLaunched(r)
    BY <1>13 DEF NotLaunched, TypeOK, ErrorExit
  <1>14. CASE Leave(r)
    BY <1>14 DEF Leave, TypeOK, ExitCode, Signal
  <1>15. CASE Restart(r)
    BY <1>15 DEF Restart, TypeOK
  <1>16. CASE Kill(r)
    BY <1>16 DEF Kill, TypeOK, Signal
  <1>17. CASE Store(r)
    BY <1>17, FileType DEF Store, TypeOK, None
  <1> QED
    BY <1>1, <1>2, <1>3, <1>4, <1>5, <1>6, <1>7, <1>8, <1>9, <1>10, <1>11, <1>12,
       <1>13, <1>14, <1>15, <1>16, <1>17 DEF Proceed

\* No step leaves the types.
LEMMA NextTypeOK == TypeOK /\ [Next]_vars => TypeOK'
  <1> SUFFICES ASSUME TypeOK, [Next]_vars PROVE TypeOK'
    OBVIOUS
  <1> USE HostAssumption DEF HostAssumption, ofHost, ofDaemon
  <1>1. ASSUME NEW r \in Runs, Begin(r) \/ Proceed(r) \/ Kill(r) \/ Store(r) PROVE TypeOK'
    BY <1>1, RunTypeOK
  <1>2. CASE DaemonBinds
    BY <1>2 DEF DaemonBinds, TypeOK
  <1>3. CASE DaemonEnds
    BY <1>3 DEF DaemonEnds, TypeOK, Empty, None
  <1>4. ASSUME NEW f \in Files, Edit(f) PROVE TypeOK'
    BY <1>4 DEF Edit, TypeOK, Version
  <1>5. CASE UNCHANGED vars
    BY <1>5 DEF vars, TypeOK
  <1> QED
    BY <1>1, <1>2, <1>3, <1>4, <1>5 DEF Next

\* Type correctness.
THEOREM TypeCorrect == Spec => []TypeOK
  BY InitTypeOK, NextTypeOK, PTL DEF Spec

-----------------------------------------------------------------------------
(* Fresh bytecode without the daemon *)

\* The invariant holds when nothing has begun.
LEMMA InitFresh == Init => FreshInv
  <1> SUFFICES ASSUME Init PROVE FreshInv
    OBVIOUS
  <1>1. TypeOK /\ \A r \in Runs : File(r) \in Files
    BY InitTypeOK, FileType
  <1>2. \A r \in Runs : pc[r] = "idle" /\ since[r] = 0 /\ source[File(r)] = 0
    BY <1>1 DEF Init
  <1> QED
    BY <1>1, <1>2 DEF FreshInv, Begun, AtDaemon, FreshWithoutDaemon

\* It survives whatever a run does.
LEMMA RunFresh ==
  ASSUME FreshInv, NEW r \in Runs, Begin(r) \/ Proceed(r) \/ Kill(r) \/ Store(r)
  PROVE  Begun' /\ AtDaemon' /\ FreshWithoutDaemon'
  <1> USE DEF FreshInv, ofHost, ofDaemon, Goto, Exit, Refuse, Begun, AtDaemon,
              FreshWithoutDaemon, NoDaemon, File
  <1>0. TypeOK /\ File(r) \in Files /\ source[File(r)] \in Int
    BY FileType DEF TypeOK, Version
  <1> USE <1>0 DEF TypeOK
  <1>1. CASE Begin(r)
    BY <1>1 DEF Begin
  <1>2. CASE Reject(r)
    BY <1>2 DEF Reject
  <1>3. CASE RunPackage(r)
    BY <1>3 DEF RunPackage, Supervised
  <1>4. CASE RunSource(r)
    BY <1>4 DEF RunSource, Supervised
  <1>5. CASE Miss(r)
    BY <1>5 DEF Miss
  <1>6. CASE Hit(r)
    BY <1>6 DEF Hit
  <1>7. CASE Compile(r)
    <2>1. CASE source[File(r)] \in Broken
      BY <1>7, <2>1 DEF Compile
    <2>2. CASE source[File(r)] \notin Broken
      <3>1. /\ pc' = [pc EXCEPT ![r] = IF NoDaemon(r) THEN "execute" ELSE "warm"]
            /\ image' = [image EXCEPT ![r] = source[File(r)]]
            /\ UNCHANGED <<job, packages, source, child, since>>
        BY <1>7, <2>2 DEF Compile
      <3>2. Begun'
        BY <3>1
      <3>3. AtDaemon'
        BY <3>1, <1>7 DEF Compile
      <3>4. FreshWithoutDaemon'
        BY <3>1
      <3> QED
        BY <3>2, <3>3, <3>4
    <2> QED
      BY <2>1, <2>2
  <1>8. CASE Connect(r)
    BY <1>8 DEF Connect
  <1>9. CASE Put(r)
    BY <1>9 DEF Put
  <1>10. CASE Execute(r)
    BY <1>10 DEF Execute
  <1>11. CASE Done(r)
    BY <1>11 DEF Done
  <1>12. CASE Launch(r)
    BY <1>12 DEF Launch
  <1>13. CASE NotLaunched(r)
    BY <1>13 DEF NotLaunched
  <1>14. CASE Leave(r)
    BY <1>14 DEF Leave
  <1>15. CASE Restart(r)
    BY <1>15 DEF Restart
  <1>16. CASE Kill(r)
    BY <1>16 DEF Kill
  <1>17. CASE Store(r)
    BY <1>17 DEF Store
  <1> QED
    BY <1>1, <1>2, <1>3, <1>4, <1>5, <1>6, <1>7, <1>8, <1>9, <1>10, <1>11, <1>12,
       <1>13, <1>14, <1>15, <1>16, <1>17 DEF Proceed

\* It survives every step.
LEMMA NextFresh == FreshInv /\ [Next]_vars => FreshInv'
  <1> SUFFICES ASSUME FreshInv, [Next]_vars
               PROVE  Begun' /\ AtDaemon' /\ FreshWithoutDaemon'
    BY NextTypeOK DEF FreshInv
  <1> USE DEF FreshInv, ofHost, ofDaemon, Begun, AtDaemon, FreshWithoutDaemon, File
  <1>1. ASSUME NEW r \in Runs, Begin(r) \/ Proceed(r) \/ Kill(r) \/ Store(r)
        PROVE  Begun' /\ AtDaemon' /\ FreshWithoutDaemon'
    BY <1>1, RunFresh
  <1>2. CASE DaemonBinds
    BY <1>2 DEF DaemonBinds
  <1>3. CASE DaemonEnds
    BY <1>3 DEF DaemonEnds
  <1>4. ASSUME NEW f \in Files, Edit(f)
        PROVE  Begun' /\ AtDaemon' /\ FreshWithoutDaemon'
    <2>1. \A r \in Runs : source[File(r)] \in Int /\ since[r] \in Int
      BY FileType DEF TypeOK, Version
    <2> QED
      BY <1>4, <2>1 DEF Edit, TypeOK
  <1>5. CASE UNCHANGED vars
    BY <1>5 DEF vars
  <1> QED
    BY <1>1, <1>2, <1>3, <1>4, <1>5 DEF Next

\* A run that does not ask the daemon, every supervised one among them, executes
\* bytecode at least as new as the file was when its process began.
THEOREM FreshBytecode == Spec => []FreshWithoutDaemon
  <1>1. FreshInv => FreshWithoutDaemon
    BY DEF FreshInv
  <1> QED
    BY InitFresh, NextFresh, <1>1, PTL DEF Spec

-----------------------------------------------------------------------------
(* Supervision *)

Link(r) == Roles(r) /\ Statuses(r) /\ Budgets(r)

\* Another run's state is unchanged.
Same(q) ==
  /\ watch'[q] = watch[q] /\ pc'[q] = pc[q] /\ child'[q] = child[q]
  /\ restarts'[q] = restarts[q] /\ status'[q] = status[q] /\ attempt'[q] = attempt[q]

\* The invariant holds when nothing has begun.
LEMMA InitLink == Init => LinkInv
  <1> SUFFICES ASSUME Init PROVE \A r \in Runs : Roles(r) /\ Statuses(r) /\ Budgets(r)
    BY InitTypeOK DEF LinkInv
  <1>1. \A r \in Runs : watch[r] # Off => watch[r] \in Nat
    BY HostAssumption DEF HostAssumption, Init, Off
  <1> TAKE r \in Runs
  <1>2. pc[r] = "idle" /\ child[r] = FALSE /\ attempt[r] = "none" /\ restarts[r] = 0
    BY DEF Init
  <1>3. Roles(r)
    BY <1>2 DEF Roles, Running
  <1>4. Statuses(r)
    BY <1>2 DEF Statuses
  <1>5. Budgets(r)
    BY <1>1, <1>2 DEF Budgets
  <1> QED
    BY <1>3, <1>4, <1>5

\* A step of a run touches no other run.
LEMMA OthersSame ==
  ASSUME TypeOK, NEW r \in Runs, Begin(r) \/ Proceed(r) \/ Kill(r) \/ Store(r),
         NEW q \in Runs, q # r
  PROVE  Same(q)
  BY DEF Proceed, Begin, Reject, RunPackage, RunSource, Miss, Hit, Compile, Connect, Put,
         Execute, Done, Launch, NotLaunched, Leave, Restart, Kill, Store, Goto, Exit,
         Refuse, ofHost, ofDaemon, TypeOK, Same

\* A run keeps its own invariant.
LEMMA RunLink ==
  ASSUME ReturnsFit, TypeOK, NEW r \in Runs, Link(r), Begin(r) \/ Proceed(r) \/ Kill(r) \/ Store(r)
  PROVE  Link(r)'
  <1>0. watch[r] \in Int /\ restarts[r] \in Nat
    <2>1. watch[r] \in Watches /\ restarts[r] \in Nat
      BY DEF TypeOK
    <2>2. \A w \in Watches : w \in Nat \/ w = -1
      BY HostAssumption DEF HostAssumption, Off
    <2> QED
      BY <2>1, <2>2
  <1> USE DEF TypeOK, ofHost, ofDaemon, Goto, Exit, Refuse, Link, Roles, Statuses, Budgets,
              Running
  <1>1. CASE Begin(r)
    BY <1>1 DEF Begin
  <1>2. CASE Reject(r)
    BY <1>2 DEF Reject, ErrorExit
  <1>3. CASE RunPackage(r)
    BY <1>3 DEF RunPackage, Supervised, ErrorExit
  <1>4. CASE RunSource(r)
    BY <1>4 DEF RunSource, Supervised
  <1>5. CASE Miss(r)
    BY <1>5 DEF Miss
  <1>6. CASE Hit(r)
    BY <1>6 DEF Hit
  <1>7. CASE Compile(r)
    BY <1>7 DEF Compile, ErrorExit
  <1>8. CASE Connect(r)
    BY <1>8 DEF Connect
  <1>9. CASE Put(r)
    BY <1>9 DEF Put
  <1>10. CASE Execute(r)
    <2>1. ASSUME NEW n \in Returns, Exit(r, Byte(n), IF n = 0 THEN "zero" ELSE "nonzero")
          PROVE  Link(r)'
      <3>1. Byte(n) = 0 <=> n = 0
        BY DEF ReturnsFit, Byte
      <3> QED
        BY <1>10, <2>1, <3>1 DEF Execute
    <2>2. CASE Exit(r, ErrorExit, "nonzero")
      BY <1>10, <2>2 DEF Execute, ErrorExit
    <2> QED
      BY <1>10, <2>1, <2>2 DEF Execute
  <1>11. CASE Done(r)
    BY <1>11 DEF Done
  <1>12. CASE Launch(r)
    BY <1>12 DEF Launch
  <1>13. CASE NotLaunched(r)
    BY <1>13 DEF NotLaunched
  <1>14. CASE Leave(r)
    BY <1>14 DEF Leave
  <1>15. CASE Restart(r)
    BY <1>0, <1>15 DEF Restart, Exhausted
  <1>16. CASE Kill(r)
    BY <1>16 DEF Kill, Signal
  <1>17. CASE Store(r)
    BY <1>17 DEF Store
  <1> QED
    BY <1>1, <1>2, <1>3, <1>4, <1>5, <1>6, <1>7, <1>8, <1>9, <1>10, <1>11, <1>12,
       <1>13, <1>14, <1>15, <1>16, <1>17 DEF Proceed

\* Neither the daemon nor the disk says anything about it.
LEMMA NextLink == ReturnsFit /\ LinkInv /\ [Next]_vars => LinkInv'
  <1> SUFFICES ASSUME ReturnsFit, LinkInv, [Next]_vars,
                      NEW q \in Runs
               PROVE  Link(q)'
    BY NextTypeOK DEF LinkInv, Link
  <1>0. TypeOK /\ Link(q)
    BY DEF LinkInv, Link
  <1>1. Same(q) => Link(q)'
    BY <1>0 DEF Same, Link, Roles, Statuses, Budgets
  <1>2. ASSUME NEW r \in Runs, Begin(r) \/ Proceed(r) \/ Kill(r) \/ Store(r)
        PROVE  Link(q)'
    <2>1. CASE q = r
      BY <1>0, <1>2, <2>1, RunLink
    <2>2. CASE q # r
      BY <1>0, <1>1, <1>2, <2>2, OthersSame
    <2> QED
      BY <2>1, <2>2
  <1>3. CASE DaemonBinds
    BY <1>1, <1>3 DEF DaemonBinds, Same, ofHost
  <1>4. CASE DaemonEnds
    BY <1>1, <1>4 DEF DaemonEnds, Same, ofHost
  <1>5. ASSUME NEW f \in Files, Edit(f) PROVE Link(q)'
    BY <1>1, <1>5 DEF Edit, Same
  <1>6. CASE UNCHANGED vars
    BY <1>1, <1>6 DEF vars, Same
  <1> QED
    BY <1>2, <1>3, <1>4, <1>5, <1>6 DEF Next

-----------------------------------------------------------------------------
(* Every step is a step of Supervision *)

\* A run that has not begun is one of Supervision.
LEMMA InitSup == Init => Sup!Init
  <1> SUFFICES ASSUME Init PROVE Sup!Init
    OBVIOUS
  <1>1. \A r \in Runs : watch[r] = Off \/ watch[r] \in Nat
    BY HostAssumption DEF HostAssumption, Init
  <1> QED
    BY <1>1 DEF Init, Sup!Init, Outcome

States == [q \in Runs |-> Outcome(q)]

\* A step of one run changes at most its own outcome.
LEMMA OneOutcome ==
  ASSUME TypeOK, NEW r \in Runs, Begin(r) \/ Proceed(r) \/ Kill(r) \/ Store(r)
  PROVE  States' = [States EXCEPT ![r] = Outcome(r)']
  <1>1. ASSUME NEW q \in Runs, q # r PROVE Outcome(q)' = Outcome(q)
    BY <1>1, OthersSame DEF Same, Outcome
  <1> QED
    BY <1>1 DEF States

\* The watchdog of a run is the one it began with.
LEMMA WatchKept ==
  ASSUME NEW r \in Runs, Begin(r) \/ Proceed(r) \/ Kill(r) \/ Store(r)
  PROVE  watch' = watch
  BY DEF Proceed, Begin, Reject, RunPackage, RunSource, Miss, Hit, Compile, Connect, Put,
         Execute, Done, Launch, NotLaunched, Leave, Restart, Kill, Store, ofHost

\* A step that none of the variables of Supervision sees is a stutter.
LEMMA Stutter ==
  ASSUME UNCHANGED <<job, watch, restarts, attempt>>, States' = States
  PROVE  UNCHANGED Sup!vars
  BY DEF Sup!vars, States, File

\* A step of a run that ends no attempt and does not end the run.
LEMMA Invisible ==
  ASSUME TypeOK, NEW r \in Runs, Begin(r) \/ Proceed(r) \/ Kill(r) \/ Store(r),
         UNCHANGED <<job, restarts, attempt>>, Outcome(r)' = Outcome(r)
  PROVE  UNCHANGED Sup!vars
  <1>1. States' = States
    BY OneOutcome DEF States
  <1> QED
    BY <1>1, WatchKept, Stutter

\* Whoever exits from where a program may run has made its attempt, or was
\* refused before it had one.
LEMMA ExitStep ==
  ASSUME LinkInv, NEW r \in Runs, Begin(r) \/ Proceed(r) \/ Kill(r) \/ Store(r),
         pc[r] \in Running \cup {"start"}, UNCHANGED <<job, restarts>>,
         NEW st, NEW how \in {"none", "zero", "nonzero"}, Exit(r, st, how)
  PROVE  Sup!Attempt(r) \/ UNCHANGED Sup!vars
  <1>0. TypeOK
    BY DEF LinkInv
  <1>1. Outcome(r) = "running" /\ Outcome(r)' = "running"
    BY <1>0 DEF Outcome, Exit, Goto, Running, TypeOK
  <1>2. attempt[r] = "none" /\ attempt' = [attempt EXCEPT ![r] = how]
    BY DEF LinkInv, Statuses, Running, Exit
  <1>3. CASE how = "none"
    <2>1. attempt' = attempt
      BY <1>0, <1>2, <1>3 DEF TypeOK
    <2> QED
      BY <1>0, <1>1, <2>1, Invisible
  <1>4. CASE how # "none"
    <2>1. States' = States /\ watch' = watch
      BY <1>0, <1>1, OneOutcome, WatchKept DEF States
    <2> QED
      BY <1>1, <1>2, <1>4, <2>1 DEF Sup!Attempt, States
  <1> QED
    BY <1>3, <1>4

\* A run that is over has the outcome of its last attempt.
LEMMA DoneStep ==
  ASSUME LinkInv, NEW r \in Runs, Done(r)
  PROVE  Sup!Succeed(r) \/ Sup!GiveUp(r) \/ Sup!NotLaunched(r)
  <1>0. TypeOK /\ Roles(r) /\ Statuses(r) /\ Proceed(r)
    BY DEF LinkInv, Proceed
  <1>1. /\ Outcome(r) = "running"
        /\ Outcome(r)' = IF status[r] = 0 THEN "success" ELSE "failure"
        /\ UNCHANGED <<job, watch, restarts, attempt>>
    BY <1>0 DEF Outcome, Done, Goto, TypeOK, ofHost
  <1>2. States' = [States EXCEPT ![r] = Outcome(r)'] /\ States[r] = "running"
    BY <1>0, <1>1, OneOutcome DEF States
  <1>3. /\ status[r] = 0 <=> attempt[r] = "zero"
        /\ watch[r] # Off => attempt[r] = "none"
        /\ attempt[r] \in {"none", "zero", "nonzero"}
    BY <1>0 DEF Done, Statuses, TypeOK
  <1>4. CASE attempt[r] = "zero"
    BY <1>1, <1>2, <1>3, <1>4 DEF Sup!Succeed, Sup!Ends, States
  <1>5. CASE attempt[r] = "nonzero"
    BY <1>1, <1>2, <1>3, <1>5 DEF Sup!GiveUp, Sup!Ends, States
  <1>6. CASE attempt[r] = "none"
    BY <1>1, <1>2, <1>3, <1>6 DEF Sup!NotLaunched, Sup!Ends, States
  <1> QED
    BY <1>3, <1>4, <1>5, <1>6

\* A supervisor ends a run after a success or with its budget used up.
LEMMA LeaveStep ==
  ASSUME LinkInv, NEW r \in Runs, Leave(r)
  PROVE  Sup!Succeed(r) \/ Sup!GiveUp(r)
  <1>0. TypeOK /\ Roles(r) /\ Statuses(r) /\ Budgets(r) /\ Proceed(r)
    BY DEF LinkInv, Proceed
  <1>1. /\ Outcome(r) = "running"
        /\ Outcome(r)' = IF status[r] = 0 THEN "success" ELSE "failure"
        /\ UNCHANGED <<job, watch, restarts, attempt>>
    BY <1>0 DEF Outcome, Leave, Goto, TypeOK, ofHost, ExitCode, Signal
  <1>2. States' = [States EXCEPT ![r] = Outcome(r)'] /\ States[r] = "running"
    BY <1>0, <1>1, OneOutcome DEF States
  <1>3. /\ status[r] = 0 <=> attempt[r] = "zero"
        /\ attempt[r] \in {"zero", "nonzero"}
        /\ watch[r] # Off
    BY <1>0 DEF Leave, Statuses, Roles, TypeOK
  <1>4. CASE attempt[r] = "zero"
    BY <1>1, <1>2, <1>3, <1>4 DEF Sup!Succeed, Sup!Ends, States
  <1>5. CASE attempt[r] = "nonzero"
    <2>1. Exhausted(r)
      BY <1>3, <1>5 DEF Leave, ExitCode
    <2>2. watch[r] \in Nat /\ restarts[r] \in Nat
      <3>1. watch[r] \in Watches /\ restarts[r] \in Nat
        BY <1>0 DEF TypeOK
      <3>2. \A w \in Watches : w \in Nat \/ w = Off
        BY HostAssumption DEF HostAssumption
      <3> QED
        BY <1>3, <3>1, <3>2
    <2>3. restarts[r] = watch[r]
      BY <1>0, <1>3, <2>1, <2>2 DEF Budgets, Exhausted
    <2> QED
      BY <1>1, <1>2, <1>3, <1>5, <2>3 DEF Sup!GiveUp, Sup!Ends, States
  <1> QED
    BY <1>3, <1>4, <1>5

\* A supervisor restarts after failures only, and within its budget.
LEMMA RestartStep ==
  ASSUME LinkInv, NEW r \in Runs, Restart(r)
  PROVE  Sup!Restart(r)
  <1>0. TypeOK /\ Roles(r) /\ Statuses(r) /\ Proceed(r)
    BY DEF LinkInv, Proceed
  <1>1. Outcome(r) = "running" /\ Outcome(r)' = "running"
    BY <1>0 DEF Outcome, Restart, Goto, TypeOK
  <1>2. States' = States /\ States[r] = "running" /\ watch' = watch
    BY <1>0, <1>1, OneOutcome, WatchKept DEF States
  <1>3. attempt[r] = "nonzero" /\ watch[r] # Off
    BY <1>0 DEF Restart, Statuses, Roles, TypeOK, ExitCode, Signal
  <1>4. restarts[r] < watch[r]
    <2>1. watch[r] \in Watches /\ restarts[r] \in Nat
      BY <1>0 DEF TypeOK
    <2>2. \A w \in Watches : w \in Nat \/ w = Off
      BY HostAssumption DEF HostAssumption
    <2> QED
      BY <1>3, <2>1, <2>2 DEF Restart, Exhausted
  <1> QED
    BY <1>2, <1>3, <1>4 DEF Restart, Sup!Restart, States

\* Whatever a run does is a step of Supervision or a stutter.
LEMMA RunSup ==
  ASSUME LinkInv, NEW r \in Runs, Begin(r) \/ Proceed(r) \/ Kill(r) \/ Store(r)
  PROVE  [Sup!Next]_(Sup!vars)
  <1>0. TypeOK /\ Roles(r) /\ Statuses(r)
    BY DEF LinkInv
  <1>1. States' = [States EXCEPT ![r] = Outcome(r)'] /\ watch' = watch
    BY <1>0, OneOutcome, WatchKept
  <1>2. ASSUME Sup!Proceed(r) \/ UNCHANGED Sup!vars PROVE [Sup!Next]_(Sup!vars)
    BY <1>2 DEF Sup!Next
  <1>3. CASE Begin(r)
    <2>1. Outcome(r) = "idle" /\ Outcome(r)' = "running"
      BY <1>0, <1>3 DEF Begin, Goto, Outcome, TypeOK
    <2>2. Sup!Begin(r)
      BY <1>1, <1>3, <2>1 DEF Begin, ofHost, Sup!Begin, Sup!Ends, States
    <2> QED
      BY <2>2 DEF Sup!Next
  <1>4. CASE Reject(r)
    <2>1. Exit(r, ErrorExit, IF child[r] THEN "nonzero" ELSE "none")
      BY <1>4 DEF Reject, Refuse
    <2>2. pc[r] = "start" /\ UNCHANGED <<job, restarts>>
      BY <1>4 DEF Reject, ofHost
    <2> QED
      BY <1>2, <2>1, <2>2, ExitStep DEF Sup!Proceed
  <1>5. CASE RunPackage(r)
    <2>1. pc[r] = "start" /\ UNCHANGED <<job, restarts>>
      BY <1>5 DEF RunPackage, ofHost
    <2>2. CASE Refuse(r)
      BY <1>2, <2>1, <2>2, ExitStep DEF Refuse, Sup!Proceed
    <2>3. CASE ~Refuse(r)
      <3>1. attempt' = attempt /\ Outcome(r)' = Outcome(r)
        BY <1>0, <1>5, <2>3 DEF RunPackage, Goto, Outcome, TypeOK
      <3> QED
        BY <1>0, <1>2, <2>1, <3>1, Invisible
    <2> QED
      BY <2>2, <2>3
  <1>6. CASE RunSource(r) \/ Miss(r) \/ Hit(r) \/ Connect(r) \/ Put(r) \/ Launch(r) \/ Store(r)
    <2>1. UNCHANGED <<job, restarts, attempt>>
      BY <1>6 DEF RunSource, Miss, Hit, Connect, Put, Launch, Store, ofHost
    <2>2. Outcome(r)' = Outcome(r)
      BY <1>0, <1>6 DEF RunSource, Miss, Hit, Connect, Put, Launch, Store, Goto, Outcome, TypeOK
    <2> QED
      BY <1>0, <1>2, <2>1, <2>2, Invisible
  <1>7. CASE Compile(r)
    <2>1. pc[r] = "compile" /\ UNCHANGED <<job, restarts>>
      BY <1>7 DEF Compile, ofHost
    <2>2. CASE Exit(r, ErrorExit, "nonzero")
      BY <1>2, <2>1, <2>2, ExitStep DEF Running, Sup!Proceed
    <2>3. CASE ~Exit(r, ErrorExit, "nonzero")
      <3>1. attempt' = attempt /\ Outcome(r)' = Outcome(r)
        BY <1>0, <1>7, <2>3 DEF Compile, Goto, Outcome, TypeOK
      <3> QED
        BY <1>0, <1>2, <2>1, <3>1, Invisible
    <2> QED
      BY <2>2, <2>3
  <1>8. CASE Execute(r)
    <2>1. pc[r] = "execute" /\ UNCHANGED <<job, restarts>>
      BY <1>8 DEF Execute, ofHost
    <2>2. \E st \in 0..255 \cup {ErrorExit}, how \in {"zero", "nonzero"} : Exit(r, st, how)
      BY <1>8, ByteType DEF Execute
    <2> QED
      BY <1>2, <2>1, <2>2, ExitStep DEF Running, Sup!Proceed
  <1>9. CASE Kill(r)
    BY <1>2, <1>9, ExitStep DEF Kill, Running, ofHost, Sup!Proceed
  <1>10. CASE Done(r)
    BY <1>2, <1>10, DoneStep DEF Sup!Proceed
  <1>11. CASE NotLaunched(r)
    <2>1. /\ Outcome(r) = "running" /\ Outcome(r)' = "failure" /\ attempt[r] = "none"
          /\ UNCHANGED <<restarts, attempt>>
      BY <1>0, <1>11 DEF NotLaunched, Statuses, Goto, Outcome, TypeOK, ErrorExit
    <2>2. Sup!NotLaunched(r)
      BY <1>1, <1>11, <2>1 DEF NotLaunched, ofHost, Sup!NotLaunched, Sup!Ends, States
    <2> QED
      BY <1>2, <2>2 DEF Sup!Proceed
  <1>12. CASE Leave(r)
    BY <1>2, <1>12, LeaveStep DEF Sup!Proceed
  <1>13. CASE Restart(r)
    BY <1>2, <1>13, RestartStep DEF Sup!Proceed
  <1> QED
    BY <1>3, <1>4, <1>5, <1>6, <1>7, <1>8, <1>9, <1>10, <1>11, <1>12, <1>13 DEF Proceed

\* So is what the daemon and the disk do.
LEMMA NextSup == LinkInv /\ [Next]_vars => [Sup!Next]_(Sup!vars)
  <1> SUFFICES ASSUME LinkInv, [Next]_vars PROVE [Sup!Next]_(Sup!vars)
    OBVIOUS
  <1>1. ASSUME NEW r \in Runs, Begin(r) \/ Proceed(r) \/ Kill(r) \/ Store(r)
        PROVE  [Sup!Next]_(Sup!vars)
    BY <1>1, RunSup
  <1>2. ASSUME UNCHANGED <<job, watch, pc, status, restarts, attempt>>
        PROVE  [Sup!Next]_(Sup!vars)
    <2>1. States' = States
      BY <1>2 DEF States, Outcome
    <2> QED
      BY <1>2, <2>1, Stutter
  <1>3. CASE DaemonBinds
    BY <1>2, <1>3 DEF DaemonBinds, ofHost
  <1>4. CASE DaemonEnds
    BY <1>2, <1>4 DEF DaemonEnds, ofHost
  <1>5. ASSUME NEW f \in Files, Edit(f) PROVE [Sup!Next]_(Sup!vars)
    BY <1>2, <1>5 DEF Edit
  <1>6. CASE UNCHANGED vars
    BY <1>2, <1>6 DEF vars
  <1> QED
    BY <1>1, <1>3, <1>4, <1>5, <1>6 DEF Next

\* If no value of main but zero has a zero low byte, every run keeps the promise of
\* docs.md, section 9: a success is a last attempt that returned zero, a failure
\* comes after as many restarts as the watchdog allows, whatever happens to the
\* daemon, to the files and to the other runs.
THEOREM SupervisionSafe == ReturnsFit /\ Spec => Sup!Init /\ [][Sup!Next]_(Sup!vars)
  <1>1. ReturnsFit /\ Spec => []LinkInv
    <2>1. ASSUME ReturnsFit PROVE Spec => []LinkInv
      BY <2>1, InitLink, NextLink, PTL DEF Spec
    <2> QED
      BY <2>1
  <1> QED
    BY <1>1, InitSup, NextSup, PTL DEF Spec

=============================================================================
