--------------------------- MODULE ScheduledCalls ---------------------------
(***************************************************************************)
(* @Auto and @Manual calls (runtime/runtime.rs: TaskPool, run_scheduled,   *)
(* run_function_isolated): the caller submits a task to a worker pool of   *)
(* its own VM and blocks on a channel; a worker thread runs the function   *)
(* in a fresh, isolated VM, which may make scheduled calls of its own; the *)
(* result, an Err or a hang-up (the task panicked) ends the wait.          *)
(*                                                                         *)
(* A VM here is its call stack: what happens inside one VM is the subject  *)
(* of VmExceptions.  A function makes its calls one after the other and    *)
(* then ends in one of the ways its `ends` allows.  VM 1 is the program;   *)
(* once main has entered event_loop it runs callbacks, whose Err is only   *)
(* printed (gui.rs: run_callback).                                         *)
(***************************************************************************)
EXTENDS Integers, Sequences

CONSTANTS
  Programs,    \* a set of programs, see WellFormedProgram
  AutoSize,    \* workers of an @Auto pool: max(2, available_parallelism)
  MaxEvents    \* bound: callbacks fired in the event loop

VARIABLES
  prog,        \* the program that runs (never changes)
  phase,       \* "main", "loop" (in event_loop) or "exited"
  events,      \* callbacks fired so far
  vms,         \* all VMs ever created; VM 1 is the program
  pools        \* Vm::pools of every VM: <<vm, key>> -> [queue, workers]

vars == <<prog, phase, events, vms, pools>>

\* What a worker thread does if it runs no VM.
Idle == 0
Dead == -1

Ends == {"value", "throw", "error", "panic"}

WellFormedFunc(P, f) ==
  /\ f.schedule \in {"single", "auto", "manual"} /\ f.size \in Nat
  /\ f.ends \subseteq Ends
  /\ Len(f.body) \in Nat /\ DOMAIN f.body = 1..Len(f.body)
  /\ \A i \in DOMAIN f.body : /\ f.body[i].callee \in DOMAIN P.funcs
                              /\ f.body[i].guarded \in BOOLEAN

\* Function 1 is main; callbacks is the set of functions given to on_key and
\* on_click, empty if main does not enter the event loop.
WellFormedProgram(P) ==
  /\ 1 \in DOMAIN P.funcs
  /\ P.callbacks \subseteq DOMAIN P.funcs
  /\ \A f \in DOMAIN P.funcs : WellFormedFunc(P, P.funcs[f])

ASSUME SchedulingAssumption ==
  /\ \A P \in Programs : WellFormedProgram(P)
  /\ AutoSize \in Nat \ {0, 1} /\ MaxEvents \in Nat

-----------------------------------------------------------------------------
(* VMs and pools *)

Activation(f) == [func |-> f, at |-> 1]

\* A VM in the state st that is about to run f.
Vm(f, st) == [stack |-> <<Activation(f)>>, state |-> st, on |-> 0, answer |-> "none"]

Init ==
  /\ prog \in Programs
  /\ phase = "main" /\ events = 0
  /\ vms = <<Vm(1, "running")>>
  /\ pools = [p \in {} |-> 0]

Top(v) == vms[v].stack[Len(vms[v].stack)]

Body(f) == prog.funcs[f].body

Finished(v) == Top(v).at > Len(Body(Top(v).func))

Callee(v) == Body(Top(v).func)[Top(v).at].callee

\* The call that the activation was waiting for is over.
Advance(stk) == [stk EXCEPT ![Len(stk)].at = @ + 1]

\* The pool key: all @Auto functions share one pool of a VM, and so do all
\* @Manual functions of the same size.
Key(f) ==
  IF prog.funcs[f].schedule = "auto" THEN 0
  ELSE IF prog.funcs[f].size = 0 THEN 1 ELSE prog.funcs[f].size

PoolSize(key) == IF key = 0 THEN AutoSize ELSE key

\* Mutants: one pool map for all VMs; a pool per function.
PoolOfProgram(v, f) == <<1, Key(f)>>

PoolOfFunc(v, f) == <<f, Key(f)>>

PoolOf(v, f) == <<v, Key(f)>>

\* TaskPool::new, unless the VM already has the pool.
WithPool(p) ==
  [q \in DOMAIN pools \cup {p} |->
     IF q \in DOMAIN pools THEN pools[q]
     ELSE [queue |-> <<>>, workers |-> [i \in 1..PoolSize(p[2]) |-> Idle]]]

-----------------------------------------------------------------------------
(* One VM *)

\* What becomes of the program when its own VM ends an entry (main or a
\* callback) with `how`: main's Err and any panic end the process, a
\* callback's Err does not.
PhaseAfter(how) ==
  CASE how = "closed" -> "exited"
    [] how # "closed" /\ phase = "loop" -> "loop"
    [] how = "value" /\ phase = "main" /\ prog.callbacks # {} -> "loop"
    [] OTHER -> "exited"

\* VM v ends: an isolated VM answers on its channel ("closed": it dropped the
\* sender without sending).
EndOf(vs, v, how) ==
  IF v # 1 THEN [vs EXCEPT ![v].state = "answered", ![v].answer = how]
  ELSE [vs EXCEPT ![1].state = IF PhaseAfter(how) = "loop" THEN "idle" ELSE "gone",
                  ![1].stack = <<>>]

EndVm(vs, v, how) ==
  /\ vms' = EndOf(vs, v, how)
  /\ phase' = IF v = 1 THEN PhaseAfter(how) ELSE phase

Running(v) == phase # "exited" /\ vms[v].state = "running"

\* SCHED_SINGLE: the callee runs in this VM.
CallInline(v) ==
  /\ Running(v) /\ ~Finished(v)
  /\ prog.funcs[Callee(v)].schedule = "single"
  /\ vms' = [vms EXCEPT ![v].stack = Append(@, Activation(Callee(v)))]
  /\ UNCHANGED <<prog, phase, events, pools>>

\* Mutant: the caller goes on without waiting.
SubmitAsync(v) ==
  /\ Running(v) /\ ~Finished(v)
  /\ prog.funcs[Callee(v)].schedule # "single"
  /\ LET task == Len(vms) + 1
         p    == PoolOf(v, Callee(v))
     IN /\ pools' = [WithPool(p) EXCEPT ![p].queue = Append(@, task)]
        /\ vms' = Append([vms EXCEPT ![v].stack = Advance(@)], Vm(Callee(v), "queued"))
  /\ UNCHANGED <<prog, phase, events>>

\* run_scheduled up to rx.recv(): the task is queued, the caller blocks.
Submit(v) ==
  /\ Running(v) /\ ~Finished(v)
  /\ prog.funcs[Callee(v)].schedule # "single"
  /\ LET task == Len(vms) + 1
         p    == PoolOf(v, Callee(v))
     IN /\ pools' = [WithPool(p) EXCEPT ![p].queue = Append(@, task)]
        /\ vms' = Append([vms EXCEPT ![v].state = "waiting", ![v].on = task],
                         Vm(Callee(v), "queued"))
  /\ UNCHANGED <<prog, phase, events>>

\* A function returns, to its caller or to the entry of the VM.
Return(v) ==
  /\ Running(v) /\ Finished(v) /\ "value" \in prog.funcs[Top(v).func].ends
  /\ LET n == Len(vms[v].stack) IN
     \/ /\ n > 1
        /\ vms' = [vms EXCEPT ![v].stack = Advance(SubSeq(@, 1, n - 1))]
        /\ UNCHANGED phase
     \/ n = 1 /\ EndVm(vms, v, "value")
  /\ UNCHANGED <<prog, events, pools>>

\* The activations of a stack that made their pending call inside a try.
Guarded(stk) ==
  {d \in 1 .. Len(stk) - 1 : Body(stk[d].func)[stk[d].at].guarded}

\* An exception goes to the nearest catch of this VM; without one it is an
\* Err of the VM.
Throw(v) ==
  /\ Running(v) /\ Finished(v) /\ "throw" \in prog.funcs[Top(v).func].ends
  /\ \/ \E d \in Guarded(vms[v].stack) :
          /\ \A e \in Guarded(vms[v].stack) : e <= d
          /\ vms' = [vms EXCEPT ![v].stack = Advance(SubSeq(@, 1, d))]
          /\ UNCHANGED phase
     \/ Guarded(vms[v].stack) = {} /\ EndVm(vms, v, "error")
  /\ UNCHANGED <<prog, events, pools>>

Err(v) ==
  /\ Running(v) /\ Finished(v) /\ "error" \in prog.funcs[Top(v).func].ends
  /\ EndVm(vms, v, "error")
  /\ UNCHANGED <<prog, events, pools>>

\* A Rust panic (an index out of bounds, ...) unwinds the thread.
Panic(v) ==
  /\ Running(v) /\ Finished(v) /\ "panic" \in prog.funcs[Top(v).func].ends
  /\ EndVm(vms, v, "closed")
  /\ UNCHANGED <<prog, events, pools>>

\* Mutant: an Err of the task is taken for a value.
ReceiveAny(v) ==
  /\ phase # "exited" /\ vms[v].state = "waiting"
  /\ vms[vms[v].on].state = "answered"
  /\ vms' = [vms EXCEPT ![vms[v].on].state = "gone", ![v].state = "running",
                        ![v].stack = Advance(@)]
  /\ UNCHANGED <<prog, phase, events, pools>>

\* rx.recv() answers: a value is copied back, everything else is an Err.
Receive(v) ==
  /\ phase # "exited" /\ vms[v].state = "waiting"
  /\ vms[vms[v].on].state = "answered"
  /\ LET gone == [vms EXCEPT ![vms[v].on].state = "gone"] IN
     \/ /\ vms[vms[v].on].answer = "value"
        /\ vms' = [gone EXCEPT ![v].state = "running", ![v].stack = Advance(@)]
        /\ UNCHANGED phase
     \/ vms[vms[v].on].answer # "value" /\ EndVm(gone, v, "error")
  /\ UNCHANGED <<prog, events, pools>>

Thread(v) ==
  \/ CallInline(v) \/ Submit(v) \/ Return(v) \/ Throw(v) \/ Err(v) \/ Panic(v)
  \/ Receive(v)

-----------------------------------------------------------------------------
(* Worker i of pool p *)

Take(p, i) ==
  /\ phase # "exited"
  /\ pools[p].workers[i] = Idle /\ pools[p].queue # <<>>
  /\ pools' = [pools EXCEPT ![p].queue = Tail(@),
                            ![p].workers[i] = Head(pools[p].queue)]
  /\ vms' = [vms EXCEPT ![Head(pools[p].queue)].state = "running"]
  /\ UNCHANGED <<prog, phase, events>>

\* The task is over; a panic has ended the thread.
Loop(p, i) ==
  /\ phase # "exited"
  /\ pools[p].workers[i] > 0
  /\ vms[pools[p].workers[i]].state \in {"answered", "gone"}
  /\ pools' = [pools EXCEPT ![p].workers[i] =
                 IF vms[@].answer = "closed" THEN Dead ELSE Idle]
  /\ UNCHANGED <<prog, phase, events, vms>>

Worker(p, i) == Take(p, i) \/ Loop(p, i)

-----------------------------------------------------------------------------
(* The outside: events of the window system *)

\* run_callback: the callback is a fresh entry of VM 1, with VM 1's pools.
Event ==
  /\ phase = "loop" /\ vms[1].state = "idle" /\ events < MaxEvents
  /\ \E f \in prog.callbacks :
       vms' = [vms EXCEPT ![1].state = "running", ![1].stack = <<Activation(f)>>]
  /\ events' = events + 1
  /\ UNCHANGED <<prog, phase, pools>>

\* All windows are closed: event_loop and main return.
Close ==
  /\ phase = "loop" /\ vms[1].state = "idle"
  /\ phase' = "exited" /\ vms' = [vms EXCEPT ![1].state = "gone"]
  /\ UNCHANGED <<prog, events, pools>>

Exited == phase = "exited" /\ UNCHANGED vars

AnyThread == \E v \in DOMAIN vms : Thread(v)

AnyWorker == \E p \in DOMAIN pools : \E i \in DOMAIN pools[p].workers : Worker(p, i)

Next == AnyThread \/ AnyWorker \/ Event \/ Close \/ Exited

\* The operating system runs every thread that can run.  OneRuns and Served
\* say that fairness to some thread and to some worker is fairness to each.
Spec == Init /\ [][Next]_vars /\ WF_vars(AnyThread) /\ WF_vars(AnyWorker)

-----------------------------------------------------------------------------
(* Properties *)

Activations == [func : DOMAIN prog.funcs, at : Nat \ {0}]

Vms == [stack : Seq(Activations), on : Nat,
        state : {"idle", "running", "waiting", "queued", "answered", "gone"},
        answer : {"none", "value", "error", "closed"}]

PoolType(key) == [queue : Seq(Nat), workers : [1..PoolSize(key) -> Nat \cup {Dead}]]

\* Every variable has its type: activations are of existing functions, every
\* pool belongs to a VM and keeps as many workers as its key says.
TypeOK ==
  /\ prog \in Programs
  /\ phase \in {"main", "loop", "exited"} /\ events \in 0..MaxEvents
  /\ vms \in Seq(Vms) /\ vms # <<>>
  /\ \A p \in DOMAIN pools : p \in (DOMAIN vms) \X Nat /\ pools[p] \in PoolType(p[2])

\* VM v is the one whose turn it is.
Active(v) == vms[v].state \in {"idle", "running", "queued", "answered"}

\* A call blocks its caller, wherever it runs: at any time at most one VM of
\* the process executes, is about to, or holds an answer nobody has taken
\* (the isolation that run_scheduled relies on needs no lock).
OneRuns == \A v, w \in DOMAIN vms : Active(v) /\ Active(w) => v = w

\* Worker i of p is idle, or will be when it has let go of its last task.
Free(p, i) ==
  LET w == pools[p].workers[i] IN
  w = Idle \/ (w # Dead /\ vms[w].state \in {"answered", "gone"}
                        /\ vms[w].answer # "closed")

\* A submitted task never waits for another one: every task in a queue has a
\* worker, however deeply scheduled functions call each other and however
\* small their pools are.  (Panics can use up the workers, see the run broken_calls.)
Served ==
  \A p \in DOMAIN pools :
    pools[p].queue # <<>> => \E i \in DOMAIN pools[p].workers : Free(p, i)

=============================================================================
