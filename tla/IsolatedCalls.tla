--------------------------- MODULE IsolatedCalls ----------------------------
(***************************************************************************)
(* The data side of scheduled calls, src/runtime/runtime.rs: a call of an  *)
(* @Auto or @Manual function runs in a VM of its own, with a heap, globals *)
(* and a stack of its own, and its result is copied into the heap of the   *)
(* VM that waits for it.                                                   *)
(*                                                                         *)
(* Pools and threads are the subject of ScheduledCalls; there only one VM  *)
(* of the process runs at a time, so here the others are a stack.          *)
(***************************************************************************)
EXTENDS DataVm

VARIABLES
  scheduled,  \* the functions that a pool runs (never changes)
  callers,    \* the VMs that wait in recv(), the one that waits for this VM last
  source,     \* while a result is copied, the heap it comes from
  copying     \*   and the calls of materialize, the innermost last

isolatedVars == <<scheduled, callers, source, copying, vars>>

-----------------------------------------------------------------------------
(* run_scheduled, run_function_isolated.                                   *)

Waiting(n) ==
  [heap |-> heap, globals |-> globals, stack |-> Below(n), frames |-> frames,
   cur |-> cur, pc |-> pc + 1, frame |-> frame, base |-> base]

\* A reference among the seeds is an index into the caller's heap still.
Isolate(f, seed, n) ==
  /\ callers' = Append(callers, Waiting(n))
  /\ heap' = <<FrameObject(Locals(f, seed))>>
  /\ globals' = <<>> /\ stack' = <<>> /\ frames' = <<>> /\ base' = 0
  /\ cur' = f /\ pc' = 1 /\ frame' = 1
  /\ UNCHANGED <<scheduled, source, copying, image, status, result, out>>

Runs == copying = <<>>

CallsScheduled == Runs /\ At({"CALL"}) /\ I.fn \in scheduled

ScheduleFunc == CallsScheduled /\ Isolate(I.fn, Operands(I.n), I.n)

\* A function that is used as a value is a closure without captures.
Callee == Operand(I.n + 1, 1)

CallsScheduledClosure ==
  Runs /\ At({"CALL_CLOSURE"}) /\ IsA(Callee, "Closure") /\ heap[Callee[2]].fn \in scheduled

ScheduleClosure ==
  /\ CallsScheduledClosure
  /\ Isolate(heap[Callee[2]].fn, heap[Callee[2]].fields \o Operands(I.n), I.n + 1)

-----------------------------------------------------------------------------
(* recv() and materialize: what the isolated VM returns is copied, object  *)
(* by object, into the heap of the VM that waits.                          *)

Ends == Runs /\ At({"RETURN", "RETURN_VOID"}) /\ frames = <<>> /\ callers # <<>>

\* A call of materialize: the value v, and the copies of its parts so far.
Copy(v) == [v |-> v, parts |-> <<>>]

\* The caller of the isolated VM goes on where its call was, with the result once it has it.
Deliver ==
  /\ Ends
  /\ LET w == callers[Len(callers)]
     IN /\ heap' = w.heap /\ stack' = w.stack /\ globals' = w.globals
        /\ frames' = w.frames /\ base' = w.base
        /\ cur' = w.cur /\ pc' = w.pc /\ frame' = w.frame
  /\ callers' = SubSeq(callers, 1, Len(callers) - 1)
  /\ source' = heap
  /\ copying' = <<Copy(IF I.op = "RETURN" THEN Operand(1, 1) ELSE Null)>>
  /\ UNCHANGED <<scheduled, image, status, result, out>>

IsRef(v) == v[1] \in {"obj", "ptr"}

\* The values within an object, in the order in which they are copied.
Parts(o) ==
  o.fields \o [i \in 1 .. 2 * Len(o.pairs) |-> o.pairs[(i + 1) \div 2][2 - (i % 2)]]

WithParts(o, vs) ==
  LET n == Len(o.fields)
  IN Object(o.kind, SubSeq(vs, 1, n),
            [i \in DOMAIN o.pairs |-> <<vs[n + 2 * i - 1], vs[n + 2 * i]>>], o.str, o.fn)

Innermost == copying[Len(copying)]
Original == source[Innermost.v[2]]
Missing == Len(Innermost.parts) < Len(Parts(Original))

\* materialize returns v: a part of the object around it, or the result.
Copied(v) ==
  LET n == Len(copying) - 1
  IN IF n = 0
     THEN stack' = Append(stack, v) /\ copying' = <<>> /\ source' = <<>>
     ELSE /\ copying' = [SubSeq(copying, 1, n) EXCEPT ![n].parts = Append(@, v)]
          /\ UNCHANGED <<stack, source>>

Rest == <<scheduled, callers, image, globals, frames, cur, pc, frame, base, status, result, out>>

\* Numbers, truth values and null are the same in every VM.
CopyScalar ==
  /\ ~Runs /\ status = "run" /\ ~IsRef(Innermost.v)
  /\ Copied(Innermost.v) /\ UNCHANGED <<Rest, heap>>

\* Mutant: the parts of the new object are those of the old one.
CopyPartShallow ==
  /\ ~Runs /\ status = "run" /\ IsRef(Innermost.v) /\ Missing
  /\ copying' = [copying EXCEPT ![Len(copying)].parts =
                   Append(@, Parts(Original)[Len(@) + 1])]
  /\ UNCHANGED <<Rest, heap, stack, source>>

\* The next part is copied.  An object within itself is copied again and again, until the
\* thread's stack overflows, which ends the process.
CopyPart ==
  /\ ~Runs /\ status = "run" /\ IsRef(Innermost.v) /\ Missing
  /\ LET part == Parts(Original)[Len(Innermost.parts) + 1]
         within == \E i \in DOMAIN copying : IsRef(part) /\ part[2] = copying[i].v[2]
     IN IF within THEN Fail("overflow") /\ UNCHANGED <<scheduled, callers, source, copying>>
        ELSE /\ copying' = Append(copying, Copy(part))
             /\ UNCHANGED <<Rest, heap, stack, source>>

\* An object that is reached twice is copied twice; a pointer takes its whole object along.
CopyObject ==
  /\ ~Runs /\ status = "run" /\ IsRef(Innermost.v) /\ ~Missing
  /\ heap' = Append(heap, WithParts(Original, Innermost.parts))
  /\ Copied([Innermost.v EXCEPT ![2] = Len(heap) + 1])
  /\ UNCHANGED Rest

\* A panic ends the worker, and the caller's recv() gives an Err.
Unanswered ==
  /\ status = "panic" /\ callers # <<>>
  /\ status' = "unanswered"
  /\ UNCHANGED <<scheduled, callers, source, copying, image, heap, globals, stack, frames,
                 cur, pc, frame, base, result, out>>

-----------------------------------------------------------------------------

Inside ==
  /\ Runs /\ ~CallsScheduled /\ ~CallsScheduledClosure /\ ~Ends
  /\ Next
  /\ UNCHANGED <<scheduled, callers, source, copying>>

IsolatedNext ==
  \/ Inside \/ ScheduleFunc \/ ScheduleClosure \/ Deliver
  \/ CopyScalar \/ CopyPart \/ CopyObject \/ Unanswered

\* One VM, and nothing is scheduled yet.
Alone(functions) == scheduled = functions /\ callers = <<>> /\ source = <<>> /\ copying = <<>>

StartWith(im, functions) == Start(im) /\ Alone(functions)

IsolatedInit == Init /\ \E functions \in SUBSET DOMAIN image.funcs : Alone(functions)

IsolatedSpec == IsolatedInit /\ [][IsolatedNext]_isolatedVars

-----------------------------------------------------------------------------

\* What a scheduled function is given.
Given == IF I.op = "CALL" THEN Operands(I.n) ELSE heap[Callee[2]].fields \o Operands(I.n)

\* No scheduled function is given a reference: in its heap it would be another object, or
\* none (see the run `documented`).
PlainArguments ==
  CallsScheduled \/ CallsScheduledClosure => \A i \in DOMAIN Given : ~IsRef(Given[i])
=============================================================================
