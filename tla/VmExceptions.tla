---------------------------- MODULE VmExceptions ----------------------------
(***************************************************************************)
(* The control core of the bytecode VM (runtime/runtime.rs): the call      *)
(* stack, the operand stack, the exception handler stack and the pending   *)
(* return/throw that a `finally` has to complete.  One action per opcode   *)
(* that touches that state; the opcodes that only compute data are         *)
(* represented by PUSH, ADD and FAIL.                                      *)
(*                                                                         *)
(* The handler stack of the code is a Vec<Handler>.  OP_TRY is its only    *)
(* push, each with a fresh (monotonic) try_id and in the order FINALLY,    *)
(* CATCH, MARK, and every other operation is a `retain`; so the position   *)
(* of a handler is decided by (try_id, kind), and the stack is modelled as *)
(* a set of handlers ordered by that key (Below).                          *)
(***************************************************************************)
EXTENDS Bytecode

CONSTANTS
  Programs,     \* a set of compiled programs; function 1 is `main`
  MaxAnswers    \* bound: only so many first answers of externs may be "true"

VARIABLES
  prog,         \* self.prog, the program that runs (never changes)
  fn,           \* the function whose code is being executed
  pc,           \* self.pc, the next instruction (1-based)
  locals,       \* fields of the current frame object
  stack,        \* operand stack, shared by all activations
  base,         \* ghost: operand stack depth when this activation started
  frames,       \* saved callers, the last one is the direct caller
  handlers,     \* handler stack (a set, see above); `act` is a ghost field
  tryCounter,   \* next try_id
  pending,      \* what the active finally must complete
  out,          \* what the program has printed
  asked,        \* the answers the program got from outside
  status,       \* "running", "done", "uncaught" or "error"
  result        \* the value returned by main, or the uncaught exception

vars == <<prog, fn, pc, locals, stack, base, frames, handlers, tryCounter,
          pending, out, asked, status, result>>

Pending == [kind : {"none", "return", "throw"}, val : Value]

NoPending == [kind |-> "none", val |-> Null]

Code(f) == prog.code[f]

(***************************************************************************)
(* current_func_idx: handlers and saved frames are tagged with the index   *)
(* of the FIRST function that has the current function's name.             *)
(***************************************************************************)
FuncIdx(P, f) ==
  CHOOSE i \in DOMAIN P.name :
    /\ P.name[i] = P.name[f]
    /\ \A j \in DOMAIN P.name : P.name[j] = P.name[f] => i <= j

-----------------------------------------------------------------------------
ASSUME ProgramsAssumption ==
  /\ \A P \in Programs : WellFormedProgram(P)
  /\ MaxAnswers \in Nat
  /\ Null \notin Int

-----------------------------------------------------------------------------
(* Handlers *)

Rank == [FINALLY |-> 0, CATCH |-> 1, MARK |-> 2]

\* g is at or below h in the handler stack.
Below(g, h) == g.tid < h.tid \/ (g.tid = h.tid /\ Rank[g.kind] <= Rank[h.kind])

\* The handler `rposition` finds among those of S, as a set.
Topmost(S) == {h \in S : \A g \in S : Below(g, h)}

Cur == FuncIdx(prog, fn)

Depth == Len(frames) + 1

FinallyOf(f) == {h \in handlers : h.kind = "FINALLY" /\ h.func = f}

TargetsOf(f) == {h \in handlers : h.kind # "MARK" /\ h.func = f}

\* Mutant: off by one.
OlderThanLess1(tid) == {h \in handlers : h.tid < tid - 1}

\* retain(|h| h.try_id < tid): the group tid and all groups above it go.
OlderThan(tid) == {h \in handlers : h.tid < tid}

\* Mutant: a frame that is left keeps its handlers.
NotOfNone(fs) == handlers

\* retain(|h| h.func != f) for every f of fs.
NotOf(fs) == {h \in handlers : h.func \notin fs}

-----------------------------------------------------------------------------
(* run(): main is entered with no caller. *)

\* Mutant: the frame is sized by its arguments.
LocalsOfArgs(f, args) == args

\* A frame is sized by nlocals, its first locals are the arguments.
FreshLocals(f, args) ==
  [i \in 1..prog.nlocals[f] |-> IF i <= Len(args) THEN args[i] ELSE Null]

Init ==
  /\ prog \in Programs
  /\ fn = 1 /\ pc = 1
  /\ locals = FreshLocals(1, <<>>)
  /\ stack = <<>> /\ base = 0
  /\ frames = <<>> /\ handlers = {} /\ tryCounter = 0
  /\ pending = NoPending
  /\ out = <<>> /\ asked = <<>>
  /\ status = "running" /\ result = Null

Ins == Code(fn)[pc]

Fetch(op) == status = "running" /\ Ins.op = op

\* The n-th value from the top; pop() on an empty stack yields Null.
FromTop(n) == IF n > Len(stack) THEN Null ELSE stack[Len(stack) + 1 - n]

Top == FromTop(1)

Popped(n) == SubSeq(stack, 1, IF n > Len(stack) THEN 0 ELSE Len(stack) - n)

env     == <<prog, out, asked>>
ending  == <<status, result>>
context == <<fn, base, frames>>
unwind  == <<handlers, tryCounter, pending>>

\* An Err leaves execute() at once: no handler and no finally runs.
Abort(how, v) ==
  /\ status' = how /\ result' = v
  /\ UNCHANGED <<env, context, unwind, pc, locals, stack>>

-----------------------------------------------------------------------------
(* Straight-line instructions and jumps *)

Straight == pc' = pc + 1 /\ UNCHANGED <<context, unwind, ending>>

Push ==
  /\ Fetch("PUSH")
  /\ stack' = Append(stack, Ins.val)
  /\ Straight /\ UNCHANGED <<locals, env>>

LoadLocal ==
  /\ Fetch("LOAD_LOCAL")
  /\ stack' = Append(stack, locals[Ins.slot])
  /\ Straight /\ UNCHANGED <<locals, env>>

StoreLocal ==
  /\ Fetch("STORE_LOCAL")
  /\ locals' = [locals EXCEPT ![Ins.slot] = Top]
  /\ stack' = Popped(1)
  /\ Straight /\ UNCHANGED env

Pop ==
  /\ Fetch("POP")
  /\ stack' = Popped(1)
  /\ Straight /\ UNCHANGED <<locals, env>>

\* Mutant: it also pops what a statement's call would leave.
PrintlnAndPop ==
  /\ Fetch("PRINTLN")
  /\ out' = Append(out, Top)
  /\ stack' = Popped(2)
  /\ Straight /\ UNCHANGED <<locals, prog, asked>>

Println ==
  /\ Fetch("PRINTLN")
  /\ out' = Append(out, Top)
  /\ stack' = Popped(1)
  /\ Straight /\ UNCHANGED <<locals, prog, asked>>

\* bin(): two integers are added, anything else is an Err.
Add ==
  /\ Fetch("ADD")
  /\ \/ /\ FromTop(2) \in Int /\ Top \in Int
        /\ stack' = Append(Popped(2), FromTop(2) + Top)
        /\ Straight /\ UNCHANGED <<locals, env>>
     \/ /\ FromTop(2) = Null \/ Top = Null
        /\ Abort("error", Null)

\* Any instruction that returns Err (a division by zero, a bad index, ...).
Fail == Fetch("FAIL") /\ Abort("error", Null)

\* An extern answers from outside; 1 and 0 stand for what JZ tells apart.
CallExtern ==
  /\ Fetch("CALL_EXTERN")
  /\ \E v \in {0, 1} :
       /\ v = 1 => Len(asked) < MaxAnswers
       /\ asked' = Append(asked, v)
       /\ stack' = Append(stack, v)
  /\ Straight /\ UNCHANGED <<locals, prog, out>>

Jmp ==
  /\ Fetch("JMP")
  /\ pc' = Ins.to
  /\ UNCHANGED <<locals, stack, context, unwind, env, ending>>

Falsy(v) == v = 0 \/ v = Null

Jz ==
  /\ Fetch("JZ")
  /\ pc' = IF Falsy(Top) THEN Ins.to ELSE pc + 1
  /\ stack' = Popped(1)
  /\ UNCHANGED <<locals, context, unwind, env, ending>>

-----------------------------------------------------------------------------
(* Calls and returns *)

\* call_func and enter_func: the caller's pending operation is saved with it.
Call ==
  /\ Fetch("CALL")
  /\ frames' = Append(frames, [func |-> Cur, fn |-> fn, pc |-> pc + 1,
                               locals |-> locals, pending |-> pending,
                               base |-> base])
  /\ fn' = Ins.func /\ pc' = 1
  /\ locals' = FreshLocals(Ins.func,
                 [i \in 1..Ins.nargs |-> FromTop(Ins.nargs + 1 - i)])
  /\ stack' = Popped(Ins.nargs)
  /\ base' = Len(stack')
  /\ pending' = NoPending
  /\ UNCHANGED <<handlers, tryCounter, env, ending>>

(***************************************************************************)
(* return_value: the innermost finally of this function runs first, with   *)
(* the return pending; with none left the frame is popped, and the caller  *)
(* gets back its own pending operation.                                    *)
(***************************************************************************)
FinallyThenReturn(v, stk) ==
  \E h \in Topmost(FinallyOf(Cur)) :
    /\ handlers' = OlderThan(h.tid)
    /\ pending' = [kind |-> "return", val |-> v]
    /\ pc' = h.target
    /\ stack' = stk
    /\ UNCHANGED <<locals, context, tryCounter, env, ending>>

\* Restore the registers of the saved caller at depth d.
Resume(d) ==
  /\ fn' = frames[d].fn /\ base' = frames[d].base
  /\ frames' = SubSeq(frames, 1, d - 1)

ReturnToCaller(v, stk) ==
  /\ FinallyOf(Cur) = {} /\ frames # <<>>
  /\ handlers' = NotOf({Cur})
  /\ Resume(Len(frames))
  /\ pc' = frames[Len(frames)].pc
  /\ locals' = frames[Len(frames)].locals
  /\ pending' = frames[Len(frames)].pending
  /\ stack' = Append(stk, v)
  /\ UNCHANGED <<tryCounter, env, ending>>

FinishMain(v, stk) ==
  /\ FinallyOf(Cur) = {} /\ frames = <<>>
  /\ handlers' = NotOf({Cur})
  /\ pending' = NoPending
  /\ stack' = stk
  /\ status' = "done" /\ result' = v
  /\ UNCHANGED <<pc, locals, context, tryCounter, env>>

ReturnValue(v, stk) ==
  \/ FinallyThenReturn(v, stk)
  \/ ReturnToCaller(v, stk)
  \/ FinishMain(v, stk)

Return     == Fetch("RETURN") /\ ReturnValue(Top, Popped(1))

ReturnVoid == Fetch("RETURN_VOID") /\ ReturnValue(Null, stack)

-----------------------------------------------------------------------------
(* Exceptions *)

(***************************************************************************)
(* The live activations are the saved frames and, last, the current one.   *)
(***************************************************************************)
FuncAt(d)   == IF d = Depth THEN Cur ELSE frames[d].func

FnAt(d)     == IF d = Depth THEN fn ELSE frames[d].fn

LocalsAt(d) == IF d = Depth THEN locals ELSE frames[d].locals

\* Unwinding stops at the first activation, from the top, with a handler.
CatcherAt(d) ==
  /\ TargetsOf(FuncAt(d)) # {}
  /\ \A e \in d + 1 .. Depth : TargetsOf(FuncAt(e)) = {}

Unwound(d) == {FuncAt(e) : e \in d + 1 .. Depth}

\* Mutant: the catch that runs stays active.
CaughtStays(h, hs) == hs

\* What a catch leaves: its own group keeps only its FINALLY.
Caught(h, hs) == {x \in hs : x.tid # h.tid \/ x.kind = "FINALLY"}

EnterCatch(d, h, v, pend) ==
  /\ h.kind = "CATCH"
  /\ handlers' = Caught(h, NotOf(Unwound(d)))
  /\ locals' = [LocalsAt(d) EXCEPT ![h.slot] = v]
  /\ pending' = IF d = Depth THEN pend ELSE NoPending

\* Mutant: the finally forgets what it interrupted.
EnterFinallyOnly(d, h, v) ==
  /\ h.kind = "FINALLY"
  /\ handlers' = OlderThan(h.tid) \cap NotOf(Unwound(d))
  /\ locals' = LocalsAt(d)
  /\ pending' = NoPending

EnterFinally(d, h, v) ==
  /\ h.kind = "FINALLY"
  /\ handlers' = OlderThan(h.tid) \cap NotOf(Unwound(d))
  /\ locals' = LocalsAt(d)
  /\ pending' = [kind |-> "throw", val |-> v]

(***************************************************************************)
(* raise: activations without a handler are dropped, and with them the     *)
(* pending operation saved for their caller.  A catch stores the value in  *)
(* its slot; a finally remembers to raise it again.                        *)
(***************************************************************************)
RaiseTo(d, h, v, pend) ==
  /\ EnterCatch(d, h, v, pend) \/ EnterFinally(d, h, v)
  /\ pc' = h.target
  /\ \/ d = Depth /\ UNCHANGED context
     \/ d < Depth /\ Resume(d)

Raise(v, pend, stk) ==
  \/ \E d \in 1..Depth :
       /\ CatcherAt(d)
       /\ \E h \in Topmost(TargetsOf(FuncAt(d))) : RaiseTo(d, h, v, pend)
       /\ stack' = stk
       /\ UNCHANGED <<tryCounter, env, ending>>
  \/ /\ \A d \in 1..Depth : TargetsOf(FuncAt(d)) = {}
     /\ Abort("uncaught", v)

Throw == Fetch("THROW") /\ Raise(Top, pending, Popped(1))

-----------------------------------------------------------------------------
(* try and finally *)

\* Mutants: the offset is added twice; ids per activation; ids that wrap.
HandlerOffsetTwice(kind, target, slot) ==
  [kind |-> kind, tid |-> tryCounter, func |-> Cur, act |-> Depth,
   target |-> pc + target, slot |-> slot]

HandlerIdByDepth(kind, target, slot) ==
  [kind |-> kind, tid |-> Len(frames), func |-> Cur, act |-> Depth,
   target |-> target, slot |-> slot]

HandlerIdWraps(kind, target, slot) ==
  [kind |-> kind, tid |-> tryCounter % 2, func |-> Cur, act |-> Depth,
   target |-> target, slot |-> slot]

Handler(kind, target, slot) ==
  [kind |-> kind, tid |-> tryCounter, func |-> Cur, act |-> Depth,
   target |-> target, slot |-> slot]

EnterTry ==
  /\ Fetch("TRY")
  /\ handlers' = handlers
       \cup (IF Ins.hasFinally THEN {Handler("FINALLY", Ins.finally, 0)} ELSE {})
       \cup (IF Ins.hasCatch THEN {Handler("CATCH", Ins.catch, Ins.slot)} ELSE {})
       \cup {Handler("MARK", 0, 0)}
  /\ tryCounter' = tryCounter + 1
  /\ pc' = pc + 1
  /\ UNCHANGED <<locals, stack, context, pending, env, ending>>

Marks == {h \in handlers : h.kind = "MARK"}

\* The topmost group goes, whichever function it belongs to.
EndTry ==
  /\ Fetch("ENDTRY")
  /\ \/ \E h \in Topmost(Marks) : handlers' = OlderThan(h.tid)
     \/ Marks = {} /\ UNCHANGED handlers
  /\ pc' = pc + 1
  /\ UNCHANGED <<locals, stack, context, tryCounter, pending, env, ending>>

\* With nothing pending, the topmost finally of this function goes.
FinallyDone ==
  /\ pending.kind = "none"
  /\ \/ \E h \in Topmost(FinallyOf(Cur)) : handlers' = OlderThan(h.tid)
     \/ FinallyOf(Cur) = {} /\ UNCHANGED handlers
  /\ pc' = pc + 1
  /\ UNCHANGED <<locals, stack, context, tryCounter, pending, env, ending>>

FinallyEnd ==
  /\ Fetch("FINALLY_END")
  /\ \/ FinallyDone
     \/ pending.kind = "return" /\ ReturnValue(pending.val, stack)
     \/ pending.kind = "throw" /\ Raise(pending.val, NoPending, stack)

\* The program has ended; nothing more happens.
Ended == status # "running" /\ UNCHANGED vars

Next ==
  \/ Push \/ LoadLocal \/ StoreLocal \/ Pop \/ Println \/ Add \/ Fail
  \/ CallExtern \/ Jmp \/ Jz \/ Call \/ Return \/ ReturnVoid
  \/ Throw \/ EnterTry \/ EndTry \/ FinallyEnd \/ Ended

Spec == Init /\ [][Next]_vars /\ WF_vars(Next)

-----------------------------------------------------------------------------
(* Properties *)

Handlers == [kind : DOMAIN Rank, tid : Nat, func : Nat, act : Nat \ {0},
             target : Nat, slot : Nat]

Frames == [func : Nat, fn : Nat, pc : Nat, locals : Seq(Value),
           pending : Pending, base : Nat]

Locals(f) == [1..prog.nlocals[f] -> Value]

\* A saved caller can be resumed: its registers fit its function.
Resumable(cf) ==
  /\ cf.fn \in DOMAIN prog.code
  /\ cf.func = FuncIdx(prog, cf.fn)
  /\ cf.pc \in DOMAIN Code(cf.fn)
  /\ cf.locals \in Locals(cf.fn)

\* Every variable has its type: the registers of the current and of every
\* saved activation fit the function they belong to, so that the VM never
\* decodes outside the code of a function or addresses a missing local.
TypeOK ==
  /\ fn \in DOMAIN prog.code
  /\ pc \in DOMAIN Code(fn)
  /\ locals \in Locals(fn)
  /\ stack \in Seq(Value) /\ base \in Nat
  /\ frames \in Seq(Frames)
  /\ \A d \in 1..Len(frames) : Resumable(frames[d])
  /\ handlers \subseteq Handlers
  /\ tryCounter \in Nat
  /\ pending \in Pending
  /\ out \in Seq(Value) /\ asked \in Seq(Nat)
  /\ status \in {"running", "done", "uncaught", "error"}
  /\ result \in Value

\* Every handler belongs to an activation that is still live: return_value
\* and raise, which remove handlers by function, leave none of a dead one
\* behind for a later call of the same function to find.
HandlersLive ==
  \A h \in handlers : h.act <= Depth /\ h.func = FuncAt(h.act)

\* A handler's target is an instruction of the function that pushed it.
TargetsInCode ==
  \A h \in handlers :
    h.act <= Depth /\ h.kind # "MARK" => h.target \in DOMAIN Code(FnAt(h.act))

\* A group is pushed as a whole: its handlers have one try_id, already given
\* out, and agree on the activation; no kind occurs twice in a group.
GroupsOK ==
  /\ \A h \in handlers : h.tid < tryCounter
  /\ \A g, h \in handlers :
       g.tid = h.tid => g.act = h.act /\ g.func = h.func
                        /\ (g.kind = h.kind => g = h)

\* The handler stack is nested like the call stack: what an inner activation
\* pushed lies above everything its callers pushed.
HandlersNested ==
  \A g, h \in handlers : g.act < h.act => g.tid < h.tid

\* An activation never pops an operand of its caller, whatever exceptions
\* left on the stack or cut short.
StackFloor == status = "running" => Len(stack) >= base

\* The handlers `raise` and `return_value` take for the current function's
\* were pushed by the current activation ("the nearest active handler of the
\* current function", runtime.rs:1184).
OwnHandlers ==
  \A h \in handlers : h.kind # "MARK" /\ h.func = Cur => h.act = Depth

\* Leaving a try or a finally normally ends a try block of this function: the
\* handlers its callers wait with stay ("pop this try block's whole handler
\* group", runtime.rs:1110).
CallerHandlersKept ==
  [][Fetch("ENDTRY") \/ Fetch("FINALLY_END") =>
       \A h \in handlers \ handlers' : h.act = Depth \/ Depth' < Depth]_vars

\* Every run ends once the outside stops answering "true": no exception keeps
\* being raised again by its own catch or finally.
Termination == <>(status # "running")

=============================================================================
