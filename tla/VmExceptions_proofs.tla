------------------------ MODULE VmExceptions_proofs -------------------------
(***************************************************************************)
(* Proofs about VmExceptions, for every set of well-formed programs whose  *)
(* functions have distinct names: the VM never leaves the code of the      *)
(* function it runs, and its handler stack stays a stack of whole groups   *)
(* that belong to live activations and are nested like the call stack.     *)
(*                                                                         *)
(* The inductive invariant IInv joins TypeOK with the four handler         *)
(* invariants: a jump to a handler stays inside the code only because the  *)
(* handler belongs to an activation of the very function it is found for   *)
(* (TargetsInCode, HandlersLive), and those survive a return or an unwind  *)
(* only because everything a dead activation pushed is removed with it.    *)
(***************************************************************************)
EXTENDS VmExceptions, SequenceTheorems, FiniteSetTheorems, TLAPS

ProgOK == WellFormedProgram(prog) /\ UniqueNames(prog)

HInv == HandlersLive /\ TargetsInCode /\ GroupsOK /\ HandlersNested

IInv == ProgOK /\ TypeOK /\ HInv

-----------------------------------------------------------------------------
(* The operators the model is built from *)

\* With distinct names, looking a function up by its name finds it.
LEMMA FuncIdxUnique ==
  ASSUME NEW P, UniqueNames(P), WellFormedProgram(P), NEW f \in DOMAIN P.code
  PROVE  FuncIdx(P, f) = f
<1>1. f \in DOMAIN P.name /\ P.name \in Seq(STRING)
  BY DEF WellFormedProgram
<1>2. DOMAIN P.name \subseteq Nat
  BY <1>1, LenProperties
<1>3. \A i \in DOMAIN P.name : P.name[i] = P.name[f] => i = f
  BY <1>1 DEF UniqueNames
<1>4. /\ P.name[f] = P.name[f]
      /\ \A j \in DOMAIN P.name : P.name[j] = P.name[f] => f <= j
  BY <1>1, <1>2, <1>3
<1>5. QED
  BY <1>1, <1>3, <1>4 DEF FuncIdx

\* A function on 1..n is a sequence.
LEMMA FunIsSeq ==
  ASSUME NEW S, NEW n \in Nat, NEW f \in [1..n -> S]
  PROVE  f \in Seq(S)
<1>1. f \in UNION {[1..m -> S] : m \in Nat}
  OBVIOUS
<1>2. QED
  BY <1>1, SeqDef

\* What is read from the operand stack is a value, also when it is empty.
LEMMA FromTopValue ==
  ASSUME stack \in Seq(Value), NEW n \in Nat \ {0}
  PROVE  FromTop(n) \in Value
<1>1. CASE n > Len(stack)
  BY <1>1 DEF FromTop, Value
<1>2. CASE ~ n > Len(stack)
  <2>1. Len(stack) \in Nat /\ Len(stack) + 1 - n \in 1..Len(stack)
    BY <1>2, LenProperties
  <2>2. QED
    BY <1>2, <2>1, ElementOfSeq DEF FromTop
<1>3. QED
  BY <1>1, <1>2

\* The value an instruction takes from the stack is a value, Null if it is empty.
LEMMA TopValue ==
  ASSUME stack \in Seq(Value)
  PROVE  Top \in Value
BY FromTopValue DEF Top

\* What remains of the operand stack after n pops is an operand stack.
LEMMA PoppedStack ==
  ASSUME stack \in Seq(Value), NEW n \in Nat
  PROVE  Popped(n) \in Seq(Value)
<1> DEFINE m == IF n > Len(stack) THEN 0 ELSE Len(stack) - n
<1>1. Len(stack) \in Nat
  BY LenProperties
<1>2. m \in Int /\ m <= Len(stack)
  BY <1>1
<1>3. \A i \in 1..m : stack[i] \in Value
  BY <1>1, <1>2, ElementOfSeq
<1>4. SubSeq(stack, 1, m) \in Seq(Value)
  BY <1>2, <1>3, SubSeqProperties
<1>5. QED
  BY <1>4 DEF Popped

\* The frames below depth d, kept by Resume.
LEMMA FramesBelow ==
  ASSUME frames \in Seq(Frames), NEW d \in 1..Len(frames)
  PROVE  /\ SubSeq(frames, 1, d - 1) \in Seq(Frames)
         /\ Len(SubSeq(frames, 1, d - 1)) = d - 1
         /\ \A i \in 1 .. d - 1 : SubSeq(frames, 1, d - 1)[i] = frames[i]
<1>1. Len(frames) \in Nat
  BY LenProperties
<1>2. \A i \in 1 .. d - 1 : frames[i] \in Frames
  BY <1>1, ElementOfSeq
<1>3. d \in Int /\ d - 1 \in Int
  BY <1>1
<1>4. QED
  BY <1>1, <1>2, <1>3, SubSeqProperties

-----------------------------------------------------------------------------
(* Steps that keep the activation: handlers may only be removed. *)

\* The handler invariants survive a step that stays in its activation and only
\* removes handlers.
LEMMA SameActivation ==
  ASSUME HInv, UNCHANGED <<prog, context, tryCounter>>, handlers' \subseteq handlers
  PROVE  HInv'
<1>1. UNCHANGED <<prog, fn, frames, tryCounter>>
  BY DEF context
<1>2. HandlersLive'
  BY <1>1 DEF HInv, HandlersLive, Depth, FuncAt, Cur
<1>3. TargetsInCode'
  BY <1>1 DEF HInv, TargetsInCode, Depth, FnAt, Code
<1>4. GroupsOK'
  BY <1>1 DEF HInv, GroupsOK
<1>5. HandlersNested'
  BY DEF HInv, HandlersNested
<1>6. QED
  BY <1>2, <1>3, <1>4, <1>5 DEF HInv

\* The instruction after any but RETURN_VOID is in the code.
LEMMA NextInstr ==
  ASSUME ProgOK, fn \in DOMAIN prog.code, pc \in DOMAIN Code(fn), Ins.op # "RETURN_VOID"
  PROVE  pc + 1 \in DOMAIN Code(fn)
<1>1. WellFormedCode(prog, fn)
  BY DEF ProgOK, WellFormedProgram
<1>2. /\ Len(Code(fn)) \in Nat /\ DOMAIN Code(fn) = 1..Len(Code(fn))
      /\ Code(fn)[Len(Code(fn))].op = "RETURN_VOID"
  BY <1>1 DEF WellFormedCode, Code
<1>3. pc # Len(Code(fn))
  BY <1>2 DEF Ins
<1>4. QED
  BY <1>2, <1>3

\* The current instruction is well formed.
LEMMA InsOK ==
  ASSUME ProgOK, TypeOK
  PROVE  WellFormedInstr(prog, fn, Ins)
BY DEF ProgOK, TypeOK, WellFormedProgram, WellFormedCode, Ins, Code

-----------------------------------------------------------------------------
(* Activations *)

\* A live activation runs a function of the program with locals that fit it,
\* and is known by that function's own index.
LEMMA ActivationOK ==
  ASSUME ProgOK, TypeOK, NEW d \in 1..Depth
  PROVE  /\ FnAt(d) \in DOMAIN prog.code
         /\ FuncAt(d) = FnAt(d)
         /\ LocalsAt(d) \in Locals(FnAt(d))
<1>1. CASE d = Depth
  <2>1. fn \in DOMAIN prog.code /\ locals \in Locals(fn)
    BY DEF TypeOK
  <2>2. Cur = fn
    BY <2>1, FuncIdxUnique DEF ProgOK, Cur
  <2>3. QED
    BY <1>1, <2>1, <2>2 DEF FnAt, FuncAt, LocalsAt
<1>2. CASE d # Depth
  <2>1. d \in 1..Len(frames)
    BY <1>2, LenProperties DEF Depth, TypeOK
  <2>2. Resumable(frames[d])
    BY <2>1 DEF TypeOK
  <2>3. FuncIdx(prog, frames[d].fn) = frames[d].fn
    BY <2>2, FuncIdxUnique DEF ProgOK, Resumable
  <2>4. QED
    BY <1>2, <2>2, <2>3 DEF FnAt, FuncAt, LocalsAt, Resumable
<1>3. QED
  BY <1>1, <1>2

\* A handler found by name for an activation jumps into that activation's code.
LEMMA JumpTarget ==
  ASSUME IInv, NEW d \in 1..Depth,
         NEW h \in handlers, h.kind # "MARK", h.func = FuncAt(d)
  PROVE  h.target \in DOMAIN Code(FnAt(d))
<1>1. h.act \in 1..Depth /\ h.func = FuncAt(h.act)
  <2>1. h.act \in Nat \ {0} /\ Len(frames) \in Nat
    BY LenProperties DEF IInv, TypeOK, Handlers
  <2>2. QED
    BY <2>1 DEF IInv, HInv, HandlersLive, Depth
<1>2. FnAt(h.act) = FnAt(d)
  BY <1>1, ActivationOK DEF IInv
<1>3. h.target \in DOMAIN Code(FnAt(h.act))
  BY <1>1 DEF IInv, HInv, TargetsInCode
<1>4. QED
  BY <1>2, <1>3

\* What a step to depth d keeps: the activations up to d, and handlers of
\* theirs only, because what is removed includes all that the dropped
\* activations pushed.
LEMMA DropActivations ==
  ASSUME IInv, NEW d \in 1..Len(frames), Resume(d),
         UNCHANGED <<prog, tryCounter>>, handlers' \subseteq NotOf(Unwound(d))
  PROVE  /\ HInv'
         /\ fn' \in DOMAIN prog'.code
         /\ frames' \in Seq(Frames)
         /\ \A e \in 1..Len(frames') : Resumable(frames[e])'
         /\ base' \in Nat
<1>1. /\ frames \in Seq(Frames) /\ frames[d] \in Frames
      /\ Len(frames) \in Nat /\ d \in Nat \ {0} /\ d <= Len(frames)
  <2>1. frames \in Seq(Frames)
    BY DEF IInv, TypeOK
  <2>2. QED
    BY <2>1, LenProperties, ElementOfSeq
<1>2. /\ frames' \in Seq(Frames) /\ Len(frames') = d - 1
      /\ \A i \in 1 .. d - 1 : frames'[i] = frames[i]
  BY <1>1, FramesBelow DEF Resume
<1>3. Depth' = d /\ Depth = Len(frames) + 1
  BY <1>1, <1>2 DEF Depth
<1>4. \A e \in 1..Len(frames) : Resumable(frames[e])
  BY DEF IInv, TypeOK
<1>5. \A e \in 1..Len(frames') : Resumable(frames[e])'
  <2> SUFFICES ASSUME NEW e \in 1..Len(frames')
               PROVE  Resumable(frames[e])'
    OBVIOUS
  <2>1. frames'[e] = frames[e] /\ e \in 1..Len(frames)
    BY <1>1, <1>2
  <2>2. QED
    BY <1>4, <2>1 DEF Resumable, Code, Locals
<1>6. fn' = frames[d].fn /\ fn' \in DOMAIN prog'.code /\ base' \in Nat
  BY <1>1, <1>4 DEF Resume, Resumable, Frames
<1>7. \A e \in 1..d : FuncAt(e)' = FuncAt(e) /\ FnAt(e)' = FnAt(e)
  <2> SUFFICES ASSUME NEW e \in 1..d
               PROVE  FuncAt(e)' = FuncAt(e) /\ FnAt(e)' = FnAt(e)
    OBVIOUS
  <2>1. e # Depth
    BY <1>1, <1>3
  <2>2. CASE e = d
    BY <1>3, <1>4, <1>6, <2>1, <2>2 DEF FuncAt, FnAt, Cur, Resumable
  <2>3. CASE e # d
    <3>1. e \in 1 .. d - 1
      BY <1>1, <2>3
    <3>2. QED
      BY <1>2, <1>3, <2>1, <2>3, <3>1 DEF FuncAt, FnAt
  <2>4. QED
    BY <2>2, <2>3
<1>8. \A h \in handlers' : h \in handlers /\ h.act \in 1..d /\ h.func = FuncAt(h.act)
  <2> SUFFICES ASSUME NEW h \in handlers'
               PROVE  h \in handlers /\ h.act \in 1..d /\ h.func = FuncAt(h.act)
    OBVIOUS
  <2>1. h \in handlers /\ h.func \notin Unwound(d)
    BY DEF NotOf
  <2>2. h.act \in Nat \ {0} /\ h.act <= Depth /\ h.func = FuncAt(h.act)
    BY <2>1 DEF IInv, TypeOK, Handlers, HInv, HandlersLive
  <2>3. h.act \notin d + 1 .. Depth
    BY <2>1, <2>2 DEF Unwound
  <2>4. QED
    BY <1>1, <1>3, <2>1, <2>2, <2>3
<1>9. HInv'
  <2>1. HandlersLive'
    BY <1>1, <1>3, <1>7, <1>8 DEF HandlersLive
  <2>2. TargetsInCode'
    <3> SUFFICES ASSUME NEW h \in handlers', h.kind # "MARK"
                 PROVE  h.target \in DOMAIN Code(FnAt(h.act))'
      BY DEF TargetsInCode
    <3>1. h.target \in DOMAIN Code(FnAt(h.act))
      BY <1>1, <1>3, <1>8 DEF IInv, HInv, TargetsInCode
    <3>2. QED
      BY <1>7, <1>8, <3>1 DEF Code
  <2>3. GroupsOK'
    BY <1>8 DEF IInv, HInv, GroupsOK
  <2>4. HandlersNested'
    BY <1>8 DEF IInv, HInv, HandlersNested
  <2>5. QED
    BY <2>1, <2>2, <2>3, <2>4 DEF HInv
<1>10. QED
  BY <1>2, <1>5, <1>6, <1>9

-----------------------------------------------------------------------------
(* TypeOK by parts: the registers, the saved callers, the rest *)

RegistersOK ==
  fn \in DOMAIN prog.code /\ pc \in DOMAIN Code(fn) /\ locals \in Locals(fn)

CallersOK ==
  frames \in Seq(Frames) /\ \A d \in 1..Len(frames) : Resumable(frames[d])

DataOK ==
  /\ stack \in Seq(Value) /\ base \in Nat
  /\ handlers \subseteq Handlers /\ tryCounter \in Nat /\ pending \in Pending
  /\ out \in Seq(Value) /\ asked \in Seq(Nat)
  /\ status \in {"running", "done", "uncaught", "error"} /\ result \in Value

\* TypeOK in three parts that different steps disturb.
LEMMA TypeParts ==
  (TypeOK <=> RegistersOK /\ CallersOK /\ DataOK)
  /\ (TypeOK <=> RegistersOK /\ CallersOK /\ DataOK)'
BY DEF TypeOK, RegistersOK, CallersOK, DataOK

\* A step that stays in the activation, saves no caller and pushes no handler.
LEMMA LocalStep ==
  ASSUME IInv, UNCHANGED <<prog, context, tryCounter>>,
         handlers' \subseteq handlers,
         pc' \in DOMAIN Code(fn), locals' \in Locals(fn), DataOK'
  PROVE  IInv'
<1>1. UNCHANGED <<prog, fn, base, frames, tryCounter>>
  BY DEF context
<1>2. ProgOK'
  BY <1>1 DEF IInv, ProgOK
<1>3. HInv'
  BY SameActivation DEF IInv
<1>4. RegistersOK'
  BY <1>1 DEF IInv, TypeOK, RegistersOK, Code, Locals
<1>5. CallersOK'
  BY <1>1 DEF IInv, TypeOK, CallersOK, Resumable, Code, Locals
<1>6. QED
  BY <1>2, <1>3, <1>4, <1>5, TypeParts DEF IInv

\* An Err or an uncaught exception ends the run and keeps the invariant.
LEMMA AbortStep ==
  ASSUME IInv, NEW how \in {"uncaught", "error"}, NEW v \in Value, Abort(how, v)
  PROVE  IInv'
<1>1. DataOK'
  BY DEF IInv, TypeOK, DataOK, Abort, env, context, unwind
<1>2. QED
  BY <1>1, LocalStep DEF IInv, TypeOK, Abort, env, context, unwind

\* So does every straight-line instruction but the last one of a function.
LEMMA StraightStep ==
  ASSUME IInv, Straight, Ins.op # "RETURN_VOID", prog' = prog,
         locals' \in Locals(fn), stack' \in Seq(Value),
         out' \in Seq(Value), asked' \in Seq(Nat)
  PROVE  IInv'
<1>1. pc' \in DOMAIN Code(fn)
  BY NextInstr DEF IInv, TypeOK, Straight
<1>2. DataOK'
  BY DEF IInv, TypeOK, DataOK, Straight, context, unwind, ending
<1>3. QED
  BY <1>1, <1>2, LocalStep DEF Straight, context, unwind

-----------------------------------------------------------------------------
(* Returns *)

\* So does return_value: a finally of this function, the caller, or the end.
LEMMA ReturnStep ==
  ASSUME IInv, NEW v \in Value, NEW stk \in Seq(Value), ReturnValue(v, stk)
  PROVE  IInv'
<1>1. Len(frames) \in Nat /\ Depth \in 1..Depth /\ Depth = Len(frames) + 1
  BY LenProperties DEF IInv, TypeOK, Depth
<1>2. CASE FinallyThenReturn(v, stk)
  <2>1. PICK h \in Topmost(FinallyOf(Cur)) :
          /\ handlers' = OlderThan(h.tid)
          /\ pending' = [kind |-> "return", val |-> v]
          /\ pc' = h.target /\ stack' = stk
          /\ UNCHANGED <<locals, context, tryCounter, env, ending>>
    BY <1>2 DEF FinallyThenReturn
  <2>2. h \in handlers /\ h.kind = "FINALLY" /\ h.func = FuncAt(Depth)
    BY <2>1 DEF Topmost, FinallyOf, FuncAt
  <2>3. pc' \in DOMAIN Code(fn)
    BY <1>1, <2>1, <2>2, JumpTarget DEF FnAt
  <2>4. handlers' \subseteq handlers
    BY <2>1 DEF OlderThan
  <2>5. DataOK'
    BY <2>1, <2>4 DEF IInv, TypeOK, DataOK, context, env, ending, Pending
  <2>6. QED
    BY <2>1, <2>3, <2>4, <2>5, LocalStep DEF IInv, TypeOK, env
<1>3. CASE ReturnToCaller(v, stk)
  <2> DEFINE d == Len(frames)
  <2>1. d \in 1..Len(frames)
    BY <1>1, <1>3, EmptySeq DEF ReturnToCaller, IInv, TypeOK
  <2>2. Unwound(d) = {Cur}
    BY <1>1 DEF Unwound, FuncAt
  <2>3. Resume(d) /\ UNCHANGED <<prog, tryCounter>> /\ handlers' \subseteq NotOf(Unwound(d))
    BY <1>3, <2>2 DEF ReturnToCaller, env
  <2>4. /\ HInv' /\ fn' \in DOMAIN prog'.code /\ base' \in Nat
        /\ CallersOK'
    BY <2>1, <2>3, DropActivations DEF CallersOK
  <2>5. frames[d] \in Frames /\ Resumable(frames[d])
    BY <2>1, ElementOfSeq DEF IInv, TypeOK
  <2>6. RegistersOK'
    BY <1>3, <2>3, <2>4, <2>5
    DEF RegistersOK, ReturnToCaller, Resume, Resumable, Code, Locals
  <2>7. stack' \in Seq(Value) /\ handlers' \subseteq Handlers /\ pending' \in Pending
    <3>1. stack' = Append(stk, v) /\ handlers' \subseteq handlers
          /\ pending' = frames[d].pending
      BY <1>3 DEF ReturnToCaller, NotOf
    <3>2. Append(stk, v) \in Seq(Value)
      BY AppendProperties
    <3>3. QED
      BY <2>5, <3>1, <3>2 DEF IInv, TypeOK, Frames
  <2>8. DataOK'
    BY <1>3, <2>3, <2>4, <2>7
    DEF DataOK, IInv, TypeOK, ReturnToCaller, env, ending
  <2>9. QED
    BY <2>3, <2>4, <2>6, <2>8, TypeParts DEF IInv, ProgOK
<1>4. CASE FinishMain(v, stk)
  <2>1. handlers' \subseteq handlers
    BY <1>4 DEF FinishMain, NotOf
  <2>2. DataOK'
    BY <1>4, <2>1
    DEF FinishMain, IInv, TypeOK, DataOK, context, env, Pending, NoPending, Value
  <2>3. QED
    BY <1>4, <2>1, <2>2, LocalStep DEF FinishMain, IInv, TypeOK, env
<1>5. QED
  BY <1>2, <1>3, <1>4 DEF ReturnValue

-----------------------------------------------------------------------------
(* Exceptions *)

\* The catch or finally that takes the exception at depth d.
LEMMA RaiseToStep ==
  ASSUME IInv, NEW d \in 1..Depth, NEW h \in TargetsOf(FuncAt(d)),
         NEW v \in Value, NEW pend \in Pending, NEW stk \in Seq(Value),
         RaiseTo(d, h, v, pend), stack' = stk,
         UNCHANGED <<tryCounter, env, ending>>
  PROVE  IInv'
<1>1. h \in handlers /\ h.kind # "MARK" /\ h.func = FuncAt(d)
  BY DEF TargetsOf
<1>2. pc' = h.target /\ h.target \in DOMAIN Code(FnAt(d))
  BY <1>1, JumpTarget DEF RaiseTo
<1>3. LocalsAt(d) \in Locals(FnAt(d))
  BY ActivationOK DEF IInv
<1>4. /\ handlers' \subseteq NotOf(Unwound(d))
      /\ locals' \in Locals(FnAt(d))
      /\ pending' \in Pending
  <2>1. CASE EnterCatch(d, h, v, pend)
    <3>1. [LocalsAt(d) EXCEPT ![h.slot] = v] \in Locals(FnAt(d))
      BY <1>3 DEF Locals
    <3>2. QED
      BY <2>1, <3>1 DEF EnterCatch, Caught, NoPending, Pending, Value
  <2>2. CASE EnterFinally(d, h, v)
    BY <1>3, <2>2 DEF EnterFinally, Pending
  <2>3. QED
    BY <2>1, <2>2 DEF RaiseTo
<1>5. handlers' \subseteq handlers /\ prog' = prog
  BY <1>4 DEF NotOf, env
<1>6. base' \in Nat => DataOK'
  BY <1>4, <1>5 DEF IInv, TypeOK, DataOK, env, ending
<1>7. CASE d = Depth /\ UNCHANGED context
  <2>1. FnAt(d) = fn
    BY <1>7 DEF FnAt
  <2>2. DataOK'
    BY <1>6, <1>7 DEF context, IInv, TypeOK
  <2>3. QED
    BY <1>2, <1>4, <1>5, <1>7, <2>1, <2>2, LocalStep
<1>8. CASE d < Depth /\ Resume(d)
  <2>1. d \in 1..Len(frames) /\ FnAt(d) = frames[d].fn
    BY <1>8, LenProperties DEF Depth, FnAt, IInv, TypeOK
  <2>2. HInv' /\ fn' \in DOMAIN prog'.code /\ base' \in Nat /\ CallersOK'
    BY <1>4, <1>5, <1>8, <2>1, DropActivations DEF CallersOK
  <2>3. RegistersOK'
    BY <1>2, <1>4, <1>5, <1>8, <2>1, <2>2
    DEF RegistersOK, Resume, Code, Locals
  <2>4. QED
    BY <1>5, <1>6, <2>2, <2>3, TypeParts DEF IInv, ProgOK
<1>9. QED
  BY <1>7, <1>8 DEF RaiseTo

\* So does raise, whichever activation catches.
LEMMA RaiseStep ==
  ASSUME IInv, NEW v \in Value, NEW pend \in Pending, NEW stk \in Seq(Value),
         Raise(v, pend, stk)
  PROVE  IInv'
<1>1. CASE \E d \in 1..Depth :
             /\ CatcherAt(d)
             /\ \E h \in Topmost(TargetsOf(FuncAt(d))) : RaiseTo(d, h, v, pend)
             /\ stack' = stk
             /\ UNCHANGED <<tryCounter, env, ending>>
  BY <1>1, RaiseToStep DEF Topmost
<1>2. CASE Abort("uncaught", v)
  BY <1>2, AbortStep
<1>3. QED
  BY <1>1, <1>2 DEF Raise

-----------------------------------------------------------------------------
(* Calls, and the instructions that work on the handler stack *)

\* So does a call.
LEMMA CallStep ==
  ASSUME IInv, Call
  PROVE  IInv'
<1> DEFINE cf == [func |-> Cur, fn |-> fn, pc |-> pc + 1, locals |-> locals,
                  pending |-> pending, base |-> base]
<1> DEFINE args == [i \in 1..Ins.nargs |-> FromTop(Ins.nargs + 1 - i)]
<1>1. /\ Ins.op = "CALL" /\ Ins.func \in DOMAIN prog.code /\ Ins.nargs \in Nat
  BY InsOK DEF IInv, Call, Fetch, WellFormedInstr
<1>2. /\ frames' = Append(frames, cf) /\ fn' = Ins.func /\ pc' = 1
      /\ locals' = FreshLocals(Ins.func, args)
      /\ stack' = Popped(Ins.nargs) /\ base' = Len(stack') /\ pending' = NoPending
      /\ UNCHANGED <<handlers, tryCounter, prog, out, asked, status, result>>
  BY DEF Call, env, ending
<1>3. DOMAIN prog.code = 1..Len(prog.name) /\ Len(prog.name) \in Nat
  <2>1. prog.name \in Seq(STRING) /\ DOMAIN prog.code = DOMAIN prog.name
    BY DEF IInv, ProgOK, WellFormedProgram
  <2>2. QED
    BY <2>1, LenProperties
<1>4. cf \in Frames /\ Resumable(cf)
  <2>1. Cur = fn /\ fn \in Nat
    BY <1>3, FuncIdxUnique DEF Cur, IInv, ProgOK, TypeOK
  <2>2. pc + 1 \in DOMAIN Code(fn) /\ pc + 1 \in Nat
    <3>1. DOMAIN Code(fn) = 1..Len(Code(fn)) /\ Len(Code(fn)) \in Nat
      BY DEF IInv, TypeOK, ProgOK, WellFormedProgram, WellFormedCode, Code
    <3>2. QED
      BY <1>1, <3>1, NextInstr DEF IInv, TypeOK
  <2>3. locals \in Seq(Value)
    <3>1. prog.nlocals[fn] \in Nat
      BY DEF IInv, TypeOK, ProgOK, WellFormedProgram, WellFormedCode
    <3>2. QED
      BY <3>1, FunIsSeq DEF IInv, TypeOK, Locals
  <2>4. QED
    BY <2>1, <2>2, <2>3 DEF Frames, Resumable, IInv, TypeOK, Cur
<1>5. /\ frames' \in Seq(Frames) /\ Len(frames') = Len(frames) + 1
      /\ Len(frames) \in Nat
      /\ \A i \in 1..Len(frames) : frames'[i] = frames[i]
      /\ frames'[Len(frames) + 1] = cf
  <2>1. frames \in Seq(Frames)
    BY DEF IInv, TypeOK
  <2>2. QED
    BY <1>2, <1>4, <2>1, AppendProperties, LenProperties
<1>6. CallersOK'
  <2> SUFFICES ASSUME NEW d \in 1..Len(frames')
               PROVE  Resumable(frames[d])'
    BY <1>5 DEF CallersOK
  <2>1. CASE d \in 1..Len(frames)
    BY <1>2, <1>5, <2>1 DEF IInv, TypeOK, Resumable, Code, Locals
  <2>2. CASE d \notin 1..Len(frames)
    <3> HIDE DEF cf
    <3>1. frames'[d] = cf
      BY <1>5, <2>2
    <3>2. QED
      BY <1>2, <1>4, <3>1 DEF Resumable, Code, Locals
  <2>3. QED
    BY <2>1, <2>2
<1>7. stack' \in Seq(Value) /\ base' \in Nat
  BY <1>1, <1>2, PoppedStack, LenProperties DEF IInv, TypeOK
<1>8. locals' \in [1..prog.nlocals[Ins.func] -> Value]
  <2>1. /\ args \in Seq(Value) /\ Len(args) \in Nat
        /\ \A i \in 1..Len(args) : args[i] \in Value
    <3>1. \A i \in 1..Ins.nargs : FromTop(Ins.nargs + 1 - i) \in Value
      BY <1>1, FromTopValue DEF IInv, TypeOK
    <3>2. args \in [1..Ins.nargs -> Value]
      BY <3>1
    <3>3. args \in Seq(Value)
      <4> HIDE DEF args
      <4>1. QED
        BY <1>1, <3>2, FunIsSeq
    <3>4. QED
      BY <3>3, LenProperties, ElementOfSeq
  <2>2. prog.nlocals[Ins.func] \in Nat
    BY <1>1 DEF IInv, ProgOK, WellFormedProgram, WellFormedCode
  <2> HIDE DEF args
  <2>3. QED
    BY <1>2, <2>1, <2>2 DEF FreshLocals, Value
<1>9. RegistersOK'
  <2>1. DOMAIN Code(Ins.func) = 1..Len(Code(Ins.func)) /\ Len(Code(Ins.func)) \in Nat \ {0}
    BY <1>1 DEF IInv, ProgOK, WellFormedProgram, WellFormedCode, Code
  <2>2. QED
    BY <1>1, <1>2, <1>8, <2>1 DEF RegistersOK, Code, Locals
<1>10. HInv'
  <2>1. Depth' = Depth + 1 /\ Depth = Len(frames) + 1 /\ Depth \in Nat
    BY <1>5 DEF Depth
  <2>2. \A h \in handlers : h.act \in 1..Depth
    BY <2>1 DEF IInv, TypeOK, HInv, HandlersLive, Handlers
  <2>3. \A e \in 1..Depth : FuncAt(e)' = FuncAt(e) /\ FnAt(e)' = FnAt(e)
    BY <1>5, <2>1 DEF FuncAt, FnAt
  <2>4. HandlersLive'
    BY <1>2, <2>1, <2>2, <2>3 DEF HandlersLive, IInv, HInv
  <2>5. TargetsInCode'
    BY <1>2, <2>2, <2>3 DEF TargetsInCode, IInv, HInv, HandlersLive, Code
  <2>6. GroupsOK' /\ HandlersNested'
    BY <1>2 DEF GroupsOK, HandlersNested, IInv, HInv
  <2>7. QED
    BY <2>4, <2>5, <2>6 DEF HInv
<1>11. DataOK'
  BY <1>2, <1>7 DEF DataOK, IInv, TypeOK, NoPending, Pending, Value
<1>12. QED
  BY <1>2, <1>6, <1>9, <1>10, <1>11, TypeParts DEF IInv, ProgOK

\* So does OP_TRY: the new group is above all others.
LEMMA EnterTryStep ==
  ASSUME IInv, EnterTry
  PROVE  IInv'
<1>1. /\ UNCHANGED <<prog, fn, base, frames, locals, stack, pending, out, asked,
                     status, result>>
      /\ pc' = pc + 1 /\ tryCounter' = tryCounter + 1
  BY DEF EnterTry, context, env, ending
<1>2. WellFormedInstr(prog, fn, Ins) /\ Ins.op = "TRY"
  BY InsOK DEF IInv, EnterTry, Fetch
<1>3. Depth \in Nat \ {0} /\ Depth = Len(frames) + 1
  BY LenProperties DEF IInv, TypeOK, Depth
<1>4. Cur \in Nat /\ Cur = FuncAt(Depth) /\ FnAt(Depth) = fn
  <2>1. DOMAIN prog.code \subseteq Nat
    <3>1. prog.name \in Seq(STRING) /\ DOMAIN prog.code = DOMAIN prog.name
      BY DEF IInv, ProgOK, WellFormedProgram
    <3>2. QED
      BY <3>1, LenProperties
  <2>2. Cur = fn
    BY FuncIdxUnique DEF Cur, IInv, ProgOK, TypeOK
  <2>3. QED
    BY <2>1, <2>2 DEF FuncAt, FnAt, IInv, TypeOK
<1>5. DOMAIN Code(fn) \subseteq Nat
  BY DEF IInv, TypeOK, ProgOK, WellFormedProgram, WellFormedCode, Code
<1>6. \A h \in handlers' : h \in handlers \/
        /\ h \in Handlers /\ h.tid = tryCounter /\ h.func = Cur /\ h.act = Depth
        /\ h.kind # "MARK" => h.target \in DOMAIN Code(fn)
  <2> SUFFICES ASSUME NEW h \in handlers', h \notin handlers
               PROVE  /\ h \in Handlers /\ h.tid = tryCounter
                      /\ h.func = Cur /\ h.act = Depth
                      /\ h.kind # "MARK" => h.target \in DOMAIN Code(fn)
    OBVIOUS
  <2>1. tryCounter \in Nat
    BY DEF IInv, TypeOK
  <2>2. \/ Ins.hasFinally /\ h = Handler("FINALLY", Ins.finally, 0)
        \/ Ins.hasCatch /\ h = Handler("CATCH", Ins.catch, Ins.slot)
        \/ h = Handler("MARK", 0, 0)
    BY DEF EnterTry
  <2>3. \/ Ins.hasFinally /\ h = Handler("FINALLY", Ins.finally, 0)
           /\ Ins.finally \in DOMAIN Code(fn) /\ Ins.finally \in Nat
        \/ Ins.hasCatch /\ h = Handler("CATCH", Ins.catch, Ins.slot)
           /\ Ins.catch \in DOMAIN Code(fn) /\ Ins.catch \in Nat /\ Ins.slot \in Nat
        \/ h = Handler("MARK", 0, 0)
    BY <1>2, <1>5, <2>2 DEF WellFormedInstr, Code
  <2>4. QED
    BY <1>3, <1>4, <2>1, <2>3 DEF Handler, Handlers, Rank
<1>7. \A g, h \in handlers' : g.tid = tryCounter /\ h.tid = tryCounter
                               /\ g.kind = h.kind => g = h
  BY DEF EnterTry, Handler, IInv, TypeOK, HInv, GroupsOK, Handlers
<1>8. \A h \in handlers : h.act \in 1..Depth /\ h.tid < tryCounter
                           /\ h.tid \in Nat /\ tryCounter \in Nat
  BY <1>3 DEF IInv, TypeOK, HInv, HandlersLive, GroupsOK, Handlers
<1>9. HandlersLive'
  BY <1>1, <1>3, <1>4, <1>6 DEF HandlersLive, IInv, HInv, Depth, FuncAt, Cur
<1>10. TargetsInCode'
  BY <1>1, <1>3, <1>4, <1>6 DEF TargetsInCode, IInv, HInv, Depth, FnAt, Code
<1>11. GroupsOK'
  <2>1. \A h \in handlers' : h.tid < tryCounter'
    BY <1>1, <1>6, <1>8 DEF IInv, TypeOK
  <2>2. \A g, h \in handlers' :
          g.tid = h.tid => g.act = h.act /\ g.func = h.func
                           /\ (g.kind = h.kind => g = h)
    BY <1>6, <1>7, <1>8 DEF IInv, HInv, GroupsOK
  <2>3. QED
    BY <2>1, <2>2 DEF GroupsOK
<1>12. HandlersNested'
  BY <1>3, <1>6, <1>8 DEF HandlersNested, IInv, HInv
<1>13. RegistersOK'
  BY <1>1, <1>2, NextInstr DEF RegistersOK, IInv, TypeOK, Code, Locals
<1>14. CallersOK'
  BY <1>1 DEF CallersOK, IInv, TypeOK, Resumable, Code, Locals
<1>15. DataOK'
  BY <1>1, <1>6 DEF DataOK, IInv, TypeOK
<1>16. QED
  BY <1>1, <1>9, <1>10, <1>11, <1>12, <1>13, <1>14, <1>15, TypeParts
  DEF IInv, ProgOK, HInv

\* So does OP_ENDTRY.
LEMMA EndTryStep ==
  ASSUME IInv, EndTry
  PROVE  IInv'
<1>1. handlers' \subseteq handlers
  BY DEF EndTry, OlderThan
<1>2. pc' \in DOMAIN Code(fn)
  BY NextInstr DEF EndTry, Fetch, IInv, TypeOK
<1>3. DataOK'
  BY <1>1 DEF EndTry, IInv, TypeOK, DataOK, context, env, ending
<1>4. QED
  BY <1>1, <1>2, <1>3, LocalStep DEF EndTry, IInv, TypeOK, env

\* So does OP_FINALLY_END, which may return or raise.
LEMMA FinallyEndStep ==
  ASSUME IInv, FinallyEnd
  PROVE  IInv'
<1>1. pending.val \in Value /\ stack \in Seq(Value) /\ NoPending \in Pending
  BY DEF IInv, TypeOK, Pending, NoPending, Value
<1>2. CASE FinallyDone
  <2>1. handlers' \subseteq handlers
    BY <1>2 DEF FinallyDone, OlderThan
  <2>2. pc' \in DOMAIN Code(fn)
    BY <1>2, NextInstr DEF FinallyDone, FinallyEnd, Fetch, IInv, TypeOK
  <2>3. DataOK'
    BY <1>2, <2>1 DEF FinallyDone, IInv, TypeOK, DataOK, context, env, ending
  <2>4. QED
    BY <1>2, <2>1, <2>2, <2>3, LocalStep DEF FinallyDone, IInv, TypeOK, env
<1>3. CASE ReturnValue(pending.val, stack)
  BY <1>1, <1>3, ReturnStep
<1>4. CASE Raise(pending.val, NoPending, stack)
  BY <1>1, <1>4, RaiseStep
<1>5. QED
  BY <1>2, <1>3, <1>4 DEF FinallyEnd

-----------------------------------------------------------------------------
(* The inductive invariant *)

\* The inductive invariant holds initially ...
LEMMA InitIInv ==
  ASSUME \A P \in Programs : UniqueNames(P), Init
  PROVE  IInv
<1>1. ProgOK
  BY ProgramsAssumption DEF Init, ProgOK
<1>2. prog.name \in Seq(STRING) /\ prog.name # <<>> /\ DOMAIN prog.code = DOMAIN prog.name
  BY <1>1 DEF ProgOK, WellFormedProgram
<1>3. 1 \in DOMAIN prog.code
  BY <1>2, EmptySeq, LenProperties
<1>4. WellFormedCode(prog, 1)
  BY <1>1, <1>3 DEF ProgOK, WellFormedProgram
<1>5. RegistersOK
  BY <1>3, <1>4, EmptySeq
  DEF Init, RegistersOK, WellFormedCode, Code, Locals, FreshLocals, Value
<1>6. CallersOK
  BY EmptySeq DEF Init, CallersOK
<1>7. DataOK
  BY EmptySeq DEF Init, DataOK, NoPending, Pending, Value
<1>8. HInv
  BY DEF Init, HInv, HandlersLive, TargetsInCode, GroupsOK, HandlersNested
<1>9. QED
  BY <1>1, <1>5, <1>6, <1>7, <1>8, TypeParts DEF IInv

\* ... and every step keeps it.
LEMMA NextIInv ==
  ASSUME IInv, [Next]_vars
  PROVE  IInv'
<1>1. WellFormedInstr(prog, fn, Ins)
  BY InsOK DEF IInv
<1>2. /\ locals \in Locals(fn) /\ stack \in Seq(Value) /\ out \in Seq(Value)
      /\ asked \in Seq(Nat) /\ pending \in Pending /\ Null \in Value
  BY DEF IInv, TypeOK, Value
<1>3. Top \in Value /\ FromTop(2) \in Value
  BY <1>2, TopValue, FromTopValue
<1>4. Popped(1) \in Seq(Value) /\ Popped(2) \in Seq(Value)
  BY <1>2, PoppedStack
<1>5. CASE UNCHANGED vars
  <2>1. DataOK'
    BY <1>5 DEF vars, IInv, TypeOK, DataOK
  <2>2. QED
    BY <1>5, <2>1, LocalStep DEF vars, context, IInv, TypeOK
<1>6. CASE Push
  <2>1. stack' \in Seq(Value)
    BY <1>1, <1>2, <1>6, AppendProperties DEF Push, Fetch, WellFormedInstr
  <2>2. QED
    BY <1>2, <1>6, <2>1, StraightStep DEF Push, Fetch, env
<1>7. CASE LoadLocal
  <2>1. locals[Ins.slot] \in Value
    BY <1>1, <1>2, <1>7 DEF LoadLocal, Fetch, WellFormedInstr, Locals
  <2>2. stack' \in Seq(Value)
    BY <1>2, <1>7, <2>1, AppendProperties DEF LoadLocal
  <2>3. QED
    BY <1>2, <1>7, <2>2, StraightStep DEF LoadLocal, Fetch, env
<1>8. CASE StoreLocal
  <2>1. locals' \in Locals(fn)
    BY <1>2, <1>3, <1>8 DEF StoreLocal, Locals
  <2>2. QED
    BY <1>2, <1>4, <1>8, <2>1, StraightStep DEF StoreLocal, Fetch, env
<1>9. CASE Pop
  BY <1>2, <1>4, <1>9, StraightStep DEF Pop, Fetch, env
<1>10. CASE Println
  <2>1. out' \in Seq(Value)
    BY <1>2, <1>3, <1>10, AppendProperties DEF Println
  <2>2. QED
    BY <1>2, <1>4, <1>10, <2>1, StraightStep DEF Println, Fetch
<1>11. CASE Add
  <2>1. CASE Abort("error", Null)
    BY <1>2, <2>1, AbortStep
  <2>2. CASE ~Abort("error", Null)
    <3>1. FromTop(2) + Top \in Value /\ stack' = Append(Popped(2), FromTop(2) + Top)
      BY <1>11, <2>2 DEF Add, Value
    <3>2. stack' \in Seq(Value)
      BY <1>4, <3>1, AppendProperties
    <3>3. QED
      BY <1>2, <1>11, <2>2, <3>2, StraightStep DEF Add, Fetch, env
  <2>3. QED
    BY <2>1, <2>2
<1>12. CASE Fail
  BY <1>2, <1>12, AbortStep DEF Fail
<1>13. CASE CallExtern
  <2>1. PICK v \in {0, 1} : asked' = Append(asked, v) /\ stack' = Append(stack, v)
    BY <1>13 DEF CallExtern
  <2>2. asked' \in Seq(Nat)
    BY <1>2, <2>1, AppendProperties
  <2>3. stack' \in Seq(Value)
    <3>1. v \in Value
      BY DEF Value
    <3>2. QED
      BY <1>2, <2>1, <3>1, AppendProperties
  <2>4. QED
    BY <1>2, <1>13, <2>2, <2>3, StraightStep DEF CallExtern, Fetch
<1>14. CASE Jmp
  <2>1. pc' \in DOMAIN Code(fn)
    BY <1>1, <1>14 DEF Jmp, Fetch, WellFormedInstr, Code
  <2>2. DataOK'
    BY <1>14 DEF Jmp, IInv, TypeOK, DataOK, context, unwind, env, ending
  <2>3. QED
    BY <1>2, <1>14, <2>1, <2>2, LocalStep DEF Jmp, unwind, env
<1>15. CASE Jz
  <2>1. Ins.to \in DOMAIN Code(fn) /\ pc + 1 \in DOMAIN Code(fn)
    BY <1>1, <1>15, NextInstr DEF Jz, Fetch, WellFormedInstr, Code, IInv, TypeOK
  <2>2. DataOK'
    BY <1>4, <1>15 DEF Jz, IInv, TypeOK, DataOK, context, unwind, env, ending
  <2>3. QED
    BY <1>2, <1>15, <2>1, <2>2, LocalStep DEF Jz, unwind, env
<1>16. CASE Call
  BY <1>16, CallStep
<1>17. CASE Return
  BY <1>3, <1>4, <1>17, ReturnStep DEF Return
<1>18. CASE ReturnVoid
  BY <1>2, <1>18, ReturnStep DEF ReturnVoid
<1>19. CASE Throw
  BY <1>2, <1>3, <1>4, <1>19, RaiseStep DEF Throw
<1>20. CASE EnterTry
  BY <1>20, EnterTryStep
<1>21. CASE EndTry
  BY <1>21, EndTryStep
<1>22. CASE FinallyEnd
  BY <1>22, FinallyEndStep
<1>23. CASE Ended
  BY <1>5, <1>23 DEF Ended
<1>24. QED
  BY <1>5, <1>6, <1>7, <1>8, <1>9, <1>10, <1>11, <1>12, <1>13, <1>14, <1>15,
     <1>16, <1>17, <1>18, <1>19, <1>20, <1>21, <1>22, <1>23 DEF Next

-----------------------------------------------------------------------------
(* The theorems *)

\* The inductive invariant holds in every reachable state of every set of
\* well-formed programs whose functions have distinct names.
THEOREM Inductive ==
  ASSUME \A P \in Programs : UniqueNames(P)
  PROVE  Spec => []IInv
<1>1. Init => IInv
  BY InitIInv
<1>2. IInv /\ [Next]_vars => IInv'
  BY NextIInv
<1>3. QED
  BY <1>1, <1>2, PTL DEF Spec

\* The VM always decodes an instruction of the function it runs, addresses
\* existing locals only, and every caller it has saved can be resumed: catch
\* and finally targets included (execute, raise and return_value).
THEOREM TypeCorrect ==
  ASSUME \A P \in Programs : UniqueNames(P)
  PROVE  Spec => []TypeOK
<1>1. IInv => TypeOK
  BY DEF IInv
<1>2. QED
  BY <1>1, Inductive, PTL

\* No handler outlives the activation that pushed it, although return_value
\* and raise remove handlers by function and not by activation.
THEOREM HandlersAreLive ==
  ASSUME \A P \in Programs : UniqueNames(P)
  PROVE  Spec => []HandlersLive
<1>1. IInv => HandlersLive
  BY DEF IInv, HInv
<1>2. QED
  BY <1>1, Inductive, PTL

\* A handler jumps to an instruction of the function that pushed it.
THEOREM TargetsAreInCode ==
  ASSUME \A P \in Programs : UniqueNames(P)
  PROVE  Spec => []TargetsInCode
<1>1. IInv => TargetsInCode
  BY DEF IInv, HInv
<1>2. QED
  BY <1>1, Inductive, PTL

\* The handlers of one try stay one group, whatever retain removes.
THEOREM GroupsStayGroups ==
  ASSUME \A P \in Programs : UniqueNames(P)
  PROVE  Spec => []GroupsOK
<1>1. IInv => GroupsOK
  BY DEF IInv, HInv
<1>2. QED
  BY <1>1, Inductive, PTL

\* The handler stack is nested like the call stack.
THEOREM HandlersAreNested ==
  ASSUME \A P \in Programs : UniqueNames(P)
  PROVE  Spec => []HandlersNested
<1>1. IInv => HandlersNested
  BY DEF IInv, HInv
<1>2. QED
  BY <1>1, Inductive, PTL

-----------------------------------------------------------------------------
(* Whose handlers are found                                                *)

\* A step stays in its activation, goes back to a saved one, or calls.
LEMMA ContextSteps ==
  ASSUME IInv, [Next]_vars
  PROVE  /\ prog' = prog
         /\ \/ fn' = fn /\ base' = base /\ frames' = frames
            \/ \E d \in 1..Len(frames) : Resume(d)
            \/ Call
<1>1. Len(frames) \in Nat /\ (frames # <<>> => Len(frames) \in 1..Len(frames))
  <2>1. frames \in Seq(Frames)
    BY DEF IInv, TypeOK
  <2>2. QED
    BY <2>1, LenProperties, EmptySeq
<1>2. Depth = Len(frames) + 1
  BY DEF Depth
<1>3. ASSUME NEW v, NEW stk, ReturnValue(v, stk)
      PROVE  prog' = prog /\ (UNCHANGED context \/ \E d \in 1..Len(frames) : Resume(d))
  BY <1>1, <1>3 DEF ReturnValue, FinallyThenReturn, ReturnToCaller, FinishMain, env
<1>4. ASSUME NEW v, NEW p, NEW stk, Raise(v, p, stk)
      PROVE  prog' = prog /\ (UNCHANGED context \/ \E d \in 1..Len(frames) : Resume(d))
  <2>1. CASE Abort("uncaught", v)
    BY <2>1 DEF Abort, env
  <2>2. ASSUME NEW d \in 1..Depth, NEW h, RaiseTo(d, h, v, p), UNCHANGED env
        PROVE  prog' = prog /\ (UNCHANGED context \/ \E e \in 1..Len(frames) : Resume(e))
    <3>1. d < Depth => d \in 1..Len(frames)
      BY <1>1, <1>2
    <3>2. QED
      BY <2>2, <3>1 DEF RaiseTo, env
  <2>3. QED
    BY <1>4, <2>1, <2>2 DEF Raise
<1>5. CASE UNCHANGED vars
  BY <1>5 DEF vars
<1>6. CASE Push \/ LoadLocal \/ StoreLocal \/ Pop \/ Println \/ CallExtern \/ Jmp \/ Jz
  BY <1>6 DEF Push, LoadLocal, StoreLocal, Pop, Println, CallExtern, Jmp, Jz, Straight,
     env, context
<1>7. CASE Add \/ Fail
  BY <1>7 DEF Add, Fail, Abort, Straight, env, context
<1>8. CASE Return \/ ReturnVoid
  BY <1>3, <1>8 DEF Return, ReturnVoid, context
<1>9. CASE Throw
  BY <1>4, <1>9 DEF Throw, context
<1>10. CASE EnterTry \/ EndTry
  BY <1>10 DEF EnterTry, EndTry, env, context
<1>11. CASE FinallyEnd
  <2>1. CASE FinallyDone
    BY <2>1 DEF FinallyDone, env, context
  <2>2. QED
    BY <1>3, <1>4, <1>11, <2>1 DEF FinallyEnd, context
<1>12. CASE Call
  BY <1>12 DEF Call, env
<1>13. CASE Ended
  BY <1>5, <1>13 DEF Ended
<1>14. QED
  BY <1>5, <1>6, <1>7, <1>8, <1>9, <1>10, <1>11, <1>12, <1>13 DEF Next

\* Only OP_TRY adds handlers and takes a try_id.
LEMMA HandlerSteps ==
  ASSUME [Next]_vars
  PROVE  (handlers' \subseteq handlers /\ tryCounter' = tryCounter) \/ EnterTry
<1>1. ASSUME NEW v, NEW stk, ReturnValue(v, stk)
      PROVE  handlers' \subseteq handlers /\ tryCounter' = tryCounter
  BY <1>1 DEF ReturnValue, FinallyThenReturn, ReturnToCaller, FinishMain, OlderThan, NotOf
<1>2. ASSUME NEW v, NEW p, NEW stk, Raise(v, p, stk)
      PROVE  handlers' \subseteq handlers /\ tryCounter' = tryCounter
  <2>1. CASE Abort("uncaught", v)
    BY <2>1 DEF Abort, unwind
  <2>2. ASSUME NEW d, NEW h, RaiseTo(d, h, v, p) PROVE handlers' \subseteq handlers
    BY <2>2 DEF RaiseTo, EnterCatch, EnterFinally, Caught, OlderThan, NotOf
  <2>3. QED
    BY <1>2, <2>1, <2>2 DEF Raise
<1>3. CASE UNCHANGED vars
  BY <1>3 DEF vars
<1>4. CASE Push \/ LoadLocal \/ StoreLocal \/ Pop \/ Println \/ CallExtern \/ Jmp \/ Jz \/ Call
  BY <1>4 DEF Push, LoadLocal, StoreLocal, Pop, Println, CallExtern, Jmp, Jz, Straight,
     Call, unwind
<1>5. CASE Add \/ Fail
  BY <1>5 DEF Add, Fail, Abort, Straight, unwind
<1>6. CASE Return \/ ReturnVoid
  BY <1>1, <1>6 DEF Return, ReturnVoid
<1>7. CASE Throw
  BY <1>2, <1>7 DEF Throw
<1>8. CASE EndTry
  BY <1>8 DEF EndTry, OlderThan
<1>9. CASE FinallyEnd
  <2>1. CASE FinallyDone
    BY <2>1 DEF FinallyDone, OlderThan
  <2>2. QED
    BY <1>1, <1>2, <1>9, <2>1 DEF FinallyEnd
<1>10. CASE Ended
  BY <1>3, <1>10 DEF Ended
<1>11. QED
  BY <1>3, <1>4, <1>5, <1>6, <1>7, <1>8, <1>9, <1>10 DEF Next

\* After a step back to depth d, the activations up to d are what they were.
LEMMA ResumeFns ==
  ASSUME IInv, NEW d \in 1..Len(frames), Resume(d)
  PROVE  /\ Depth' = d /\ d < Depth /\ d \in Nat
         /\ \A e \in 1..d : FnAt(e)' = FnAt(e)
<1>1. frames \in Seq(Frames) /\ Len(frames) \in Nat
  <2>1. frames \in Seq(Frames)
    BY DEF IInv, TypeOK
  <2>2. QED
    BY <2>1, LenProperties
<1>2. /\ Len(frames') = d - 1 /\ fn' = frames[d].fn
      /\ \A i \in 1 .. d - 1 : frames'[i] = frames[i]
  BY <1>1, FramesBelow DEF Resume
<1>3. Depth' = d /\ Depth = Len(frames) + 1
  BY <1>1, <1>2 DEF Depth
<1>4. \A e \in 1..d : FnAt(e)' = FnAt(e)
  <2> TAKE e \in 1..d
  <2>1. CASE e = d
    BY <1>1, <1>2, <1>3, <2>1 DEF FnAt
  <2>2. CASE e # d
    <3>1. e \in 1 .. d - 1 /\ e # Depth
      BY <1>1, <1>3, <2>2
    <3>2. QED
      BY <1>2, <1>3, <2>2, <3>1 DEF FnAt
  <2>3. QED
    BY <2>1, <2>2
<1>5. QED
  BY <1>1, <1>3, <1>4

\* A call leaves the activations what they were and adds one.
LEMMA CallFns ==
  ASSUME IInv, Call
  PROVE  /\ Depth' = Depth + 1 /\ Depth \in Nat \ {0}
         /\ \A e \in 1..Depth : FnAt(e)' = FnAt(e)
         /\ FnAt(Depth)' = Ins.func
<1>1. frames \in Seq(Frames) /\ Len(frames) \in Nat
  <2>1. frames \in Seq(Frames)
    BY DEF IInv, TypeOK
  <2>2. QED
    BY <2>1, LenProperties
<1> DEFINE x == [func |-> Cur, fn |-> fn, pc |-> pc + 1, locals |-> locals,
                 pending |-> pending, base |-> base]
<1>2. frames' = Append(frames, x) /\ fn' = Ins.func
  BY DEF Call
<1>3. x.fn = fn
  OBVIOUS
<1> HIDE DEF x
<1>4. /\ Len(frames') = Len(frames) + 1 /\ frames'[Len(frames) + 1] = x
      /\ \A e \in 1..Len(frames) : frames'[e] = frames[e]
  <2>1. \A e \in 1..Len(frames) + 1 : Append(frames, x)[e] =
          IF e <= Len(frames) THEN frames[e] ELSE x
    BY <1>1
  <2>2. QED
    BY <1>1, <1>2, <2>1
<1>5. Depth = Len(frames) + 1 /\ Depth' = Len(frames) + 2
  BY <1>1, <1>4 DEF Depth
<1>6. \A e \in 1..Depth : FnAt(e)' = FnAt(e)
  <2> TAKE e \in 1..Depth
  <2>1. CASE e = Depth
    BY <1>1, <1>3, <1>4, <1>5, <2>1 DEF FnAt
  <2>2. CASE e # Depth
    <3>1. e \in 1..Len(frames) /\ e # Depth'
      BY <1>1, <1>5, <2>2
    <3>2. QED
      BY <1>4, <2>2, <3>1 DEF FnAt
  <2>3. QED
    BY <2>1, <2>2
<1>7. QED
  BY <1>1, <1>2, <1>5, <1>6 DEF FnAt

\* Functions call each other the way R relates them.
Related(R) == \A d, e \in 1..Depth : d < e => <<FnAt(d), FnAt(e)>> \in R

Nested == \E R \in Nestings(prog) : Related(R)

\* Only functions with a try have handlers.
Tried == \A h \in handlers : HasTry(prog, h.func)

NestInv == IInv /\ Nested /\ Tried

\* A step keeps the relation: it goes back, or to what is called.
LEMMA RelatedStays ==
  ASSUME IInv, [Next]_vars, NEW R \in Nestings(prog), Related(R)
  PROVE  Related(R)'
<1>1. CASE fn' = fn /\ frames' = frames
  BY <1>1 DEF Related, Depth, FnAt
<1>2. ASSUME NEW d \in 1..Len(frames), Resume(d) PROVE Related(R)'
  <2>1. /\ Depth' = d /\ d < Depth /\ d \in Nat /\ Depth \in Int
        /\ \A e \in 1..d : FnAt(e)' = FnAt(e)
    <3>1. Len(frames) \in Nat
      BY LenProperties DEF IInv, TypeOK
    <3>2. QED
      BY <1>2, <3>1, ResumeFns DEF Depth
  <2>2. \A e \in 1..d : e \in 1..Depth
    BY <2>1
  <2>3. SUFFICES ASSUME NEW x \in 1..d, NEW e \in 1..d, x < e
                 PROVE  <<FnAt(x)', FnAt(e)'>> \in R
    BY <2>1 DEF Related
  <2>4. QED
    BY <2>1, <2>2, <2>3 DEF Related
<1>3. CASE Call
  <2>1. /\ Depth' = Depth + 1 /\ Depth \in Nat \ {0}
        /\ \A e \in 1..Depth : FnAt(e)' = FnAt(e)
        /\ FnAt(Depth)' = Ins.func
    BY <1>3, CallFns
  <2>2. FnAt(Depth) = fn /\ fn \in DOMAIN prog.code
    BY DEF FnAt, IInv, TypeOK
  <2>3. Calls(prog, fn, Ins.func) /\ Ins.func \in DOMAIN prog.code
    <3>1. WellFormedInstr(prog, fn, Ins) /\ Ins.op = "CALL" /\ pc \in DOMAIN Code(fn)
      BY <1>3, InsOK DEF IInv, TypeOK, Call, Fetch
    <3>2. QED
      BY <3>1 DEF WellFormedInstr, Calls, Ins, Code
  <2>4. <<fn, Ins.func>> \in R
    BY <2>2, <2>3 DEF Nestings
  <2>5. \A x \in 1..Depth : <<FnAt(x), Ins.func>> \in R
    <3> TAKE x \in 1..Depth
    <3>1. CASE x = Depth
      BY <2>2, <2>4, <3>1
    <3>2. CASE x # Depth
      <4>1. <<FnAt(x), fn>> \in R
        BY <2>1, <2>2, <3>2 DEF Related
      <4>2. FnAt(x) \in DOMAIN prog.code
        BY ActivationOK DEF IInv
      <4>3. QED
        BY <2>2, <2>3, <2>4, <4>1, <4>2 DEF Nestings
    <3>3. QED
      BY <3>1, <3>2
  <2>6. SUFFICES ASSUME NEW x \in 1 .. Depth + 1, NEW e \in 1 .. Depth + 1, x < e
                 PROVE  <<FnAt(x)', FnAt(e)'>> \in R
    BY <2>1 DEF Related
  <2>7. CASE e \in 1..Depth
    <3>1. x \in 1..Depth
      BY <2>1, <2>6, <2>7
    <3>2. QED
      BY <2>1, <2>6, <2>7, <3>1 DEF Related
  <2>8. CASE e = Depth + 1
    <3>1. x \in 1..Depth
      BY <2>1, <2>6, <2>8
    <3>2. FnAt(e)' = Ins.func
      BY <2>1, <2>8 DEF FnAt
    <3>3. QED
      BY <2>1, <2>5, <3>1, <3>2
  <2>9. QED
    BY <2>1, <2>7, <2>8
<1>4. QED
  BY <1>1, <1>2, <1>3, ContextSteps

\* A step adds handlers of functions with a try only.
LEMMA TriedStays ==
  ASSUME IInv, [Next]_vars, Tried
  PROVE  Tried'
<1>1. prog' = prog
  BY ContextSteps
<1>2. CASE handlers' \subseteq handlers
  BY <1>1, <1>2 DEF Tried, HasTry
<1>3. CASE EnterTry
  <2>1. HasTry(prog, Cur)
    <3>1. fn \in DOMAIN prog.code /\ pc \in DOMAIN Code(fn) /\ Ins.op = "TRY"
      BY <1>3 DEF IInv, TypeOK, EnterTry, Fetch
    <3>2. Cur = fn
      BY <3>1, FuncIdxUnique DEF IInv, ProgOK, Cur
    <3>3. QED
      BY <3>1, <3>2 DEF HasTry, Ins, Code
  <2>2. \A h \in handlers' : h \in handlers \/ h.func = Cur
    BY <1>3 DEF EnterTry, Handler
  <2>3. QED
    BY <1>1, <2>1, <2>2 DEF Tried, HasTry
<1>4. QED
  BY <1>2, <1>3, HandlerSteps

\* The relation holds initially ...
LEMMA InitNestInv ==
  ASSUME \A P \in Programs : UniqueNames(P) /\ NoTryReentered(P), Init
  PROVE  NestInv
<1>1. IInv
  BY InitIInv
<1>2. PICK R \in Nestings(prog) : TRUE
  BY DEF Init, NoTryReentered
<1>3. Depth = 1
  BY EmptySeq DEF Init, Depth
<1>4. Related(R) /\ Tried
  BY <1>3 DEF Related, Tried, Init
<1>5. QED
  BY <1>1, <1>4 DEF NestInv, Nested

\* ... and every step keeps it.
LEMMA NextNestInv ==
  ASSUME NestInv, [Next]_vars
  PROVE  NestInv'
<1>1. IInv' /\ Tried' /\ prog' = prog
  BY NextIInv, TriedStays, ContextSteps DEF NestInv
<1>2. PICK R \in Nestings(prog) : Related(R)
  BY DEF NestInv, Nested
<1>3. Related(R)'
  BY <1>2, RelatedStays DEF NestInv
<1>4. Nested'
  BY <1>1, <1>2, <1>3 DEF Nested, Nestings, Calls, HasTry
<1>5. QED
  BY <1>1, <1>4 DEF NestInv

\* With distinct names and no re-entry into a try, the handlers that have the
\* function of an activation were pushed by that activation.
LEMMA OwnFunc ==
  ASSUME NestInv, NEW h \in handlers, NEW d \in 1..Depth, h.func = FuncAt(d)
  PROVE  h.act = d
<1>1. h.act \in 1..Depth /\ h.func = FuncAt(h.act) /\ Depth \in Nat
  <2>1. Len(frames) \in Nat
    BY LenProperties DEF NestInv, IInv, TypeOK
  <2>2. QED
    BY <2>1 DEF NestInv, IInv, TypeOK, Handlers, HInv, HandlersLive, Depth
<1>2. FnAt(h.act) = h.func /\ FnAt(d) = h.func /\ h.func \in DOMAIN prog.code
  BY <1>1, ActivationOK DEF NestInv, IInv
<1>3. PICK R \in Nestings(prog) : Related(R)
  BY DEF NestInv, Nested
<1>4. <<h.func, h.func>> \notin R
  BY <1>2, <1>3 DEF NestInv, Tried, Nestings
<1>5. ~(h.act < d) /\ ~(d < h.act)
  BY <1>1, <1>2, <1>3, <1>4 DEF Related
<1>6. QED
  BY <1>1, <1>5

\* The handlers that raise and return_value take for the current function's
\* were pushed by the current activation ("the nearest active handler of the
\* current function", runtime.rs:1184): with distinct names, only a call of a
\* function from itself can make them another activation's.
THEOREM OwnHandlersProved ==
  ASSUME \A P \in Programs : UniqueNames(P) /\ NoTryReentered(P)
  PROVE  Spec => []OwnHandlers
<1>1. Init => NestInv
  BY InitNestInv
<1>2. NestInv /\ [Next]_vars => NestInv'
  BY NextNestInv
<1>3. NestInv => OwnHandlers
  <2>1. SUFFICES ASSUME NestInv, NEW h \in handlers, h.func = Cur PROVE h.act = Depth
    BY DEF OwnHandlers
  <2>2. Depth \in 1..Depth /\ FuncAt(Depth) = Cur
    <3>1. Len(frames) \in Nat
      BY <2>1, LenProperties DEF NestInv, IInv, TypeOK
    <3>2. QED
      BY <3>1 DEF Depth, FuncAt
  <2>3. QED
    BY <2>1, <2>2, OwnFunc
<1>4. QED
  BY <1>1, <1>2, <1>3, PTL DEF Spec

-----------------------------------------------------------------------------
(* The operands of the callers                                             *)

HeightOf(f) == CHOOSE h \in [DOMAIN prog.code[f] -> Nat] : Fits(prog, f, h)

BaseAt(d) == IF d = Depth THEN base ELSE frames[d].base

\* The running activation has the operands that its next instruction needs.
FloorHere == status = "running" => Len(stack) >= base + HeightOf(fn)[pc]

\* Activations stand on each other.
Bases == \A d, e \in 1..Depth : d < e => BaseAt(d) <= BaseAt(e)

\* So will a caller have, with the value that is returned to it.
Returns ==
  \A d \in 1..Len(frames) :
    frames[d].base + HeightOf(frames[d].fn)[frames[d].pc] <= BaseAt(d + 1) + 1

\* A handler needs none.
Flat == \A h \in handlers : h.kind # "MARK" => HeightOf(h.func)[h.target] = 0

FloorInv == IInv /\ Balanced(prog) /\ FloorHere /\ Bases /\ Returns /\ Flat

\* The heights of a function's code fit it.
LEMMA HeightFits ==
  ASSUME Balanced(prog), NEW f \in DOMAIN prog.code
  PROVE  Fits(prog, f, HeightOf(f))
BY DEF Balanced, HeightOf

\* What is below the operands that are popped stays.
LEMMA PoppedLen ==
  ASSUME stack \in Seq(Value), NEW n \in Nat, n <= Len(stack)
  PROVE  Popped(n) \in Seq(Value) /\ Len(Popped(n)) = Len(stack) - n
<1>1. Len(stack) \in Nat
  BY LenProperties
<1>2. Len(stack) - n \in Int /\ Len(stack) - n <= Len(stack)
  BY <1>1
<1>3. \A i \in 1 .. Len(stack) - n : stack[i] \in Value
  BY <1>1, <1>2, ElementOfSeq
<1>4. /\ SubSeq(stack, 1, Len(stack) - n) \in Seq(Value)
      /\ Len(SubSeq(stack, 1, Len(stack) - n)) = Len(stack) - n
  BY <1>1, <1>2, <1>3, SubSeqProperties
<1>5. QED
  BY <1>1, <1>4 DEF Popped

\* What the current instruction needs and leaves.
LEMMA InsFits ==
  ASSUME FloorInv, status = "running"
  PROVE  LET h == HeightOf(fn)  rest == h[pc] - Pops(Ins) IN
         /\ h \in [DOMAIN Code(fn) -> Nat] /\ h[1] = 0
         /\ pc \in DOMAIN Code(fn) /\ h[pc] \in Nat /\ rest >= 0
         /\ Flows(Ins) => h[pc + 1] <= rest + Pushes(Ins) /\ h[pc + 1] \in Nat
         /\ Ins.op \in {"JMP", "JZ"} => h[Ins.to] <= rest /\ h[Ins.to] \in Nat
         /\ Ins.op = "TRY" /\ Ins.hasCatch => h[Ins.catch] = 0
         /\ Ins.op = "TRY" /\ Ins.hasFinally => h[Ins.finally] = 0
         /\ stack \in Seq(Value) /\ Len(stack) \in Nat /\ base \in Nat
         /\ Len(stack) >= base + h[pc]
<1> DEFINE h == HeightOf(fn)
<1>1. /\ fn \in DOMAIN prog.code /\ pc \in DOMAIN Code(fn) /\ stack \in Seq(Value)
      /\ base \in Nat /\ Len(stack) \in Nat
  BY LenProperties DEF FloorInv, IInv, TypeOK
<1>2. Fits(prog, fn, h)
  BY <1>1, HeightFits DEF FloorInv
<1>3. Len(stack) >= base + h[pc]
  BY DEF FloorInv, FloorHere
<1>4. Flows(Ins) => pc + 1 \in DOMAIN Code(fn)
  BY <1>1, NextInstr DEF FloorInv, IInv, Flows
<1>5. Ins.op \in {"JMP", "JZ"} => Ins.to \in DOMAIN Code(fn)
  BY InsOK DEF FloorInv, IInv, WellFormedInstr, Code
<1> HIDE DEF h
<1>6. h \in [DOMAIN Code(fn) -> Nat] /\ h[1] = 0
  BY <1>2 DEF Fits, Code
<1>7. /\ h[pc] - Pops(Ins) >= 0
      /\ Flows(Ins) => h[pc + 1] <= h[pc] - Pops(Ins) + Pushes(Ins)
      /\ Ins.op \in {"JMP", "JZ"} => h[Ins.to] <= h[pc] - Pops(Ins)
      /\ Ins.op = "TRY" /\ Ins.hasCatch => h[Ins.catch] = 0
      /\ Ins.op = "TRY" /\ Ins.hasFinally => h[Ins.finally] = 0
  BY <1>1, <1>2 DEF Fits, Ins, Code
<1>8. QED
  BY <1>1, <1>3, <1>4, <1>5, <1>6, <1>7 DEF h

\* A step that stays in its activation keeps the callers' part.
LEMMA CallersStay ==
  ASSUME FloorInv, prog' = prog, fn' = fn, base' = base, frames' = frames
  PROVE  Bases' /\ Returns' /\ Balanced(prog)'
<1>1. Bases'
  BY DEF FloorInv, Bases, BaseAt, Depth
<1>2. Returns'
  BY DEF FloorInv, Returns, BaseAt, Depth, HeightOf
<1>3. QED
  BY <1>1, <1>2 DEF FloorInv

\* A straight-line instruction.
LEMMA StraightFloor ==
  ASSUME FloorInv, status = "running", Flows(Ins), pc' = pc + 1,
         prog' = prog, fn' = fn, base' = base,
         Len(stack') >= Len(stack) - Pops(Ins) + Pushes(Ins), Len(stack') \in Nat,
         Pops(Ins) \in Nat, Pushes(Ins) \in Nat
  PROVE  FloorHere'
<1> DEFINE h == HeightOf(fn)
<1>1. /\ h[pc] \in Nat /\ h[pc + 1] \in Nat /\ h[pc + 1] <= h[pc] - Pops(Ins) + Pushes(Ins)
      /\ Len(stack) \in Nat /\ base \in Nat /\ Len(stack) >= base + h[pc]
  BY InsFits
<1>2. (HeightOf(fn)[pc])' = h[pc + 1]
  BY DEF HeightOf
<1> HIDE DEF h
<1>3. Len(stack') >= base + h[pc + 1]
  BY <1>1
<1>4. QED
  BY <1>2, <1>3 DEF FloorHere

\* An operand stack that one value was pushed on.
LEMMA PushedLen ==
  ASSUME NEW s \in Seq(Value), NEW v
  PROVE  Len(Append(s, v)) = Len(s) + 1 /\ Len(s) \in Nat
BY LenProperties

\* The straight-line instructions and jumps.
LEMMA LocalFloor ==
  ASSUME FloorInv,
         \/ Push \/ LoadLocal \/ StoreLocal \/ Pop \/ Println \/ Add \/ Fail
         \/ CallExtern \/ Jmp \/ Jz \/ EnterTry \/ EndTry \/ (FinallyEnd /\ FinallyDone)
  PROVE  FloorHere' /\ prog' = prog /\ fn' = fn /\ base' = base /\ frames' = frames
<1> DEFINE h == HeightOf(fn)
<1>1. status = "running"
  BY DEF Push, LoadLocal, StoreLocal, Pop, Println, Add, Fail, CallExtern, Jmp, Jz,
     EnterTry, EndTry, FinallyEnd, Fetch
<1>2. /\ stack \in Seq(Value) /\ Len(stack) \in Nat /\ base \in Nat /\ h[pc] \in Nat
      /\ Len(stack) >= base + h[pc] /\ h[pc] - Pops(Ins) >= 0
  BY <1>1, InsFits
<1>3. prog' = prog /\ fn' = fn /\ base' = base /\ frames' = frames
  BY DEF Push, LoadLocal, StoreLocal, Pop, Println, Add, Fail, CallExtern, Jmp, Jz,
     EnterTry, EndTry, FinallyDone, Straight, Abort, context, env
<1> HIDE DEF h
<1>4. ASSUME Pops(Ins) \in Nat
      PROVE  /\ Pops(Ins) <= Len(stack) /\ Popped(Pops(Ins)) \in Seq(Value)
             /\ Len(Popped(Pops(Ins))) = Len(stack) - Pops(Ins)
  BY <1>2, <1>4, PoppedLen
<1>5. CASE Push \/ LoadLocal \/ CallExtern
  <2>1. /\ Flows(Ins) /\ Pops(Ins) = 0 /\ Pushes(Ins) = 1 /\ pc' = pc + 1
    BY <1>5 DEF Push, LoadLocal, CallExtern, Fetch, Flows, Pops, Pushes, Straight
  <2>2. Len(stack') = Len(stack) + 1
    BY <1>2, <1>5, PushedLen DEF Push, LoadLocal, CallExtern
  <2>3. QED
    BY <1>1, <1>2, <1>3, <2>1, <2>2, StraightFloor
<1>6. CASE StoreLocal \/ Pop \/ Println
  <2>1. /\ Flows(Ins) /\ Pops(Ins) = 1 /\ Pushes(Ins) = 0 /\ pc' = pc + 1
        /\ stack' = Popped(1)
    BY <1>6 DEF StoreLocal, Pop, Println, Fetch, Flows, Pops, Pushes, Straight
  <2>2. QED
    BY <1>1, <1>2, <1>3, <1>4, <2>1, StraightFloor
<1>7. CASE Fail \/ (Add /\ Abort("error", Null))
  <2>1. status' = "error"
    BY <1>7 DEF Fail, Abort
  <2>2. QED
    BY <1>3, <2>1 DEF FloorHere
<1>8. CASE Add /\ ~Abort("error", Null)
  <2>1. /\ Flows(Ins) /\ Pops(Ins) = 2 /\ Pushes(Ins) = 1 /\ pc' = pc + 1
        /\ \E v : stack' = Append(Popped(2), v)
    BY <1>8 DEF Add, Fetch, Flows, Pops, Pushes, Straight
  <2>2. Popped(2) \in Seq(Value) /\ Len(Popped(2)) = Len(stack) - 2
    BY <1>4, <2>1
  <2>3. Len(stack') = Len(stack) - 2 + 1 /\ Len(stack') \in Nat
    BY <2>1, <2>2, PushedLen
  <2>4. QED
    BY <1>1, <1>2, <1>3, <2>1, <2>3, StraightFloor
<1>9. CASE EnterTry \/ EndTry \/ (FinallyEnd /\ FinallyDone)
  <2>1. /\ Flows(Ins) /\ Pops(Ins) = 0 /\ Pushes(Ins) = 0 /\ pc' = pc + 1 /\ stack' = stack
    BY <1>9 DEF EnterTry, EndTry, FinallyEnd, FinallyDone, Fetch, Flows, Pops, Pushes
  <2>2. QED
    BY <1>1, <1>2, <1>3, <2>1, StraightFloor
<1>10. CASE Jmp
  <2>1. Ins.op = "JMP" /\ Pops(Ins) = 0 /\ pc' = Ins.to /\ stack' = stack
    BY <1>10 DEF Jmp, Fetch, Pops
  <2>2. h[Ins.to] <= h[pc] /\ h[Ins.to] \in Nat
    BY <1>1, <1>2, <2>1, InsFits DEF h
  <2>3. (HeightOf(fn)[pc])' = h[Ins.to]
    BY <1>3, <2>1 DEF HeightOf, h
  <2>4. QED
    BY <1>2, <1>3, <2>1, <2>2, <2>3 DEF FloorHere
<1>11. CASE Jz
  <2>1. /\ Ins.op = "JZ" /\ Pops(Ins) = 1 /\ Pushes(Ins) = 0 /\ Flows(Ins)
        /\ stack' = Popped(1) /\ (pc' = Ins.to \/ pc' = pc + 1)
    BY <1>11 DEF Jz, Fetch, Pops, Pushes, Flows
  <2>2. Len(stack') = Len(stack) - 1
    BY <1>4, <2>1
  <2>3. CASE pc' = pc + 1
    BY <1>1, <1>2, <1>3, <1>4, <2>1, <2>2, <2>3, StraightFloor
  <2>4. CASE pc' = Ins.to
    <3>1. h[Ins.to] <= h[pc] - 1 /\ h[Ins.to] \in Nat
      BY <1>1, <1>2, <2>1, InsFits DEF h
    <3>2. (HeightOf(fn)[pc])' = h[Ins.to]
      BY <1>3, <2>4 DEF HeightOf, h
    <3>3. QED
      BY <1>2, <1>3, <2>2, <3>1, <3>2 DEF FloorHere
  <2>5. QED
    BY <2>1, <2>3, <2>4
<1>12. QED
  BY <1>3, <1>5, <1>6, <1>7, <1>8, <1>9, <1>10, <1>11

\* A step back to depth d, with a value or to a handler.
LEMMA ResumeFloor ==
  ASSUME FloorInv, prog' = prog, NEW d \in 1..Len(frames), Resume(d)
  PROVE  /\ Bases' /\ Returns' /\ Balanced(prog)'
         /\ base' = frames[d].base /\ fn' = frames[d].fn
         /\ base' \in Nat /\ base' <= base
<1>1. frames \in Seq(Frames) /\ Len(frames) \in Nat /\ Depth = Len(frames) + 1
  <2>1. frames \in Seq(Frames)
    BY DEF FloorInv, IInv, TypeOK
  <2>2. QED
    BY <2>1, LenProperties DEF Depth
<1>2. /\ Len(frames') = d - 1 /\ fn' = frames[d].fn /\ base' = frames[d].base
      /\ \A i \in 1 .. d - 1 : frames'[i] = frames[i]
  BY <1>1, FramesBelow DEF Resume
<1>3. Depth' = d
  BY <1>2 DEF Depth
<1>4. \A e \in 1..d : BaseAt(e)' = BaseAt(e)
  <2> TAKE e \in 1..d
  <2>1. CASE e = d
    BY <1>1, <1>2, <1>3, <2>1 DEF BaseAt
  <2>2. CASE e # d
    <3>1. e \in 1 .. d - 1 /\ e # Depth
      BY <1>1, <1>3, <2>2
    <3>2. QED
      BY <1>2, <1>3, <2>2, <3>1 DEF BaseAt
  <2>3. QED
    BY <2>1, <2>2
<1>5. \A e \in 1..d : e \in 1..Depth
  BY <1>1
<1>6. Bases'
  BY <1>3, <1>4, <1>5 DEF Bases, FloorInv
<1>7. Returns'
  <2>1. SUFFICES ASSUME NEW e \in 1 .. d - 1
        PROVE  frames'[e].base + HeightOf(frames'[e].fn)[frames'[e].pc] <= BaseAt(e + 1)' + 1
    BY <1>2 DEF Returns, HeightOf
  <2>2. frames'[e] = frames[e] /\ e \in 1..Len(frames) /\ e + 1 \in 1..d
    BY <1>1, <1>2
  <2>3. BaseAt(e + 1)' = BaseAt(e + 1)
    BY <1>4, <2>2
  <2>4. QED
    BY <2>2, <2>3 DEF FloorInv, Returns
<1>8. base' \in Nat /\ base' <= base
  <2>1. frames[d] \in Frames
    BY <1>1, ElementOfSeq
  <2>2. BaseAt(d) <= BaseAt(Depth) /\ BaseAt(d) = frames[d].base
    <3>1. d \in 1..Depth /\ Depth \in 1..Depth /\ d < Depth
      BY <1>1
    <3>2. QED
      BY <3>1 DEF FloorInv, Bases, BaseAt
  <2>3. QED
    BY <1>2, <2>1, <2>2 DEF BaseAt, Frames
<1>9. QED
  BY <1>2, <1>6, <1>7, <1>8 DEF FloorInv

\* A step of the running activation to one of its handlers.
LEMMA HandlerFloor ==
  ASSUME FloorInv, NEW h \in handlers, h.kind # "MARK", h.func = Cur,
         pc' = h.target, prog' = prog, fn' = fn, base' = base,
         Len(stack') \in Nat, Len(stack') >= base
  PROVE  FloorHere'
<1>1. Cur = fn /\ base \in Nat
  BY FuncIdxUnique DEF FloorInv, IInv, ProgOK, TypeOK, Cur
<1>2. HeightOf(fn)[h.target] = 0
  BY <1>1 DEF FloorInv, Flat
<1>3. (HeightOf(fn)[pc])' = 0
  BY <1>2 DEF HeightOf
<1>4. QED
  BY <1>1, <1>3 DEF FloorHere

\* A return, to a finally or to the caller with the value.
LEMMA ReturnFloor ==
  ASSUME FloorInv, NEW v \in Value, NEW stk \in Seq(Value), Len(stk) >= base,
         ReturnValue(v, stk)
  PROVE  FloorHere' /\ Bases' /\ Returns' /\ Balanced(prog)'
<1>1. Len(stk) \in Nat /\ frames \in Seq(Frames) /\ Len(frames) \in Nat
  <2>1. frames \in Seq(Frames)
    BY DEF FloorInv, IInv, TypeOK
  <2>2. QED
    BY <2>1, LenProperties
<1>2. CASE FinallyThenReturn(v, stk)
  <2>1. PICK h \in handlers : h.kind = "FINALLY" /\ h.func = Cur /\ pc' = h.target
    BY <1>2 DEF FinallyThenReturn, Topmost, FinallyOf
  <2>2. /\ stack' = stk /\ prog' = prog /\ fn' = fn /\ base' = base /\ frames' = frames
    BY <1>2 DEF FinallyThenReturn, context, env
  <2>3. FloorHere'
    BY <1>1, <2>1, <2>2, HandlerFloor
  <2>4. QED
    BY <2>2, <2>3, CallersStay
<1>3. CASE ReturnToCaller(v, stk)
  <2> DEFINE d == Len(frames)
  <2>1. d \in 1..Len(frames) /\ prog' = prog /\ Resume(d)
    BY <1>1, <1>3, EmptySeq DEF ReturnToCaller, env
  <2>2. /\ Bases' /\ Returns' /\ Balanced(prog)'
        /\ base' = frames[d].base /\ fn' = frames[d].fn /\ base' \in Nat
    BY <2>1, ResumeFloor
  <2>3. frames[d].base + HeightOf(frames[d].fn)[frames[d].pc] <= base + 1
    BY <1>1, <2>1 DEF FloorInv, Returns, BaseAt, Depth
  <2>4. Resumable(frames[d]) /\ base \in Nat
    BY <2>1 DEF FloorInv, IInv, TypeOK
  <2>5. HeightOf(frames[d].fn)[frames[d].pc] \in Nat
    BY <2>4, HeightFits DEF Resumable, FloorInv, Fits, Code
  <2>6. stack' = Append(stk, v) /\ pc' = frames[d].pc
    BY <1>3 DEF ReturnToCaller
  <2>7. Len(stack') = Len(stk) + 1
    BY <2>6, PushedLen
  <2> DEFINE need == HeightOf(frames[d].fn)[frames[d].pc]
  <2>8. (HeightOf(fn)[pc])' = need
    BY <2>1, <2>2, <2>6 DEF HeightOf
  <2> HIDE DEF need
  <2>9. Len(stack') >= base' + need
    <3>1. base' + need <= base + 1 /\ need \in Nat
      BY <2>2, <2>3, <2>5 DEF need
    <3>2. QED
      BY <1>1, <2>2, <2>4, <2>7, <3>1
  <2>10. QED
    BY <2>2, <2>8, <2>9 DEF FloorHere
<1>4. CASE FinishMain(v, stk)
  <2>1. /\ status' = "done" /\ prog' = prog /\ fn' = fn /\ base' = base
        /\ frames' = frames
    BY <1>4 DEF FinishMain, context, env
  <2>2. QED
    BY <2>1, CallersStay DEF FloorHere
<1>5. QED
  BY <1>2, <1>3, <1>4 DEF ReturnValue

\* An exception, to a handler of some activation or out of main.
LEMMA RaiseFloor ==
  ASSUME FloorInv, NEW v, NEW pend, NEW stk \in Seq(Value), Len(stk) >= base,
         Raise(v, pend, stk)
  PROVE  FloorHere' /\ Bases' /\ Returns' /\ Balanced(prog)'
<1>1. /\ Len(stk) \in Nat /\ frames \in Seq(Frames) /\ Len(frames) \in Nat
      /\ Depth = Len(frames) + 1 /\ base \in Nat
  <2>1. frames \in Seq(Frames) /\ base \in Nat
    BY DEF FloorInv, IInv, TypeOK
  <2>2. QED
    BY <2>1, LenProperties DEF Depth
<1>2. CASE Abort("uncaught", v)
  <2>1. /\ status' = "uncaught" /\ prog' = prog /\ fn' = fn /\ base' = base
        /\ frames' = frames
    BY <1>2 DEF Abort, context, env
  <2>2. QED
    BY <2>1, CallersStay DEF FloorHere
<1>3. ASSUME NEW d \in 1..Depth, NEW h \in Topmost(TargetsOf(FuncAt(d))),
             RaiseTo(d, h, v, pend), stack' = stk, UNCHANGED env
      PROVE  FloorHere' /\ Bases' /\ Returns' /\ Balanced(prog)'
  <2>1. h \in handlers /\ h.kind # "MARK" /\ h.func = FuncAt(d)
    BY <1>3 DEF Topmost, TargetsOf
  <2>2. pc' = h.target /\ prog' = prog
    BY <1>3 DEF RaiseTo, env
  <2>3. CASE d = Depth /\ UNCHANGED context
    <3>1. h.func = Cur /\ fn' = fn /\ base' = base /\ frames' = frames
      BY <2>1, <2>3 DEF FuncAt, context
    <3>2. FloorHere'
      BY <1>1, <1>3, <2>1, <2>2, <3>1, HandlerFloor
    <3>3. QED
      BY <2>2, <3>1, <3>2, CallersStay
  <2>4. CASE d < Depth /\ Resume(d)
    <3>1. d \in 1..Len(frames) /\ d # Depth
      BY <1>1, <1>3, <2>4
    <3>2. /\ Bases' /\ Returns' /\ Balanced(prog)' /\ fn' = frames[d].fn
          /\ base' \in Nat /\ base' <= base
      BY <2>2, <2>4, <3>1, ResumeFloor
    <3>3. frames[d].fn \in DOMAIN prog.code /\ h.func = frames[d].func
          /\ frames[d].func = FuncIdx(prog, frames[d].fn)
      BY <2>1, <3>1 DEF FuncAt, FloorInv, IInv, TypeOK, Resumable
    <3>4. h.func = frames[d].fn
      BY <3>3, FuncIdxUnique DEF FloorInv, IInv, ProgOK
    <3>5. HeightOf(h.func)[h.target] = 0
      BY <2>1 DEF FloorInv, Flat
    <3>6. (HeightOf(fn)[pc])' = 0
      BY <2>2, <3>2, <3>4, <3>5 DEF HeightOf
    <3>7. Len(stack') >= base' + 0
      BY <1>1, <1>3, <3>2
    <3>8. QED
      BY <3>2, <3>6, <3>7 DEF FloorHere
  <2>5. QED
    BY <1>3, <2>3, <2>4 DEF RaiseTo
<1>4. QED
  BY <1>2, <1>3 DEF Raise

\* A call: the arguments are taken from the caller's own operands.
LEMMA CallFloor ==
  ASSUME FloorInv, Call
  PROVE  FloorHere' /\ Bases' /\ Returns' /\ Balanced(prog)'
<1> DEFINE h == HeightOf(fn)
<1> DEFINE x == [func |-> Cur, fn |-> fn, pc |-> pc + 1, locals |-> locals,
                 pending |-> pending, base |-> base]
<1>1. status = "running" /\ Ins.op = "CALL" /\ prog' = prog /\ fn' = Ins.func
      /\ pc' = 1 /\ stack' = Popped(Ins.nargs) /\ base' = Len(stack')
      /\ frames' = Append(frames, x)
  BY DEF Call, Fetch, env
<1>2. /\ pc \in DOMAIN Code(fn) /\ fn \in DOMAIN prog.code /\ frames \in Seq(Frames)
      /\ Len(frames) \in Nat /\ Depth = Len(frames) + 1
  <2>1. /\ pc \in DOMAIN Code(fn) /\ fn \in DOMAIN prog.code /\ frames \in Seq(Frames)
    BY DEF FloorInv, IInv, TypeOK
  <2>2. QED
    BY <2>1, LenProperties DEF Depth
<1>3. Ins.func \in DOMAIN prog.code /\ Ins.nargs \in Nat
  <2>1. WellFormedInstr(prog, fn, Ins)
    BY <1>2, InsOK DEF FloorInv, IInv
  <2>2. QED
    BY <1>1, <2>1 DEF WellFormedInstr
<1>4. /\ stack \in Seq(Value) /\ Len(stack) \in Nat /\ base \in Nat /\ h[pc] \in Nat
      /\ Len(stack) >= base + h[pc] /\ h[pc] - Ins.nargs >= 0
      /\ h[pc + 1] \in Nat /\ h[pc + 1] <= h[pc] - Ins.nargs + 1
  <2>1. Flows(Ins) /\ Pops(Ins) = Ins.nargs /\ Pushes(Ins) = 1
    BY <1>1 DEF Flows, Pops, Pushes
  <2>2. QED
    BY <1>1, <2>1, InsFits
<1>5. x.fn = fn /\ x.pc = pc + 1 /\ x.base = base
  OBVIOUS
<1>6. HeightOf(Ins.func)[1] = 0
  BY <1>3, HeightFits DEF FloorInv, Fits
<1>7. (HeightOf(fn)[pc])' = 0
  BY <1>1, <1>6 DEF HeightOf
<1> HIDE DEF h, x
<1>8. Ins.nargs <= Len(stack)
  BY <1>3, <1>4
<1>9. /\ Len(stack') = Len(stack) - Ins.nargs /\ base' \in Nat
      /\ base' >= base /\ base + h[pc + 1] <= base' + 1
  <2>1. Len(stack') = Len(stack) - Ins.nargs
    BY <1>1, <1>3, <1>4, <1>8, PoppedLen
  <2>2. QED
    BY <1>1, <1>3, <1>4, <1>8, <2>1
<1>10. FloorHere'
  <2>1. Len(stack') >= base' + 0
    BY <1>1, <1>9
  <2>2. QED
    BY <1>7, <2>1 DEF FloorHere
<1>11. /\ Len(frames') = Len(frames) + 1 /\ frames'[Len(frames) + 1] = x
       /\ \A e \in 1..Len(frames) : frames'[e] = frames[e]
  <2>1. \A e \in 1..Len(frames) + 1 : Append(frames, x)[e] =
          IF e <= Len(frames) THEN frames[e] ELSE x
    BY <1>2
  <2>2. QED
    BY <1>1, <1>2, <2>1
<1>12. Depth' = Depth + 1 /\ Depth \in Nat
  BY <1>2, <1>11 DEF Depth
<1>13. \A e \in 1..Depth : BaseAt(e)' = BaseAt(e)
  <2> TAKE e \in 1..Depth
  <2>1. CASE e = Depth
    BY <1>2, <1>5, <1>11, <1>12, <2>1 DEF BaseAt
  <2>2. CASE e # Depth
    <3>1. e \in 1..Len(frames) /\ e # Depth'
      BY <1>2, <1>12, <2>2
    <3>2. QED
      BY <1>11, <2>2, <3>1 DEF BaseAt
  <2>3. QED
    BY <2>1, <2>2
<1>14. BaseAt(Depth) = base
  BY DEF BaseAt
<1>15. \A e \in 1..Depth : BaseAt(e) \in Int /\ BaseAt(e) <= base'
  <2> TAKE e \in 1..Depth
  <2>1. CASE e = Depth
    BY <1>4, <1>9, <1>14, <2>1
  <2>2. CASE e # Depth
    <3>1. e \in 1..Len(frames) /\ e < Depth /\ Depth \in 1..Depth
      BY <1>2, <2>2
    <3>2. frames[e] \in Frames
      BY <1>2, <3>1, ElementOfSeq
    <3>3. BaseAt(e) \in Int
      BY <2>2, <3>2 DEF BaseAt, Frames
    <3>4. BaseAt(e) <= base
      BY <1>14, <3>1 DEF FloorInv, Bases
    <3>5. QED
      BY <1>4, <1>9, <3>3, <3>4
  <2>3. QED
    BY <2>1, <2>2
<1>16. Bases'
  <2>1. SUFFICES ASSUME NEW y \in 1 .. Depth + 1, NEW e \in 1 .. Depth + 1, y < e
                 PROVE  BaseAt(y)' <= BaseAt(e)'
    BY <1>12 DEF Bases
  <2>2. y \in 1..Depth
    BY <1>12, <2>1
  <2>3. CASE e \in 1..Depth
    BY <1>13, <2>1, <2>2, <2>3 DEF FloorInv, Bases
  <2>4. CASE e = Depth + 1
    <3>1. BaseAt(e)' = base'
      BY <1>12, <2>4 DEF BaseAt
    <3>2. QED
      BY <1>13, <1>15, <2>2, <3>1
  <2>5. QED
    BY <1>12, <2>1, <2>3, <2>4
<1>17. Returns'
  <2>1. SUFFICES ASSUME NEW e \in 1 .. Depth
        PROVE  frames'[e].base + HeightOf(frames'[e].fn)[frames'[e].pc] <= BaseAt(e + 1)' + 1
    BY <1>1, <1>2, <1>11 DEF Returns, HeightOf
  <2>2. CASE e = Depth
    <3>1. frames'[e] = x
      BY <1>2, <1>11, <2>2
    <3>2. BaseAt(e + 1)' = base'
      BY <1>12, <2>2 DEF BaseAt
    <3>3. QED
      BY <1>5, <1>9, <3>1, <3>2 DEF h
  <2>3. CASE e # Depth
    <3>1. e \in 1..Len(frames) /\ e + 1 \in 1..Depth
      BY <1>2, <2>1, <2>3
    <3>2. frames'[e] = frames[e]
      BY <1>11, <3>1
    <3>3. BaseAt(e + 1)' = BaseAt(e + 1)
      BY <1>13, <3>1
    <3>4. QED
      BY <3>1, <3>2, <3>3 DEF FloorInv, Returns
  <2>4. QED
    BY <2>2, <2>3
<1>18. QED
  BY <1>1, <1>10, <1>16, <1>17 DEF FloorInv

\* The handlers that a step adds need no operand.
LEMMA FlatStays ==
  ASSUME FloorInv, [Next]_vars
  PROVE  Flat'
<1>1. prog' = prog
  BY ContextSteps DEF FloorInv
<1>2. CASE handlers' \subseteq handlers
  BY <1>1, <1>2 DEF FloorInv, Flat, HeightOf
<1>3. CASE EnterTry
  <2>1. status = "running" /\ Ins.op = "TRY" /\ Cur = fn
    BY <1>3, FuncIdxUnique DEF EnterTry, Fetch, FloorInv, IInv, ProgOK, TypeOK, Cur
  <2>2. /\ Ins.hasCatch => HeightOf(fn)[Ins.catch] = 0
        /\ Ins.hasFinally => HeightOf(fn)[Ins.finally] = 0
    BY <2>1, InsFits
  <2>3. ASSUME NEW h \in handlers', h.kind # "MARK"
        PROVE  HeightOf(h.func)[h.target] = 0
    <3>1. CASE h \in handlers
      BY <2>3, <3>1 DEF FloorInv, Flat
    <3>2. CASE Ins.hasFinally /\ h = Handler("FINALLY", Ins.finally, 0)
      BY <2>1, <2>2, <3>2 DEF Handler
    <3>3. CASE Ins.hasCatch /\ h = Handler("CATCH", Ins.catch, Ins.slot)
      BY <2>1, <2>2, <3>3 DEF Handler
    <3>4. CASE h = Handler("MARK", 0, 0)
      BY <2>3, <3>4 DEF Handler
    <3>5. QED
      BY <1>3, <2>3, <3>1, <3>2, <3>3, <3>4 DEF EnterTry
  <2>4. QED
    BY <1>1, <2>3 DEF Flat, HeightOf
<1>4. QED
  BY <1>2, <1>3, HandlerSteps

\* What RETURN and THROW pop is the activation's own.
LEMMA OwnTop ==
  ASSUME FloorInv, status = "running", Ins.op \in {"RETURN", "THROW"}
  PROVE  Popped(1) \in Seq(Value) /\ Len(Popped(1)) >= base /\ Top \in Value
<1>1. Pops(Ins) = 1
  BY DEF Pops
<1>2. /\ stack \in Seq(Value) /\ Len(stack) \in Nat /\ base \in Nat
      /\ HeightOf(fn)[pc] \in Nat /\ HeightOf(fn)[pc] - 1 >= 0
      /\ Len(stack) >= base + HeightOf(fn)[pc]
  BY <1>1, InsFits
<1>3. 1 <= Len(stack) /\ Len(stack) - 1 >= base
  BY <1>2
<1>4. Popped(1) \in Seq(Value) /\ Len(Popped(1)) = Len(stack) - 1
  BY <1>2, <1>3, PoppedLen
<1>5. Top \in Value
  BY <1>2, TopValue
<1>6. QED
  BY <1>3, <1>4, <1>5

\* An activation never pops an operand of its caller, whatever exceptions left
\* on the stack or cut short: with distinct names, in code whose instructions
\* find the operands they pop on every path to them, and whose handlers start
\* without any.
THEOREM StackFloorProved ==
  ASSUME \A P \in Programs : UniqueNames(P) /\ Balanced(P)
  PROVE  Spec => []StackFloor
<1>1. Init => FloorInv
  <2>1. SUFFICES ASSUME Init PROVE FloorInv
    OBVIOUS
  <2>2. IInv /\ Balanced(prog)
    BY <2>1, InitIInv DEF Init
  <2>3. 1 \in DOMAIN prog.code /\ Len(stack) = 0 /\ Len(frames) = 0 /\ Depth = 1
    BY <2>1, <2>2, EmptySeq DEF Init, Depth, IInv, TypeOK
  <2>4. HeightOf(1)[1] = 0
    BY <2>2, <2>3, HeightFits DEF Fits
  <2>5. FloorHere
    BY <2>1, <2>3, <2>4 DEF FloorHere, Init
  <2>6. Bases /\ Returns /\ Flat
    BY <2>1, <2>3 DEF Bases, Returns, Flat, Init
  <2>7. QED
    BY <2>2, <2>5, <2>6 DEF FloorInv
<1>2. FloorInv /\ [Next]_vars => FloorInv'
  <2>1. SUFFICES ASSUME FloorInv, [Next]_vars PROVE FloorInv'
    OBVIOUS
  <2>2. IInv' /\ Flat'
    BY <2>1, NextIInv, FlatStays DEF FloorInv
  <2>3. stack \in Seq(Value) /\ Null \in Value /\ pending.val \in Value
    BY <2>1 DEF FloorInv, IInv, TypeOK, Value, Pending
  <2>4. status = "running" => Len(stack) >= base
    <3>1. ASSUME status = "running" PROVE Len(stack) >= base
      <4>1. /\ Len(stack) \in Nat /\ base \in Nat /\ HeightOf(fn)[pc] \in Nat
            /\ Len(stack) >= base + HeightOf(fn)[pc]
        BY <2>1, <3>1, InsFits
      <4>2. QED
        BY <4>1
    <3>2. QED
      BY <3>1
  <2>5. FloorHere' /\ Bases' /\ Returns' /\ Balanced(prog)'
    <3>1. CASE \/ Push \/ LoadLocal \/ StoreLocal \/ Pop \/ Println \/ Add \/ Fail
               \/ CallExtern \/ Jmp \/ Jz \/ EnterTry \/ EndTry
               \/ (FinallyEnd /\ FinallyDone)
      BY <2>1, <3>1, LocalFloor, CallersStay
    <3>2. CASE Call
      BY <2>1, <3>2, CallFloor
    <3>3. CASE Return
      BY <2>1, <3>3, OwnTop, ReturnFloor DEF Return, Fetch
    <3>4. CASE ReturnVoid
      BY <2>1, <2>3, <2>4, <3>4, ReturnFloor DEF ReturnVoid, Fetch
    <3>5. CASE Throw
      BY <2>1, <3>5, OwnTop, RaiseFloor DEF Throw, Fetch
    <3>6. CASE FinallyEnd /\ ~FinallyDone
      BY <2>1, <2>3, <2>4, <3>6, ReturnFloor, RaiseFloor DEF FinallyEnd, Fetch
    <3>7. CASE UNCHANGED vars
      <4>1. prog' = prog /\ fn' = fn /\ base' = base /\ frames' = frames
            /\ pc' = pc /\ stack' = stack /\ status' = status
        BY <3>7 DEF vars
      <4>2. FloorHere'
        BY <2>1, <4>1 DEF FloorInv, FloorHere, HeightOf
      <4>3. QED
        BY <2>1, <4>1, <4>2, CallersStay
    <3>8. QED
      BY <2>1, <3>1, <3>2, <3>3, <3>4, <3>5, <3>6, <3>7 DEF Next, Ended
  <2>6. QED
    BY <2>2, <2>5 DEF FloorInv
<1>3. FloorInv => StackFloor
  <2>1. SUFFICES ASSUME FloorInv, status = "running" PROVE Len(stack) >= base
    BY DEF StackFloor
  <2>2. /\ Len(stack) \in Nat /\ base \in Nat /\ HeightOf(fn)[pc] \in Nat
        /\ Len(stack) >= base + HeightOf(fn)[pc]
    BY <2>1, InsFits
  <2>3. QED
    BY <2>2
<1>4. QED
  BY <1>1, <1>2, <1>3, PTL DEF Spec

-----------------------------------------------------------------------------
(* The handlers of the callers                                             *)

\* Where the activation at depth d goes on.
PcAt(d) == IF d = Depth THEN pc ELSE frames[d].pc

\* The try blocks that the activation at depth d has begun, before the try_id t,
\* and not ended.
Open(d, t) == {x \in handlers : x.kind = "MARK" /\ x.act = d /\ x.tid < t}

TriesOf(f) == CHOOSE m \in [DOMAIN prog.code[f] -> Nat] : Closes(prog, f, m)

\* The FINALLYs are those of the function's own try blocks.
Shapes ==
  /\ IsFiniteSet(handlers)
  /\ \A h \in handlers : h.kind = "FINALLY" =>
       \E j \in DOMAIN prog.code[h.func] :
         LET ins == prog.code[h.func][j] IN
         ins.op = "TRY" /\ ins.hasFinally /\ ins.finally = h.target

Reached ==
  \A d \in 1..Depth : (d = Depth => status = "running") =>
    Cardinality(Open(d, tryCounter)) >= TriesOf(FnAt(d))[PcAt(d)]

GoingBack ==
  \A h \in handlers : h.kind # "MARK" =>
    Cardinality(Open(h.act, h.tid)) >= TriesOf(h.func)[h.target]

CloseInv == NestInv /\ TriesClose(prog) /\ Shapes /\ Reached /\ GoingBack

\* The chosen numbers close the try blocks.
LEMMA TriesOfClose ==
  ASSUME TriesClose(prog), NEW f \in DOMAIN prog.code
  PROVE  TriesOf(f) \in [DOMAIN prog.code[f] -> Nat] /\ Closes(prog, f, TriesOf(f))
BY DEF TriesClose, TriesOf

\* Open tries are finitely many; fewer handlers have no more of them.
LEMMA OpenSize ==
  ASSUME IsFiniteSet(handlers), NEW d, NEW t
  PROVE  /\ IsFiniteSet(Open(d, t)) /\ Cardinality(Open(d, t)) \in Nat
         /\ \A S \in SUBSET Open(d, t) :
              IsFiniteSet(S) /\ Cardinality(S) \in Nat /\ Cardinality(S) <= Cardinality(Open(d, t))
<1>1. Open(d, t) \in SUBSET handlers
  BY DEF Open
<1>2. IsFiniteSet(Open(d, t))
  BY <1>1, FS_Subset
<1>3. \A S \in SUBSET Open(d, t) :
        IsFiniteSet(S) /\ Cardinality(S) <= Cardinality(Open(d, t))
  BY <1>2, FS_Subset
<1>4. QED
  BY <1>2, <1>3, FS_CardinalityType

\* What a handler found for depth d goes back to is one of its function's
\* instructions.
LEMMA GoesBackTo ==
  ASSUME CloseInv, NEW h \in handlers, h.kind # "MARK"
  PROVE  /\ h.func \in DOMAIN prog.code /\ h.target \in DOMAIN prog.code[h.func]
         /\ h.act \in 1..Depth /\ Depth \in Nat /\ h.func = FnAt(h.act)
         /\ TriesOf(h.func)[h.target] \in Nat
<1>1. h.act \in 1..Depth /\ h.func = FuncAt(h.act) /\ Depth \in Nat
  <2>1. Len(frames) \in Nat
    BY LenProperties DEF CloseInv, NestInv, IInv, TypeOK
  <2>2. QED
    BY <2>1 DEF CloseInv, NestInv, IInv, TypeOK, Handlers, HInv, HandlersLive, Depth
<1>2. FnAt(h.act) = h.func /\ h.func \in DOMAIN prog.code
  BY <1>1, ActivationOK DEF CloseInv, NestInv, IInv
<1>3. h.target \in DOMAIN prog.code[h.func]
  BY <1>1, <1>2, JumpTarget DEF CloseInv, NestInv, IInv, Code
<1>4. QED
  BY <1>1, <1>2, <1>3, TriesOfClose DEF CloseInv

\* Where a saved caller goes on, and where the current activation is.
LEMMA PcAtOK ==
  ASSUME CloseInv, NEW d \in 1..Depth
  PROVE  /\ FnAt(d) \in DOMAIN prog.code /\ PcAt(d) \in DOMAIN prog.code[FnAt(d)]
         /\ TriesOf(FnAt(d))[PcAt(d)] \in Nat
<1>1. FnAt(d) \in DOMAIN prog.code
  BY ActivationOK DEF CloseInv, NestInv, IInv
<1>2. PcAt(d) \in DOMAIN prog.code[FnAt(d)]
  <2>1. CASE d = Depth
    BY <2>1 DEF CloseInv, NestInv, IInv, TypeOK, PcAt, FnAt, Code
  <2>2. CASE d # Depth
    <3>1. d \in 1..Len(frames)
      BY <2>2, LenProperties DEF Depth, CloseInv, NestInv, IInv, TypeOK
    <3>2. Resumable(frames[d])
      BY <3>1 DEF CloseInv, NestInv, IInv, TypeOK
    <3>3. QED
      BY <2>2, <3>2 DEF Resumable, PcAt, FnAt, Code
  <2>3. QED
    BY <2>1, <2>2
<1>3. QED
  BY <1>1, <1>2, TriesOfClose DEF CloseInv

\* What a step has to keep that goes on at depth d and pushes no handler.
LEMMA BackTo ==
  ASSUME CloseInv, NestInv', NEW d \in 1..Depth, UNCHANGED <<prog, tryCounter>>,
         handlers' \subseteq handlers, Depth' = d, FnAt(d)' = FnAt(d),
         \A e \in 1..d : e < d => FnAt(e)' = FnAt(e) /\ PcAt(e)' = PcAt(e),
         \A x \in handlers : x.act < d => x \in handlers',
         \A x \in handlers' : x.kind # "MARK" => Open(x.act, x.tid) \subseteq handlers',
         status' = "running" =>
           Cardinality(Open(d, tryCounter)') >= TriesOf(FnAt(d))[pc']
  PROVE  CloseInv'
<1>1. \A f : TriesOf(f)' = TriesOf(f)
  BY DEF TriesOf
<1>2. Depth \in Nat /\ d \in Nat
  <2>1. Len(frames) \in Nat
    BY LenProperties DEF CloseInv, NestInv, IInv, TypeOK
  <2>2. QED
    BY <2>1 DEF Depth
<1>3. IsFiniteSet(handlers)
  BY DEF CloseInv, Shapes
<1>4. Shapes'
  <2>1. IsFiniteSet(handlers')
    BY <1>3, FS_Subset
  <2>2. QED
    BY <2>1 DEF CloseInv, Shapes
<1>5. GoingBack'
  <2>1. SUFFICES ASSUME NEW x \in handlers', x.kind # "MARK"
                 PROVE  Cardinality(Open(x.act, x.tid)') >= TriesOf(x.func)[x.target]
    BY <1>1 DEF GoingBack, Open
  <2>2. Open(x.act, x.tid)' = Open(x.act, x.tid)
    BY <2>1 DEF Open
  <2>3. QED
    BY <2>1, <2>2 DEF CloseInv, GoingBack
<1>6. Reached'
  <2>1. SUFFICES ASSUME NEW e \in 1..d, e = d => status' = "running"
                 PROVE  Cardinality(Open(e, tryCounter)') >= TriesOf(FnAt(e)')[PcAt(e)']
    BY <1>1 DEF Reached, Open
  <2>2. CASE e = d
    BY <2>1, <2>2 DEF PcAt
  <2>3. CASE e # d
    <3>1. e \in 1..Depth /\ e < d /\ e # Depth
      BY <1>2, <2>3
    <3>2. Open(e, tryCounter)' = Open(e, tryCounter)
      BY <3>1 DEF Open
    <3>3. FnAt(e)' = FnAt(e) /\ PcAt(e)' = PcAt(e)
      BY <3>1
    <3>4. QED
      BY <3>1, <3>2, <3>3 DEF CloseInv, Reached
  <2>4. QED
    BY <2>2, <2>3
<1>7. TriesClose(prog)'
  BY DEF CloseInv, TriesClose, Closes
<1>8. QED
  BY <1>4, <1>5, <1>6, <1>7 DEF CloseInv

\* Entering a handler, or going on where no more tries are open than there,
\* when everything that is older than it stays.
LEMMA BackToHandler ==
  ASSUME CloseInv, NestInv', NEW d \in 1..Depth, UNCHANGED <<prog, tryCounter>>,
         handlers' \subseteq handlers, Depth' = d, FnAt(d)' = FnAt(d),
         \A e \in 1..d : e < d => FnAt(e)' = FnAt(e) /\ PcAt(e)' = PcAt(e),
         NEW h \in handlers, h.kind # "MARK", h.act = d,
         \A x \in handlers : x.act <= d /\ x.tid < h.tid => x \in handlers',
         \A x \in handlers' : x.kind # "MARK" => x.act <= d /\ x.tid <= h.tid,
         TriesOf(FnAt(d))[pc'] \in Nat,
         TriesOf(FnAt(d))[pc'] <= TriesOf(h.func)[h.target]
  PROVE  CloseInv'
<1>1. /\ d \in Nat /\ h.tid \in Nat /\ h.tid < tryCounter /\ tryCounter \in Nat
      /\ \A x \in handlers : x.act \in Nat /\ x.tid \in Nat /\ (x.act < d => x.tid < h.tid)
  <2>1. \A x \in handlers : x.act \in Nat /\ x.tid \in Nat
    BY DEF CloseInv, NestInv, IInv, TypeOK, Handlers
  <2>2. QED
    BY <2>1 DEF CloseInv, NestInv, IInv, TypeOK, HInv, HandlersNested, GroupsOK
<1>2. \A x \in handlers : x.act < d => x \in handlers'
  BY <1>1
<1>3. \A x \in handlers' : x.kind # "MARK" => Open(x.act, x.tid) \subseteq handlers'
  <2>1. SUFFICES ASSUME NEW x \in handlers', x.kind # "MARK", NEW y \in Open(x.act, x.tid)
                 PROVE  y \in handlers'
    OBVIOUS
  <2>2. y \in handlers /\ y.act = x.act /\ y.tid < x.tid /\ x \in handlers
    BY <2>1 DEF Open
  <2>3. x.act <= d /\ x.tid <= h.tid
    BY <2>1
  <2>4. QED
    BY <1>1, <2>2, <2>3
<1>4. Cardinality(Open(d, tryCounter)') >= TriesOf(FnAt(d))[pc']
  <2>1. Open(d, h.tid) \in SUBSET (Open(d, tryCounter)')
    BY <1>1 DEF Open
  <2>2. IsFiniteSet(handlers) /\ IsFiniteSet(handlers')
    BY FS_Subset DEF CloseInv, Shapes
  <2>3. Open(d, tryCounter)' \in SUBSET Open(d, tryCounter)
    BY DEF Open
  <2>4. /\ IsFiniteSet(Open(d, tryCounter)') /\ Cardinality(Open(d, tryCounter)') \in Nat
    BY <2>2, <2>3, OpenSize
  <2>5. Cardinality(Open(d, h.tid)) \in Nat
        /\ Cardinality(Open(d, h.tid)) <= Cardinality(Open(d, tryCounter)')
    BY <2>1, <2>2, <2>4, OpenSize, FS_Subset
  <2>6. Cardinality(Open(d, h.tid)) >= TriesOf(h.func)[h.target]
    BY DEF CloseInv, GoingBack
  <2>7. TriesOf(h.func)[h.target] \in Nat
    BY GoesBackTo
  <2>8. QED
    BY <2>4, <2>5, <2>6, <2>7
<1>5. QED
  BY <1>2, <1>3, <1>4, BackTo

\* A step that leaves the handlers alone and goes on where no more tries have
\* to be open.
LEMMA SameHandlers ==
  ASSUME CloseInv, NestInv', UNCHANGED <<prog, tryCounter, handlers, fn, frames>>,
         status' = "running" =>
           /\ status = "running" /\ TriesOf(fn)[pc'] \in Nat
           /\ TriesOf(fn)[pc'] <= TriesOf(fn)[pc]
  PROVE  CloseInv'
<1>1. Depth \in Nat /\ Depth \in 1..Depth
  <2>1. Len(frames) \in Nat
    BY LenProperties DEF CloseInv, NestInv, IInv, TypeOK
  <2>2. QED
    BY <2>1 DEF Depth
<1>2. Depth' = Depth /\ FnAt(Depth) = fn /\ PcAt(Depth) = pc
  BY DEF Depth, FnAt, PcAt
<1>3. FnAt(Depth)' = FnAt(Depth)
  BY <1>2 DEF FnAt, Depth
<1>4. \A e \in 1..Depth : e < Depth => FnAt(e)' = FnAt(e) /\ PcAt(e)' = PcAt(e)
  BY <1>1, <1>2 DEF FnAt, PcAt
<1>5. Open(Depth, tryCounter)' = Open(Depth, tryCounter)
  BY <1>2 DEF Open
<1>6. status' = "running" => Cardinality(Open(Depth, tryCounter)') >= TriesOf(FnAt(Depth))[pc']
  <2>1. SUFFICES ASSUME status' = "running"
                 PROVE  Cardinality(Open(Depth, tryCounter)) >= TriesOf(fn)[pc']
    BY <1>2, <1>5
  <2>2. Cardinality(Open(Depth, tryCounter)) >= TriesOf(fn)[pc]
    BY <1>1, <1>2, <2>1 DEF CloseInv, Reached
  <2>3. Cardinality(Open(Depth, tryCounter)) \in Nat /\ TriesOf(fn)[pc] \in Nat
    BY <1>1, <1>2, OpenSize, PcAtOK DEF CloseInv, Shapes
  <2>4. QED
    BY <2>1, <2>2, <2>3
<1>7. \A x \in handlers' : x.kind # "MARK" => Open(x.act, x.tid) \subseteq handlers'
  BY DEF Open
<1>8. QED
  BY <1>1, <1>2, <1>3, <1>4, <1>6, <1>7, BackTo

\* What Closes says of the current instruction.
LEMMA InsCloses ==
  ASSUME CloseInv
  PROVE  /\ \A i \in DOMAIN Code(fn) : TriesOf(fn)[i] \in Nat
         /\ Ins.op = "ENDTRY" => TriesOf(fn)[pc] > 0
                                 /\ TriesOf(fn)[pc + 1] <= TriesOf(fn)[pc] - 1
         /\ Ins.op = "TRY" => TriesOf(fn)[pc + 1] <= TriesOf(fn)[pc] + 1
         /\ Flows(Ins) /\ Ins.op \notin {"TRY", "ENDTRY"} =>
              TriesOf(fn)[pc + 1] <= TriesOf(fn)[pc]
         /\ Ins.op \in {"JMP", "JZ"} => TriesOf(fn)[Ins.to] <= TriesOf(fn)[pc]
         /\ Ins.op = "TRY" /\ Ins.hasCatch => TriesOf(fn)[Ins.catch] <= TriesOf(fn)[pc]
         /\ Ins.op = "TRY" /\ Ins.hasFinally => TriesOf(fn)[Ins.finally] <= TriesOf(fn)[pc]
         /\ Ins.op # "RETURN_VOID" => pc + 1 \in DOMAIN Code(fn)
         /\ pc \in DOMAIN Code(fn) /\ fn \in DOMAIN prog.code
<1>1. fn \in DOMAIN prog.code /\ pc \in DOMAIN Code(fn)
  BY DEF CloseInv, NestInv, IInv, TypeOK
<1>2. TriesOf(fn) \in [DOMAIN prog.code[fn] -> Nat] /\ Closes(prog, fn, TriesOf(fn))
  BY <1>1, TriesOfClose DEF CloseInv
<1>3. \A i \in DOMAIN Code(fn) : TriesOf(fn)[i] \in Nat
  BY <1>2 DEF Code
<1>4. Ins.op # "RETURN_VOID" => pc + 1 \in DOMAIN Code(fn)
  BY <1>1, NextInstr DEF CloseInv, NestInv, IInv
<1>5. QED
  BY <1>1, <1>2, <1>3, <1>4 DEF Closes, Ins, Code

\* Instructions that only compute, and the ends of a run.
LEMMA LocalCloses ==
  ASSUME CloseInv, NestInv',
         \/ Push \/ LoadLocal \/ StoreLocal \/ Pop \/ Println \/ Add \/ Fail
         \/ CallExtern \/ Jmp \/ Jz \/ UNCHANGED vars
         \/ \E v : Abort("uncaught", v)
  PROVE  CloseInv'
<1>1. CASE Straight /\ prog' = prog /\ status = "running" /\ Flows(Ins)
           /\ Ins.op \notin {"TRY", "ENDTRY", "RETURN_VOID"}
  <2>1. pc' = pc + 1 /\ UNCHANGED <<tryCounter, handlers, fn, frames, status>>
    BY <1>1 DEF Straight, context, unwind, ending
  <2>2. TriesOf(fn)[pc'] \in Nat /\ TriesOf(fn)[pc'] <= TriesOf(fn)[pc]
    BY <1>1, <2>1, InsCloses
  <2>3. QED
    BY <1>1, <2>1, <2>2, SameHandlers
<1>2. CASE Push \/ LoadLocal \/ StoreLocal \/ Pop \/ Println \/ CallExtern
  BY <1>1, <1>2 DEF Push, LoadLocal, StoreLocal, Pop, Println, CallExtern, Fetch, env, Flows
<1>3. ASSUME NEW how \in {"error", "uncaught"}, NEW v, Abort(how, v) PROVE CloseInv'
  <2>1. UNCHANGED <<prog, tryCounter, handlers, fn, frames>> /\ status' # "running"
    BY <1>3 DEF Abort, env, context, unwind
  <2>2. QED
    BY <2>1, SameHandlers
<1>4. CASE Add \/ Fail
  <2>1. CASE Straight /\ prog' = prog /\ Fetch("ADD")
    BY <1>1, <2>1 DEF Fetch, Flows
  <2>2. QED
    BY <1>3, <1>4, <2>1 DEF Add, Fail, env
<1>5. CASE Jmp \/ Jz
  <2>1. /\ UNCHANGED <<prog, tryCounter, handlers, fn, frames, status>>
        /\ status = "running" /\ Ins.op \in {"JMP", "JZ"}
        /\ pc' = Ins.to \/ (Ins.op = "JZ" /\ pc' = pc + 1)
    BY <1>5 DEF Jmp, Jz, Fetch, context, unwind, env, ending
  <2>2. Ins.to \in DOMAIN Code(fn)
    BY <2>1, InsOK DEF WellFormedInstr, CloseInv, NestInv, IInv, Code
  <2>3. TriesOf(fn)[pc'] \in Nat /\ TriesOf(fn)[pc'] <= TriesOf(fn)[pc]
    BY <2>1, <2>2, InsCloses DEF Flows
  <2>4. QED
    BY <2>1, <2>3, SameHandlers
<1>6. CASE UNCHANGED vars
  <2>1. /\ UNCHANGED <<prog, tryCounter, handlers, fn, frames>>
        /\ pc' = pc /\ status' = status
    BY <1>6 DEF vars
  <2>2. TriesOf(fn)[pc] \in Nat /\ TriesOf(fn)[pc] <= TriesOf(fn)[pc]
    BY InsCloses
  <2>3. QED
    BY <2>1, <2>2, SameHandlers
<1>7. QED
  BY <1>2, <1>3, <1>4, <1>5, <1>6

\* A step that stays in the activation, for BackTo.
LEMMA SameDepth ==
  ASSUME CloseInv, UNCHANGED <<fn, frames>>
  PROVE  /\ Depth \in Nat /\ Depth \in 1..Depth /\ Depth' = Depth
         /\ FnAt(Depth) = fn /\ FnAt(Depth)' = FnAt(Depth)
         /\ FuncAt(Depth) = Cur
         /\ \A e \in 1..Depth : e < Depth => FnAt(e)' = FnAt(e) /\ PcAt(e)' = PcAt(e)
<1>1. Depth \in Nat /\ Depth \in 1..Depth
  <2>1. Len(frames) \in Nat
    BY LenProperties DEF CloseInv, NestInv, IInv, TypeOK
  <2>2. QED
    BY <2>1 DEF Depth
<1>2. Depth' = Depth /\ FnAt(Depth) = fn /\ FuncAt(Depth) = Cur
  BY DEF Depth, FnAt, FuncAt
<1>3. FnAt(Depth)' = FnAt(Depth)
  BY <1>2 DEF FnAt, Depth
<1>4. \A e \in 1..Depth : e < Depth => FnAt(e)' = FnAt(e) /\ PcAt(e)' = PcAt(e)
  BY <1>1, <1>2 DEF FnAt, PcAt
<1>5. QED
  BY <1>1, <1>2, <1>3, <1>4

\* A step back to a saved activation, for BackTo.
LEMMA ResumeDepth ==
  ASSUME CloseInv, NEW d \in 1..Len(frames), Resume(d)
  PROVE  /\ d \in 1..Depth /\ d \in Nat /\ Depth' = d /\ d < Depth
         /\ FnAt(d)' = FnAt(d) /\ PcAt(d) = frames[d].pc
         /\ \A e \in 1..d : e < d => FnAt(e)' = FnAt(e) /\ PcAt(e)' = PcAt(e)
<1>1. frames \in Seq(Frames) /\ Len(frames) \in Nat
  <2>1. frames \in Seq(Frames)
    BY DEF CloseInv, NestInv, IInv, TypeOK
  <2>2. QED
    BY <2>1, LenProperties
<1>2. Depth' = d /\ d < Depth /\ d \in Nat /\ \A e \in 1..d : FnAt(e)' = FnAt(e)
  BY ResumeFns DEF CloseInv, NestInv
<1>3. Depth = Len(frames) + 1
  BY DEF Depth
<1>4. \A e \in 1 .. d - 1 : frames'[e] = frames[e]
  BY <1>1, FramesBelow DEF Resume
<1>5. \A e \in 1..d : e < d => PcAt(e)' = PcAt(e)
  <2>1. SUFFICES ASSUME NEW e \in 1..d, e < d PROVE PcAt(e)' = PcAt(e)
    OBVIOUS
  <2>2. e \in 1 .. d - 1 /\ e # Depth /\ e # d
    BY <1>1, <1>2, <1>3, <2>1
  <2>3. QED
    BY <1>2, <1>4, <2>2 DEF PcAt
<1>6. PcAt(d) = frames[d].pc
  BY <1>1, <1>3 DEF PcAt
<1>7. d \in 1..Depth
  BY <1>1, <1>3
<1>8. QED
  BY <1>1, <1>2, <1>5, <1>6, <1>7

\* The types of what the proofs compare.
LEMMA HandlerFacts ==
  ASSUME CloseInv
  PROVE  /\ tryCounter \in Nat /\ Depth \in Nat
         /\ \A x \in handlers : /\ x.act \in Nat /\ x.act \in 1..Depth /\ x.func = FuncAt(x.act)
                                /\ x.tid \in Nat /\ x.tid < tryCounter
                                /\ x.kind \in {"MARK", "CATCH", "FINALLY"}
         /\ \A x, y \in handlers : x.act < y.act => x.tid < y.tid
         /\ \A x, y \in handlers : x.tid = y.tid => x.act = y.act /\ (x.kind = y.kind => x = y)
<1>1. Len(frames) \in Nat /\ tryCounter \in Nat /\ handlers \subseteq Handlers
  BY LenProperties DEF CloseInv, NestInv, IInv, TypeOK
<1>2. HandlersLive /\ GroupsOK /\ HandlersNested
  BY DEF CloseInv, NestInv, IInv, HInv
<1>3. \A x \in handlers : x.act \in Nat \ {0} /\ x.tid \in Nat
                          /\ x.kind \in {"MARK", "CATCH", "FINALLY"}
  BY <1>1 DEF Handlers, Rank
<1>4. \A x \in handlers : x.act <= Depth /\ x.func = FuncAt(x.act)
  BY <1>2 DEF HandlersLive
<1>5. QED
  BY <1>1, <1>2, <1>3, <1>4 DEF GroupsOK, HandlersNested, Depth

\* Where a try ends, the activation has begun one.
LEMMA OpenHere ==
  ASSUME CloseInv, Fetch("ENDTRY")
  PROVE  Open(Depth, tryCounter) # {}
<1>1. status = "running" /\ Ins.op = "ENDTRY"
  BY DEF Fetch
<1>2. Depth \in 1..Depth /\ FnAt(Depth) = fn /\ PcAt(Depth) = pc
  BY HandlerFacts, ActivationOK DEF Depth, FnAt, PcAt, CloseInv, NestInv, IInv, TypeOK
<1>3. Cardinality(Open(Depth, tryCounter)) >= TriesOf(fn)[pc] /\ TriesOf(fn)[pc] > 0
      /\ TriesOf(fn)[pc] \in Nat
  BY <1>1, <1>2, InsCloses DEF CloseInv, Reached
<1>4. QED
  BY <1>3, FS_EmptySet

\* OP_ENDTRY ends a try of the current activation.
LEMMA EndTryOwn ==
  ASSUME CloseInv, EndTry
  PROVE  \E h \in Open(Depth, tryCounter) :
           /\ handlers' = OlderThan(h.tid)
           /\ \A x \in handlers : x.tid >= h.tid => x.act = Depth
           /\ \A x \in handlers : x.kind = "MARK" => x = h \/ x.tid < h.tid
<1>1. status = "running" /\ Ins.op = "ENDTRY"
  BY DEF EndTry, Fetch
<1>2. Depth \in 1..Depth /\ FnAt(Depth) = fn /\ PcAt(Depth) = pc
  BY HandlerFacts, ActivationOK DEF Depth, FnAt, PcAt, CloseInv, NestInv, IInv, TypeOK
<1>3. Fetch("ENDTRY")
  BY <1>1 DEF Fetch
<1>4. Open(Depth, tryCounter) # {}
  BY <1>3, OpenHere
<1>5. PICK y \in Open(Depth, tryCounter) : TRUE
  BY <1>4
<1>6. y \in Marks /\ y.act = Depth /\ y \in handlers
  BY <1>5 DEF Open, Marks
<1>7. PICK h \in Topmost(Marks) : handlers' = OlderThan(h.tid)
  BY <1>6 DEF EndTry
<1>8. h \in handlers /\ h.kind = "MARK" /\ \A x \in Marks : Below(x, h)
  BY <1>7 DEF Topmost, Marks
<1>9. \A x \in Marks : x.tid <= h.tid
  BY <1>8, HandlerFacts DEF Below, Marks
<1>10. h.act = Depth
  <2>1. y.tid <= h.tid /\ h.act <= Depth /\ y.tid \in Nat /\ h.tid \in Nat /\ h.act \in Nat
    BY <1>6, <1>8, <1>9, HandlerFacts
  <2>2. ~(h.act < y.act)
    BY <1>6, <1>8, <2>1, HandlerFacts
  <2>3. QED
    BY <1>6, <2>1, <2>2, HandlerFacts
<1>11. h \in Open(Depth, tryCounter)
  BY <1>8, <1>10, HandlerFacts DEF Open
<1>12. \A x \in handlers : x.tid >= h.tid => x.act = Depth
  <2>1. SUFFICES ASSUME NEW x \in handlers, x.tid >= h.tid PROVE x.act = Depth
    OBVIOUS
  <2>2. x.act \in Nat /\ x.act <= Depth /\ x.tid \in Nat /\ h.tid \in Nat /\ Depth \in Nat
        /\ (x.act < h.act => x.tid < h.tid)
    BY <1>8, <2>1, HandlerFacts
  <2>3. QED
    BY <1>10, <2>1, <2>2
<1>13. \A x \in handlers : x.kind = "MARK" => x = h \/ x.tid < h.tid
  <2>1. SUFFICES ASSUME NEW x \in handlers, x.kind = "MARK", x.tid # h.tid PROVE x.tid < h.tid
    BY <1>8, HandlerFacts
  <2>2. x.tid <= h.tid /\ x.tid \in Nat /\ h.tid \in Nat
    BY <1>8, <1>9, <2>1, HandlerFacts DEF Marks
  <2>3. QED
    BY <2>1, <2>2
<1>14. QED
  BY <1>7, <1>11, <1>12, <1>13

\* So its activation has one less, and no other loses any.
LEMMA EndTryCloses ==
  ASSUME CloseInv, NestInv', EndTry
  PROVE  CloseInv'
<1>1. PICK h \in Open(Depth, tryCounter) :
           /\ handlers' = OlderThan(h.tid)
           /\ \A x \in handlers : x.tid >= h.tid => x.act = Depth
           /\ \A x \in handlers : x.kind = "MARK" => x = h \/ x.tid < h.tid
  BY EndTryOwn
<1>2. UNCHANGED <<prog, tryCounter, fn, frames>> /\ pc' = pc + 1 /\ status = "running"
      /\ Ins.op = "ENDTRY"
  BY DEF EndTry, Fetch, context, env
<1>3. /\ Depth \in Nat /\ Depth \in 1..Depth /\ Depth' = Depth /\ FnAt(Depth) = fn
      /\ FnAt(Depth)' = FnAt(Depth)
      /\ \A e \in 1..Depth : e < Depth => FnAt(e)' = FnAt(e) /\ PcAt(e)' = PcAt(e)
  BY <1>2, SameDepth
<1>4. handlers' \subseteq handlers /\ h \in handlers /\ h.tid \in Nat
      /\ \A x \in handlers : x.tid \in Nat /\ x.act \in Nat
  BY <1>1, HandlerFacts DEF OlderThan, Open
<1>5. \A x \in handlers : x.act < Depth => x \in handlers'
  <2>1. SUFFICES ASSUME NEW x \in handlers, x.act < Depth PROVE x.tid < h.tid
    BY <1>1 DEF OlderThan
  <2>2. ~(x.tid >= h.tid)
    BY <1>1, <1>3, <1>4, <2>1
  <2>3. QED
    BY <1>4, <2>2
<1>6. \A x \in handlers' : x.kind # "MARK" => Open(x.act, x.tid) \subseteq handlers'
  <2>1. SUFFICES ASSUME NEW x \in handlers', NEW y \in Open(x.act, x.tid) PROVE y \in handlers'
    OBVIOUS
  <2>2. y \in handlers /\ y.tid < x.tid /\ x.tid < h.tid /\ x \in handlers
    BY <1>1, <2>1 DEF Open, OlderThan
  <2>3. QED
    BY <1>1, <1>4, <2>2 DEF OlderThan
<1>7. Open(Depth, tryCounter)' = Open(Depth, tryCounter) \ {h}
  <2>1. \A x \in Open(Depth, tryCounter) : x \in handlers' <=> x # h
    BY <1>1, <1>4 DEF Open, OlderThan
  <2>2. Open(Depth, tryCounter)' = {x \in Open(Depth, tryCounter) : x \in handlers'}
    BY <1>2, <1>3, <1>4 DEF Open
  <2>3. QED
    BY <2>1, <2>2
<1>8. Cardinality(Open(Depth, tryCounter)') >= TriesOf(FnAt(Depth))[pc']
  <2>1. IsFiniteSet(Open(Depth, tryCounter)) /\ Cardinality(Open(Depth, tryCounter)) \in Nat
    BY OpenSize DEF CloseInv, Shapes
  <2>2. Cardinality(Open(Depth, tryCounter)') = Cardinality(Open(Depth, tryCounter)) - 1
    BY <1>1, <1>7, <2>1, FS_RemoveElement
  <2>3. PcAt(Depth) = pc
    BY DEF PcAt
  <2>4. Cardinality(Open(Depth, tryCounter)) >= TriesOf(fn)[pc]
    BY <1>2, <1>3, <2>3 DEF CloseInv, Reached
  <2>5. TriesOf(fn)[pc + 1] <= TriesOf(fn)[pc] - 1 /\ TriesOf(fn)[pc + 1] \in Nat
        /\ TriesOf(fn)[pc] \in Nat
    BY <1>2, InsCloses
  <2>6. QED
    BY <1>2, <1>3, <2>1, <2>2, <2>4, <2>5
<1>9. QED
  BY <1>2, <1>3, <1>4, <1>5, <1>6, <1>8, BackTo

\* A finally of the current function that is found belongs to the current
\* activation, and so does all above it.
LEMMA FoundOwn ==
  ASSUME CloseInv, NEW d \in 1..Depth, NEW S, S \subseteq handlers,
         \A x \in S : x.kind # "MARK" /\ x.func = FuncAt(d), NEW h \in Topmost(S)
  PROVE  /\ h \in handlers /\ h.kind # "MARK" /\ h.act = d /\ h.tid \in Nat
         /\ h.func = FnAt(d)
         /\ \A x \in handlers : x.tid >= h.tid => ~(x.act < d)
         /\ \A x \in S : x.tid <= h.tid
<1>1. h \in S /\ \A x \in S : Below(x, h)
  BY DEF Topmost
<1>2. h \in handlers /\ h.kind # "MARK" /\ h.act = d
  BY <1>1, OwnFunc DEF CloseInv
<1>3. h.func = FnAt(d) /\ h.tid \in Nat
  BY <1>1, <1>2, HandlerFacts, GoesBackTo
<1>4. \A x \in handlers : x.tid >= h.tid => ~(x.act < d)
  <2>1. SUFFICES ASSUME NEW x \in handlers, x.act < d, x.tid >= h.tid PROVE FALSE
    OBVIOUS
  <2>2. x.tid < h.tid /\ x.tid \in Nat /\ h.tid \in Nat
    BY <1>2, <2>1, HandlerFacts
  <2>3. QED
    BY <2>1, <2>2
<1>5. \A x \in S : x.tid <= h.tid
  BY <1>1, <1>2, HandlerFacts DEF Below
<1>6. QED
  BY <1>2, <1>3, <1>4, <1>5

\* A step that goes on at the finally h of the current function, or behind
\* one that has no more tries open.
LEMMA CutCloses ==
  ASSUME CloseInv, NestInv', UNCHANGED <<prog, tryCounter, fn, frames>>,
         NEW h \in Topmost(FinallyOf(Cur)), handlers' = OlderThan(h.tid),
         TriesOf(fn)[pc'] \in Nat, TriesOf(fn)[pc'] <= TriesOf(h.func)[h.target]
  PROVE  CloseInv'
<1>1. /\ Depth \in Nat /\ Depth \in 1..Depth /\ Depth' = Depth /\ FnAt(Depth) = fn
      /\ FnAt(Depth)' = FnAt(Depth) /\ FuncAt(Depth) = Cur
      /\ \A e \in 1..Depth : e < Depth => FnAt(e)' = FnAt(e) /\ PcAt(e)' = PcAt(e)
  BY SameDepth
<1>2. /\ h \in handlers /\ h.kind # "MARK" /\ h.act = Depth /\ h.tid \in Nat
  <2>1. FinallyOf(Cur) \subseteq handlers
        /\ \A x \in FinallyOf(Cur) : x.kind # "MARK" /\ x.func = FuncAt(Depth)
    BY <1>1 DEF FinallyOf
  <2>2. QED
    BY <1>1, <2>1, FoundOwn
<1>3. handlers' \subseteq handlers
  BY DEF OlderThan
<1>4. \A x \in handlers : x.act <= Depth /\ x.tid < h.tid => x \in handlers'
  BY DEF OlderThan
<1>5. \A x \in handlers' : x.kind # "MARK" => x.act <= Depth /\ x.tid <= h.tid
  <2>1. SUFFICES ASSUME NEW x \in handlers' PROVE x.act <= Depth /\ x.tid <= h.tid
    OBVIOUS
  <2>2. x.tid < h.tid /\ x.tid \in Nat /\ x.act <= Depth
    BY <1>3, HandlerFacts DEF OlderThan
  <2>3. QED
    BY <1>2, <2>2
<1>6. QED
  BY <1>1, <1>2, <1>3, <1>4, <1>5, BackToHandler

\* return_value.
LEMMA ReturnCloses ==
  ASSUME CloseInv, NestInv', NEW v, NEW stk, ReturnValue(v, stk)
  PROVE  CloseInv'
<1>1. Len(frames) \in Nat /\ Depth = Len(frames) + 1 /\ Depth \in 1..Depth
      /\ FuncAt(Depth) = Cur
  BY LenProperties DEF CloseInv, NestInv, IInv, TypeOK, Depth, FuncAt
<1>2. CASE FinallyThenReturn(v, stk)
  <2>1. PICK h \in Topmost(FinallyOf(Cur)) :
          /\ handlers' = OlderThan(h.tid) /\ pc' = h.target
          /\ UNCHANGED <<prog, tryCounter, fn, frames>>
    BY <1>2 DEF FinallyThenReturn, context, env
  <2>2. FinallyOf(Cur) \subseteq handlers
        /\ \A x \in FinallyOf(Cur) : x.kind # "MARK" /\ x.func = FuncAt(Depth)
    BY <1>1 DEF FinallyOf
  <2>3. h \in handlers /\ h.kind # "MARK" /\ h.func = FnAt(Depth)
    BY <1>1, <2>2, FoundOwn
  <2>4. h.func = fn /\ TriesOf(fn)[pc'] \in Nat
    BY <2>1, <2>3, GoesBackTo DEF FnAt
  <2>5. QED
    BY <2>1, <2>4, CutCloses
<1>3. CASE ReturnToCaller(v, stk)
  <2>1. PICK d \in 1..Len(frames) :
          /\ d = Len(frames) /\ Resume(d) /\ handlers' = NotOf({Cur})
          /\ UNCHANGED <<prog, tryCounter>> /\ pc' = frames[d].pc
    <3>1. frames # <<>> /\ frames \in Seq(Frames)
      BY <1>3 DEF ReturnToCaller, CloseInv, NestInv, IInv, TypeOK
    <3>2. Len(frames) \in 1..Len(frames)
      BY <1>1, <3>1, EmptySeq
    <3>3. QED
      BY <1>3, <3>2 DEF ReturnToCaller, env
  <2>2. /\ d \in 1..Depth /\ d \in Nat /\ Depth' = d /\ d < Depth
        /\ FnAt(d)' = FnAt(d) /\ PcAt(d) = frames[d].pc
        /\ \A e \in 1..d : e < d => FnAt(e)' = FnAt(e) /\ PcAt(e)' = PcAt(e)
    BY <2>1, ResumeDepth
  <2>3. \A x \in handlers : x.act <= d => x \in handlers'
    <3>1. SUFFICES ASSUME NEW x \in handlers, x.func = Cur PROVE ~(x.act <= d)
      BY <2>1 DEF NotOf
    <3>2. x.act = Depth
      BY <1>1, <3>1, OwnFunc DEF CloseInv
    <3>3. QED
      BY <1>1, <2>2, <3>2
  <2>4. handlers' \subseteq handlers
    BY <2>1 DEF NotOf
  <2>5. \A x \in handlers' : x.act <= d
    <3>1. SUFFICES ASSUME NEW x \in handlers' PROVE x.act <= d
      OBVIOUS
    <3>2. x.func # Cur /\ x.func = FuncAt(x.act) /\ x.act \in 1..Depth
      BY <2>1, <2>4, HandlerFacts DEF NotOf
    <3>3. x.act # Depth
      BY <1>1, <3>2
    <3>4. QED
      BY <1>1, <2>1, <3>2, <3>3
  <2>6. \A x \in handlers' : x.kind # "MARK" => Open(x.act, x.tid) \subseteq handlers'
    BY <2>3, <2>5 DEF Open
  <2>7. Open(d, tryCounter)' = Open(d, tryCounter)
    <3>1. \A x \in handlers : x.act = d => x \in handlers'
      BY <2>2, <2>3
    <3>2. QED
      BY <2>1, <2>4, <3>1 DEF Open
  <2>8. Cardinality(Open(d, tryCounter)') >= TriesOf(FnAt(d))[pc']
    <3>1. d # Depth
      BY <2>2
    <3>2. QED
      BY <2>1, <2>2, <2>7, <3>1 DEF CloseInv, Reached
  <2>9. \A x \in handlers : x.act < d => x \in handlers'
    <3>1. SUFFICES ASSUME NEW x \in handlers, x.act < d PROVE x.act <= d
      BY <2>3
    <3>2. x.act \in Nat
      BY HandlerFacts
    <3>3. QED
      BY <2>2, <3>1, <3>2
  <2>10. QED
    BY <2>1, <2>2, <2>4, <2>6, <2>8, <2>9, BackTo
<1>4. CASE FinishMain(v, stk)
  <2>1. /\ frames = <<>> /\ handlers' = NotOf({Cur}) /\ status' # "running"
        /\ UNCHANGED <<prog, tryCounter, fn, frames>>
    BY <1>4 DEF FinishMain, context, env
  <2>2. /\ Depth' = Depth /\ FnAt(Depth)' = FnAt(Depth)
        /\ \A e \in 1..Depth : e < Depth => FnAt(e)' = FnAt(e) /\ PcAt(e)' = PcAt(e)
    BY <2>1, SameDepth
  <2>3. Depth = 1
    BY <2>1, EmptySeq DEF Depth
  <2>4. \A x \in handlers : x.act = 1 /\ x.func = Cur
    BY <1>1, <2>3, HandlerFacts
  <2>5. handlers' \subseteq handlers /\ handlers' = {}
    BY <2>1, <2>4 DEF NotOf
  <2>6. \A x \in handlers : x.act < Depth => x \in handlers'
    BY <2>3, <2>4
  <2>7. QED
    BY <1>1, <2>1, <2>2, <2>5, <2>6, BackTo
<1>5. QED
  BY <1>2, <1>3, <1>4 DEF ReturnValue

\* raise.
LEMMA RaiseCloses ==
  ASSUME CloseInv, NestInv', NEW v, NEW p, NEW stk, Raise(v, p, stk)
  PROVE  CloseInv'
<1>1. CASE Abort("uncaught", v)
  BY <1>1, LocalCloses
<1>2. ASSUME NEW d \in 1..Depth, NEW h \in Topmost(TargetsOf(FuncAt(d))),
             RaiseTo(d, h, v, p), UNCHANGED <<prog, tryCounter>>
      PROVE  CloseInv'
  <2>1. Len(frames) \in Nat /\ Depth = Len(frames) + 1 /\ d \in Nat /\ d <= Depth
    BY LenProperties DEF CloseInv, NestInv, IInv, TypeOK, Depth
  <2>2. /\ h \in handlers /\ h.kind # "MARK" /\ h.act = d /\ h.tid \in Nat
        /\ h.func = FnAt(d)
        /\ \A x \in TargetsOf(FuncAt(d)) : x.tid <= h.tid
    <3>1. TargetsOf(FuncAt(d)) \subseteq handlers
          /\ \A x \in TargetsOf(FuncAt(d)) : x.kind # "MARK" /\ x.func = FuncAt(d)
      BY DEF TargetsOf
    <3>2. QED
      BY <3>1, FoundOwn
  <2>3. Depth' = d /\ FnAt(d)' = FnAt(d)
        /\ \A e \in 1..d : e < d => FnAt(e)' = FnAt(e) /\ PcAt(e)' = PcAt(e)
    <3>1. CASE d = Depth /\ UNCHANGED context
      BY <3>1, SameDepth DEF context
    <3>2. CASE d < Depth /\ Resume(d)
      <4>1. d \in 1..Len(frames)
        BY <2>1, <3>2
      <4>2. QED
        BY <3>2, <4>1, ResumeDepth
    <3>3. QED
      BY <1>2, <3>1, <3>2 DEF RaiseTo
  <2>4. /\ pc' = h.target /\ handlers' \subseteq NotOf(Unwound(d))
        /\ \A x \in NotOf(Unwound(d)) : x.tid < h.tid => x \in handlers'
    <3>1. CASE EnterCatch(d, h, v, p)
      <4>1. handlers' = Caught(h, NotOf(Unwound(d))) /\ pc' = h.target
        BY <1>2, <3>1 DEF EnterCatch, RaiseTo
      <4>2. \A x \in NotOf(Unwound(d)) : x.tid < h.tid => x.tid # h.tid
        BY <2>2, HandlerFacts DEF NotOf
      <4>3. QED
        BY <4>1, <4>2 DEF Caught
    <3>2. CASE EnterFinally(d, h, v)
      BY <1>2, <3>2 DEF EnterFinally, RaiseTo, OlderThan, NotOf
    <3>3. QED
      BY <1>2, <3>1, <3>2 DEF RaiseTo
  <2>5. handlers' \subseteq handlers
    BY <2>4 DEF NotOf
  <2>6. \A x \in handlers : x.act <= d /\ x.tid < h.tid => x \in handlers'
    <3>1. SUFFICES ASSUME NEW x \in handlers, x.act <= d, x.func \in Unwound(d) PROVE FALSE
      BY <2>4 DEF NotOf
    <3>2. PICK e \in d + 1 .. Depth : x.func = FuncAt(e)
      BY <3>1 DEF Unwound
    <3>3. e \in 1..Depth /\ ~(e <= d)
      BY <2>1, <3>2
    <3>4. x.act = e
      BY <3>2, <3>3, OwnFunc DEF CloseInv
    <3>5. QED
      BY <3>1, <3>3, <3>4
  <2>7. \A x \in handlers' : x.kind # "MARK" => x.act <= d /\ x.tid <= h.tid
    <3>1. SUFFICES ASSUME NEW x \in handlers', x.kind # "MARK"
                   PROVE  x.act <= d /\ x.tid <= h.tid
      OBVIOUS
    <3>2. /\ x \in handlers /\ x.act \in Nat /\ x.act \in 1..Depth /\ x.func = FuncAt(x.act)
          /\ x.tid \in Nat
      BY <2>5, HandlerFacts
    <3>3. x.act <= d
      <4>1. x.func \notin Unwound(d)
        BY <2>4 DEF NotOf
      <4>2. x.act \notin d + 1 .. Depth
        BY <3>2, <4>1 DEF Unwound
      <4>3. QED
        BY <2>1, <3>2, <4>2
    <3>4. CASE x.act = d
      BY <2>2, <3>1, <3>2, <3>4 DEF TargetsOf
    <3>5. CASE x.act # d
      <4>1. x.act < h.act
        BY <2>1, <2>2, <3>2, <3>3, <3>5
      <4>2. x.tid < h.tid
        BY <2>2, <3>2, <4>1, HandlerFacts
      <4>3. QED
        BY <2>2, <3>2, <3>3, <4>2
    <3>6. QED
      BY <3>4, <3>5
  <2>8. TriesOf(FnAt(d))[pc'] \in Nat /\ TriesOf(FnAt(d))[pc'] <= TriesOf(h.func)[h.target]
    BY <2>2, <2>4, GoesBackTo
  <2>9. QED
    BY <1>2, <2>2, <2>3, <2>5, <2>6, <2>7, <2>8, BackToHandler
<1>3. QED
  BY <1>1, <1>2 DEF Raise, env

\* OP_FINALLY_END with nothing pending.
LEMMA FinallyDoneCloses ==
  ASSUME CloseInv, NestInv', FinallyEnd, FinallyDone
  PROVE  CloseInv'
<1>1. /\ UNCHANGED <<prog, tryCounter, fn, frames, status>> /\ pc' = pc + 1
      /\ status = "running" /\ Ins.op = "FINALLY_END"
  BY DEF FinallyEnd, FinallyDone, Fetch, context, env, ending
<1>2. /\ TriesOf(fn)[pc'] \in Nat /\ TriesOf(fn)[pc'] <= TriesOf(fn)[pc]
      /\ fn \in DOMAIN prog.code /\ pc \in DOMAIN Code(fn)
  BY <1>1, InsCloses DEF Flows
<1>3. CASE handlers' = handlers
  BY <1>1, <1>2, <1>3, SameHandlers
<1>4. ASSUME NEW h \in Topmost(FinallyOf(Cur)), handlers' = OlderThan(h.tid) PROVE CloseInv'
  <2>1. h \in handlers /\ h.kind = "FINALLY" /\ h.func = fn
    <3>1. Cur = fn
      BY <1>2, FuncIdxUnique DEF CloseInv, NestInv, IInv, ProgOK, Cur
    <3>2. QED
      BY <3>1 DEF Topmost, FinallyOf
  <2>2. PICK j \in DOMAIN prog.code[fn] :
          LET ins == prog.code[fn][j] IN
          ins.op = "TRY" /\ ins.hasFinally /\ ins.finally = h.target
    BY <2>1 DEF CloseInv, Shapes
  <2>3. Closes(prog, fn, TriesOf(fn))
    BY <1>2, TriesOfClose DEF CloseInv
  <2>4. TriesOf(fn)[pc'] <= TriesOf(fn)[h.target]
    BY <1>1, <1>2, <2>2, <2>3 DEF Closes, Ins, Code
  <2>5. QED
    BY <1>1, <1>2, <1>4, <2>1, <2>4, CutCloses
<1>5. QED
  BY <1>3, <1>4 DEF FinallyDone

\* A call: the callee begins without a try, the caller goes on behind it.
LEMMA CallCloses ==
  ASSUME CloseInv, NestInv', Call
  PROVE  CloseInv'
<1>1. /\ UNCHANGED <<prog, tryCounter, handlers>> /\ status = "running"
      /\ Ins.op = "CALL" /\ fn' = Ins.func /\ pc' = 1
  BY DEF Call, Fetch, env
<1>2. Ins.func \in DOMAIN prog.code
  BY <1>1, InsOK DEF WellFormedInstr, CloseInv, NestInv, IInv
<1>3. frames \in Seq(Frames) /\ Len(frames) \in Nat
  <2>1. frames \in Seq(Frames)
    BY DEF CloseInv, NestInv, IInv, TypeOK
  <2>2. QED
    BY <2>1, LenProperties
<1> DEFINE x == [func |-> Cur, fn |-> fn, pc |-> pc + 1, locals |-> locals,
                 pending |-> pending, base |-> base]
<1>4. frames' = Append(frames, x) /\ x.fn = fn /\ x.pc = pc + 1
  BY DEF Call
<1> HIDE DEF x
<1>5. /\ Len(frames') = Len(frames) + 1 /\ frames'[Len(frames) + 1] = x
      /\ \A e \in 1..Len(frames) : frames'[e] = frames[e]
  <2>1. \A e \in 1..Len(frames) + 1 : Append(frames, x)[e] =
          IF e <= Len(frames) THEN frames[e] ELSE x
    BY <1>3
  <2>2. QED
    BY <1>3, <1>4, <2>1
<1>6. Depth = Len(frames) + 1 /\ Depth' = Len(frames) + 2
  BY <1>3, <1>5 DEF Depth
<1>7. \A f : TriesOf(f)' = TriesOf(f)
  BY <1>1 DEF TriesOf
<1>8. \A d, t : Open(d, t)' = {y \in handlers : y.kind = "MARK" /\ y.act = d /\ y.tid < t'}
  BY <1>1 DEF Open
<1>9. Shapes'
  BY <1>1 DEF CloseInv, Shapes
<1>10. GoingBack'
  <2>1. SUFFICES ASSUME NEW h \in handlers, h.kind # "MARK"
                 PROVE  Cardinality(Open(h.act, h.tid)') >= TriesOf(h.func)[h.target]
    BY <1>1, <1>7 DEF GoingBack, Open
  <2>2. Open(h.act, h.tid)' = Open(h.act, h.tid)
    BY <1>1 DEF Open
  <2>3. QED
    BY <2>1, <2>2 DEF CloseInv, GoingBack
<1>11. Reached'
  <2>1. SUFFICES ASSUME NEW e \in 1 .. Len(frames) + 2
                 PROVE  Cardinality(Open(e, tryCounter)) >= TriesOf(FnAt(e)')[PcAt(e)']
    <3>1. \A e : Open(e, tryCounter)' = Open(e, tryCounter)
      BY <1>1 DEF Open
    <3>2. QED
      BY <1>6, <1>7, <2>1, <3>1 DEF Reached
  <2>2. Cardinality(Open(e, tryCounter)) \in Nat
    BY OpenSize DEF CloseInv, Shapes
  <2>3. CASE e = Len(frames) + 2
    <3>1. FnAt(e)' = Ins.func /\ PcAt(e)' = 1
      BY <1>1, <1>6, <2>3 DEF FnAt, PcAt
    <3>2. TriesOf(Ins.func)[1] = 0
      BY <1>2, TriesOfClose DEF CloseInv, Closes
    <3>3. QED
      BY <2>2, <3>1, <3>2
  <2>4. CASE e = Len(frames) + 1
    <3>1. e # Depth' /\ e = Depth /\ e \in 1..Depth
      BY <1>3, <1>6, <2>4
    <3>2. FnAt(e)' = fn /\ PcAt(e)' = pc + 1 /\ FnAt(e) = fn /\ PcAt(e) = pc
      BY <1>4, <1>5, <2>4, <3>1 DEF FnAt, PcAt
    <3>3. Cardinality(Open(e, tryCounter)) >= TriesOf(fn)[pc]
      BY <1>1, <3>1, <3>2 DEF CloseInv, Reached
    <3>4. TriesOf(fn)[pc + 1] <= TriesOf(fn)[pc] /\ TriesOf(fn)[pc + 1] \in Nat
          /\ TriesOf(fn)[pc] \in Nat
      BY <1>1, InsCloses DEF Flows
    <3>5. QED
      BY <2>2, <3>2, <3>3, <3>4
  <2>5. CASE e \in 1..Len(frames)
    <3>1. e # Depth' /\ e # Depth /\ e \in 1..Depth
      BY <1>3, <1>6, <2>5
    <3>2. FnAt(e)' = FnAt(e) /\ PcAt(e)' = PcAt(e)
      BY <1>5, <2>5, <3>1 DEF FnAt, PcAt
    <3>3. QED
      BY <3>1, <3>2 DEF CloseInv, Reached
  <2>6. QED
    BY <1>3, <2>3, <2>4, <2>5
<1>12. TriesClose(prog)'
  BY <1>1 DEF CloseInv, TriesClose, Closes
<1>13. QED
  BY <1>9, <1>10, <1>11, <1>12 DEF CloseInv

\* OP_TRY: one more is open behind it, and none yet where its handlers go.
LEMMA EnterTryCloses ==
  ASSUME CloseInv, NestInv', EnterTry
  PROVE  CloseInv'
<1>1. /\ UNCHANGED <<prog, fn, frames, status>> /\ status = "running" /\ Ins.op = "TRY"
      /\ pc' = pc + 1 /\ tryCounter' = tryCounter + 1
  BY DEF EnterTry, Fetch, context, env, ending
<1>2. /\ Depth \in Nat /\ Depth \in 1..Depth /\ Depth' = Depth /\ FnAt(Depth) = fn
      /\ FuncAt(Depth) = Cur /\ FnAt(Depth)' = FnAt(Depth) /\ PcAt(Depth) = pc
      /\ \A e \in 1..Depth : e < Depth => FnAt(e)' = FnAt(e) /\ PcAt(e)' = PcAt(e)
  BY <1>1, SameDepth DEF PcAt
<1>3. Cur = fn /\ fn \in DOMAIN prog.code /\ pc \in DOMAIN Code(fn)
  <2>1. fn \in DOMAIN prog.code /\ pc \in DOMAIN Code(fn)
    BY InsCloses
  <2>2. QED
    BY <2>1, FuncIdxUnique DEF CloseInv, NestInv, IInv, ProgOK, Cur
<1> DEFINE mark == Handler("MARK", 0, 0)
<1>4. mark.kind = "MARK" /\ mark.tid = tryCounter /\ mark.act = Depth /\ mark \in handlers'
  BY DEF EnterTry, Handler
<1>5. \A x \in handlers' : x \in handlers \/
        /\ x.tid = tryCounter /\ x.act = Depth /\ x.func = fn
        /\ \/ x = mark
           \/ x.kind = "FINALLY" /\ Ins.hasFinally /\ x.target = Ins.finally
           \/ x.kind = "CATCH" /\ Ins.hasCatch /\ x.target = Ins.catch
  BY <1>3 DEF EnterTry, Handler
<1>6. handlers \subseteq handlers' /\ IsFiniteSet(handlers')
  <2> DEFINE A == IF Ins.hasFinally THEN {Handler("FINALLY", Ins.finally, 0)} ELSE {}
             B == IF Ins.hasCatch THEN {Handler("CATCH", Ins.catch, Ins.slot)} ELSE {}
  <2>1. handlers' = ((handlers \cup A) \cup B) \cup {mark}
    BY DEF EnterTry
  <2>2. IsFiniteSet(A) /\ IsFiniteSet(B) /\ IsFiniteSet({mark}) /\ IsFiniteSet(handlers)
    BY FS_Singleton, FS_EmptySet DEF CloseInv, Shapes
  <2> HIDE DEF A, B, mark
  <2>3. IsFiniteSet(handlers \cup A)
    BY <2>2, FS_Union
  <2>4. IsFiniteSet((handlers \cup A) \cup B)
    BY <2>2, <2>3, FS_Union
  <2>5. QED
    BY <2>1, <2>2, <2>4, FS_Union
<1> HIDE DEF mark
<1>7. \A f : TriesOf(f)' = TriesOf(f)
  BY <1>1 DEF TriesOf
<1>8. /\ IsFiniteSet(handlers) /\ tryCounter \in Nat
      /\ \A x \in handlers : x.tid \in Nat /\ x.tid < tryCounter
  BY HandlerFacts DEF CloseInv, Shapes
<1>9. \A d, t \in Nat : t <= tryCounter =>
        {y \in handlers' : y.kind = "MARK" /\ y.act = d /\ y.tid < t} = Open(d, t)
  BY <1>5, <1>6, <1>8 DEF Open
<1>10. Shapes'
  <2>1. SUFFICES ASSUME NEW x \in handlers', x.kind = "FINALLY"
                 PROVE  \E j \in DOMAIN prog.code[x.func] :
                          LET ins == prog.code[x.func][j] IN
                          ins.op = "TRY" /\ ins.hasFinally /\ ins.finally = x.target
    BY <1>1, <1>6 DEF Shapes
  <2>2. CASE x \in handlers
    BY <2>1, <2>2 DEF CloseInv, Shapes
  <2>3. CASE x \notin handlers
    <3>1. x.func = fn /\ Ins.hasFinally /\ x.target = Ins.finally
      BY <1>4, <1>5, <2>1, <2>3
    <3>2. QED
      BY <1>1, <1>3, <3>1 DEF Ins, Code
  <2>4. QED
    BY <2>2, <2>3
<1>11. \A d \in 1..Depth : (d = Depth => status = "running") =>
         Cardinality(Open(d, tryCounter)) >= TriesOf(FnAt(d))[PcAt(d)]
  BY DEF CloseInv, Reached
<1>12. GoingBack'
  <2>1. SUFFICES ASSUME NEW x \in handlers', x.kind # "MARK"
                 PROVE  Cardinality(Open(x.act, x.tid)') >= TriesOf(x.func)[x.target]
    BY <1>7 DEF GoingBack, Open
  <2>2. CASE x \in handlers
    <3>1. Open(x.act, x.tid)' = Open(x.act, x.tid)
      <4>1. x.act \in Nat /\ x.tid \in Nat /\ x.tid <= tryCounter
        BY <1>8, <2>2, HandlerFacts
      <4>2. QED
        BY <1>9, <4>1 DEF Open
    <3>2. QED
      BY <2>1, <2>2, <3>1 DEF CloseInv, GoingBack
  <2>3. CASE x \notin handlers
    <3>1. x.tid = tryCounter /\ x.act = Depth /\ x.func = fn
          /\ \/ x.kind = "FINALLY" /\ Ins.hasFinally /\ x.target = Ins.finally
             \/ x.kind = "CATCH" /\ Ins.hasCatch /\ x.target = Ins.catch
      BY <1>4, <1>5, <2>1, <2>3
    <3>2. Open(x.act, x.tid)' = Open(Depth, tryCounter)
      BY <1>2, <1>8, <1>9, <3>1 DEF Open
    <3>3. Cardinality(Open(Depth, tryCounter)) >= TriesOf(fn)[pc]
      BY <1>1, <1>2, <1>11
    <3>4. TriesOf(fn)[x.target] <= TriesOf(fn)[pc]
      BY <1>1, <3>1, InsCloses
    <3>5. TriesOf(fn)[x.target] \in Nat /\ TriesOf(fn)[pc] \in Nat
      <4>1. x.target \in DOMAIN Code(fn)
        BY <1>1, <3>1, InsOK DEF WellFormedInstr, CloseInv, NestInv, IInv, Code
      <4>2. QED
        BY <1>3, <4>1, InsCloses
    <3>6. Cardinality(Open(Depth, tryCounter)) \in Nat
      BY <1>8, OpenSize
    <3>7. QED
      BY <3>1, <3>2, <3>3, <3>4, <3>5, <3>6
  <2>4. QED
    BY <2>2, <2>3
<1>13. Reached'
  <2>1. SUFFICES ASSUME NEW e \in 1..Depth
                 PROVE  Cardinality(Open(e, tryCounter)') >= TriesOf(FnAt(e)')[PcAt(e)']
    BY <1>2, <1>7 DEF Reached, Open
  <2>2. Open(e, tryCounter)' =
          {y \in handlers' : y.kind = "MARK" /\ y.act = e /\ y.tid < tryCounter + 1}
    BY <1>1 DEF Open
  <2>3. CASE e # Depth
    <3>1. Open(e, tryCounter)' = Open(e, tryCounter)
      <4>1. \A y \in handlers' : y.act = e => y \in handlers
        BY <1>5, <2>3
      <4>2. \A y \in handlers : y.tid < tryCounter + 1
        BY <1>8
      <4>3. QED
        BY <1>6, <1>8, <2>2, <4>1, <4>2 DEF Open
    <3>2. e < Depth /\ e \in 1..Depth
      BY <1>2, <2>3
    <3>3. QED
      BY <1>2, <1>11, <2>3, <3>1, <3>2
  <2>4. CASE e = Depth
    <3>1. Open(e, tryCounter)' = Open(Depth, tryCounter) \cup {mark}
      <4>1. \A y \in handlers' : y.kind = "MARK" => y \in handlers \/ y = mark
        BY <1>5
      <4>2. \A y \in handlers : y.tid < tryCounter + 1
        BY <1>8
      <4>3. QED
        BY <1>4, <1>6, <1>8, <2>2, <2>4, <4>1, <4>2 DEF Open
    <3>2. mark \notin Open(Depth, tryCounter)
      BY <1>4, <1>8 DEF Open
    <3>3. IsFiniteSet(Open(Depth, tryCounter)) /\ Cardinality(Open(Depth, tryCounter)) \in Nat
      BY <1>8, OpenSize
    <3>4. Cardinality(Open(e, tryCounter)') = Cardinality(Open(Depth, tryCounter)) + 1
      BY <3>1, <3>2, <3>3, FS_AddElement
    <3>5. FnAt(e)' = fn /\ PcAt(e)' = pc + 1
      BY <1>1, <1>2, <2>4 DEF FnAt, PcAt
    <3>6. Cardinality(Open(Depth, tryCounter)) >= TriesOf(fn)[pc]
      BY <1>1, <1>2, <1>11
    <3>7. TriesOf(fn)[pc + 1] <= TriesOf(fn)[pc] + 1 /\ TriesOf(fn)[pc + 1] \in Nat
          /\ TriesOf(fn)[pc] \in Nat
      BY <1>1, InsCloses
    <3>8. QED
      BY <3>3, <3>4, <3>5, <3>6, <3>7
  <2>5. QED
    BY <2>3, <2>4
<1>14. TriesClose(prog)'
  BY <1>1 DEF CloseInv, TriesClose, Closes
<1>15. QED
  BY <1>10, <1>12, <1>13, <1>14 DEF CloseInv

\* Any step.
LEMMA NextCloses ==
  ASSUME CloseInv, [Next]_vars
  PROVE  CloseInv'
<1>1. NestInv'
  BY NextNestInv DEF CloseInv
<1>2. CASE \/ Push \/ LoadLocal \/ StoreLocal \/ Pop \/ Println \/ Add \/ Fail
           \/ CallExtern \/ Jmp \/ Jz \/ UNCHANGED vars
  BY <1>1, <1>2, LocalCloses
<1>3. CASE Call
  BY <1>1, <1>3, CallCloses
<1>4. CASE Return \/ ReturnVoid
  BY <1>1, <1>4, ReturnCloses DEF Return, ReturnVoid
<1>5. CASE Throw
  BY <1>1, <1>5, RaiseCloses DEF Throw
<1>6. CASE EnterTry
  BY <1>1, <1>6, EnterTryCloses
<1>7. CASE EndTry
  BY <1>1, <1>7, EndTryCloses
<1>8. CASE FinallyEnd
  <2>1. CASE FinallyDone
    BY <1>1, <1>8, <2>1, FinallyDoneCloses
  <2>2. QED
    BY <1>1, <1>8, <2>1, ReturnCloses, RaiseCloses DEF FinallyEnd
<1>9. CASE Ended
  BY <1>2, <1>9 DEF Ended
<1>10. QED
  BY <1>2, <1>3, <1>4, <1>5, <1>6, <1>7, <1>8, <1>9 DEF Next

\* What ENDTRY and FINALLY_END remove was pushed by the current activation,
\* unless they leave it.
LEMMA KeptStep ==
  ASSUME CloseInv, [Next]_vars, Fetch("ENDTRY") \/ Fetch("FINALLY_END"),
         NEW x \in handlers \ handlers'
  PROVE  x.act = Depth \/ Depth' < Depth
<1>1. Len(frames) \in Nat /\ Depth = Len(frames) + 1 /\ Depth \in 1..Depth
      /\ FuncAt(Depth) = Cur /\ x.act \in 1..Depth /\ x.tid \in Nat
  BY LenProperties, HandlerFacts DEF CloseInv, NestInv, IInv, TypeOK, Depth, FuncAt
<1>2. ASSUME NEW h \in Topmost(FinallyOf(Cur)), handlers' = OlderThan(h.tid)
      PROVE  x.act = Depth
  <2>1. FinallyOf(Cur) \subseteq handlers
        /\ \A y \in FinallyOf(Cur) : y.kind # "MARK" /\ y.func = FuncAt(Depth)
    BY <1>1 DEF FinallyOf
  <2>2. h.tid \in Nat /\ \A y \in handlers : y.tid >= h.tid => ~(y.act < Depth)
    BY <1>1, <2>1, FoundOwn
  <2>3. ~(x.tid < h.tid)
    BY <1>2 DEF OlderThan
  <2>4. x.tid >= h.tid
    BY <1>1, <2>2, <2>3
  <2>5. QED
    BY <1>1, <2>2, <2>4
<1>3. ASSUME NEW v, NEW stk, ReturnValue(v, stk) PROVE x.act = Depth \/ Depth' < Depth
  <2>1. CASE FinallyThenReturn(v, stk)
    BY <1>2, <2>1 DEF FinallyThenReturn
  <2>2. CASE ReturnToCaller(v, stk)
    <3>1. Len(frames) \in 1..Len(frames) /\ Resume(Len(frames))
      BY <1>1, <2>2, EmptySeq DEF ReturnToCaller, CloseInv, NestInv, IInv, TypeOK
    <3>2. QED
      BY <3>1, ResumeFns DEF CloseInv, NestInv
  <2>3. CASE FinishMain(v, stk)
    <3>1. x.func = Cur
      BY <2>3 DEF FinishMain, NotOf
    <3>2. QED
      BY <1>1, <3>1, OwnFunc DEF CloseInv
  <2>4. QED
    BY <1>3, <2>1, <2>2, <2>3 DEF ReturnValue
<1>4. ASSUME NEW v, NEW p, NEW stk, Raise(v, p, stk) PROVE x.act = Depth \/ Depth' < Depth
  <2>1. CASE Abort("uncaught", v)
    BY <2>1 DEF Abort, unwind
  <2>2. ASSUME NEW d \in 1..Depth, NEW h \in Topmost(TargetsOf(FuncAt(d))), RaiseTo(d, h, v, p)
        PROVE  x.act = Depth \/ Depth' < Depth
    <3>1. CASE d < Depth /\ Resume(d)
      <4>1. d \in 1..Len(frames)
        BY <1>1, <3>1
      <4>2. QED
        BY <3>1, <4>1, ResumeFns DEF CloseInv, NestInv
    <3>2. CASE d = Depth
      <4>1. Unwound(Depth) = {}
        BY <1>1 DEF Unwound
      <4>2. handlers = NotOf(Unwound(Depth))
        BY <4>1 DEF NotOf
      <4>3. TargetsOf(Cur) \subseteq handlers
            /\ \A y \in TargetsOf(Cur) : y.kind # "MARK" /\ y.func = FuncAt(Depth)
        BY <1>1 DEF TargetsOf
      <4>4. h \in handlers /\ h.act = Depth /\ h.tid \in Nat
            /\ \A y \in handlers : y.tid >= h.tid => ~(y.act < Depth)
        BY <1>1, <2>2, <3>2, <4>3, FoundOwn
      <4>5. x.tid = h.tid \/ ~(x.tid < h.tid)
        BY <2>2, <3>2, <4>2 DEF RaiseTo, EnterCatch, EnterFinally, Caught, OlderThan
      <4>6. x.tid >= h.tid
        BY <1>1, <4>4, <4>5
      <4>7. QED
        BY <1>1, <4>4, <4>6
    <3>3. QED
      BY <2>2, <3>1, <3>2 DEF RaiseTo
  <2>3. QED
    BY <1>4, <2>1, <2>2 DEF Raise
<1>5. CASE EndTry
  <2>1. PICK h \in Open(Depth, tryCounter) :
           /\ handlers' = OlderThan(h.tid)
           /\ \A y \in handlers : y.tid >= h.tid => y.act = Depth
    BY <1>5, EndTryOwn
  <2>2. ~(x.tid < h.tid) /\ h.tid \in Nat
    BY <2>1, HandlerFacts DEF OlderThan, Open
  <2>3. x.tid >= h.tid
    BY <1>1, <2>2
  <2>4. QED
    BY <2>1, <2>3
<1>6. CASE FinallyEnd
  <2>1. CASE FinallyDone
    BY <1>2, <2>1 DEF FinallyDone
  <2>2. QED
    BY <1>3, <1>4, <1>6, <2>1 DEF FinallyEnd
<1>7. CASE UNCHANGED vars
  BY <1>7 DEF vars
<1>8. QED
  BY <1>5, <1>6, <1>7
  DEF Next, Fetch, Push, LoadLocal, StoreLocal, Pop, Println, Add, Fail, CallExtern, Jmp,
      Jz, Call, Return, ReturnVoid, Throw, EnterTry, Ended

\* The invariant holds initially.
LEMMA InitCloses ==
  ASSUME \A P \in Programs : UniqueNames(P) /\ NoTryReentered(P) /\ TriesClose(P), Init
  PROVE  CloseInv
<1>1. NestInv /\ TriesClose(prog) /\ handlers = {}
  BY InitNestInv DEF Init
<1>2. 1 \in DOMAIN prog.code /\ Depth = 1 /\ FnAt(1) = 1 /\ PcAt(1) = 1
  BY <1>1, EmptySeq DEF Init, Depth, FnAt, PcAt, NestInv, IInv, TypeOK
<1>3. TriesOf(1)[1] = 0
  BY <1>1, <1>2, TriesOfClose DEF Closes
<1>4. \A d, t : Open(d, t) = {}
  BY <1>1 DEF Open
<1>5. Reached
  BY <1>2, <1>3, <1>4, FS_EmptySet DEF Reached
<1>6. Shapes /\ GoingBack
  BY <1>1, FS_EmptySet DEF Shapes, GoingBack
<1>7. QED
  BY <1>1, <1>5, <1>6 DEF CloseInv

\* Leaving a try or a finally normally ends a try block of this function: the
\* handlers its callers wait with stay ("pop this try block's whole handler
\* group", runtime.rs:1110).  With distinct names and no re-entry into a try,
\* this holds in functions where no finally is inside of a try block that has one,
\* however they are left: by an exception, a return, a break or a continue.
THEOREM CallerHandlersKeptProved ==
  ASSUME \A P \in Programs : UniqueNames(P) /\ NoTryReentered(P) /\ TriesClose(P)
  PROVE  Spec => CallerHandlersKept
<1>1. Init => CloseInv
  BY InitCloses
<1>2. CloseInv /\ [Next]_vars => CloseInv'
  BY NextCloses
<1>3. CloseInv /\ [Next]_vars =>
        [Fetch("ENDTRY") \/ Fetch("FINALLY_END") =>
           \A h \in handlers \ handlers' : h.act = Depth \/ Depth' < Depth]_vars
  BY KeptStep
<1>4. QED
  BY <1>1, <1>2, <1>3, PTL DEF Spec, CallerHandlersKept

-----------------------------------------------------------------------------
(* What callbacks build on: a program may be suspended while another part  *)
(* of it runs on the same counter, and leaves no group in pieces.          *)

\* The invariant does not mind others that take try_ids, print and ask.
LEMMA OthersStep ==
  ASSUME CloseInv,
         UNCHANGED <<prog, fn, pc, locals, stack, base, frames, handlers, pending, status>>,
         tryCounter' \in Nat, tryCounter' >= tryCounter,
         out' \in Seq(Value), asked' \in Seq(Nat), result' \in Value
  PROVE  CloseInv'
<1>1. ProgOK' /\ TriesClose(prog)'
  BY DEF CloseInv, NestInv, IInv, ProgOK
<1>2. TypeOK'
  BY DEF CloseInv, NestInv, IInv, TypeOK, Code, Locals, Resumable
<1>3. /\ Depth' = Depth /\ \A d : /\ FuncAt(d)' = FuncAt(d) /\ FnAt(d)' = FnAt(d)
                                 /\ PcAt(d)' = PcAt(d)
  BY DEF Depth, FuncAt, FnAt, PcAt, Cur
<1>4. \A x \in handlers : x.tid \in Nat /\ x.tid < tryCounter /\ tryCounter \in Nat
                          /\ x.tid < tryCounter'
  <2>1. SUFFICES ASSUME NEW x \in handlers
                 PROVE  x.tid \in Nat /\ x.tid < tryCounter /\ tryCounter \in Nat
                        /\ x.tid < tryCounter'
    OBVIOUS
  <2>2. x.tid \in Nat /\ x.tid < tryCounter /\ tryCounter \in Nat
    BY HandlerFacts
  <2>3. QED
    BY <2>2
<1>5. HInv'
  <2>1. HandlersLive'
    BY <1>3 DEF CloseInv, NestInv, IInv, HInv, HandlersLive
  <2>2. TargetsInCode'
    BY <1>3 DEF CloseInv, NestInv, IInv, HInv, TargetsInCode, Code
  <2>3. GroupsOK'
    BY <1>4 DEF CloseInv, NestInv, IInv, HInv, GroupsOK
  <2>4. HandlersNested'
    BY DEF CloseInv, NestInv, IInv, HInv, HandlersNested
  <2>5. QED
    BY <2>1, <2>2, <2>3, <2>4 DEF HInv
<1>6. Nested' /\ Tried'
  <2>1. PICK R \in Nestings(prog) : Related(R)
    BY DEF CloseInv, NestInv, Nested
  <2>2. Related(R)' /\ R \in Nestings(prog)'
    BY <1>3, <2>1 DEF Related
  <2>3. Tried'
    BY DEF CloseInv, NestInv, Tried
  <2>4. QED
    BY <2>2, <2>3 DEF Nested
<1>7. \A f : TriesOf(f)' = TriesOf(f)
  BY DEF TriesOf
<1>8. \A d : Open(d, tryCounter)' = Open(d, tryCounter)
  BY <1>4 DEF Open
<1>9. Shapes'
  BY DEF CloseInv, Shapes
<1>10. Reached'
  BY <1>3, <1>7, <1>8 DEF CloseInv, Reached
<1>11. GoingBack'
  <2>1. \A x \in handlers : Open(x.act, x.tid)' = Open(x.act, x.tid)
    BY DEF Open
  <2>2. QED
    BY <1>7, <2>1 DEF CloseInv, GoingBack
<1>12. QED
  BY <1>1, <1>2, <1>5, <1>6, <1>9, <1>10, <1>11 DEF CloseInv, NestInv, IInv

\* A try that has not ended has a catch or a finally.
Whole ==
  \A x \in handlers : x.kind = "MARK" =>
    \E y \in handlers : y.tid = x.tid /\ y.kind # "MARK"

\* Every step removes groups as wholes, or at least with their MARK.
LEMMA WholeStays ==
  ASSUME IInv, [Next]_vars, Whole
  PROVE  Whole'
<1> DEFINE Kept == \A x, y \in handlers :
                     x \in handlers' /\ x.kind = "MARK" /\ y.tid = x.tid => y \in handlers'
<1>1. ASSUME handlers' \subseteq handlers, Kept PROVE Whole'
  BY <1>1 DEF Whole
<1>2. ASSUME NEW t, handlers' = OlderThan(t) PROVE Whole'
  BY <1>1, <1>2 DEF OlderThan
<1>3. ASSUME NEW fs, NEW S, S = NotOf(fs) PROVE
        \A x, y \in handlers : x \in S /\ y.tid = x.tid => y \in S
  BY <1>3 DEF NotOf, IInv, HInv, GroupsOK
<1>4. ASSUME NEW fs, handlers' = NotOf(fs) PROVE Whole'
  BY <1>1, <1>3, <1>4 DEF NotOf
<1>5. CASE handlers' = handlers
  BY <1>5 DEF Whole
<1>6. ASSUME NEW v, NEW stk, ReturnValue(v, stk) PROVE Whole'
  BY <1>2, <1>4, <1>6 DEF ReturnValue, FinallyThenReturn, ReturnToCaller, FinishMain
<1>7. ASSUME NEW v, NEW p, NEW stk, Raise(v, p, stk) PROVE Whole'
  <2>1. CASE Abort("uncaught", v)
    BY <1>5, <2>1 DEF Abort, unwind
  <2>2. ASSUME NEW d, NEW h, RaiseTo(d, h, v, p) PROVE Whole'
    <3>1. CASE handlers' = Caught(h, NotOf(Unwound(d)))
      BY <1>1, <1>3, <3>1 DEF Caught, NotOf
    <3>2. CASE handlers' = OlderThan(h.tid) \cap NotOf(Unwound(d))
      BY <1>1, <1>3, <3>2 DEF OlderThan, NotOf
    <3>3. QED
      BY <2>2, <3>1, <3>2 DEF RaiseTo, EnterCatch, EnterFinally
  <2>3. QED
    BY <1>7, <2>1, <2>2 DEF Raise
<1>8. CASE EnterTry
  <2>1. Ins.hasCatch \/ Ins.hasFinally
    BY <1>8, InsOK DEF WellFormedInstr, IInv, EnterTry, Fetch
  <2>2. /\ handlers \subseteq handlers'
        /\ \E y \in handlers' : y.tid = tryCounter /\ y.kind # "MARK"
    <3>1. CASE Ins.hasCatch
      <4>1. Handler("CATCH", Ins.catch, Ins.slot) \in handlers' /\ handlers \subseteq handlers'
        BY <1>8, <3>1 DEF EnterTry
      <4>2. QED
        BY <4>1 DEF Handler
    <3>2. CASE Ins.hasFinally
      <4>1. Handler("FINALLY", Ins.finally, 0) \in handlers' /\ handlers \subseteq handlers'
        BY <1>8, <3>2 DEF EnterTry
      <4>2. QED
        BY <4>1 DEF Handler
    <3>3. QED
      BY <2>1, <3>1, <3>2
  <2>3. \A x \in handlers' : x.kind = "MARK" => x \in handlers \/ x.tid = tryCounter
    BY <1>8 DEF EnterTry, Handler
  <2>4. QED
    BY <2>2, <2>3 DEF Whole
<1>9. CASE Push \/ LoadLocal \/ StoreLocal \/ Pop \/ Println \/ CallExtern \/ Jmp \/ Jz \/ Call
  BY <1>5, <1>9 DEF Push, LoadLocal, StoreLocal, Pop, Println, CallExtern, Jmp, Jz, Straight,
     Call, unwind
<1>10. CASE Add \/ Fail
  BY <1>5, <1>10 DEF Add, Fail, Abort, Straight, unwind
<1>11. CASE Return \/ ReturnVoid
  BY <1>6, <1>11 DEF Return, ReturnVoid
<1>12. CASE Throw
  BY <1>7, <1>12 DEF Throw
<1>13. CASE EndTry
  BY <1>2, <1>5, <1>13 DEF EndTry
<1>14. CASE FinallyEnd
  <2>1. CASE FinallyDone
    BY <1>2, <1>5, <2>1 DEF FinallyDone
  <2>2. QED
    BY <1>6, <1>7, <1>14, <2>1 DEF FinallyEnd
<1>15. CASE Ended \/ UNCHANGED vars
  BY <1>5, <1>15 DEF Ended, vars
<1>16. QED
  BY <1>8, <1>9, <1>10, <1>11, <1>12, <1>13, <1>14, <1>15 DEF Next

\* A callback is entered with no caller and no handler of its own.
LEMMA EntersCloses ==
  ASSUME CloseInv, UNCHANGED <<prog, out, tryCounter, status, result>>, asked' \in Seq(Nat),
         NEW f \in DOMAIN prog.code, NEW args \in Seq(Value),
         fn' = f, pc' = 1, locals' = FreshLocals(f, args), stack' = <<>>, base' = 0,
         frames' = <<>>, pending' = NoPending, handlers' = {}
  PROVE  CloseInv' /\ Whole' /\ \A R : Related(R)'
<1>1. WellFormedCode(prog, f) /\ 1 \in DOMAIN prog.code[f]
  BY DEF CloseInv, NestInv, IInv, ProgOK, WellFormedProgram, WellFormedCode
<1>2. locals' \in Locals(f)
  <2>1. \A i \in 1..Len(args) : args[i] \in Value
    BY ElementOfSeq
  <2>2. Null \in Value /\ Len(args) \in Nat
    BY LenProperties DEF Value
  <2>3. \A i \in 1..prog.nlocals[f] :
          (IF i <= Len(args) THEN args[i] ELSE Null) \in Value
    BY <1>1, <2>1, <2>2 DEF WellFormedCode
  <2>4. QED
    BY <2>3 DEF FreshLocals, Locals
<1>3. ProgOK' /\ TriesClose(prog)'
  BY DEF CloseInv, NestInv, IInv, ProgOK
<1>4. Len(frames') = 0
  BY EmptySeq
<1>5. TypeOK'
  BY <1>1, <1>2, <1>4, EmptySeq
  DEF CloseInv, NestInv, IInv, TypeOK, Code, Locals, NoPending, Pending, Value
<1>6. HInv' /\ Tried' /\ Whole'
  BY DEF HInv, HandlersLive, TargetsInCode, GroupsOK, HandlersNested, Tried, Whole
<1>7. Depth' = 1 /\ FnAt(1)' = f /\ PcAt(1)' = 1
  BY <1>4 DEF Depth, FnAt, PcAt
<1>8. \A R : Related(R)'
  BY <1>7 DEF Related
<1>9. Nested'
  BY <1>8 DEF CloseInv, NestInv, Nested
<1>10. TriesOf(f)[1] = 0 /\ TriesOf(f)' = TriesOf(f)
  <2>1. Closes(prog, f, TriesOf(f))
    BY <1>1, TriesOfClose DEF CloseInv
  <2>2. TriesOf(f)[1] = 0
    BY <2>1 DEF Closes
  <2>3. TriesOf(f)' = TriesOf(f)
    BY DEF TriesOf
  <2>4. QED
    BY <2>2, <2>3
<1>11. \A d, t : Open(d, t)' = {}
  BY DEF Open
<1>12. Reached'
  <2>1. SUFFICES ASSUME NEW d \in 1..Depth'
                 PROVE  Cardinality(Open(d, tryCounter)') >= (TriesOf(FnAt(d))[PcAt(d)])'
    BY DEF Reached
  <2>2. d = 1
    BY <1>7
  <2>3. (TriesOf(FnAt(d))[PcAt(d)])' = 0
    BY <1>7, <1>10, <2>2
  <2>4. Cardinality(Open(d, tryCounter)') = 0
    BY <1>11, FS_EmptySet
  <2>5. QED
    BY <2>3, <2>4
<1>13. Shapes' /\ GoingBack'
  BY FS_EmptySet DEF Shapes, GoingBack
<1>14. QED
  BY <1>3, <1>5, <1>6, <1>8, <1>9, <1>12, <1>13 DEF CloseInv, NestInv, IInv

\* A builtin leaves a value instead of its arguments.
LEMMA BuiltinCloses ==
  ASSUME CloseInv, Whole, Fetch("CALL_EXTERN"), Straight, UNCHANGED <<prog, locals, out>>,
         stack' \in Seq(Value), asked' \in Seq(Nat)
  PROVE  CloseInv' /\ Whole' /\ \A R : Related(R) => Related(R)'
<1>1. status = "running" /\ Ins.op = "CALL_EXTERN"
  BY DEF Fetch
<1>2. UNCHANGED <<fn, frames, handlers, tryCounter, status>> /\ pc' = pc + 1
  BY DEF Straight, context, unwind, ending
<1>3. IInv'
  BY <1>1, StraightStep DEF CloseInv, NestInv, IInv, TypeOK
<1>4. \A R : Related(R) => Related(R)'
  BY <1>2 DEF Related, Depth, FnAt
<1>5. Nested' /\ Tried'
  BY <1>2, <1>4 DEF CloseInv, NestInv, Nested, Tried
<1>6. TriesOf(fn)[pc'] \in Nat /\ TriesOf(fn)[pc'] <= TriesOf(fn)[pc]
  BY <1>1, <1>2, InsCloses DEF Flows
<1>7. CloseInv'
  BY <1>1, <1>2, <1>3, <1>5, <1>6, SameHandlers DEF NestInv
<1>8. Whole'
  BY <1>2 DEF Whole
<1>9. QED
  BY <1>4, <1>7, <1>8

\* The function that was entered with no caller is the outermost one to the end.
LEMMA FirstStays ==
  ASSUME IInv, [Next]_vars
  PROVE  FnAt(1)' = FnAt(1)
<1>1. CASE fn' = fn /\ frames' = frames
  BY <1>1 DEF FnAt, Depth
<1>2. ASSUME NEW d \in 1..Len(frames), Resume(d) PROVE FnAt(1)' = FnAt(1)
  <2>1. Len(frames) \in Nat
    BY LenProperties DEF IInv, TypeOK
  <2>2. 1 \in 1..d
    BY <2>1
  <2>3. QED
    BY <1>2, <2>2, ResumeFns
<1>3. CASE Call
  <2>1. Depth \in Nat \ {0} /\ \A e \in 1..Depth : FnAt(e)' = FnAt(e)
    BY <1>3, CallFns
  <2>2. 1 \in 1..Depth
    BY <2>1
  <2>3. QED
    BY <2>1, <2>2
<1>4. QED
  BY <1>1, <1>2, <1>3, ContextSteps

\* A run that returns, or ends with an exception, leaves no handler behind; one
\* that ends with an error leaves them all.
LEMMA EndsClean ==
  ASSUME CloseInv, Whole, [Next]_vars, status = "running", status' # "running"
  PROVE  handlers' = {} \/ (Ins.op \in {"ADD", "FAIL"} /\ handlers' = handlers)
<1>1. \A x \in handlers : x.act \in 1..Depth /\ x.func = FuncAt(x.act)
                          /\ x.kind \in {"MARK", "CATCH", "FINALLY"}
  BY HandlerFacts
<1>2. ASSUME NEW v, NEW stk, ReturnValue(v, stk) PROVE handlers' = {}
  <2>1. FinishMain(v, stk)
    BY <1>2 DEF ReturnValue, FinallyThenReturn, ReturnToCaller, ending
  <2>2. Depth = 1
    BY <2>1, EmptySeq DEF FinishMain, Depth
  <2>3. \A x \in handlers : x.act = 1 /\ x.func = Cur
    BY <1>1, <2>2 DEF FuncAt
  <2>4. QED
    BY <2>1, <2>3 DEF FinishMain, NotOf
<1>3. ASSUME NEW v, NEW p, NEW stk, Raise(v, p, stk) PROVE handlers' = {}
  <2>1. /\ \A d \in 1..Depth : TargetsOf(FuncAt(d)) = {}
        /\ handlers' = handlers
    BY <1>3 DEF Raise, ending, Abort, unwind
  <2>2. \A x \in handlers : x.kind = "MARK"
    BY <1>1, <2>1 DEF TargetsOf
  <2>3. QED
    BY <2>1, <2>2 DEF Whole
<1>4. CASE Add \/ Fail
  BY <1>4 DEF Add, Fail, Abort, Straight, ending, unwind, Fetch
<1>5. CASE Return \/ ReturnVoid
  BY <1>2, <1>5 DEF Return, ReturnVoid
<1>6. CASE Throw
  BY <1>3, <1>6 DEF Throw
<1>7. CASE FinallyEnd
  <2>1. ~FinallyDone
    BY DEF FinallyDone, ending
  <2>2. QED
    BY <1>2, <1>3, <1>7, <2>1 DEF FinallyEnd
<1>8. CASE \/ Push \/ LoadLocal \/ StoreLocal \/ Pop \/ Println \/ CallExtern \/ Jmp \/ Jz
           \/ Call \/ EnterTry \/ EndTry \/ Ended \/ UNCHANGED vars
  BY <1>8 DEF Push, LoadLocal, StoreLocal, Pop, Println, CallExtern, Jmp, Jz, Straight,
     Call, EnterTry, EndTry, Ended, ending, vars
<1>9. QED
  BY <1>4, <1>5, <1>6, <1>7, <1>8 DEF Next

=============================================================================
