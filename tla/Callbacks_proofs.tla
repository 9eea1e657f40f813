-------------------------- MODULE Callbacks_proofs --------------------------
(***************************************************************************)
(* Proofs about Callbacks: what VmExceptions_proofs shows of a program     *)
(* that runs alone holds of the program and its callbacks, which share a   *)
(* handler stack.                                                          *)
(*                                                                         *)
(* Whoever runs is the VM of VmExceptions on the handlers that it pushed   *)
(* itself, Own; the program that waits is the same VM, stopped where it    *)
(* waits, on the handlers it had then, Saved.  The invariant says of both  *)
(* what CloseInv says of one VM, and that Own lies above Saved and has     *)
(* other functions.  So a step never finds a handler of the other: it is   *)
(* a step of VM, and leaves Waiter as it was.                              *)
(***************************************************************************)
EXTENDS Callbacks, FiniteSetTheorems, SequenceTheorems, TLAPS

\* The handlers of the program that waits, while a callback runs.
Saved == IF suspended = <<>> THEN {} ELSE suspended[1].waiting

Own == handlers \ Saved

VM == INSTANCE VmExceptions_proofs WITH handlers <- Own

Waiter == INSTANCE VmExceptions_proofs WITH
  fn      <- suspended[1].fn,
  pc      <- suspended[1].pc,
  locals  <- suspended[1].locals,
  stack   <- suspended[1].stack,
  base    <- suspended[1].base,
  frames  <- suspended[1].frames,
  pending <- suspended[1].pending,
  handlers <- suspended[1].waiting,
  status  <- "running",
  result  <- Null

-----------------------------------------------------------------------------
(* Whoever runs *)

\* Programs mean the same to the VM.
LEMMA SameProgram ==
  ASSUME NEW P
  PROVE  /\ WellFormedProgram(P) <=> VM!WellFormedProgram(P)
         /\ UniqueNames(P) <=> VM!UniqueNames(P)
         /\ TriesClose(P) <=> VM!TriesClose(P)
         /\ Nestings(P) = VM!Nestings(P)
         /\ NoTryReentered(P) <=> VM!NoTryReentered(P)
         /\ \A f : HasTry(P, f) <=> VM!HasTry(P, f)
<1>1. WellFormedProgram(P) <=> VM!WellFormedProgram(P)
  BY DEF WellFormedProgram, VM!WellFormedProgram, WellFormedCode, VM!WellFormedCode,
     WellFormedInstr, VM!WellFormedInstr, Opcodes, VM!Opcodes, Value, VM!Value
<1>2. UniqueNames(P) <=> VM!UniqueNames(P)
  BY DEF UniqueNames, VM!UniqueNames
<1>3. TriesClose(P) <=> VM!TriesClose(P)
  <2>1. \A f, m : Closes(P, f, m) <=> VM!Closes(P, f, m)
    BY DEF Closes, VM!Closes, Flows, VM!Flows
  <2>2. QED
    BY <2>1 DEF TriesClose, VM!TriesClose
<1>4. Nestings(P) = VM!Nestings(P)
  BY DEF Nestings, VM!Nestings, Calls, VM!Calls, HasTry, VM!HasTry
<1>5. QED
  BY <1>1, <1>2, <1>3, <1>4 DEF NoTryReentered, VM!NoTryReentered, HasTry, VM!HasTry

\* So what is assumed of them is what the VM assumes.
LEMMA VmAssumption ==
  /\ \A P \in Programs : VM!WellFormedProgram(P)
  /\ MaxAnswers \in Nat
  /\ Null \notin Int
BY ProgramsAssumption, SameProgram

\* The VM reads the same registers.
LEMMA SameReads ==
  /\ VM!Cur = Cur /\ VM!Depth = Depth /\ VM!Ins = Ins /\ VM!NoPending = NoPending
  /\ \A n : VM!FromTop(n) = FromTop(n) /\ VM!Popped(n) = Popped(n)
  /\ VM!Top = Top
  /\ \A d : VM!FuncAt(d) = FuncAt(d) /\ VM!FnAt(d) = FnAt(d) /\ VM!LocalsAt(d) = LocalsAt(d)
  /\ \A d : VM!Unwound(d) = Unwound(d)
  /\ \A f, args : VM!FreshLocals(f, args) = FreshLocals(f, args)
  /\ \A S : VM!Topmost(S) = Topmost(S)
  /\ \A op : VM!Fetch(op) <=> Fetch(op)
<1>1. VM!Cur = Cur
  BY DEF VM!Cur, Cur, VM!FuncIdx, FuncIdx
<1>2. VM!Depth = Depth /\ VM!Ins = Ins /\ VM!NoPending = NoPending
  BY DEF VM!Depth, Depth, VM!Ins, Ins, VM!Code, Code, VM!NoPending, NoPending
<1>3. \A n : VM!FromTop(n) = FromTop(n) /\ VM!Popped(n) = Popped(n)
  BY DEF VM!FromTop, FromTop, VM!Popped, Popped
<1>4. \A d : VM!FuncAt(d) = FuncAt(d) /\ VM!FnAt(d) = FnAt(d) /\ VM!LocalsAt(d) = LocalsAt(d)
  BY <1>1, <1>2 DEF VM!FuncAt, FuncAt, VM!FnAt, FnAt, VM!LocalsAt, LocalsAt
<1>5. \A d : VM!Unwound(d) = Unwound(d)
  BY <1>2, <1>4 DEF VM!Unwound, Unwound
<1>6. \A f, args : VM!FreshLocals(f, args) = FreshLocals(f, args)
  BY DEF VM!FreshLocals, FreshLocals
<1>7. \A S : VM!Topmost(S) = Topmost(S)
  BY DEF VM!Topmost, Topmost, VM!Below, Below, VM!Rank, Rank
<1>8. \A op : VM!Fetch(op) <=> Fetch(op)
  BY <1>2 DEF VM!Fetch, Fetch
<1>9. QED
  BY <1>1, <1>2, <1>3, <1>4, <1>5, <1>6, <1>7, <1>8 DEF VM!Top, Top

-----------------------------------------------------------------------------
(* A step of the program or of a callback is one of the VM.                *)

Separate ==
  /\ Saved \subseteq handlers
  /\ \A x \in handlers : x.tid \in Nat
  /\ \A x \in Saved, y \in Own : x.tid < y.tid
  /\ \A x \in Saved : \A d \in 1..Depth : x.func # FuncAt(d)
  /\ Depth \in Nat \ {0}

\* What is found for a live activation is its own.
LEMMA SameFound ==
  ASSUME Separate
  PROVE  /\ FinallyOf(Cur) = VM!FinallyOf(Cur)
         /\ \A d \in 1..Depth : TargetsOf(FuncAt(d)) = VM!TargetsOf(FuncAt(d))
         /\ \A d \in 1..Depth : CatcherAt(d) <=> VM!CatcherAt(d)
<1>1. Depth \in 1..Depth /\ FuncAt(Depth) = Cur
  BY DEF Separate, FuncAt
<1>2. FinallyOf(Cur) = VM!FinallyOf(Cur)
  BY <1>1 DEF Separate, FinallyOf, VM!FinallyOf, Own
<1>3. \A d \in 1..Depth : TargetsOf(FuncAt(d)) = VM!TargetsOf(FuncAt(d))
  BY DEF Separate, TargetsOf, VM!TargetsOf, Own
<1>4. \A d \in 1..Depth : CatcherAt(d) <=> VM!CatcherAt(d)
  <2>1. \A d \in 1..Depth : \A e \in d + 1 .. Depth : e \in 1..Depth
    BY DEF Separate
  <2>2. QED
    BY <1>3, <2>1, SameReads DEF CatcherAt, VM!CatcherAt
<1>5. QED
  BY <1>2, <1>3, <1>4

\* What is removed with a handler of one's own, or with one's functions, is too.
LEMMA SameRemoved ==
  ASSUME Separate
  PROVE  /\ \A h \in Own : OlderThan(h.tid) \ Saved = VM!OlderThan(h.tid)
                           /\ Saved \subseteq OlderThan(h.tid)
         /\ \A d \in 0..Depth : NotOf(Unwound(d)) \ Saved = VM!NotOf(Unwound(d))
                                /\ Saved \subseteq NotOf(Unwound(d))
         /\ NotOf({Cur}) \ Saved = VM!NotOf({Cur}) /\ Saved \subseteq NotOf({Cur})
<1>1. Depth \in 1..Depth /\ FuncAt(Depth) = Cur
  BY DEF Separate, FuncAt
<1>2. \A h \in Own : OlderThan(h.tid) \ Saved = VM!OlderThan(h.tid)
                     /\ Saved \subseteq OlderThan(h.tid)
  BY DEF Separate, OlderThan, VM!OlderThan, Own
<1>3. \A fs : NotOf(fs) \ Saved = VM!NotOf(fs)
  BY DEF NotOf, VM!NotOf, Own
<1>4. \A d \in 0..Depth : Saved \subseteq NotOf(Unwound(d))
  <2>1. \A d \in 0..Depth : \A e \in d + 1 .. Depth : e \in 1..Depth
    BY DEF Separate
  <2>2. QED
    BY <2>1 DEF Separate, NotOf, Unwound
<1>5. Saved \subseteq NotOf({Cur})
  BY <1>1 DEF Separate, NotOf
<1>6. QED
  BY <1>2, <1>3, <1>4, <1>5

\* Returning.
LEMMA SameReturn ==
  ASSUME Separate, Saved' = Saved, NEW v, NEW stk, ReturnValue(v, stk)
  PROVE  VM!ReturnValue(v, stk) /\ Saved \subseteq handlers'
<1>1. Own' = handlers' \ Saved
  BY DEF Own
<1>2. CASE FinallyThenReturn(v, stk)
  <2>1. PICK h \in Topmost(FinallyOf(Cur)) :
          /\ handlers' = OlderThan(h.tid)
          /\ pending' = [kind |-> "return", val |-> v]
          /\ pc' = h.target
          /\ stack' = stk
          /\ UNCHANGED <<locals, context, tryCounter, env, ending>>
    BY <1>2 DEF FinallyThenReturn
  <2>2. h \in VM!Topmost(VM!FinallyOf(VM!Cur)) /\ h \in Own
    BY SameFound, SameReads DEF Topmost, VM!FinallyOf
  <2>3. Own' = VM!OlderThan(h.tid) /\ Saved \subseteq handlers'
    BY <1>1, <2>1, <2>2, SameRemoved
  <2>4. QED
    BY <2>1, <2>2, <2>3
    DEF VM!ReturnValue, VM!FinallyThenReturn, context, VM!context, env, VM!env, ending, VM!ending
<1>3. CASE ReturnToCaller(v, stk)
  <2>1. Own' = VM!NotOf({VM!Cur}) /\ VM!FinallyOf(VM!Cur) = {} /\ Saved \subseteq handlers'
    BY <1>1, <1>3, SameRemoved, SameFound, SameReads DEF ReturnToCaller
  <2>2. QED
    BY <1>3, <2>1
    DEF VM!ReturnValue, ReturnToCaller, VM!ReturnToCaller, Resume, VM!Resume, env, VM!env,
        ending, VM!ending
<1>4. CASE FinishMain(v, stk)
  <2>1. Own' = VM!NotOf({VM!Cur}) /\ VM!FinallyOf(VM!Cur) = {} /\ Saved \subseteq handlers'
    BY <1>1, <1>4, SameRemoved, SameFound, SameReads DEF FinishMain
  <2>2. QED
    BY <1>4, <2>1, SameReads
    DEF VM!ReturnValue, FinishMain, VM!FinishMain, context, VM!context, env, VM!env
<1>5. QED
  BY <1>2, <1>3, <1>4 DEF ReturnValue

\* Raising.
LEMMA SameRaise ==
  ASSUME Separate, Saved' = Saved, NEW v, NEW pend, NEW stk, Raise(v, pend, stk)
  PROVE  VM!Raise(v, pend, stk) /\ Saved \subseteq handlers'
<1>1. Own' = handlers' \ Saved
  BY DEF Own
<1>2. CASE \A d \in 1..Depth : TargetsOf(FuncAt(d)) = {} /\ Abort("uncaught", v)
  <2>1. 1 \in 1..Depth
    BY DEF Separate
  <2>2. UNCHANGED handlers /\ VM!Abort("uncaught", v)
    BY <1>1, <1>2, <2>1
    DEF Abort, VM!Abort, env, VM!env, context, VM!context, unwind, VM!unwind, Own
  <2>3. QED
    BY <1>2, <2>2, SameFound, SameReads DEF VM!Raise, Separate
<1>3. ASSUME NEW d \in 1..Depth, CatcherAt(d),
             NEW h \in Topmost(TargetsOf(FuncAt(d))), RaiseTo(d, h, v, pend),
             stack' = stk, UNCHANGED <<tryCounter, env, ending>>
      PROVE  VM!Raise(v, pend, stk) /\ Saved \subseteq handlers'
  <2>1. h \in VM!Topmost(VM!TargetsOf(VM!FuncAt(d))) /\ h \in Own /\ VM!CatcherAt(d)
        /\ d \in 1..VM!Depth
    BY <1>3, SameFound, SameReads DEF Topmost, VM!TargetsOf
  <2>2. d \in 0..Depth
    BY DEF Separate
  <2>3. NotOf(Unwound(d)) \ Saved = VM!NotOf(Unwound(d)) /\ Saved \subseteq NotOf(Unwound(d))
        /\ OlderThan(h.tid) \ Saved = VM!OlderThan(h.tid) /\ Saved \subseteq OlderThan(h.tid)
        /\ \A x \in Saved : x.tid # h.tid
    BY <2>1, <2>2, SameRemoved DEF Separate
  <2>4. Caught(h, NotOf(Unwound(d))) \ Saved = VM!Caught(h, VM!NotOf(Unwound(d)))
        /\ Saved \subseteq Caught(h, NotOf(Unwound(d)))
    BY <2>3 DEF Caught, VM!Caught
  <2>5. VM!RaiseTo(d, h, v, pend) /\ Saved \subseteq handlers'
    <3>1. CASE EnterCatch(d, h, v, pend)
      BY <1>1, <1>3, <2>4, <3>1, SameReads
      DEF RaiseTo, VM!RaiseTo, EnterCatch, VM!EnterCatch, Resume, VM!Resume, context, VM!context
    <3>2. CASE EnterFinally(d, h, v)
      BY <1>1, <1>3, <2>3, <3>2, SameReads
      DEF RaiseTo, VM!RaiseTo, EnterFinally, VM!EnterFinally, Resume, VM!Resume, context, VM!context
    <3>3. QED
      BY <1>3, <3>1, <3>2 DEF RaiseTo
  <2>6. QED
    BY <1>3, <2>1, <2>5 DEF VM!Raise, env, VM!env, ending, VM!ending
<1>4. QED
  BY <1>2, <1>3 DEF Raise


\* Where a try of whoever runs is open, the topmost one is its own.
LEMMA SameMarks ==
  ASSUME Separate, NEW y \in Own, y.kind = "MARK"
  PROVE  \A h \in Topmost(Marks) : h \in VM!Topmost(VM!Marks) /\ h \in Own
<1>1. SUFFICES ASSUME NEW h \in Topmost(Marks) PROVE h \in VM!Topmost(VM!Marks) /\ h \in Own
  OBVIOUS
<1>2. y \in Marks /\ y \in handlers
  BY DEF Marks, Own
<1>3. h \in handlers /\ h.kind = "MARK" /\ Below(y, h)
  BY <1>1, <1>2 DEF Topmost, Marks
<1>4. h \in Own
  <2>1. ~(h.tid < y.tid)
    BY <1>2, <1>3 DEF Separate, Below
  <2>2. QED
    BY <1>3, <2>1 DEF Separate, Own
<1>5. VM!Marks \subseteq Marks /\ h \in VM!Marks
  BY <1>3, <1>4 DEF Marks, VM!Marks, Own
<1>6. QED
  BY <1>1, <1>4, <1>5, SameReads DEF Topmost

\* ENDTRY and FINALLY_END.
LEMMA SameEnds ==
  ASSUME Separate, Saved' = Saved, EndTry \/ FinallyEnd,
         Fetch("ENDTRY") => \E y \in Own : y.kind = "MARK"
  PROVE  VM!Next /\ Saved \subseteq handlers'
<1>1. Own' = handlers' \ Saved
  BY DEF Own
<1>2. CASE EndTry
  <2>1. PICK y \in Own : y.kind = "MARK"
    BY <1>2 DEF EndTry
  <2>2. y \in Marks
    BY <2>1 DEF Own, Marks
  <2>3. PICK h \in Topmost(Marks) : handlers' = OlderThan(h.tid)
    BY <1>2, <2>2 DEF EndTry
  <2>4. h \in VM!Topmost(VM!Marks) /\ h \in Own
    BY <2>1, <2>3, SameMarks
  <2>5. Own' = VM!OlderThan(h.tid) /\ Saved \subseteq handlers'
    BY <1>1, <2>3, <2>4, SameRemoved
  <2>6. VM!EndTry
    BY <1>2, <2>4, <2>5, SameReads
    DEF EndTry, VM!EndTry, context, VM!context, env, VM!env, ending, VM!ending
  <2>7. QED
    BY <2>5, <2>6 DEF VM!Next
<1>3. CASE FinallyDone /\ Fetch("FINALLY_END")
  <2>1. VM!FinallyDone /\ Saved \subseteq handlers'
    <3>1. CASE FinallyOf(Cur) = {} /\ UNCHANGED handlers
      <4>1. VM!FinallyOf(VM!Cur) = {} /\ Own' = Own /\ Saved \subseteq handlers'
        BY <1>1, <3>1, SameFound, SameReads DEF Own, Separate
      <4>2. QED
        BY <1>3, <4>1
        DEF FinallyDone, VM!FinallyDone, context, VM!context, env, VM!env, ending, VM!ending
    <3>2. ASSUME NEW h \in Topmost(FinallyOf(Cur)), handlers' = OlderThan(h.tid)
          PROVE  VM!FinallyDone /\ Saved \subseteq handlers'
      <4>1. h \in VM!Topmost(VM!FinallyOf(VM!Cur)) /\ h \in Own
        BY SameFound, SameReads DEF Topmost, VM!FinallyOf
      <4>2. Own' = VM!OlderThan(h.tid) /\ Saved \subseteq handlers'
        BY <1>1, <3>2, <4>1, SameRemoved
      <4>3. QED
        BY <1>3, <4>1, <4>2
        DEF FinallyDone, VM!FinallyDone, context, VM!context, env, VM!env, ending, VM!ending
    <3>3. QED
      BY <1>3, <3>1, <3>2 DEF FinallyDone
  <2>2. QED
    BY <1>3, <2>1, SameReads DEF VM!Next, VM!FinallyEnd
<1>4. CASE FinallyEnd /\ pending.kind = "return" /\ ReturnValue(pending.val, stack)
  <2>1. VM!ReturnValue(pending.val, stack) /\ Saved \subseteq handlers'
    BY <1>4, SameReturn
  <2>2. QED
    BY <1>4, <2>1, SameReads DEF FinallyEnd, VM!Next, VM!FinallyEnd
<1>5. CASE FinallyEnd /\ pending.kind = "throw" /\ Raise(pending.val, NoPending, stack)
  <2>1. VM!Raise(pending.val, NoPending, stack) /\ Saved \subseteq handlers'
    BY <1>5, SameRaise
  <2>2. QED
    BY <1>5, <2>1, SameReads DEF FinallyEnd, VM!Next, VM!FinallyEnd
<1>6. QED
  BY <1>2, <1>3, <1>4, <1>5 DEF FinallyEnd

\* A new group belongs to whoever runs.
LEMMA SameTry ==
  ASSUME Separate, Saved' = Saved, EnterTry, \A x \in Saved : x.tid < tryCounter,
         tryCounter \in Nat
  PROVE  VM!EnterTry /\ Saved \subseteq handlers'
<1>1. \A kind, target, slot : VM!Handler(kind, target, slot) = Handler(kind, target, slot)
  BY SameReads DEF VM!Handler, Handler
<1>2. \A kind, target, slot : Handler(kind, target, slot) \notin Saved
  BY DEF Handler
<1> DEFINE new == (IF Ins.hasFinally THEN {Handler("FINALLY", Ins.finally, 0)} ELSE {})
                  \cup (IF Ins.hasCatch THEN {Handler("CATCH", Ins.catch, Ins.slot)} ELSE {})
                  \cup {Handler("MARK", 0, 0)}
<1>3. handlers' = handlers \cup new /\ new \cap Saved = {}
  BY <1>2 DEF EnterTry
<1>4. Own' = Own \cup new /\ Saved \subseteq handlers'
  BY <1>3 DEF Own, Separate
<1>5. VM!EnterTry
  BY <1>1, <1>4, SameReads
  DEF EnterTry, VM!EnterTry, context, VM!context, env, VM!env, ending, VM!ending
<1>6. QED
  BY <1>4, <1>5

\* Everything else leaves the handlers alone.
LEMMA SameRest ==
  ASSUME Saved' = Saved, Saved \subseteq handlers,
         \/ Push \/ LoadLocal \/ StoreLocal \/ Pop \/ Println \/ Add \/ Fail
         \/ CallExtern \/ Jmp \/ Jz \/ Call \/ Ended
  PROVE  VM!Next /\ Saved \subseteq handlers'
<1>1. ASSUME handlers' = handlers PROVE Own' = Own /\ Saved \subseteq handlers'
  BY <1>1 DEF Own
<1>2. ASSUME Straight PROVE VM!Straight /\ Saved \subseteq handlers'
  BY <1>1, <1>2 DEF Straight, VM!Straight, context, VM!context, unwind, VM!unwind, ending, VM!ending
<1>3. ASSUME NEW how, NEW v, Abort(how, v) PROVE VM!Abort(how, v) /\ Saved \subseteq handlers'
  BY <1>1, <1>3 DEF Abort, VM!Abort, context, VM!context, unwind, VM!unwind, env, VM!env
<1>4. CASE Push \/ LoadLocal \/ StoreLocal \/ Pop
  BY <1>2, <1>4, SameReads
  DEF Push, VM!Push, LoadLocal, VM!LoadLocal, StoreLocal, VM!StoreLocal, Pop, VM!Pop,
      env, VM!env, VM!Next
<1>5. CASE Println \/ CallExtern
  BY <1>2, <1>5, SameReads DEF Println, VM!Println, CallExtern, VM!CallExtern, VM!Next
<1>6. CASE Add \/ Fail
  BY <1>2, <1>3, <1>6, SameReads DEF Add, VM!Add, Fail, VM!Fail, env, VM!env, VM!Next
<1>7. CASE Jmp \/ Jz
  <2>1. Own' = Own /\ Saved \subseteq handlers'
    BY <1>1, <1>7 DEF Jmp, Jz, unwind
  <2>2. QED
    BY <1>7, <2>1, SameReads
    DEF Jmp, VM!Jmp, Jz, VM!Jz, Falsy, VM!Falsy, context, VM!context, unwind, VM!unwind,
        env, VM!env, ending, VM!ending, VM!Next
<1>8. CASE Call
  <2>1. Own' = Own /\ Saved \subseteq handlers'
    BY <1>1, <1>8 DEF Call
  <2>2. VM!Call
    BY <1>8, <2>1, SameReads DEF Call, VM!Call, env, VM!env, ending, VM!ending
  <2>3. QED
    BY <2>1, <2>2 DEF VM!Next
<1>9. CASE Ended
  BY <1>1, <1>9 DEF Ended, VM!Ended, vars, VM!vars, VM!Next
<1>10. QED
  BY <1>4, <1>5, <1>6, <1>7, <1>8, <1>9

\* So an instruction of the program or of a callback is one of the VM.
LEMMA SameNext ==
  ASSUME Separate, Saved' = Saved, Next,
         \A x \in Saved : x.tid < tryCounter, tryCounter \in Nat,
         Fetch("ENDTRY") => \E y \in Own : y.kind = "MARK"
  PROVE  VM!Next /\ Saved \subseteq handlers'
<1>1. CASE Return \/ ReturnVoid
  BY <1>1, SameReturn, SameReads
  DEF Return, VM!Return, ReturnVoid, VM!ReturnVoid, VM!Next
<1>2. CASE Throw
  BY <1>2, SameRaise, SameReads DEF Throw, VM!Throw, VM!Next
<1>3. CASE EnterTry
  BY <1>3, SameTry DEF VM!Next
<1>4. CASE EndTry \/ FinallyEnd
  BY <1>4, SameEnds
<1>5. QED
  BY <1>1, <1>2, <1>3, <1>4, SameRest DEF Next, Separate


-----------------------------------------------------------------------------
(* Waiting, and going on                                                   *)

LEMMA WaiterProgram ==
  ASSUME NEW P
  PROVE  /\ VM!WellFormedProgram(P) <=> Waiter!WellFormedProgram(P)
         /\ VM!UniqueNames(P) <=> Waiter!UniqueNames(P)
         /\ VM!TriesClose(P) <=> Waiter!TriesClose(P)
         /\ VM!Nestings(P) = Waiter!Nestings(P)
         /\ \A f : VM!HasTry(P, f) <=> Waiter!HasTry(P, f)
         /\ \A f, m : VM!Closes(P, f, m) <=> Waiter!Closes(P, f, m)
         /\ \A f : VM!FuncIdx(P, f) = Waiter!FuncIdx(P, f)
<1>1. VM!WellFormedProgram(P) <=> Waiter!WellFormedProgram(P)
  BY DEF Waiter!WellFormedProgram, VM!WellFormedProgram, Waiter!WellFormedCode,
     VM!WellFormedCode, Waiter!WellFormedInstr, VM!WellFormedInstr, Waiter!Opcodes,
     VM!Opcodes, Waiter!Value, VM!Value
<1>2. VM!UniqueNames(P) <=> Waiter!UniqueNames(P)
  BY DEF Waiter!UniqueNames, VM!UniqueNames
<1>3. \A f, m : VM!Closes(P, f, m) <=> Waiter!Closes(P, f, m)
  BY DEF Waiter!Closes, VM!Closes, Waiter!Flows, VM!Flows
<1>4. VM!TriesClose(P) <=> Waiter!TriesClose(P)
  BY <1>3 DEF Waiter!TriesClose, VM!TriesClose
<1>5. VM!Nestings(P) = Waiter!Nestings(P)
  BY DEF Waiter!Nestings, VM!Nestings, Waiter!Calls, VM!Calls, Waiter!HasTry, VM!HasTry
<1>6. \A f : VM!FuncIdx(P, f) = Waiter!FuncIdx(P, f)
  BY DEF Waiter!FuncIdx, VM!FuncIdx
<1>7. QED
  BY <1>1, <1>2, <1>3, <1>4, <1>5, <1>6 DEF Waiter!HasTry, VM!HasTry

LEMMA WaiterAssumption ==
  /\ \A P \in Programs : Waiter!WellFormedProgram(P)
  /\ MaxAnswers \in Nat
  /\ Null \notin Int
BY ProgramsAssumption, SameProgram, WaiterProgram

\* Sets are finite, and have as many elements, for both.
LEMMA WaiterSets ==
  ASSUME NEW S
  PROVE  /\ VM!IsFiniteSet(S) <=> Waiter!IsFiniteSet(S)
         /\ VM!Cardinality(S) = Waiter!Cardinality(S)
<1>1. VM!IsFiniteSet(S) <=> Waiter!IsFiniteSet(S)
  BY DEF VM!IsFiniteSet, Waiter!IsFiniteSet
<1>2. VM!Cardinality(S) = Waiter!Cardinality(S)
  BY DEF VM!Cardinality, Waiter!Cardinality
<1>3. QED
  BY <1>1, <1>2

\* A program that begins to wait is stopped as it was.
LEMMA Stops ==
  ASSUME VM!CloseInv, VM!Whole, status = "running",
         UNCHANGED <<prog, out, tryCounter>>, asked' \in Seq(Nat),
         suspended = <<>>, suspended' = <<Registers>>
  PROVE  /\ Waiter!CloseInv' /\ Waiter!Whole'
         /\ \A R : VM!Related(R) => Waiter!Related(R)'
<1>1. /\ suspended[1]' = Registers
      /\ suspended[1].fn' = fn /\ suspended[1].pc' = pc /\ suspended[1].locals' = locals
      /\ suspended[1].stack' = stack /\ suspended[1].base' = base
      /\ suspended[1].frames' = frames /\ suspended[1].pending' = pending
      /\ suspended[1].waiting' = handlers /\ Own = handlers
  BY DEF Registers, Own, Saved
<1>2. Waiter!ProgOK' /\ Waiter!TriesClose(prog)'
  BY WaiterProgram DEF VM!CloseInv, VM!NestInv, VM!IInv, VM!ProgOK, Waiter!ProgOK
<1>3. /\ (Waiter!Depth)' = VM!Depth /\ (Waiter!Cur)' = VM!Cur
      /\ \A d : Waiter!FuncAt(d)' = VM!FuncAt(d)
      /\ \A d : Waiter!FnAt(d)' = VM!FnAt(d)
      /\ \A d : Waiter!PcAt(d)' = VM!PcAt(d)
      /\ \A f : Waiter!Code(f)' = VM!Code(f)
  BY <1>1, WaiterProgram
  DEF Waiter!Depth, VM!Depth, Waiter!FuncAt, VM!FuncAt, Waiter!FnAt, VM!FnAt, Waiter!PcAt,
      VM!PcAt, Waiter!Cur, VM!Cur, Waiter!Code, VM!Code
<1>4. Waiter!TypeOK'
  <2>1. /\ VM!Value = Waiter!Value /\ VM!Pending = Waiter!Pending
        /\ VM!Frames = Waiter!Frames /\ VM!Handlers = Waiter!Handlers
        /\ \A f : Waiter!Locals(f)' = VM!Locals(f)
    BY DEF VM!Locals, Waiter!Locals, VM!Value, Waiter!Value, VM!Frames, Waiter!Frames,
       VM!Pending, Waiter!Pending, VM!Handlers, Waiter!Handlers, VM!Rank, Waiter!Rank
  <2>2. \A cf : VM!Resumable(cf) => Waiter!Resumable(cf)'
    BY <1>3, <2>1, WaiterProgram DEF VM!Resumable, Waiter!Resumable
  <2>3. Null \in VM!Value
    BY DEF VM!Value
  <2>4. VM!TypeOK
    BY DEF VM!CloseInv, VM!NestInv, VM!IInv
  <2>5. QED
    BY <1>1, <1>3, <2>1, <2>2, <2>3, <2>4 DEF VM!TypeOK, Waiter!TypeOK
<1>5. Waiter!HInv'
  BY <1>1, <1>3
  DEF VM!CloseInv, VM!NestInv, VM!IInv, VM!HInv, Waiter!HInv,
      VM!HandlersLive, Waiter!HandlersLive, VM!TargetsInCode, Waiter!TargetsInCode,
      VM!GroupsOK, Waiter!GroupsOK, VM!HandlersNested, Waiter!HandlersNested
<1>6. \A R : VM!Related(R) => Waiter!Related(R)'
  BY <1>3 DEF VM!Related, Waiter!Related
<1>7. Waiter!Nested' /\ Waiter!Tried'
  BY <1>1, <1>6, WaiterProgram
  DEF VM!CloseInv, VM!NestInv, VM!Nested, Waiter!Nested, VM!Tried, Waiter!Tried
<1>8. \A f : Waiter!TriesOf(f)' = VM!TriesOf(f)
  BY WaiterProgram DEF VM!TriesOf, Waiter!TriesOf
<1>9. \A d, t : Waiter!Open(d, t)' = VM!Open(d, t)
  BY <1>1 DEF VM!Open, Waiter!Open
<1>10. Waiter!Shapes'
  BY <1>1, WaiterSets DEF VM!CloseInv, VM!Shapes, Waiter!Shapes
<1>11. Waiter!Reached' /\ Waiter!GoingBack'
  <2>1. Waiter!Reached'
    BY <1>3, <1>8, <1>9, WaiterSets DEF VM!CloseInv, VM!Reached, Waiter!Reached
  <2>2. Waiter!GoingBack'
    BY <1>1, <1>8, <1>9, WaiterSets DEF VM!CloseInv, VM!GoingBack, Waiter!GoingBack
  <2>3. QED
    BY <2>1, <2>2
<1>12. Waiter!Whole'
  BY <1>1 DEF VM!Whole, Waiter!Whole
<1>13. QED
  BY <1>2, <1>4, <1>5, <1>6, <1>7, <1>10, <1>11, <1>12
  DEF Waiter!CloseInv, Waiter!NestInv, Waiter!IInv


\* A program that goes on after a callback is what it was when it began to wait.
LEMMA GoesOn ==
  ASSUME Waiter!CloseInv, Waiter!Whole, Restore(suspended[1]), Own' = suspended[1].waiting
  PROVE  /\ VM!CloseInv' /\ VM!Whole'
         /\ \A R : Waiter!Related(R) => VM!Related(R)'
<1>1. /\ fn' = suspended[1].fn /\ pc' = suspended[1].pc /\ locals' = suspended[1].locals
      /\ stack' = suspended[1].stack /\ base' = suspended[1].base
      /\ frames' = suspended[1].frames /\ pending' = suspended[1].pending
      /\ Own' = suspended[1].waiting
      /\ UNCHANGED <<prog, out, asked, tryCounter>> /\ status' = "running" /\ result' = Null
  BY DEF Restore, env
<1>2. VM!ProgOK' /\ VM!TriesClose(prog)'
  BY <1>1, WaiterProgram
  DEF Waiter!CloseInv, Waiter!NestInv, Waiter!IInv, VM!ProgOK, Waiter!ProgOK
<1>3. /\ (VM!Depth)' = Waiter!Depth /\ (VM!Cur)' = Waiter!Cur
      /\ \A d : VM!FuncAt(d)' = Waiter!FuncAt(d)
      /\ \A d : VM!FnAt(d)' = Waiter!FnAt(d)
      /\ \A d : VM!PcAt(d)' = Waiter!PcAt(d)
      /\ \A f : VM!Code(f)' = Waiter!Code(f)
  BY <1>1, WaiterProgram
  DEF Waiter!Depth, VM!Depth, Waiter!FuncAt, VM!FuncAt, Waiter!FnAt, VM!FnAt, Waiter!PcAt,
      VM!PcAt, Waiter!Cur, VM!Cur, Waiter!Code, VM!Code
<1>4. VM!TypeOK'
  <2>1. /\ VM!Value = Waiter!Value /\ VM!Pending = Waiter!Pending
        /\ VM!Frames = Waiter!Frames /\ VM!Handlers = Waiter!Handlers
        /\ \A f : VM!Locals(f)' = Waiter!Locals(f)
    BY <1>1 DEF VM!Locals, Waiter!Locals, VM!Value, Waiter!Value, VM!Frames, Waiter!Frames,
       VM!Pending, Waiter!Pending, VM!Handlers, Waiter!Handlers, VM!Rank, Waiter!Rank
  <2>2. \A cf : Waiter!Resumable(cf) => VM!Resumable(cf)'
    BY <1>1, <1>3, <2>1, WaiterProgram DEF VM!Resumable, Waiter!Resumable
  <2>3. Null \in VM!Value
    BY DEF VM!Value
  <2>4. Waiter!TypeOK
    BY DEF Waiter!CloseInv, Waiter!NestInv, Waiter!IInv
  <2>5. QED
    BY <1>1, <1>3, <2>1, <2>2, <2>3, <2>4 DEF VM!TypeOK, Waiter!TypeOK
<1>5. VM!HInv'
  BY <1>1, <1>3
  DEF Waiter!CloseInv, Waiter!NestInv, Waiter!IInv, VM!HInv, Waiter!HInv,
      VM!HandlersLive, Waiter!HandlersLive, VM!TargetsInCode, Waiter!TargetsInCode,
      VM!GroupsOK, Waiter!GroupsOK, VM!HandlersNested, Waiter!HandlersNested
<1>6. \A R : Waiter!Related(R) => VM!Related(R)'
  BY <1>3 DEF VM!Related, Waiter!Related
<1>7. VM!Nested' /\ VM!Tried'
  BY <1>1, <1>6, WaiterProgram
  DEF Waiter!CloseInv, Waiter!NestInv, VM!Nested, Waiter!Nested, VM!Tried, Waiter!Tried
<1>8. \A f : VM!TriesOf(f)' = Waiter!TriesOf(f)
  BY <1>1, WaiterProgram DEF VM!TriesOf, Waiter!TriesOf
<1>9. \A d, t : VM!Open(d, t)' = Waiter!Open(d, t)
  BY <1>1 DEF VM!Open, Waiter!Open
<1>10. VM!Shapes'
  BY <1>1, WaiterSets DEF Waiter!CloseInv, VM!Shapes, Waiter!Shapes
<1>11. VM!Reached' /\ VM!GoingBack'
  <2>1. VM!Reached'
    BY <1>1, <1>3, <1>8, <1>9, WaiterSets DEF Waiter!CloseInv, VM!Reached, Waiter!Reached
  <2>2. VM!GoingBack'
    BY <1>1, <1>8, <1>9, WaiterSets DEF Waiter!CloseInv, VM!GoingBack, Waiter!GoingBack
  <2>3. QED
    BY <2>1, <2>2
<1>12. VM!Whole'
  BY <1>1 DEF VM!Whole, Waiter!Whole
<1>13. QED
  BY <1>2, <1>4, <1>5, <1>6, <1>7, <1>10, <1>11, <1>12 DEF VM!CloseInv, VM!NestInv, VM!IInv

\* While others run, it stays what it was.
LEMMA Stays ==
  ASSUME Waiter!CloseInv, Waiter!Whole, UNCHANGED <<prog, suspended>>,
         tryCounter' \in Nat, tryCounter' >= tryCounter,
         out' \in Seq(Value), asked' \in Seq(Nat)
  PROVE  /\ Waiter!CloseInv' /\ Waiter!Whole'
         /\ \A R : Waiter!Related(R) => Waiter!Related(R)'
<1>1. Value = Waiter!Value /\ Null \in Waiter!Value
  BY DEF Value, Waiter!Value
<1>2. UNCHANGED <<prog, suspended[1].fn, suspended[1].pc, suspended[1].locals,
                  suspended[1].stack, suspended[1].base, suspended[1].frames,
                  suspended[1].waiting, suspended[1].pending, "running">>
  OBVIOUS
<1>3. Waiter!CloseInv'
  BY <1>1, <1>2, Waiter!OthersStep, WaiterAssumption
<1>4. Waiter!Whole' /\ \A R : Waiter!Related(R) => Waiter!Related(R)'
  BY DEF Waiter!Whole, Waiter!Related, Waiter!Depth, Waiter!FnAt
<1>5. QED
  BY <1>3, <1>4


-----------------------------------------------------------------------------
(* The inductive invariant                                                 *)

RegisteredOK(C) ==
  /\ DOMAIN registered = DOMAIN Payload
  /\ \A k \in DOMAIN Payload : registered[k] # <<>> =>
       registered[k][1].func \in C /\ registered[k][1].seed \in Seq(Value)

WaitInv(R, C, W) ==
  /\ Waiter!CloseInv /\ Waiter!Related(R) /\ Waiter!Whole
  /\ Saved \subseteq handlers
  /\ \A x \in Saved : x.func \in W
  /\ \A x \in Saved, y \in Own : x.tid < y.tid
  /\ FnAt(1) \in C
  /\ status # "running" => Own = {}

ApartInv(R, C, W) ==
  /\ C \subseteq DOMAIN prog.code /\ W \subseteq DOMAIN prog.code
  /\ Apart(prog, R, C, W) /\ WellFormedLibs(prog)
  /\ VM!CloseInv /\ VM!Related(R) /\ VM!Whole
  /\ RegisteredOK(C)
  /\ suspended # <<>> => WaitInv(R, C, W)

\* What VmExceptions_proofs says of whoever runs.
LEMMA Running ==
  ASSUME VM!CloseInv
  PROVE  /\ Depth \in Nat \ {0} /\ Depth \in 1..Depth /\ tryCounter \in Nat
         /\ fn \in DOMAIN prog.code /\ pc \in DOMAIN Code(fn) /\ FnAt(Depth) = fn
         /\ stack \in Seq(Value) /\ out \in Seq(Value) /\ asked \in Seq(Nat)
         /\ \A d \in 1..Depth : FuncAt(d) = FnAt(d) /\ FnAt(d) \in DOMAIN prog.code
         /\ \A x \in Own : /\ x.act \in 1..Depth /\ x.func = FnAt(x.act)
                           /\ x.tid \in Nat /\ x.tid < tryCounter
                           /\ HasTry(prog, x.func)
<1>1. VM!IInv /\ VM!TypeOK /\ VM!ProgOK /\ VM!Tried
  BY DEF VM!CloseInv, VM!NestInv, VM!IInv
<1>2. VM!Value = Value /\ VM!Code(fn) = Code(fn)
  BY DEF VM!Value, Value, VM!Code, Code
<1>3. /\ fn \in DOMAIN prog.code /\ pc \in DOMAIN Code(fn)
      /\ stack \in Seq(Value) /\ out \in Seq(Value) /\ asked \in Seq(Nat)
      /\ tryCounter \in Nat
  BY <1>1, <1>2 DEF VM!TypeOK
<1>4. Depth \in Nat \ {0} /\ Depth \in 1..Depth
  <2>1. frames \in Seq(VM!Frames)
    BY <1>1 DEF VM!TypeOK
  <2>2. Len(frames) \in Nat
    BY <2>1, LenProperties
  <2>3. QED
    BY <2>2 DEF Depth
<1>5. \A d \in 1..Depth : FuncAt(d) = FnAt(d) /\ FnAt(d) \in DOMAIN prog.code
  <2>1. \A d \in 1..VM!Depth : VM!FuncAt(d) = VM!FnAt(d) /\ VM!FnAt(d) \in DOMAIN prog.code
    BY <1>1, VM!ActivationOK, VmAssumption
  <2>2. QED
    BY <2>1, SameReads
<1>6. \A x \in Own : /\ x.act \in 1..Depth /\ x.func = FuncAt(x.act)
                     /\ x.tid \in Nat /\ x.tid < tryCounter
  BY VM!HandlerFacts, VmAssumption, SameReads
<1>7. \A x \in Own : HasTry(prog, x.func)
  BY <1>1, SameProgram DEF VM!Tried
<1>8. QED
  BY <1>3, <1>4, <1>5, <1>6, <1>7 DEF FnAt

\* And of the program that waits.
LEMMA Waiting ==
  ASSUME Waiter!CloseInv
  PROVE  \A x \in suspended[1].waiting :
           x.tid \in Nat /\ x.tid < tryCounter /\ HasTry(prog, x.func)
<1>1. Waiter!Tried
  BY DEF Waiter!CloseInv, Waiter!NestInv
<1>2. QED
  BY <1>1, Waiter!HandlerFacts, WaiterAssumption, SameProgram, WaiterProgram DEF Waiter!Tried

\* Everything that runs in a callback is in C.
LEMMA CallbackFns ==
  ASSUME NEW R, NEW C, NEW W, ApartInv(R, C, W), FnAt(1) \in C
  PROVE  \A d \in 1..Depth : FnAt(d) \in C
<1>1. SUFFICES ASSUME NEW d \in 1..Depth, d # 1 PROVE FnAt(d) \in C
  OBVIOUS
<1>2. VM!CloseInv
  BY DEF ApartInv
<1>3. Depth \in Nat \ {0} /\ 1 \in 1..Depth /\ 1 < d
  BY <1>1, <1>2, Running
<1>4. <<FnAt(1), FnAt(d)>> \in R
  BY <1>1, <1>3, SameReads DEF ApartInv, VM!Related
<1>5. FnAt(1) \in DOMAIN prog.code /\ FnAt(d) \in DOMAIN prog.code
  BY <1>1, <1>2, <1>3, Running
<1>6. QED
  BY <1>4, <1>5 DEF ApartInv, Apart

\* So the two do not meet on the handler stack.
LEMMA StandApart ==
  ASSUME NEW R, NEW C, NEW W, ApartInv(R, C, W)
  PROVE  Separate /\ \A x \in Saved : x.tid < tryCounter
<1>1. VM!CloseInv
  BY DEF ApartInv
<1>2. Depth \in Nat \ {0}
  BY <1>1, Running
<1>3. CASE suspended = <<>>
  <2>1. Saved = {} /\ Own = handlers
    BY <1>3 DEF Saved, Own
  <2>2. QED
    BY <1>1, <1>2, <2>1, Running DEF Separate
<1>4. CASE suspended # <<>>
  <2>1. WaitInv(R, C, W) /\ Saved = suspended[1].waiting
    BY <1>4 DEF ApartInv, Saved
  <2>2. \A x \in Saved : x.tid \in Nat /\ x.tid < tryCounter /\ HasTry(prog, x.func)
    BY <2>1, Waiting DEF WaitInv
  <2>3. \A x \in handlers : x.tid \in Nat
    BY <1>1, <2>2, Running DEF Own
  <2>4. \A x \in Saved : \A d \in 1..Depth : x.func # FuncAt(d)
    <3>1. \A d \in 1..Depth : FnAt(d) \in C /\ FuncAt(d) = FnAt(d)
      BY <1>1, <2>1, CallbackFns, Running DEF WaitInv
    <3>2. \A x \in Saved : x.func \in W /\ HasTry(prog, x.func)
      BY <2>1, <2>2 DEF WaitInv
    <3>3. \A f \in C \cap W : ~HasTry(prog, f)
      BY DEF ApartInv, Apart
    <3>4. QED
      BY <3>1, <3>2, <3>3
  <2>5. QED
    BY <1>2, <2>1, <2>2, <2>3, <2>4 DEF Separate, WaitInv
<1>5. QED
  BY <1>3, <1>4


\* An instruction of whoever runs keeps the invariant, and what waits.
LEMMA ExecuteApart ==
  ASSUME NEW R, NEW C, NEW W, ApartInv(R, C, W), Execute
  PROVE  ApartInv(R, C, W)' /\ Saved \subseteq handlers' /\ VM!Next
<1>1. Next /\ registered' = registered /\ suspended' = suspended /\ Saved' = Saved
  BY DEF Execute, Saved
<1>2. VM!CloseInv /\ VM!Related(R) /\ VM!Whole /\ R \in VM!Nestings(prog)
  BY SameProgram DEF ApartInv, Apart
<1>3. Fetch("ENDTRY") => \E y \in Own : y.kind = "MARK"
  <2>1. VM!Fetch("ENDTRY") => VM!Open(VM!Depth, tryCounter) # {}
    BY <1>2, VM!OpenHere, VmAssumption
  <2>2. QED
    BY <2>1, SameReads DEF VM!Open
<1>4. VM!Next /\ Saved \subseteq handlers'
  BY <1>1, <1>2, <1>3, StandApart, Running, SameNext
<1>5. VM!CloseInv' /\ VM!Related(R)' /\ VM!Whole' /\ prog' = prog /\ VM!FnAt(1)' = VM!FnAt(1)
  <2>1. VM!IInv /\ VM!NestInv
    BY <1>2 DEF VM!CloseInv, VM!NestInv
  <2>2. VM!CloseInv'
    BY <1>2, <1>4, VM!NextCloses, VmAssumption
  <2>3. VM!Related(R)'
    BY <1>2, <1>4, <2>1, VM!RelatedStays, VmAssumption
  <2>4. VM!Whole'
    BY <1>2, <1>4, <2>1, VM!WholeStays, VmAssumption
  <2>5. prog' = prog
    BY <1>4, <2>1, VM!ContextSteps, VmAssumption
  <2>6. VM!FnAt(1)' = VM!FnAt(1)
    BY <1>4, <2>1, VM!FirstStays, VmAssumption
  <2>7. QED
    BY <2>2, <2>3, <2>4, <2>5, <2>6
<1>6. CASE suspended = <<>>
  BY <1>1, <1>4, <1>5, <1>6 DEF ApartInv, RegisteredOK
<1>7. CASE suspended # <<>>
  <2>1. WaitInv(R, C, W)
    BY <1>7 DEF ApartInv
  <2>2. (Own' \subseteq Own /\ tryCounter' = tryCounter) \/ VM!EnterTry
    BY <1>4, VM!HandlerSteps, VmAssumption
  <2>3. tryCounter \in Nat /\ tryCounter' \in Nat /\ tryCounter' >= tryCounter
        /\ out' \in Seq(Value) /\ asked' \in Seq(Nat)
    <3>1. tryCounter \in Nat
      BY <1>2, Running
    <3>2. tryCounter' \in Nat /\ tryCounter' >= tryCounter
      BY <2>2, <3>1 DEF VM!EnterTry
    <3>3. VM!TypeOK'
      BY <1>5 DEF VM!CloseInv, VM!NestInv, VM!IInv
    <3>4. out' \in Seq(Value) /\ asked' \in Seq(Nat)
      BY <3>3 DEF VM!TypeOK, VM!Value, Value
    <3>5. QED
      BY <3>1, <3>2, <3>4
  <2>4. Waiter!CloseInv' /\ Waiter!Whole' /\ Waiter!Related(R)'
    BY <1>1, <1>5, <2>1, <2>3, Stays DEF WaitInv
  <2>5. \A x \in Saved, y \in Own' : x.tid < y.tid
    <3>1. \A x \in Saved : x.tid < tryCounter
      BY StandApart
    <3>2. \A y \in Own' : y \in Own \/ y.tid = tryCounter
      BY <2>2 DEF VM!EnterTry, VM!Handler
    <3>3. QED
      BY <2>1, <3>1, <3>2 DEF WaitInv
  <2>6. FnAt(1)' = FnAt(1)
    BY <1>5, SameReads DEF VM!FnAt, VM!Depth, FnAt, Depth
  <2>7. status' # "running" => Own' = {}
    <3>1. SUFFICES ASSUME status' # "running" PROVE Own' = {}
      OBVIOUS
    <3>2. CASE status # "running"
      <4>1. Ended
        BY <1>1, <3>2
        DEF Next, Push, LoadLocal, StoreLocal, Pop, Println, Add, Fail, CallExtern, Jmp, Jz,
            Call, Return, ReturnVoid, Throw, EnterTry, EndTry, FinallyEnd, Fetch
      <4>2. Own' = Own
        BY <1>1, <4>1 DEF Ended, vars, Own
      <4>3. QED
        BY <2>1, <3>2, <4>2 DEF WaitInv
    <3>3. CASE status = "running" /\ Own' = Own /\ VM!Ins.op \in {"ADD", "FAIL"}
      <4>1. fn \in DOMAIN prog.code /\ pc \in DOMAIN Code(fn) /\ FnAt(Depth) = fn
            /\ Depth \in 1..Depth /\ Depth \in Nat
        BY <1>2, Running
      <4>2. MayFail(prog, fn)
        BY <3>3, <4>1, SameReads DEF MayFail, Ins, Code
      <4>3. \A d \in 1..Depth : FnAt(d) \in C
        BY <2>1, CallbackFns DEF WaitInv
      <4>4. \A d \in 1..Depth : d = Depth \/ <<FnAt(d), fn>> \in R
        <5>1. \A d \in 1..Depth : d = Depth \/ d < Depth
          BY <4>1
        <5>2. QED
          BY <1>2, <4>1, <5>1, SameReads DEF VM!Related
      <4>5. \A d \in 1..Depth : ~HasTry(prog, FnAt(d))
        BY <4>1, <4>2, <4>3, <4>4 DEF ApartInv, Apart
      <4>6. \A y \in Own : FALSE
        BY <1>2, <4>5, Running
      <4>7. QED
        BY <3>3, <4>6
    <3>4. QED
      BY <1>2, <1>4, <3>1, <3>2, <3>3, VM!EndsClean, VmAssumption
  <2>8. WaitInv(R, C, W)'
    BY <1>1, <1>4, <2>1, <2>4, <2>5, <2>6, <2>7 DEF WaitInv
  <2>9. QED
    BY <1>1, <1>4, <1>5, <2>8 DEF ApartInv, RegisteredOK
<1>8. QED
  BY <1>4, <1>6, <1>7

\* Putting the arguments of a builtin aside for its value is a step of the VM.
LEMMA BuiltinApart ==
  ASSUME NEW R, NEW C, NEW W, ApartInv(R, C, W), Fetch("CALL_EXTERN"), Straight,
         UNCHANGED <<prog, locals, out, suspended>>,
         stack' \in Seq(Value), asked' \in Seq(Nat), RegisteredOK(C)'
  PROVE  ApartInv(R, C, W)' /\ handlers' = handlers
<1>1. UNCHANGED <<handlers, tryCounter, fn, frames, status>> /\ Own' = Own /\ Saved' = Saved
  BY DEF Straight, context, unwind, ending, Own, Saved
<1>2. VM!CloseInv /\ VM!Related(R) /\ VM!Whole
  BY DEF ApartInv
<1>3. VM!Straight /\ VM!Fetch("CALL_EXTERN")
  BY <1>1, SameReads
  DEF Straight, VM!Straight, context, VM!context, unwind, VM!unwind, ending, VM!ending
<1>4. VM!CloseInv' /\ VM!Related(R)' /\ VM!Whole'
  <2>1. stack' \in Seq(VM!Value)
    BY DEF VM!Value, Value
  <2>2. QED
    BY <1>2, <1>3, <2>1, VM!BuiltinCloses, VmAssumption
<1>5. CASE suspended = <<>>
  BY <1>1, <1>4, <1>5 DEF ApartInv
<1>6. CASE suspended # <<>>
  <2>1. WaitInv(R, C, W)
    BY <1>6 DEF ApartInv
  <2>2. tryCounter' \in Nat /\ tryCounter' >= tryCounter /\ out' \in Seq(Value)
    BY <1>1, <1>2, Running
  <2>3. Waiter!CloseInv' /\ Waiter!Whole' /\ Waiter!Related(R)'
    BY <2>1, <2>2, Stays DEF WaitInv
  <2>4. FnAt(1)' = FnAt(1)
    BY <1>1 DEF FnAt, Depth
  <2>5. WaitInv(R, C, W)'
    BY <1>1, <2>1, <2>3, <2>4 DEF WaitInv
  <2>6. QED
    BY <1>4, <2>5, <1>1 DEF ApartInv
<1>7. QED
  BY <1>1, <1>5, <1>6


\* on_key and on_click keep a function of C.
LEMMA RegisterApart ==
  ASSUME NEW R, NEW C, NEW W, ApartInv(R, C, W), Register
  PROVE  ApartInv(R, C, W)' /\ handlers' = handlers
<1>1. /\ Fetch("CALL_EXTERN") /\ "lib" \in DOMAIN Ins /\ Ins.lib = "on" /\ Ins.op = "CALL_EXTERN"
      /\ Straight /\ UNCHANGED <<prog, locals, out, asked, suspended>>
  BY DEF Register, InBuiltin, Fetch, env
<1>2. /\ fn \in DOMAIN prog.code /\ pc \in DOMAIN Code(fn)
      /\ stack \in Seq(Value) /\ asked \in Seq(Nat)
  BY Running DEF ApartInv
<1>3. /\ Ins.kind \in DOMAIN Payload /\ Ins.func \in DOMAIN prog.code /\ Ins.nargs \in Nat
      /\ HandlesEvents(prog, Ins.func)
  BY <1>1, <1>2 DEF ApartInv, WellFormedLibs, IsBuiltin, HandlesEvents, Ins, Code
<1>4. Ins.func \in C
  BY <1>3 DEF ApartInv, Apart
<1>5. stack \in Seq(VM!Value) /\ VM!Value = Value /\ Null \in Value
  BY <1>2 DEF VM!Value, Value
<1> DEFINE seed == [i \in 1..Ins.nargs |-> FromTop(Ins.nargs + 1 - i)]
           kept == <<[func |-> Ins.func, seed |-> seed]>>
<1>6. seed \in Seq(Value)
  <2>1. \A i \in 1..Ins.nargs : Ins.nargs + 1 - i \in Nat \ {0}
    BY <1>3
  <2>2. \A n \in Nat \ {0} : VM!FromTop(n) \in VM!Value
    BY <1>5, VM!FromTopValue, VmAssumption
  <2>3. \A i \in 1..Ins.nargs : FromTop(Ins.nargs + 1 - i) \in Value
    BY <1>5, <2>1, <2>2, SameReads
  <2>4. seed \in [1..Ins.nargs -> Value]
    BY <2>3
  <2> HIDE DEF seed
  <2>5. QED
    BY <1>3, <1>5, <2>4, VM!FunIsSeq, VmAssumption
<1>7. stack' \in Seq(Value)
  <2>1. VM!Popped(Ins.nargs) \in Seq(VM!Value)
    BY <1>3, <1>5, VM!PoppedStack, VmAssumption
  <2>2. Popped(Ins.nargs) \in Seq(Value)
    BY <1>5, <2>1, SameReads
  <2>3. QED
    BY <1>5, <2>2, AppendProperties DEF Register
<1>8. RegisteredOK(C)'
  <2>1. registered' = [registered EXCEPT ![Ins.kind] = kept]
    BY DEF Register
  <2>2. kept[1].func \in C /\ kept[1].seed \in Seq(Value)
    BY <1>4, <1>6
  <2> HIDE DEF kept
  <2>3. QED
    BY <2>1, <2>2 DEF ApartInv, RegisteredOK
<1>9. QED
  BY <1>1, <1>2, <1>7, <1>8, BuiltinApart

\* All windows are closed.
LEMMA CloseApart ==
  ASSUME NEW R, NEW C, NEW W, ApartInv(R, C, W), Close
  PROVE  ApartInv(R, C, W)' /\ handlers' = handlers
<1>1. /\ Fetch("CALL_EXTERN") /\ Straight /\ stack' = Append(stack, Null)
      /\ asked' = Append(asked, 0) /\ UNCHANGED <<prog, locals, out, registered, suspended>>
  BY DEF Close, InLoop, InBuiltin
<1>2. stack \in Seq(Value) /\ asked \in Seq(Nat)
  BY Running DEF ApartInv
<1>3. stack' \in Seq(Value) /\ asked' \in Seq(Nat)
  BY <1>1, <1>2, AppendProperties DEF Value
<1>4. RegisteredOK(C)'
  BY <1>1 DEF ApartInv, RegisteredOK
<1>5. QED
  BY <1>1, <1>3, <1>4, BuiltinApart

\* An event stops the program and enters a function of C.
LEMMA EventApart ==
  ASSUME NEW R, NEW C, NEW W, ApartInv(R, C, W), Event
  PROVE  ApartInv(R, C, W)' /\ handlers' = handlers
<1>1. PICK k \in DOMAIN registered :
        /\ registered[k] # <<>>
        /\ Suspend(registered[k][1].func, registered[k][1].seed \o Payload[k])
        /\ asked' = Append(asked, Told[k])
  BY DEF Event
<1>2. /\ InLoop /\ suspended = <<>> /\ UNCHANGED <<prog, out, tryCounter, ending, registered>>
      /\ Own = handlers
  BY DEF Event, Own, Saved
<1>3. VM!CloseInv /\ VM!Whole /\ VM!Related(R)
  BY DEF ApartInv
<1>4. status = "running" /\ Ins.op = "CALL_EXTERN" /\ "lib" \in DOMAIN Ins /\ Ins.lib = "event_loop"
  BY <1>2 DEF InLoop, InBuiltin, Fetch
<1>5. /\ registered[k][1].func \in C /\ registered[k][1].func \in DOMAIN prog.code
      /\ registered[k][1].seed \in Seq(Value) /\ k \in DOMAIN Payload
  BY <1>1 DEF ApartInv, RegisteredOK
<1>6. Payload[k] \in Seq(Value) /\ Told[k] \in Nat
  <2>1. 1 \in Value /\ 2 \in Value /\ 3 \in Value
    BY DEF Value
  <2>2. <<1>> \in Seq(Value) /\ <<2, 3>> \in Seq(Value)
    BY <2>1
  <2>3. k \in {"key", "click"}
    BY <1>5 DEF Payload
  <2>4. /\ Payload["key"] = <<1>> /\ Payload["click"] = <<2, 3>>
        /\ Told["key"] = 1 /\ Told["click"] = 2
    BY DEF Payload, Told
  <2>5. Payload["key"] \in Seq(Value) /\ Payload["click"] \in Seq(Value)
    BY <2>2, <2>4
  <2>6. Told["key"] \in Nat /\ Told["click"] \in Nat
    BY <2>4
  <2>7. QED
    BY <2>3, <2>5, <2>6
<1>7. asked' \in Seq(Nat)
  BY <1>1, <1>3, <1>6, Running, AppendProperties
<1>8. registered[k][1].seed \o Payload[k] \in Seq(VM!Value)
  BY <1>5, <1>6, ConcatProperties DEF VM!Value, Value
<1>9. /\ suspended' = <<Registers>> /\ fn' = registered[k][1].func /\ pc' = 1
      /\ locals' = FreshLocals(registered[k][1].func, registered[k][1].seed \o Payload[k])
      /\ stack' = <<>> /\ base' = 0 /\ frames' = <<>> /\ pending' = NoPending
      /\ handlers' = handlers /\ Saved' = handlers /\ Own' = {}
  BY <1>1 DEF Suspend, Registers, Saved, Own
<1>10. VM!CloseInv' /\ VM!Whole' /\ VM!Related(R)'
  BY <1>2, <1>3, <1>5, <1>7, <1>8, <1>9, SameReads, VM!EntersCloses, VmAssumption DEF ending
<1>11. Waiter!CloseInv' /\ Waiter!Whole' /\ Waiter!Related(R)'
  BY <1>2, <1>3, <1>4, <1>7, <1>9, Stops
<1>12. \A x \in handlers : x.func \in W
  <2>1. fn \in W
    <3>1. fn \in DOMAIN prog.code /\ pc \in DOMAIN Code(fn)
      BY <1>3, Running
    <3>2. EntersLoop(prog, fn)
      BY <1>4, <3>1 DEF EntersLoop, IsBuiltin, Ins, Code
    <3>3. QED
      BY <3>1, <3>2 DEF ApartInv, Apart
  <2>2. \A d \in 1..Depth : FnAt(d) \in W
    <3> TAKE d \in 1..Depth
    <3>1. Depth \in Nat /\ FnAt(Depth) = fn /\ Depth \in 1..Depth
          /\ fn \in DOMAIN prog.code /\ FnAt(d) \in DOMAIN prog.code
      BY <1>3, Running
    <3>2. CASE d = Depth
      BY <2>1, <3>1, <3>2
    <3>3. CASE d < Depth
      <4>1. <<FnAt(d), fn>> \in R
        BY <1>3, <3>1, <3>3, SameReads DEF VM!Related
      <4>2. QED
        BY <2>1, <3>1, <4>1 DEF ApartInv, Apart
    <3>4. QED
      BY <3>1, <3>2, <3>3
  <2>3. QED
    BY <1>2, <1>3, <2>2, Running
<1>13. FnAt(1)' \in C
  <2>1. Depth' = 1
    BY <1>9, EmptySeq DEF Depth
  <2>2. QED
    BY <1>5, <1>9, <2>1 DEF FnAt
<1>14. WaitInv(R, C, W)'
  BY <1>9, <1>11, <1>12, <1>13 DEF WaitInv
<1>15. RegisteredOK(C)'
  BY <1>2 DEF ApartInv, RegisteredOK
<1>16. QED
  BY <1>2, <1>9, <1>10, <1>14, <1>15 DEF ApartInv

\* A callback that has ended has no handler left, and the program goes on.
LEMMA DoneApart ==
  ASSUME NEW R, NEW C, NEW W, ApartInv(R, C, W), CallbackDone
  PROVE  ApartInv(R, C, W)' /\ handlers' = handlers
<1>1. /\ suspended # <<>> /\ status # "running" /\ Restore(suspended[1])
      /\ suspended' = <<>> /\ UNCHANGED <<handlers, prog, registered>>
  BY DEF CallbackDone, Restore, env
<1>2. WaitInv(R, C, W) /\ Own = {} /\ Saved = suspended[1].waiting
  BY <1>1 DEF ApartInv, WaitInv, Saved
<1>3. Own' = suspended[1].waiting
  BY <1>1, <1>2 DEF WaitInv, Own, Saved
<1>4. VM!CloseInv' /\ VM!Whole' /\ VM!Related(R)'
  BY <1>1, <1>2, <1>3, GoesOn DEF WaitInv
<1>5. RegisteredOK(C)'
  BY <1>1 DEF ApartInv, RegisteredOK
<1>6. QED
  BY <1>1, <1>4, <1>5 DEF ApartInv


\* Every step keeps it, and what waits.
LEMMA NextApart ==
  ASSUME NEW R, NEW C, NEW W, ApartInv(R, C, W), [GuiNext]_guiVars
  PROVE  ApartInv(R, C, W)' /\ Saved \subseteq handlers'
<1>1. CASE Execute
  BY <1>1, ExecuteApart
<1>2. CASE Register \/ Event \/ CallbackDone \/ Close
  <2>1. Saved \subseteq handlers
    BY StandApart DEF Separate
  <2>2. QED
    BY <1>2, <2>1, RegisterApart, EventApart, DoneApart, CloseApart
<1>3. CASE UNCHANGED guiVars
  <2>1. UNCHANGED <<prog, fn, pc, locals, stack, base, frames, handlers, tryCounter,
                    pending, out, asked, status, result, registered, suspended>>
    BY <1>3 DEF guiVars, vars
  <2>2. Own' = Own /\ Saved' = Saved /\ UNCHANGED VM!vars
    BY <2>1 DEF Own, Saved, VM!vars
  <2>3. VM!CloseInv /\ VM!Whole /\ VM!Related(R) /\ RegisteredOK(C) /\ Saved \subseteq handlers
    BY StandApart DEF ApartInv, Separate
  <2>4. VM!CloseInv'
    BY <2>2, <2>3, VM!NextCloses, VmAssumption
  <2>5. VM!Whole' /\ VM!Related(R)' /\ RegisteredOK(C)'
    BY <2>1, <2>2, <2>3 DEF VM!Whole, VM!Related, VM!Depth, VM!FnAt, RegisteredOK
  <2>6. CASE suspended = <<>>
    BY <2>1, <2>3, <2>4, <2>5, <2>6 DEF ApartInv
  <2>7. CASE suspended # <<>>
    <3>1. WaitInv(R, C, W)
      BY <2>7 DEF ApartInv
    <3>2. /\ tryCounter' \in Nat /\ tryCounter' >= tryCounter
          /\ out' \in Seq(Value) /\ asked' \in Seq(Nat)
      BY <2>1, <2>3, Running
    <3>3. Waiter!CloseInv' /\ Waiter!Whole' /\ Waiter!Related(R)'
      BY <2>1, <3>1, <3>2, Stays DEF WaitInv
    <3>4. WaitInv(R, C, W)'
      BY <2>1, <2>2, <3>1, <3>3 DEF WaitInv, FnAt, Depth
    <3>5. QED
      BY <2>1, <2>3, <2>4, <2>5, <3>4 DEF ApartInv
  <2>8. QED
    BY <2>1, <2>3, <2>6, <2>7
<1>4. QED
  BY <1>1, <1>2, <1>3 DEF GuiNext

ApartInvs ==
  \E R \in Nestings(prog), C, W \in SUBSET DOMAIN prog.code : ApartInv(R, C, W)

\* It holds when a program starts ...
LEMMA InitApart ==
  ASSUME \A P \in Programs : UniqueNames(P) /\ TriesClose(P) /\ CallbacksApart(P), GuiInit
  PROVE  ApartInvs
<1>1. /\ Init /\ suspended = <<>> /\ Own = {} /\ handlers = {} /\ prog \in Programs
      /\ registered = [k \in DOMAIN Payload |-> <<>>]
  BY DEF GuiInit, Init, Own
<1>2. PICK R \in Nestings(prog), C \in SUBSET DOMAIN prog.code, W \in SUBSET DOMAIN prog.code :
        Apart(prog, R, C, W)
  BY <1>1 DEF CallbacksApart
<1>3. VM!Init
  BY <1>1, SameReads
  DEF Init, VM!Init, FreshLocals, VM!FreshLocals, NoPending, VM!NoPending
<1>4. \A P \in Programs : VM!UniqueNames(P) /\ VM!NoTryReentered(P) /\ VM!TriesClose(P)
  BY SameProgram DEF CallbacksApart, NoTryReentered
<1>5. VM!CloseInv
  BY <1>3, <1>4, VM!InitCloses, VmAssumption
<1>6. VM!Related(R) /\ VM!Whole
  <2>1. VM!Depth = 1
    BY <1>1, EmptySeq DEF VM!Depth, Init
  <2>2. QED
    BY <1>1, <2>1 DEF VM!Related, VM!Whole
<1>7. RegisteredOK(C)
  BY <1>1 DEF RegisteredOK
<1>8. WellFormedLibs(prog)
  BY <1>1, CallbacksAssumption
<1>9. ApartInv(R, C, W)
  BY <1>1, <1>2, <1>5, <1>6, <1>7, <1>8 DEF ApartInv
<1>10. QED
  BY <1>9 DEF ApartInvs

\* ... and at every step, at which what waits stays.
LEMMA NextApartInvs ==
  ASSUME ApartInvs, [GuiNext]_guiVars
  PROVE  ApartInvs' /\ Saved \subseteq handlers'
<1>1. PICK R \in Nestings(prog), C \in SUBSET DOMAIN prog.code, W \in SUBSET DOMAIN prog.code :
        ApartInv(R, C, W)
  BY DEF ApartInvs
<1>2. ApartInv(R, C, W)' /\ Saved \subseteq handlers'
  BY <1>1, NextApart
<1>3. R \in Nestings(prog)' /\ C \in SUBSET (DOMAIN prog.code)' /\ W \in SUBSET (DOMAIN prog.code)'
  BY <1>2 DEF ApartInv, Apart
<1>4. QED
  BY <1>2, <1>3 DEF ApartInvs

-----------------------------------------------------------------------------
(* Theorems *)

\* Also while callbacks run, the VM never decodes outside the code of the
\* function it runs, and every register and handler has its type: what
\* run_callback puts aside (gui.rs:137) fits when it comes back.
THEOREM CallbacksTypeCorrect ==
  ASSUME \A P \in Programs : UniqueNames(P) /\ TriesClose(P) /\ CallbacksApart(P)
  PROVE  GuiSpec => []TypeOK
<1>1. GuiInit => ApartInvs
  BY InitApart
<1>2. ApartInvs /\ [GuiNext]_guiVars => ApartInvs'
  BY NextApartInvs
<1>3. ApartInvs => TypeOK
  <2>1. SUFFICES ASSUME NEW R, NEW C, NEW W, ApartInv(R, C, W) PROVE TypeOK
    BY DEF ApartInvs
  <2>2. VM!TypeOK
    BY <2>1 DEF ApartInv, VM!CloseInv, VM!NestInv, VM!IInv
  <2>3. /\ VM!Value = Value /\ VM!Pending = Pending /\ VM!Frames = Frames
        /\ VM!Handlers = Handlers /\ \A f : VM!Locals(f) = Locals(f) /\ VM!Code(f) = Code(f)
        /\ \A f : VM!FuncIdx(prog, f) = FuncIdx(prog, f)
    BY DEF VM!Locals, Locals, VM!Value, Value, VM!Frames, Frames, VM!Pending, Pending,
       VM!Handlers, Handlers, VM!Rank, Rank, VM!Code, Code, VM!FuncIdx, FuncIdx
  <2>4. \A cf : VM!Resumable(cf) => Resumable(cf)
    BY <2>3 DEF VM!Resumable, Resumable
  <2>5. Saved \subseteq Handlers
    <3>1. CASE suspended = <<>>
      BY <3>1 DEF Saved
    <3>2. CASE suspended # <<>>
      <4>1. Waiter!TypeOK
        BY <2>1, <3>2 DEF ApartInv, WaitInv, Waiter!CloseInv, Waiter!NestInv, Waiter!IInv
      <4>2. Waiter!Handlers = Handlers
        BY DEF Waiter!Handlers, Handlers, Waiter!Rank, Rank
      <4>3. QED
        BY <3>2, <4>1, <4>2 DEF Saved, Waiter!TypeOK
    <3>3. QED
      BY <3>1, <3>2
  <2>6. handlers \subseteq Handlers
    BY <2>2, <2>3, <2>5 DEF VM!TypeOK, Own
  <2>7. QED
    BY <2>2, <2>3, <2>4, <2>6 DEF TypeOK, VM!TypeOK
<1>4. QED
  BY <1>1, <1>2, <1>3, PTL DEF GuiSpec

\* Also while callbacks run, the handlers that raise and return_value find were
\* pushed by the current activation, never by the program that waits on the
\* same handler stack.
THEOREM CallbacksOwnHandlers ==
  ASSUME \A P \in Programs : UniqueNames(P) /\ TriesClose(P) /\ CallbacksApart(P)
  PROVE  GuiSpec => []OwnHandlers
<1>1. GuiInit => ApartInvs
  BY InitApart
<1>2. ApartInvs /\ [GuiNext]_guiVars => ApartInvs'
  BY NextApartInvs
<1>3. ApartInvs => OwnHandlers
  <2>1. SUFFICES ASSUME NEW R, NEW C, NEW W, ApartInv(R, C, W),
                        NEW h \in handlers, h.kind # "MARK", h.func = Cur
                 PROVE  h.act = Depth
    BY DEF ApartInvs, OwnHandlers
  <2>2. VM!NestInv /\ Depth \in 1..Depth /\ FuncAt(Depth) = Cur
    <3>1. VM!CloseInv
      BY <2>1 DEF ApartInv
    <3>2. QED
      BY <3>1, Running DEF VM!CloseInv, FuncAt
  <2>3. h \in Own
    BY <2>1, <2>2, StandApart DEF Separate, Own
  <2>4. QED
    BY <2>1, <2>2, <2>3, SameReads, VM!OwnFunc, VmAssumption
<1>4. QED
  BY <1>1, <1>2, <1>3, PTL DEF GuiSpec

\* A program that waits in event_loop finds, when it goes on, every handler it
\* had when it began to wait: a callback removes none of them.
THEOREM CallbacksKeepWaiters ==
  ASSUME \A P \in Programs : UniqueNames(P) /\ TriesClose(P) /\ CallbacksApart(P)
  PROVE  GuiSpec => WaitersHandlersKept
<1>1. GuiInit => ApartInvs
  BY InitApart
<1>2. ApartInvs /\ [GuiNext]_guiVars => ApartInvs'
  BY NextApartInvs
<1>3. ApartInvs /\ [GuiNext]_guiVars =>
        [suspended # <<>> => suspended[1].waiting \subseteq handlers']_guiVars
  BY NextApartInvs DEF Saved
<1>4. QED
  BY <1>1, <1>2, <1>3, PTL DEF GuiSpec, WaitersHandlersKept

\* Also in callbacks, leaving a try or a finally normally ends a try block of
\* this function: neither its callers nor the program that waits lose a handler.
THEOREM CallbacksKeepCallers ==
  ASSUME \A P \in Programs : UniqueNames(P) /\ TriesClose(P) /\ CallbacksApart(P)
  PROVE  GuiSpec => CallerHandlersKept
<1>1. GuiInit => ApartInvs
  BY InitApart
<1>2. ApartInvs /\ [GuiNext]_guiVars => ApartInvs'
  BY NextApartInvs
<1>3. ApartInvs /\ [GuiNext]_guiVars =>
        [Fetch("ENDTRY") \/ Fetch("FINALLY_END") =>
           \A h \in handlers \ handlers' : h.act = Depth \/ Depth' < Depth]_vars
  <2>1. SUFFICES ASSUME NEW R, NEW C, NEW W, ApartInv(R, C, W), [GuiNext]_guiVars,
                        Fetch("ENDTRY") \/ Fetch("FINALLY_END"),
                        NEW h \in handlers \ handlers'
                 PROVE  h.act = Depth \/ Depth' < Depth
    BY DEF ApartInvs
  <2>2. CASE Execute
    <3>1. VM!Next /\ Saved \subseteq handlers' /\ VM!CloseInv
      BY <2>1, <2>2, ExecuteApart DEF ApartInv
    <3>2. h \in Own \ Own'
      BY <2>1, <3>1 DEF Own
    <3>3. h.act = VM!Depth \/ VM!Depth' < VM!Depth
      BY <2>1, <3>1, <3>2, SameReads, VM!KeptStep, VmAssumption
    <3>4. QED
      BY <3>3 DEF VM!Depth, Depth
  <2>3. CASE Register \/ Event \/ CallbackDone \/ Close
    BY <2>1, <2>3, RegisterApart, EventApart, DoneApart, CloseApart
  <2>4. CASE UNCHANGED guiVars
    BY <2>1, <2>4 DEF guiVars, vars
  <2>5. QED
    BY <2>1, <2>2, <2>3, <2>4 DEF GuiNext
<1>4. QED
  BY <1>1, <1>2, <1>3, PTL DEF GuiSpec, CallerHandlersKept

=============================================================================
