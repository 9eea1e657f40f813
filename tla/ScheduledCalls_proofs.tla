----------------------- MODULE ScheduledCalls_proofs ------------------------
(***************************************************************************)
(* Proofs about ScheduledCalls, for every set of programs, every size of   *)
(* the pools and every number of events: a scheduled call blocks its       *)
(* caller everywhere, and as long as panics leave a pool a worker its next *)
(* task never waits for a worker that is busy with another one.            *)
(*                                                                         *)
(* The second fact does not follow from the first alone: it needs that the *)
(* workers of a VM's pool only run tasks this VM submitted (WorkersOK),    *)
(* and that a VM waits for exactly the task it has queued (QueuedOK).      *)
(***************************************************************************)
EXTENDS ScheduledCalls, SequenceTheorems, TLAPS

\* A VM that will go on has something to go on with.
StacksOK ==
  \A v \in DOMAIN vms :
    /\ vms[v].state \in {"running", "waiting", "queued"} => vms[v].stack # <<>>
    /\ vms[v].state = "waiting" => vms[v].on \in DOMAIN vms

QueuedTask(p, q) ==
  /\ q \in DOMAIN vms /\ q # 1
  /\ vms[q].state = "queued"
  /\ vms[p[1]].state = "waiting" /\ vms[p[1]].on = q

\* A task in a queue is the one the owner of the pool waits for.
QueuedOK ==
  \A p \in DOMAIN pools : \A i \in DOMAIN pools[p].queue :
    QueuedTask(p, pools[p].queue[i])

\* There is at most one task in all queues together.
OnePlace ==
  \A p, r \in DOMAIN pools :
    \A i \in DOMAIN pools[p].queue, j \in DOMAIN pools[r].queue : p = r /\ i = j

WorkersTask(p, w) ==
  /\ w \in DOMAIN vms /\ w # 1
  /\ vms[w].state \notin {"queued", "idle"}
  /\ vms[w].state # "gone" => vms[p[1]].state = "waiting" /\ vms[p[1]].on = w

\* The task of a worker is over, or the owner of the pool waits for it.
WorkersOK ==
  \A p \in DOMAIN pools : \A i \in DOMAIN pools[p].workers :
    pools[p].workers[i] > 0 => WorkersTask(p, pools[p].workers[i])

Links == StacksOK /\ QueuedOK /\ OnePlace /\ WorkersOK

IInv == TypeOK /\ OneRuns /\ Links

-----------------------------------------------------------------------------
(* Sequences *)

\* The indices of a sequence are 1..n for a natural number n.
LEMMA SeqDomain ==
  ASSUME NEW S, NEW s \in Seq(S)
  PROVE  Len(s) \in Nat /\ DOMAIN s = 1..Len(s)
BY LenProperties

\* Updating a sequence keeps its type and its indices.
LEMMA SeqUpdate ==
  ASSUME NEW S, NEW s \in Seq(S), NEW i \in DOMAIN s, NEW x \in S
  PROVE  /\ [s EXCEPT ![i] = x] \in Seq(S)
         /\ DOMAIN [s EXCEPT ![i] = x] = DOMAIN s
         /\ Len([s EXCEPT ![i] = x]) = Len(s)
BY ExceptSeq

-----------------------------------------------------------------------------
(* Steps of the VM whose turn it is *)

NewRecord(v, r) ==
  /\ r \in Vms
  /\ r.state \in {"running", "answered", "idle", "gone"}
  /\ r.state = "running" => r.stack # <<>>
  /\ r.state \in {"idle", "gone"} => v = 1
  /\ r.state = "answered" => v # 1

\* VM v, which runs or is idle, changes itself and nothing else.
OwnStep(v) ==
  /\ v \in DOMAIN vms
  /\ vms[v].state \in {"running", "idle"}
  /\ \E r : NewRecord(v, r) /\ vms' = [vms EXCEPT ![v] = r]
  /\ phase' \in {"main", "loop", "exited"} /\ events' \in 0..MaxEvents
  /\ UNCHANGED <<prog, pools>>

\* Such a step keeps the type of everything.
LEMMA OwnStepType ==
  ASSUME IInv, NEW v, OwnStep(v)
  PROVE  TypeOK'
<1>1. PICK r : NewRecord(v, r) /\ vms' = [vms EXCEPT ![v] = r]
  BY DEF OwnStep
<1>2. vms \in Seq(Vms) /\ v \in DOMAIN vms /\ r \in Vms /\ vms # <<>>
  BY <1>1 DEF OwnStep, IInv, TypeOK, NewRecord
<1>3. vms' \in Seq(Vms) /\ DOMAIN vms' = DOMAIN vms /\ vms' # <<>>
  BY <1>1, <1>2, SeqUpdate, SeqDomain, EmptySeq
<1>4. Vms' = Vms /\ \A k : PoolType(k)' = PoolType(k)
  BY DEF OwnStep, Vms, Activations, PoolType, PoolSize
<1>5. QED
  BY <1>3, <1>4 DEF OwnStep, IInv, TypeOK

\* It keeps who is active: v was, and only v can be.
LEMMA OwnStepOneRuns ==
  ASSUME IInv, NEW v, OwnStep(v)
  PROVE  OneRuns'
<1>1. PICK r : NewRecord(v, r) /\ vms' = [vms EXCEPT ![v] = r]
  BY DEF OwnStep
<1>2. DOMAIN vms' = DOMAIN vms /\ \A w \in DOMAIN vms \ {v} : vms'[w] = vms[w]
  BY <1>1 DEF OwnStep
<1>3. v \in DOMAIN vms /\ Active(v)
  BY DEF OwnStep, Active
<1>4. \A w \in DOMAIN vms : Active(w)' => w = v
  BY <1>2, <1>3 DEF IInv, OneRuns, Active
<1>5. QED
  BY <1>2, <1>4 DEF OneRuns

\* It keeps the links: no queue and no waiting VM is touched.
LEMMA OwnStepLinks ==
  ASSUME IInv, NEW v, OwnStep(v)
  PROVE  Links'
<1>1. PICK r : NewRecord(v, r) /\ vms' = [vms EXCEPT ![v] = r]
  BY DEF OwnStep
<1>2. DOMAIN vms' = DOMAIN vms /\ \A w \in DOMAIN vms \ {v} : vms'[w] = vms[w]
  BY <1>1 DEF OwnStep
<1>3. v \in DOMAIN vms /\ vms[v].state \in {"running", "idle"} /\ vms'[v] = r
  BY <1>1 DEF OwnStep
<1>4. pools' = pools /\ \A p \in DOMAIN pools : p[1] \in DOMAIN vms
  BY DEF OwnStep, IInv, TypeOK
<1>5. StacksOK'
  BY <1>1, <1>2, <1>3 DEF IInv, Links, StacksOK, NewRecord
<1>6. QueuedOK'
  BY <1>2, <1>3, <1>4 DEF IInv, Links, QueuedOK, QueuedTask
<1>7. OnePlace'
  BY <1>4 DEF IInv, Links, OnePlace
<1>8. WorkersOK'
  BY <1>1, <1>2, <1>3, <1>4 DEF IInv, Links, WorkersOK, WorkersTask, NewRecord
<1>9. QED
  BY <1>5, <1>6, <1>7, <1>8 DEF Links

\* A step of a VM on itself preserves the inductive invariant.
LEMMA OwnStepIInv ==
  ASSUME IInv, NEW v, OwnStep(v)
  PROVE  IInv'
BY OwnStepType, OwnStepOneRuns, OwnStepLinks DEF IInv

-----------------------------------------------------------------------------
(* The actions that are steps of one VM on itself *)

\* Program facts: the body of a function and the callee of a call exist.
LEMMA ProgramFacts ==
  ASSUME TypeOK
  PROVE  /\ WellFormedProgram(prog) /\ 1 \in DOMAIN prog.funcs
         /\ prog.callbacks \subseteq DOMAIN prog.funcs
BY SchedulingAssumption DEF TypeOK, WellFormedProgram

\* The last element of a non-empty sequence.
LEMMA LastElement ==
  ASSUME NEW S, NEW s \in Seq(S), s # <<>>
  PROVE  Len(s) \in Nat \ {0} /\ Len(s) \in DOMAIN s /\ s[Len(s)] \in S
<1>1. Len(s) \in Nat \ {0} /\ Len(s) \in DOMAIN s
  BY LenProperties, EmptySeq
<1>2. QED
  BY <1>1, ElementOfSeq

\* The current activation of a VM with a stack.
LEMMA TopFacts ==
  ASSUME TypeOK, NEW v \in DOMAIN vms, vms[v].stack # <<>>
  PROVE  /\ vms[v] \in Vms
         /\ Len(vms[v].stack) \in Nat \ {0}
         /\ Top(v).func \in DOMAIN prog.funcs /\ Top(v).at \in Nat \ {0}
<1>1. vms[v] \in Vms
  BY ElementOfSeq, SeqDomain DEF TypeOK
<1>2. vms[v].stack \in Seq(Activations)
  BY <1>1 DEF Vms
<1>3. Len(vms[v].stack) \in Nat \ {0} /\ Top(v) \in Activations
  BY <1>2, LastElement DEF Top
<1>4. QED
  BY <1>1, <1>3 DEF Activations

\* The callee of an activation that has not finished is a function.
LEMMA CalleeFacts ==
  ASSUME TypeOK, NEW v \in DOMAIN vms, vms[v].stack # <<>>, ~Finished(v)
  PROVE  Callee(v) \in DOMAIN prog.funcs
<1> DEFINE f == Top(v).func
<1>1. f \in DOMAIN prog.funcs /\ Top(v).at \in Nat \ {0}
  BY TopFacts
<1>2. WellFormedFunc(prog, prog.funcs[f])
  BY <1>1, ProgramFacts DEF WellFormedProgram
<1>3. Top(v).at \in DOMAIN Body(f)
  BY <1>1, <1>2 DEF WellFormedFunc, Finished, Body
<1>4. QED
  BY <1>2, <1>3 DEF WellFormedFunc, Callee, Body

\* A fresh activation, pushed on a stack or alone, has the right type.
LEMMA ActivationType ==
  ASSUME NEW f \in DOMAIN prog.funcs
  PROVE  /\ Activation(f) \in Activations
         /\ <<Activation(f)>> \in Seq(Activations)
         /\ <<Activation(f)>> # <<>>
<1>1. Activation(f) \in Activations
  BY DEF Activation, Activations
<1>2. QED
  BY <1>1, EmptySeq

\* Going on behind a call keeps a stack a non-empty stack.
LEMMA AdvanceType ==
  ASSUME NEW stk \in Seq(Activations), stk # <<>>
  PROVE  /\ Advance(stk) \in Seq(Activations)
         /\ Advance(stk) # <<>>
<1> DEFINE n == Len(stk)
           x == [stk[n] EXCEPT !.at = @ + 1]
<1>1. n \in DOMAIN stk /\ stk[n] \in Activations
  BY LastElement
<1>2. x \in Activations
  BY <1>1 DEF Activations
<1>3. Advance(stk) = [stk EXCEPT ![n] = x]
  BY DEF Advance
<1>4. QED
  BY <1>1, <1>2, <1>3, SeqUpdate, EmptySeq

\* What is below the top of a stack is a non-empty stack.
LEMMA PrefixType ==
  ASSUME NEW A, NEW stk \in Seq(A), NEW n \in 1..Len(stk)
  PROVE  SubSeq(stk, 1, n) \in Seq(A) /\ SubSeq(stk, 1, n) # <<>>
<1>1. Len(stk) \in Nat /\ \A i \in 1..n : stk[i] \in A
  BY LenProperties, ElementOfSeq
<1>2. SubSeq(stk, 1, n) \in Seq(A) /\ Len(SubSeq(stk, 1, n)) = n
  BY <1>1, SubSeqProperties
<1>3. QED
  BY <1>2, EmptySeq

\* The end of a running VM is a step of that VM on itself.
LEMMA EndVmIsOwnStep ==
  ASSUME TypeOK, NEW v \in DOMAIN vms, vms[v].state = "running",
         NEW how \in {"value", "error", "closed"},
         EndVm(vms, v, how), UNCHANGED <<prog, events, pools>>
  PROVE  OwnStep(v)
<1>1. vms[v] \in Vms /\ vms \in Seq(Vms)
  BY ElementOfSeq, SeqDomain DEF TypeOK
<1>2. PhaseAfter(how) \in {"loop", "exited"}
  BY DEF PhaseAfter
<1>3. CASE v # 1
  <2> DEFINE r == [vms[v] EXCEPT !.state = "answered", !.answer = how]
  <2>1. NewRecord(v, r)
    BY <1>1, <1>3 DEF NewRecord, Vms
  <2>2. vms' = [vms EXCEPT ![v] = r]
    BY <1>3 DEF EndVm, EndOf
  <2>3. QED
    BY <1>3, <2>1, <2>2 DEF OwnStep, EndVm, TypeOK
<1>4. CASE v = 1
  <2> DEFINE r == [vms[1] EXCEPT
                     !.state = IF PhaseAfter(how) = "loop" THEN "idle" ELSE "gone",
                     !.stack = <<>>]
  <2>0. <<>> \in Seq(Activations)
    BY EmptySeq
  <2>1. NewRecord(v, r)
    BY <1>1, <1>4, <2>0 DEF NewRecord, Vms
  <2>2. vms' = [vms EXCEPT ![v] = r]
    BY <1>4 DEF EndVm, EndOf
  <2>3. QED
    BY <1>2, <1>4, <2>1, <2>2 DEF OwnStep, EndVm, TypeOK
<1>5. QED
  BY <1>3, <1>4

\* Changing only the stack of a running VM is a step of that VM on itself.
LEMMA StackChangeIsOwnStep ==
  ASSUME TypeOK, NEW v \in DOMAIN vms, vms[v].state = "running",
         NEW stk \in Seq(Activations), stk # <<>>,
         vms' = [vms EXCEPT ![v].stack = stk], UNCHANGED <<prog, phase, events, pools>>
  PROVE  OwnStep(v)
<1> DEFINE r == [vms[v] EXCEPT !.stack = stk]
<1>1. vms[v] \in Vms
  BY ElementOfSeq, SeqDomain DEF TypeOK
<1>2. NewRecord(v, r)
  BY <1>1 DEF NewRecord, Vms
<1>3. vms' = [vms EXCEPT ![v] = r]
  OBVIOUS
<1>4. QED
  BY <1>2, <1>3 DEF OwnStep, TypeOK

\* A call inside the VM pushes an activation.
LEMMA CallInlineStep ==
  ASSUME IInv, NEW v \in DOMAIN vms, CallInline(v)
  PROVE  OwnStep(v)
<1> DEFINE stk == Append(vms[v].stack, Activation(Callee(v)))
<1>1. vms[v].state = "running" /\ vms[v].stack # <<>> /\ TypeOK
  BY DEF CallInline, Running, IInv, Links, StacksOK
<1>2. Callee(v) \in DOMAIN prog.funcs /\ vms[v] \in Vms
  BY <1>1, CalleeFacts, TopFacts DEF CallInline
<1>3. stk \in Seq(Activations) /\ stk # <<>>
  BY <1>2, ActivationType, AppendProperties DEF Vms
<1>4. QED
  BY <1>1, <1>3, StackChangeIsOwnStep DEF CallInline

\* A return pops an activation or ends the entry.
LEMMA ReturnStep ==
  ASSUME IInv, NEW v \in DOMAIN vms, Return(v)
  PROVE  OwnStep(v)
<1> DEFINE n == Len(vms[v].stack)
           stk == Advance(SubSeq(vms[v].stack, 1, n - 1))
<1>1. vms[v].state = "running" /\ vms[v].stack # <<>> /\ TypeOK
  BY DEF Return, Running, IInv, Links, StacksOK
<1>2. vms[v] \in Vms /\ n \in Nat \ {0}
  BY <1>1, TopFacts
<1>3. CASE n > 1 /\ vms' = [vms EXCEPT ![v].stack = stk] /\ UNCHANGED phase
  <2>1. n - 1 \in 1..Len(vms[v].stack) /\ vms[v].stack \in Seq(Activations)
    BY <1>2, <1>3 DEF Vms
  <2>2. stk \in Seq(Activations) /\ stk # <<>>
    BY <2>1, PrefixType, AdvanceType
  <2>3. QED
    BY <1>1, <1>3, <2>2, StackChangeIsOwnStep DEF Return
<1>4. CASE EndVm(vms, v, "value")
  BY <1>1, <1>4, EndVmIsOwnStep DEF Return
<1>5. QED
  BY <1>3, <1>4 DEF Return

\* A throw cuts the stack or ends the entry.
LEMMA ThrowStep ==
  ASSUME IInv, NEW v \in DOMAIN vms, Throw(v)
  PROVE  OwnStep(v)
<1>1. vms[v].state = "running" /\ vms[v].stack # <<>> /\ TypeOK
  BY DEF Throw, Running, IInv, Links, StacksOK
<1>2. vms[v] \in Vms /\ Len(vms[v].stack) \in Nat \ {0}
  BY <1>1, TopFacts
<1>3. CASE EndVm(vms, v, "error")
  BY <1>1, <1>3, EndVmIsOwnStep DEF Throw
<1>4. CASE \E d \in Guarded(vms[v].stack) :
             /\ vms' = [vms EXCEPT ![v].stack = Advance(SubSeq(@, 1, d))]
             /\ UNCHANGED phase
  <2>1. PICK d \in Guarded(vms[v].stack) :
          /\ vms' = [vms EXCEPT ![v].stack = Advance(SubSeq(vms[v].stack, 1, d))]
          /\ UNCHANGED phase
    BY <1>4
  <2>2. d \in 1..Len(vms[v].stack)
    BY <1>2, <2>1 DEF Guarded
  <2> DEFINE stk == Advance(SubSeq(vms[v].stack, 1, d))
  <2>3. stk \in Seq(Activations) /\ stk # <<>>
    BY <1>2, <2>2, PrefixType, AdvanceType DEF Vms
  <2>4. QED
    BY <1>1, <2>1, <2>3, StackChangeIsOwnStep DEF Throw
<1>5. QED
  BY <1>3, <1>4 DEF Throw

\* An Err or a panic ends the entry.
LEMMA FailureStep ==
  ASSUME IInv, NEW v \in DOMAIN vms, Err(v) \/ Panic(v)
  PROVE  OwnStep(v)
BY EndVmIsOwnStep DEF Err, Panic, Running, IInv

\* An event starts a callback on VM 1.
LEMMA EventStep ==
  ASSUME IInv, Event
  PROVE  OwnStep(1)
<1>1. vms[1] \in Vms /\ 1 \in DOMAIN vms
  BY ElementOfSeq, SeqDomain, EmptySeq DEF TypeOK, IInv
<1>2. PICK f \in prog.callbacks :
        vms' = [vms EXCEPT ![1].state = "running", ![1].stack = <<Activation(f)>>]
  BY DEF Event
<1>3. f \in DOMAIN prog.funcs
  BY <1>2, ProgramFacts DEF IInv
<1> DEFINE r == [vms[1] EXCEPT !.state = "running", !.stack = <<Activation(f)>>]
<1>4. NewRecord(1, r)
  BY <1>1, <1>3, ActivationType DEF NewRecord, Vms
<1>5. vms' = [vms EXCEPT ![1] = r]
  BY <1>2
<1>6. events' \in 0..MaxEvents
  BY SchedulingAssumption DEF Event, IInv, TypeOK
<1>7. QED
  BY <1>1, <1>4, <1>5, <1>6 DEF OwnStep, Event, IInv, TypeOK

\* Closing the windows ends VM 1.
LEMMA CloseStep ==
  ASSUME IInv, Close
  PROVE  OwnStep(1)
<1>1. vms[1] \in Vms /\ 1 \in DOMAIN vms
  BY ElementOfSeq, SeqDomain, EmptySeq DEF TypeOK, IInv
<1> DEFINE r == [vms[1] EXCEPT !.state = "gone"]
<1>2. NewRecord(1, r)
  BY <1>1 DEF NewRecord, Vms
<1>3. vms' = [vms EXCEPT ![1] = r]
  BY DEF Close
<1>4. QED
  BY <1>1, <1>2, <1>3 DEF OwnStep, Close, IInv, TypeOK

-----------------------------------------------------------------------------
(* Receiving an answer *)

\* VM v takes the answer of the task c it waits for and goes on or ends.
TakesAnswer(v, c) ==
  /\ v \in DOMAIN vms /\ vms[v].state = "waiting" /\ vms[v].on = c
  /\ c \in DOMAIN vms /\ vms[c].state = "answered"
  /\ \E r, rc : /\ NewRecord(v, r)
                /\ rc \in Vms /\ rc.state = "gone"
                /\ rc.answer = vms[c].answer /\ r.answer \in {vms[v].answer, "error"}
                /\ vms' = [[vms EXCEPT ![c] = rc] EXCEPT ![v] = r]
  /\ phase' \in {"main", "loop", "exited"} /\ events' \in 0..MaxEvents
  /\ UNCHANGED <<prog, pools>>

\* Receive is such a step.
LEMMA ReceiveStep ==
  ASSUME IInv, NEW v \in DOMAIN vms, Receive(v)
  PROVE  TakesAnswer(v, vms[v].on)
<1> DEFINE c == vms[v].on
           rc == [vms[c] EXCEPT !.state = "gone"]
           gone == [vms EXCEPT ![c].state = "gone"]
<1>1. /\ vms[v].state = "waiting" /\ vms[c].state = "answered"
      /\ c \in DOMAIN vms /\ vms[v].stack # <<>> /\ TypeOK /\ c # v
  BY DEF Receive, IInv, Links, StacksOK
<1>2. vms[v] \in Vms /\ vms[c] \in Vms
  BY <1>1, ElementOfSeq, SeqDomain DEF TypeOK
<1>3. /\ rc \in Vms /\ rc.state = "gone" /\ rc.answer = vms[c].answer
      /\ gone = [vms EXCEPT ![c] = rc]
  BY <1>2 DEF Vms
<1>4. gone[v] = vms[v] /\ DOMAIN gone = DOMAIN vms
  BY <1>1
<1>5. CASE /\ vms' = [gone EXCEPT ![v].state = "running", ![v].stack = Advance(@)]
           /\ UNCHANGED phase
  <2> DEFINE r == [vms[v] EXCEPT !.state = "running", !.stack = Advance(vms[v].stack)]
  <2>1. vms[v].stack \in Seq(Activations)
    BY <1>2 DEF Vms
  <2>2. Advance(vms[v].stack) \in Seq(Activations) /\ Advance(vms[v].stack) # <<>>
    BY <1>1, <2>1, AdvanceType
  <2>3. NewRecord(v, r) /\ r.answer \in {vms[v].answer, "error"}
    <3> DEFINE stk == Advance(vms[v].stack)
    <3> HIDE DEF stk
    <3> QED
      BY <1>2, <2>2 DEF NewRecord, Vms
  <2>4. vms' = [gone EXCEPT ![v] = [[gone[v] EXCEPT !.state = "running"]
                                     EXCEPT !.stack = Advance(gone[v].stack)]]
    <3> HIDE DEF gone
    <3> QED
      BY <1>1, <1>4, <1>5
  <2>5. vms' = [gone EXCEPT ![v] = r]
    BY <1>4, <2>4
  <2>6. QED
    BY <1>1, <1>3, <1>5, <2>3, <2>5 DEF TakesAnswer, Receive, TypeOK
<1>6. CASE EndVm(gone, v, "error") /\ v # 1
  <2> DEFINE r == [vms[v] EXCEPT !.state = "answered", !.answer = "error"]
  <2>1. NewRecord(v, r) /\ r.answer \in {vms[v].answer, "error"}
    BY <1>2, <1>6 DEF NewRecord, Vms
  <2>2. vms' = [gone EXCEPT ![v] = r]
    BY <1>4, <1>6 DEF EndVm, EndOf
  <2>3. phase' = phase
    BY <1>6 DEF EndVm
  <2>4. QED
    BY <1>1, <1>3, <2>1, <2>2, <2>3 DEF TakesAnswer, Receive, TypeOK
<1>7. CASE EndVm(gone, v, "error") /\ v = 1
  <2> DEFINE s == IF PhaseAfter("error") = "loop" THEN "idle" ELSE "gone"
             r == [vms[v] EXCEPT !.state = s, !.stack = <<>>]
  <2>1. <<>> \in Seq(Activations) /\ s \in {"idle", "gone"}
    BY EmptySeq
  <2>2. NewRecord(v, r) /\ r.answer \in {vms[v].answer, "error"}
    <3> HIDE DEF s
    <3> QED
      BY <1>2, <1>7, <2>1 DEF NewRecord, Vms
  <2>3. vms' = [gone EXCEPT ![v] = r]
    BY <1>4, <1>7 DEF EndVm, EndOf
  <2>4. phase' \in {"loop", "exited"}
    BY <1>7 DEF EndVm, PhaseAfter
  <2>5. QED
    BY <1>1, <1>3, <2>2, <2>3, <2>4 DEF TakesAnswer, Receive, TypeOK
<1>8. QED
  BY <1>5, <1>6, <1>7 DEF Receive

\* What it does to the other VMs: nothing.
LEMMA TakesAnswerFacts ==
  ASSUME IInv, NEW v, NEW c, TakesAnswer(v, c)
  PROVE  /\ v \in DOMAIN vms /\ c \in DOMAIN vms /\ v # c
         /\ vms[v].state = "waiting" /\ vms[v].on = c /\ vms[c].state = "answered"
         /\ vms' \in Seq(Vms) /\ DOMAIN vms' = DOMAIN vms
         /\ \A w \in DOMAIN vms \ {v, c} : vms'[w] = vms[w]
         /\ NewRecord(v, vms'[v]) /\ vms'[c].state = "gone"
         /\ vms'[c].answer = vms[c].answer /\ vms'[v].answer \in {vms[v].answer, "error"}
<1>1. PICK r, rc : /\ NewRecord(v, r)
                   /\ rc \in Vms /\ rc.state = "gone"
                   /\ rc.answer = vms[c].answer /\ r.answer \in {vms[v].answer, "error"}
                /\ rc.answer = vms[c].answer /\ r.answer \in {vms[v].answer, "error"}
                   /\ vms' = [[vms EXCEPT ![c] = rc] EXCEPT ![v] = r]
  BY DEF TakesAnswer
<1>2. /\ v \in DOMAIN vms /\ c \in DOMAIN vms /\ v # c /\ vms \in Seq(Vms)
      /\ r \in Vms
  BY <1>1 DEF TakesAnswer, IInv, TypeOK, NewRecord
<1>3. [vms EXCEPT ![c] = rc] \in Seq(Vms) /\ DOMAIN [vms EXCEPT ![c] = rc] = DOMAIN vms
  BY <1>1, <1>2, SeqUpdate
<1>4. vms' \in Seq(Vms) /\ DOMAIN vms' = DOMAIN vms
  BY <1>1, <1>2, <1>3, SeqUpdate
<1>5. QED
  BY <1>1, <1>2, <1>4 DEF TakesAnswer

\* Taking an answer preserves the inductive invariant: the turn passes from
\* the task to the VM that waited for it.
LEMMA TakesAnswerIInv ==
  ASSUME IInv, NEW v, NEW c, TakesAnswer(v, c)
  PROVE  IInv'
<1> USE TakesAnswerFacts
<1>1. TypeOK'
  <2>1. Vms' = Vms /\ \A k : PoolType(k)' = PoolType(k)
    BY DEF TakesAnswer, Vms, Activations, PoolType, PoolSize
  <2>2. vms' # <<>>
    BY SeqDomain, EmptySeq DEF IInv, TypeOK
  <2>3. QED
    BY <2>1, <2>2 DEF TakesAnswer, IInv, TypeOK
<1>2. \A w \in DOMAIN vms : Active(w)' => w = v
  BY DEF IInv, OneRuns, Active
<1>3. OneRuns'
  BY <1>2 DEF OneRuns
<1>4. pools' = pools /\ \A p \in DOMAIN pools : p[1] \in DOMAIN vms
  BY DEF TakesAnswer, IInv, TypeOK
<1>5. StacksOK'
  BY DEF IInv, Links, StacksOK, NewRecord
<1>6. QueuedOK'
  BY <1>4 DEF IInv, Links, QueuedOK, QueuedTask
<1>7. OnePlace'
  BY <1>4 DEF IInv, Links, OnePlace
<1>8. WorkersOK'
  <2>1. ASSUME NEW p \in DOMAIN pools, NEW i \in DOMAIN pools[p].workers,
               pools[p].workers[i] > 0
        PROVE  WorkersTask(p, pools[p].workers[i])'
    <3>1. WorkersTask(p, pools[p].workers[i]) /\ p[1] \in DOMAIN vms
      BY <1>4, <2>1 DEF IInv, Links, WorkersOK
    <3>2. vms'[v].state \notin {"queued", "idle"} \/ v = 1
      BY DEF NewRecord
    <3>3. QED
      BY <1>4, <3>1, <3>2 DEF WorkersTask
  <2>2. QED
    BY <1>4, <2>1 DEF WorkersOK
<1>9. QED
  BY <1>1, <1>3, <1>5, <1>6, <1>7, <1>8 DEF IInv, Links

-----------------------------------------------------------------------------
(* Submitting a task *)

\* A pool key is a natural number and the pool has at least one worker.
LEMMA KeyFacts ==
  ASSUME TypeOK, NEW f \in DOMAIN prog.funcs
  PROVE  Key(f) \in Nat /\ PoolSize(Key(f)) \in Nat \ {0}
<1>1. WellFormedFunc(prog, prog.funcs[f])
  BY ProgramFacts DEF WellFormedProgram
<1>2. Key(f) \in Nat
  BY <1>1 DEF Key, WellFormedFunc
<1>3. QED
  BY <1>2, SchedulingAssumption DEF PoolSize

\* Every pool has at least one worker.
LEMMA PoolSizePositive ==
  ASSUME NEW k \in Nat
  PROVE  PoolSize(k) \in Nat \ {0}
BY SchedulingAssumption DEF PoolSize

\* With a VM's own pool, or a new one, the pools still have their type.
LEMMA WithPoolFacts ==
  ASSUME TypeOK, NEW p \in (DOMAIN vms) \X Nat
  PROVE  /\ DOMAIN WithPool(p) = DOMAIN pools \cup {p}
         /\ \A q \in DOMAIN pools : WithPool(p)[q] = pools[q]
         /\ p \notin DOMAIN pools =>
              /\ WithPool(p)[p].queue = <<>>
              /\ \A i \in 1..PoolSize(p[2]) : WithPool(p)[p].workers[i] = Idle
         /\ \A q \in DOMAIN WithPool(p) :
              q \in (DOMAIN vms) \X Nat /\ WithPool(p)[q] \in PoolType(q[2])
<1>1. DOMAIN WithPool(p) = DOMAIN pools \cup {p}
  BY DEF WithPool
<1>2. \A q \in DOMAIN pools : WithPool(p)[q] = pools[q]
  BY DEF WithPool
<1> DEFINE fresh == [queue |-> <<>>, workers |-> [i \in 1..PoolSize(p[2]) |-> Idle]]
<1>3. p \notin DOMAIN pools => WithPool(p)[p] = fresh
  BY DEF WithPool
<1>4. <<>> \in Seq(Nat) /\ [i \in 1..PoolSize(p[2]) |-> Idle] \in [1..PoolSize(p[2]) -> Nat \cup {Dead}]
  BY EmptySeq DEF Idle
<1>5. fresh \in PoolType(p[2])
  BY <1>4 DEF PoolType
<1>6. \A q \in DOMAIN WithPool(p) :
        q \in (DOMAIN vms) \X Nat /\ WithPool(p)[q] \in PoolType(q[2])
  <2> HIDE DEF fresh
  <2>1. QED
    BY <1>1, <1>2, <1>3, <1>5 DEF TypeOK
<1>7. /\ fresh.queue = <<>>
      /\ \A i \in 1..PoolSize(p[2]) : fresh.workers[i] = Idle
  OBVIOUS
<1>8. QED
  <2> HIDE DEF fresh
  <2> QED
    BY <1>1, <1>2, <1>3, <1>6, <1>7

\* A submit in terms of single VMs and pools: the caller waits for the new
\* task, which is the only element of the caller's queue.
SubmitsTask(v, p, task) ==
  /\ v \in DOMAIN vms /\ vms[v].state = "running" /\ p[1] = v
  /\ task = Len(vms) + 1 /\ DOMAIN vms' = 1..task
  /\ \A w \in DOMAIN vms \ {v} : vms'[w] = vms[w]
  /\ vms'[v].state = "waiting" /\ vms'[v].on = task /\ vms'[v].stack = vms[v].stack
  /\ vms'[task].state = "queued" /\ vms'[task].stack # <<>>
  /\ vms'[v].answer = vms[v].answer /\ vms'[task].answer = "none"
  /\ DOMAIN pools' = DOMAIN pools \cup {p}
  /\ \A q \in DOMAIN pools \ {p} : pools'[q] = pools[q]
  /\ p \in DOMAIN pools => pools'[p].workers = pools[p].workers
  /\ p \notin DOMAIN pools =>
       \A i \in DOMAIN pools'[p].workers : pools'[p].workers[i] = Idle
  /\ DOMAIN pools'[p].queue = 1..1 /\ pools'[p].queue[1] = task

\* A fresh VM has its type.
LEMMA VmType ==
  ASSUME NEW f \in DOMAIN prog.funcs, NEW st \in {"running", "queued"}
  PROVE  /\ Vm(f, st) \in Vms /\ Vm(f, st).state = st /\ Vm(f, st).stack # <<>>
         /\ Vm(f, st).answer = "none"
<1>1. <<Activation(f)>> \in Seq(Activations) /\ <<Activation(f)>> # <<>>
  BY ActivationType
<1>2. QED
  <2> DEFINE stk == <<Activation(f)>>
  <2>1. stk \in Seq(Activations) /\ stk # <<>>
    BY <1>1
  <2>2. Vm(f, st) = [stack |-> stk, state |-> st, on |-> 0, answer |-> "none"]
    BY DEF Vm
  <2> HIDE DEF stk
  <2>3. QED
    BY <2>1, <2>2 DEF Vms

\* While a VM runs, no task is queued anywhere.
LEMMA NoQueues ==
  ASSUME IInv, NEW v \in DOMAIN vms, vms[v].state = "running",
         NEW p \in DOMAIN pools
  PROVE  pools[p].queue = <<>>
<1>1. \A i \in DOMAIN pools[p].queue : FALSE
  BY DEF IInv, Links, QueuedOK, QueuedTask, OneRuns, Active
<1>2. pools[p].queue \in Seq(Nat)
  BY DEF IInv, TypeOK, PoolType
<1>3. QED
  BY <1>1, <1>2, LastElement

\* Submit keeps the types and is a SubmitsTask step.
LEMMA SubmitStep ==
  ASSUME IInv, NEW v \in DOMAIN vms, Submit(v)
  PROVE  TypeOK' /\ SubmitsTask(v, PoolOf(v, Callee(v)), Len(vms) + 1)
<1> DEFINE f == Callee(v)
           p == PoolOf(v, f)
           task == Len(vms) + 1
           r == [vms[v] EXCEPT !.state = "waiting", !.on = task]
           vs == [vms EXCEPT ![v] = r]
           ps == WithPool(p)
<1>1. vms[v].state = "running" /\ vms[v].stack # <<>> /\ TypeOK
  BY DEF Submit, Running, IInv, Links, StacksOK
<1>2. f \in DOMAIN prog.funcs /\ vms[v] \in Vms
  BY <1>1, CalleeFacts, TopFacts DEF Submit
<1>3. p = <<v, Key(f)>> /\ p \in (DOMAIN vms) \X Nat /\ p[1] = v
  BY <1>1, <1>2, KeyFacts DEF PoolOf
<1>4. vms \in Seq(Vms) /\ Len(vms) \in Nat /\ DOMAIN vms = 1..Len(vms)
  BY <1>1, SeqDomain DEF TypeOK
<1>5. r \in Vms
  <2>1. task \in Nat
    BY <1>4
  <2> HIDE DEF task
  <2> QED
    BY <1>2, <2>1 DEF Vms
<1>6. vs \in Seq(Vms) /\ DOMAIN vs = DOMAIN vms /\ Len(vs) = Len(vms)
  BY <1>4, <1>5, SeqUpdate
<1>7. /\ Vm(f, "queued") \in Vms /\ Vm(f, "queued").state = "queued"
      /\ Vm(f, "queued").stack # <<>> /\ Vm(f, "queued").answer = "none"
  BY <1>2, VmType
<1>8. vms' = Append(vs, Vm(f, "queued"))
  BY DEF Submit
<1>9. /\ vms' \in Seq(Vms) /\ vms' # <<>> /\ DOMAIN vms' = 1..task
      /\ \A w \in DOMAIN vms : vms'[w] = vs[w]
      /\ vms'[task] = Vm(f, "queued")
  <2> HIDE DEF vs
  <2>1. vms' \in Seq(Vms) /\ Len(vms') = task
    BY <1>4, <1>6, <1>7, <1>8, AppendProperties
  <2>2. \A w \in DOMAIN vms : vms'[w] = vs[w]
    BY <1>4, <1>6, <1>7, <1>8, AppendProperties
  <2>3. vms'[task] = Vm(f, "queued")
    BY <1>4, <1>6, <1>7, <1>8, AppendProperties
  <2>4. QED
    BY <1>4, <2>1, <2>2, <2>3, SeqDomain, EmptySeq
<1>10. /\ DOMAIN ps = DOMAIN pools \cup {p}
       /\ \A q \in DOMAIN pools : ps[q] = pools[q]
       /\ p \notin DOMAIN pools =>
            ps[p].queue = <<>> /\ \A i \in 1..PoolSize(p[2]) : ps[p].workers[i] = Idle
       /\ \A q \in DOMAIN ps : q \in (DOMAIN vms) \X Nat /\ ps[q] \in PoolType(q[2])
  BY <1>1, <1>3, WithPoolFacts
<1>11. ps[p].queue = <<>>
  BY <1>1, <1>10, NoQueues
<1>12. pools' = [ps EXCEPT ![p].queue = Append(@, task)]
  BY DEF Submit
<1>13. Append(ps[p].queue, task) = <<task>> /\ <<task>> \in Seq(Nat)
  BY <1>4, <1>11
<1>14. pools' = [ps EXCEPT ![p] = [ps[p] EXCEPT !.queue = <<task>>]]
  <2> HIDE DEF ps, task, p
  <2> QED
    BY <1>12, <1>13
<1>15. [ps[p] EXCEPT !.queue = <<task>>] \in PoolType(p[2])
  <2> HIDE DEF ps, task, p
  <2> QED
    BY <1>10, <1>13 DEF PoolType
<1>16. /\ DOMAIN pools' = DOMAIN pools \cup {p}
       /\ \A q \in DOMAIN pools \ {p} : pools'[q] = pools[q]
       /\ pools'[p] = [ps[p] EXCEPT !.queue = <<task>>]
  <2> HIDE DEF ps, task, p
  <2> QED
    BY <1>10, <1>14
<1>17. TypeOK'
  <2>1. Vms' = Vms /\ \A k : PoolType(k)' = PoolType(k)
    BY DEF Submit, Vms, Activations, PoolType, PoolSize
  <2>2. \A q \in DOMAIN pools' : q \in (DOMAIN vms') \X Nat /\ pools'[q] \in PoolType(q[2])
    <3> HIDE DEF ps, task, p
    <3>1. DOMAIN vms \subseteq DOMAIN vms'
      BY <1>4, <1>9 DEF task
    <3> QED
      BY <1>3, <1>10, <1>15, <1>16, <3>1 DEF TypeOK
  <2> HIDE DEF ps, task, p
  <2>3. QED
    BY <1>1, <1>9, <2>1, <2>2 DEF Submit, TypeOK
<1>18. /\ pools'[p].queue = <<task>> /\ pools'[p].workers = ps[p].workers
       /\ DOMAIN ps[p].workers = 1..PoolSize(p[2])
  <2> HIDE DEF ps, task, p
  <2> QED
    BY <1>10, <1>16 DEF PoolType
<1>19. DOMAIN <<task>> = 1..1 /\ <<task>>[1] = task
  OBVIOUS
<1>20. /\ \A w \in DOMAIN vms \ {v} : vs[w] = vms[w]
       /\ vs[v].state = "waiting" /\ vs[v].on = task /\ vs[v].stack = vms[v].stack
       /\ vs[v].answer = vms[v].answer
  BY <1>2 DEF Vms
<1>21. SubmitsTask(v, p, task)
  <2> HIDE DEF ps, vs, p, f
  <2> QED
    BY <1>1, <1>3, <1>7, <1>9, <1>10, <1>16, <1>18, <1>19, <1>20 DEF SubmitsTask
<1>22. QED
  BY <1>17, <1>21

\* A submit preserves the inductive invariant: the turn passes from the
\* caller to its task.
LEMMA SubmitIInv ==
  ASSUME IInv, NEW v, NEW p, NEW task, TypeOK', SubmitsTask(v, p, task)
  PROVE  IInv'
<1>1. Len(vms) \in Nat /\ DOMAIN vms = 1..Len(vms) /\ 1 \in DOMAIN vms
  BY SeqDomain, EmptySeq DEF IInv, TypeOK
<1>2. /\ task \notin DOMAIN vms /\ DOMAIN vms' = DOMAIN vms \cup {task}
      /\ v \in DOMAIN vms /\ v # task /\ task # 1
  BY <1>1 DEF SubmitsTask
<1>12. /\ vms[v].state = "running" /\ p[1] = v
       /\ \A w \in DOMAIN vms \ {v} : vms'[w] = vms[w]
       /\ vms'[v].state = "waiting" /\ vms'[v].on = task /\ vms'[v].stack = vms[v].stack
       /\ vms'[task].state = "queued" /\ vms'[task].stack # <<>>
  BY DEF SubmitsTask
<1>3. \A w \in DOMAIN vms' : Active(w)' => w = task
  BY <1>1, <1>2 DEF IInv, OneRuns, Active, SubmitsTask
<1>4. OneRuns'
  BY <1>3 DEF OneRuns
<1>5. \A q \in DOMAIN pools : pools[q].queue = <<>> /\ q[1] \in DOMAIN vms
  BY NoQueues DEF SubmitsTask, IInv, TypeOK
<1>6. \A q \in DOMAIN pools' : q # p => DOMAIN pools'[q].queue = {}
  BY <1>5 DEF SubmitsTask
<1>7. StacksOK'
  BY <1>2, <1>12 DEF IInv, Links, StacksOK
<1>8. QueuedOK'
  BY <1>2, <1>6 DEF QueuedOK, QueuedTask, SubmitsTask
<1>9. OnePlace'
  BY <1>6 DEF OnePlace, SubmitsTask
<1>10. WorkersOK'
  <2> SUFFICES ASSUME NEW q \in DOMAIN pools', NEW i \in DOMAIN pools'[q].workers,
                      pools'[q].workers[i] > 0
               PROVE  WorkersTask(q, pools[q].workers[i])'
    BY DEF WorkersOK
  <2>1. q \in DOMAIN pools /\ pools'[q].workers = pools[q].workers
    BY DEF SubmitsTask, Idle
  <2>2. WorkersTask(q, pools[q].workers[i]) /\ q[1] \in DOMAIN vms
    BY <1>5, <2>1 DEF IInv, Links, WorkersOK
  <2>3. QED
    BY <1>2, <1>12, <2>1, <2>2 DEF WorkersTask
<1>11. QED
  BY <1>4, <1>7, <1>8, <1>9, <1>10 DEF IInv, Links

-----------------------------------------------------------------------------
(* The workers *)

\* A worker takes the only queued task there is.
LEMMA TakeIInv ==
  ASSUME IInv, NEW p \in DOMAIN pools, NEW i \in DOMAIN pools[p].workers, Take(p, i)
  PROVE  IInv'
<1> DEFINE q == Head(pools[p].queue)
           r == [vms[q] EXCEPT !.state = "running"]
           np == [pools[p] EXCEPT !.queue = Tail(@), !.workers[i] = q]
<1>1. /\ pools[p].queue \in Seq(Nat) /\ pools[p].queue # <<>>
      /\ pools[p] \in PoolType(p[2]) /\ p[2] \in Nat /\ p[1] \in DOMAIN vms
  BY DEF Take, IInv, TypeOK, PoolType
<1>2. /\ 1 \in DOMAIN pools[p].queue /\ q = pools[p].queue[1] /\ q \in Nat
      /\ Tail(pools[p].queue) \in Seq(Nat)
      /\ \A k \in DOMAIN Tail(pools[p].queue) : k + 1 \in DOMAIN pools[p].queue /\ k \in Nat \ {0}
  BY <1>1, EmptySeq, LenProperties, ElementOfSeq, HeadTailProperties
<1>3. /\ q \in DOMAIN vms /\ q # 1 /\ vms[q].state = "queued" /\ vms[q].stack # <<>>
      /\ vms[p[1]].state = "waiting" /\ vms[p[1]].on = q
  BY <1>2 DEF IInv, Links, QueuedOK, QueuedTask, StacksOK
<1>4. DOMAIN Tail(pools[p].queue) = {}
  <2>1. \A k \in DOMAIN Tail(pools[p].queue) : k + 1 = 1
    BY <1>2 DEF IInv, Links, OnePlace
  <2>2. QED
    BY <1>2, <2>1
<1>5. \A s \in DOMAIN pools \ {p} : DOMAIN pools[s].queue = {}
  BY <1>2 DEF IInv, Links, OnePlace
<1>6. vms[q] \in Vms /\ vms \in Seq(Vms) /\ vms # <<>>
  BY <1>3, ElementOfSeq, SeqDomain DEF IInv, TypeOK
<1>7. r \in Vms /\ r.state = "running" /\ r.stack = vms[q].stack
  <2> HIDE DEF q
  <2> QED
    BY <1>6 DEF Vms
<1>8. /\ vms' \in Seq(Vms) /\ DOMAIN vms' = DOMAIN vms /\ vms' # <<>>
      /\ \A w \in DOMAIN vms \ {q} : vms'[w] = vms[w]
      /\ vms'[q] = r
  <2>1. vms' = [vms EXCEPT ![q] = r]
    BY DEF Take
  <2> HIDE DEF r, q
  <2>2. QED
    BY <1>3, <1>6, <1>7, <2>1, SeqUpdate, SeqDomain, EmptySeq
<1>9. /\ DOMAIN pools' = DOMAIN pools
      /\ \A s \in DOMAIN pools \ {p} : pools'[s] = pools[s]
      /\ pools'[p] = np
  BY DEF Take
<1>10. /\ np \in PoolType(p[2]) /\ np.queue = Tail(pools[p].queue)
       /\ DOMAIN np.workers = DOMAIN pools[p].workers
       /\ np.workers[i] = q
       /\ \A j \in DOMAIN pools[p].workers \ {i} : np.workers[j] = pools[p].workers[j]
  <2> HIDE DEF q
  <2> QED
    BY <1>1, <1>2 DEF PoolType
<1>11. TypeOK'
  <2>1. Vms' = Vms /\ \A k : PoolType(k)' = PoolType(k)
    BY DEF Take, Vms, Activations, PoolType, PoolSize
  <2> HIDE DEF np
  <2>2. QED
    BY <1>8, <1>9, <1>10, <2>1 DEF Take, IInv, TypeOK
<1> HIDE DEF q, r, np
<1>12. OneRuns'
  <2>1. \A w \in DOMAIN vms : Active(w)' => w = q
    BY <1>3, <1>8 DEF IInv, OneRuns, Active
  <2>2. QED
    BY <1>8, <2>1 DEF OneRuns
<1>13. StacksOK'
  BY <1>3, <1>7, <1>8 DEF IInv, Links, StacksOK
<1>14. \A s \in DOMAIN pools' : DOMAIN pools'[s].queue = {}
  BY <1>4, <1>5, <1>9, <1>10
<1>15. QueuedOK' /\ OnePlace'
  BY <1>14 DEF QueuedOK, OnePlace
<1>16. WorkersOK'
  <2> SUFFICES ASSUME NEW s \in DOMAIN pools', NEW j \in DOMAIN pools'[s].workers,
                      pools'[s].workers[j] > 0
               PROVE  WorkersTask(s, pools[s].workers[j])'
    BY DEF WorkersOK
  <2>1. CASE s = p /\ j = i
    <3>1. p[1] # q /\ vms'[p[1]] = vms[p[1]]
      BY <1>1, <1>3, <1>8
    <3>2. pools'[s].workers[j] = q
      BY <1>9, <1>10, <2>1
    <3>3. QED
      BY <1>3, <1>7, <1>8, <2>1, <3>1, <3>2 DEF WorkersTask
  <2>2. CASE ~(s = p /\ j = i)
    <3>1. /\ s \in DOMAIN pools /\ j \in DOMAIN pools[s].workers
          /\ pools'[s].workers[j] = pools[s].workers[j]
      BY <1>9, <1>10, <2>2
    <3>2. WorkersTask(s, pools[s].workers[j]) /\ s[1] \in DOMAIN vms
      BY <3>1 DEF IInv, Links, WorkersOK, TypeOK
    <3>3. pools[s].workers[j] # q
      BY <1>3, <3>2 DEF WorkersTask
    <3>4. s[1] = q => vms[pools[s].workers[j]].state = "gone"
      BY <1>3, <3>2 DEF WorkersTask
    <3>5. QED
      BY <1>3, <1>8, <3>1, <3>2, <3>3, <3>4 DEF WorkersTask
  <2>3. QED
    BY <2>1, <2>2
<1>17. QED
  BY <1>11, <1>12, <1>13, <1>15, <1>16 DEF IInv, Links

\* A worker that lets go of its task changes no VM and no queue.
LEMMA LoopIInv ==
  ASSUME IInv, NEW p \in DOMAIN pools, NEW i \in DOMAIN pools[p].workers, Loop(p, i)
  PROVE  IInv'
<1> DEFINE x == IF vms[pools[p].workers[i]].answer = "closed" THEN Dead ELSE Idle
           np == [pools[p] EXCEPT !.workers[i] = x]
<1>1. pools[p] \in PoolType(p[2]) /\ x \in Nat \cup {Dead} /\ ~(x > 0)
  BY DEF IInv, TypeOK, Idle, Dead
<1>2. /\ DOMAIN pools' = DOMAIN pools
      /\ \A s \in DOMAIN pools \ {p} : pools'[s] = pools[s]
      /\ pools'[p] = np
  BY DEF Loop
<1>3. /\ np \in PoolType(p[2]) /\ np.queue = pools[p].queue
      /\ DOMAIN np.workers = DOMAIN pools[p].workers
      /\ np.workers[i] = x
      /\ \A j \in DOMAIN pools[p].workers \ {i} : np.workers[j] = pools[p].workers[j]
  <2> HIDE DEF x
  <2> QED
    BY <1>1 DEF PoolType
<1> HIDE DEF x, np
<1>4. vms' = vms /\ prog' = prog /\ phase' = phase /\ events' = events
  BY DEF Loop
<1>5. TypeOK'
  <2>1. Vms' = Vms /\ \A k : PoolType(k)' = PoolType(k)
    BY <1>4 DEF Vms, Activations, PoolType, PoolSize
  <2>2. QED
    BY <1>2, <1>3, <1>4, <2>1 DEF IInv, TypeOK
<1>6. OneRuns' /\ StacksOK'
  BY <1>4 DEF IInv, Links, OneRuns, StacksOK, Active
<1>7. \A s \in DOMAIN pools : pools'[s].queue = pools[s].queue
  BY <1>2, <1>3
<1>8. QueuedOK' /\ OnePlace'
  BY <1>2, <1>4, <1>7 DEF IInv, Links, QueuedOK, QueuedTask, OnePlace
<1>9. WorkersOK'
  BY <1>1, <1>2, <1>3, <1>4 DEF IInv, Links, WorkersOK, WorkersTask
<1>10. QED
  BY <1>5, <1>6, <1>8, <1>9 DEF IInv, Links

-----------------------------------------------------------------------------
(* The invariant *)

\* The program starts in a state of the inductive invariant.
LEMMA InitIInv == Init => IInv
<1> SUFFICES ASSUME Init PROVE IInv
  OBVIOUS
<1>1. WellFormedProgram(prog)
  BY SchedulingAssumption DEF Init
<1>2. Vm(1, "running") \in Vms /\ Vm(1, "running").state = "running" /\ Vm(1, "running").stack # <<>>
  BY <1>1, VmType DEF WellFormedProgram
<1>3. vms \in Seq(Vms) /\ DOMAIN vms = {1} /\ vms[1] = Vm(1, "running") /\ vms # <<>>
  BY <1>2, EmptySeq DEF Init
<1>4. DOMAIN pools = {}
  BY DEF Init
<1>5. TypeOK
  BY <1>3, <1>4, SchedulingAssumption DEF Init, TypeOK
<1>6. OneRuns
  BY <1>3 DEF OneRuns
<1>7. Links
  BY <1>2, <1>3, <1>4 DEF Links, StacksOK, QueuedOK, OnePlace, WorkersOK
<1>8. QED
  BY <1>5, <1>6, <1>7 DEF IInv

\* Every step preserves it.
LEMMA NextIInv == IInv /\ [Next]_vars => IInv'
<1> SUFFICES ASSUME IInv, [Next]_vars PROVE IInv'
  OBVIOUS
<1>1. ASSUME NEW v \in DOMAIN vms, Thread(v) PROVE IInv'
  <2>1. CASE CallInline(v)
    BY <2>1, CallInlineStep, OwnStepIInv
  <2>2. CASE Submit(v)
    BY <2>2, SubmitStep, SubmitIInv
  <2>3. CASE Return(v)
    BY <2>3, ReturnStep, OwnStepIInv
  <2>4. CASE Throw(v)
    BY <2>4, ThrowStep, OwnStepIInv
  <2>5. CASE Err(v) \/ Panic(v)
    BY <2>5, FailureStep, OwnStepIInv
  <2>6. CASE Receive(v)
    BY <2>6, ReceiveStep, TakesAnswerIInv
  <2>7. QED
    BY <1>1, <2>1, <2>2, <2>3, <2>4, <2>5, <2>6 DEF Thread
<1>2. CASE AnyWorker
  BY <1>2, TakeIInv, LoopIInv DEF AnyWorker, Worker
<1>3. CASE Event
  BY <1>3, EventStep, OwnStepIInv
<1>4. CASE Close
  BY <1>4, CloseStep, OwnStepIInv
<1>5. CASE UNCHANGED vars
  <2>1. Vms' = Vms /\ \A k : PoolType(k)' = PoolType(k)
    BY <1>5 DEF vars, Vms, Activations, PoolType, PoolSize
  <2>2. TypeOK'
    BY <1>5, <2>1 DEF IInv, TypeOK, vars
  <2>3. OneRuns' /\ Links'
    BY <1>5 DEF vars, IInv, OneRuns, Active, Links, StacksOK, QueuedOK,
                QueuedTask, OnePlace, WorkersOK, WorkersTask
  <2>4. QED
    BY <2>2, <2>3 DEF IInv
<1>6. QED
  BY <1>1, <1>2, <1>3, <1>4, <1>5 DEF Next, AnyThread, Exited

\* IInv is an invariant of ScheduledCalls.
THEOREM Inductive == Spec => []IInv
<1>1. QED
  BY InitIInv, NextIInv, PTL DEF Spec

\* Types are kept: activations name functions, pools keep their size.
THEOREM TypeCorrect == Spec => []TypeOK
<1>1. IInv => TypeOK
  BY DEF IInv
<1>2. QED
  BY <1>1, Inductive, PTL

\* At most one VM of the process executes, or is about to, at any time,
\* whatever the program calls on whatever pools: a scheduled call blocks its
\* caller (run_scheduled).
THEOREM OneVmRuns == Spec => []OneRuns
<1>1. IInv => OneRuns
  BY DEF IInv
<1>2. QED
  BY <1>1, Inductive, PTL

-----------------------------------------------------------------------------
(* With panics *)

\* Worker i of p has not died, and is not about to die of its last task.
Survives(p, i) ==
  LET w == pools[p].workers[i] IN
  w # Dead /\ (w > 0 => vms[w].answer # "closed")

\* Where a task is queued, the tasks of the pool's workers are over, since
\* their owner waits for this one.
LEMMA SurvivorIsFree ==
  ASSUME IInv, NEW p \in DOMAIN pools, pools[p].queue # <<>>,
         NEW i \in DOMAIN pools[p].workers, Survives(p, i)
  PROVE  Free(p, i)
<1> DEFINE w == pools[p].workers[i]
           q == pools[p].queue[1]
<1>1. pools[p] \in PoolType(p[2]) /\ p[2] \in Nat
  BY DEF IInv, TypeOK
<1>2. w \in Nat
  BY <1>1 DEF PoolType, Survives
<1>3. 1 \in DOMAIN pools[p].queue
  BY <1>1, LenProperties, EmptySeq DEF PoolType
<1>4. vms[p[1]].on = q /\ vms[q].state = "queued"
  BY <1>3 DEF IInv, Links, QueuedOK, QueuedTask
<1>5. CASE w = Idle
  BY <1>5 DEF Free
<1>6. CASE w > 0
  <2>1. WorkersTask(p, w)
    BY <1>6 DEF IInv, Links, WorkersOK
  <2>2. vms[w].state = "gone" /\ vms[w].answer # "closed"
    BY <1>4, <1>6, <2>1 DEF WorkersTask, Survives
  <2>3. QED
    BY <1>2, <1>6, <2>2 DEF Free, Dead
<1>7. QED
  BY <1>2, <1>5, <1>6 DEF Idle

\* Whatever panics, and however deeply scheduled functions call each other:
\* where a task waits in the queue of a pool, all workers of the pool are
\* free, but for those that panics have killed.  No task is ever queued
\* behind another one that runs.
THEOREM SurvivorsAreFree ==
  Spec => [](\A p \in DOMAIN pools : \A i \in DOMAIN pools[p].workers :
               pools[p].queue # <<>> /\ Survives(p, i) => Free(p, i))
<1>1. IInv => \A p \in DOMAIN pools : \A i \in DOMAIN pools[p].workers :
                pools[p].queue # <<>> /\ Survives(p, i) => Free(p, i)
  BY SurvivorIsFree
<1>2. QED
  BY <1>1, Inductive, PTL

\* Wherever a task is queued, panics have left a worker.
SomeSurvive ==
  \A p \in DOMAIN pools :
    pools[p].queue # <<>> => \E i \in DOMAIN pools[p].workers : Survives(p, i)

\* As long as panics leave a worker in every pool that is used again, a
\* submitted task never waits for another one.
THEOREM TasksAreServedBySurvivors == Spec /\ []SomeSurvive => []Served
<1>1. IInv /\ SomeSurvive => Served
  BY SurvivorIsFree DEF Served, SomeSurvive
<1>2. QED
  BY <1>1, Inductive, PTL

-----------------------------------------------------------------------------
(* Without panics *)

\* No function of P panics.
Panicless(P) == \A f \in DOMAIN P.funcs : "panic" \notin P.funcs[f].ends

\* No task has hung up and no worker has died.
NoneDead ==
  /\ \A v \in DOMAIN vms : vms[v].answer # "closed"
  /\ \A p \in DOMAIN pools : \A i \in DOMAIN pools[p].workers :
       pools[p].workers[i] # Dead

\* Only a panic hangs up or kills a worker.
LEMMA NoneDeadStep ==
  ASSUME \A P \in Programs : Panicless(P), IInv, NoneDead, [Next]_vars
  PROVE  NoneDead'
<1>1. ASSUME NEW v \in DOMAIN vms, Thread(v) PROVE NoneDead'
  <2>1. CASE Submit(v)
    <3> DEFINE p == PoolOf(v, Callee(v))
               task == Len(vms) + 1
    <3>1. SubmitsTask(v, p, task)
      BY <2>1, SubmitStep
    <3>2. Len(vms) \in Nat /\ DOMAIN vms = 1..Len(vms)
      BY SeqDomain DEF IInv, TypeOK
    <3>3. /\ DOMAIN vms' = DOMAIN vms \cup {task}
          /\ \A w \in DOMAIN vms : vms'[w].answer = vms[w].answer
          /\ vms'[task].answer = "none"
      BY <3>1, <3>2 DEF SubmitsTask
    <3>4. QED
      BY <3>1, <3>3 DEF NoneDead, SubmitsTask, Idle, Dead
  <2>2. CASE Receive(v)
    <3>1. TakesAnswer(v, vms[v].on) /\ pools' = pools
      BY <2>2, ReceiveStep DEF Receive
    <3>2. DOMAIN vms' = DOMAIN vms /\ \A w \in DOMAIN vms : vms'[w].answer \in {vms[w].answer, "error"}
      BY <3>1, TakesAnswerFacts
    <3>3. QED
      BY <3>1, <3>2 DEF NoneDead
  <2>3. CASE CallInline(v) \/ Return(v) \/ Throw(v) \/ Err(v)
    <3>1. vms[v] \in Vms
      BY ElementOfSeq, SeqDomain DEF IInv, TypeOK
    <3>2. pools' = pools
      BY <2>3 DEF CallInline, Return, Throw, Err
    <3>3. DOMAIN vms' = DOMAIN vms /\ \A w \in DOMAIN vms : vms'[w].answer \in {vms[w].answer, "error", "value"}
      BY <2>3, <3>1 DEF CallInline, Return, Throw, Err, EndVm, EndOf, Vms
    <3>4. QED
      BY <3>2, <3>3 DEF NoneDead
  <2>4. CASE Panic(v)
    <3>1. vms[v].stack # <<>> /\ TypeOK
      BY <2>4 DEF Panic, Running, IInv, Links, StacksOK
    <3>2. Top(v).func \in DOMAIN prog.funcs /\ Panicless(prog)
      BY <3>1, TopFacts DEF TypeOK
    <3>3. QED
      BY <2>4, <3>2 DEF Panic, Panicless
  <2>5. QED
    BY <1>1, <2>1, <2>2, <2>3, <2>4 DEF Thread
<1>2. ASSUME NEW p \in DOMAIN pools, NEW i \in DOMAIN pools[p].workers, Worker(p, i)
      PROVE  NoneDead'
  <2>1. pools[p] \in PoolType(p[2])
    BY DEF IInv, TypeOK
  <2>2. CASE Take(p, i)
    <3> DEFINE q == Head(pools[p].queue)
    <3>1. pools[p].queue \in Seq(Nat) /\ pools[p].queue # <<>>
      BY <2>1, <2>2 DEF Take, PoolType
    <3>2. q \in Nat /\ 1 \in DOMAIN pools[p].queue /\ q = pools[p].queue[1]
      BY <3>1, EmptySeq, LenProperties, ElementOfSeq, HeadTailProperties
    <3>3. q \in DOMAIN vms
      BY <3>2 DEF IInv, Links, QueuedOK, QueuedTask
    <3>4. vms[q] \in Vms
      BY <3>3, ElementOfSeq, SeqDomain DEF IInv, TypeOK
    <3>5. vms' = [vms EXCEPT ![q].state = "running"] /\ q # Dead
      BY <2>2, <3>2 DEF Take, Dead
    <3>6. /\ DOMAIN pools' = DOMAIN pools
          /\ \A s \in DOMAIN pools \ {p} : pools'[s] = pools[s]
          /\ pools'[p] = [pools[p] EXCEPT !.queue = Tail(@), !.workers[i] = q]
      BY <2>2 DEF Take
    <3> HIDE DEF q
    <3>7. \A w \in DOMAIN vms' : vms'[w].answer # "closed"
      BY <3>3, <3>4, <3>5 DEF NoneDead, Vms
    <3>8. \A j \in DOMAIN pools'[p].workers : pools'[p].workers[j] # Dead
      BY <2>1, <3>5, <3>6 DEF NoneDead, PoolType
    <3>9. QED
      BY <3>6, <3>7, <3>8 DEF NoneDead
  <2>3. CASE Loop(p, i)
    <3>1. pools[p].workers[i] \in DOMAIN vms
      BY <2>3 DEF Loop, IInv, Links, WorkersOK, WorkersTask
    <3>2. /\ DOMAIN pools' = DOMAIN pools /\ vms' = vms
          /\ \A s \in DOMAIN pools \ {p} : pools'[s] = pools[s]
          /\ pools'[p] = [pools[p] EXCEPT !.workers[i] = Idle]
      BY <2>3, <3>1 DEF Loop, NoneDead
    <3>3. Idle # Dead
      BY DEF Idle, Dead
    <3>4. /\ DOMAIN pools'[p].workers = DOMAIN pools[p].workers
          /\ \A j \in DOMAIN pools[p].workers :
               pools'[p].workers[j] \in {pools[p].workers[j], Idle}
      BY <2>1, <3>2 DEF PoolType
    <3>5. QED
      BY <3>2, <3>3, <3>4 DEF NoneDead
  <2>4. QED
    BY <1>2, <2>2, <2>3 DEF Worker
<1>3. CASE Event
  <2>1. vms[1] \in Vms /\ 1 \in DOMAIN vms
    BY ElementOfSeq, SeqDomain, EmptySeq DEF TypeOK, IInv
  <2>2. DOMAIN vms' = DOMAIN vms /\ \A w \in DOMAIN vms : vms'[w].answer = vms[w].answer
    BY <1>3, <2>1 DEF Event, Vms
  <2>3. QED
    BY <1>3, <2>2 DEF NoneDead, Event
<1>4. CASE Close
  <2>1. vms[1] \in Vms /\ 1 \in DOMAIN vms
    BY ElementOfSeq, SeqDomain, EmptySeq DEF TypeOK, IInv
  <2>2. DOMAIN vms' = DOMAIN vms /\ \A w \in DOMAIN vms : vms'[w].answer = vms[w].answer
    BY <1>4, <2>1 DEF Close, Vms
  <2>3. QED
    BY <1>4, <2>2 DEF NoneDead, Close
<1>5. CASE UNCHANGED vars
  BY <1>5 DEF NoneDead, vars
<1>6. QED
  BY <1>1, <1>2, <1>3, <1>4, <1>5 DEF Next, AnyThread, AnyWorker, Exited

\* Where no worker has died, a queued task has a free worker.
LEMMA ServedByInvariant ==
  ASSUME IInv, NoneDead
  PROVE  Served
<1> SUFFICES ASSUME NEW p \in DOMAIN pools, pools[p].queue # <<>>
             PROVE  \E i \in DOMAIN pools[p].workers : Free(p, i)
  BY DEF Served
<1>1. pools[p] \in PoolType(p[2]) /\ p[2] \in Nat
  BY DEF IInv, TypeOK
<1>2. 1 \in DOMAIN pools[p].workers
  <2>1. DOMAIN pools[p].workers = 1..PoolSize(p[2])
    BY <1>1 DEF PoolType
  <2>2. QED
    BY <1>1, <2>1, PoolSizePositive
<1>3. pools[p].workers[1] > 0 => pools[p].workers[1] \in DOMAIN vms
  BY <1>2 DEF IInv, Links, WorkersOK, WorkersTask
<1>4. Survives(p, 1)
  BY <1>2, <1>3 DEF Survives, NoneDead
<1>5. QED
  BY <1>2, <1>4, SurvivorIsFree

\* If no function panics, a submitted task never waits for a worker that is
\* busy with another task, however deeply scheduled functions call each other
\* and however small their pools are: nested calls cannot exhaust a pool.
THEOREM TasksAreServed ==
  ASSUME \A P \in Programs : Panicless(P)
  PROVE  Spec => []Served
<1>1. Init => NoneDead
  <2>1. Init => DOMAIN vms = {1} /\ vms[1].answer = "none" /\ DOMAIN pools = {}
    BY DEF Init, Vm
  <2>2. QED
    BY <2>1 DEF NoneDead
<1>2. IInv /\ NoneDead /\ [Next]_vars => NoneDead'
  BY NoneDeadStep
<1>3. IInv /\ NoneDead => Served
  BY ServedByInvariant
<1>4. QED
  BY Inductive, <1>1, <1>2, <1>3, PTL DEF Spec

=============================================================================
