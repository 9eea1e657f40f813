---------------------------- MODULE DataVm_proofs ----------------------------
(***************************************************************************)
(* Proofs about DataVm, for every image: whatever code it holds, well      *)
(* compiled or not, no reference dangles and the VM stays inside its       *)
(* tables; and then about IsolatedCalls.                                   *)
(*                                                                         *)
(* NoDangling is not inductive: a step that reads a slot, an operand or a  *)
(* capture has to find a value there, and a frame that is resumed has to   *)
(* name a function.  IInv says so with one set: Values(n), the values that *)
(* are possible when the heap has n objects.  The heap only grows, so what *)
(* is a value stays one.                                                   *)
(***************************************************************************)
EXTENDS IsolatedCalls, SequenceTheorems, WellFoundedInduction, TLAPS

Values(n) ==
  {Null} \cup ({"int"} \X Int) \cup ({"bool"} \X BOOLEAN)
  \cup ({"obj"} \X (1 .. n)) \cup ({"ptr"} \X (1 .. n) \X Int)

Entries(n) == Values(n) \X Values(n)

\* An object whose references lead into a heap of n objects.
IsObject(o, n) ==
  /\ o = Object(o.kind, o.fields, o.pairs, o.str, o.fn)
  /\ o.fields \in Seq(Values(n))
  /\ o.pairs \in Seq(Entries(n))

IsHeap(h) ==
  /\ Len(h) \in Nat
  /\ h = [i \in 1 .. Len(h) |-> h[i]]
  /\ \A i \in 1 .. Len(h) : IsObject(h[i], Len(h))

Frames(im, n) == [cur : DOMAIN im.funcs, pc : Nat, frame : 1 .. n, base : Nat]

\* What holds of the state whatever the instruction.
ProgramOK == image \in Image /\ image.main \in DOMAIN image.funcs /\ cur \in DOMAIN image.funcs

IInv ==
  /\ ProgramOK
  /\ IsHeap(heap)
  /\ globals \in Seq(Values(Len(heap)))
  /\ stack \in Seq(Values(Len(heap)))
  /\ frames \in Seq(Frames(image, Len(heap)))
  /\ pc \in Nat /\ base \in Nat
  /\ frame \in 1 .. Len(heap)

-----------------------------------------------------------------------------
(* Sequences.                                                              *)

\* A function on 1..n is a sequence.
LEMMA FunIsSeq ==
  ASSUME NEW S, NEW n \in Nat, NEW f \in [1 .. n -> S]
  PROVE  f \in Seq(S)
<1>1. f \in UNION {[1 .. m -> S] : m \in Nat}
  OBVIOUS
<1>2. QED
  BY <1>1, SeqDef

\* A sequence over a set is one over a larger set.
LEMMA SeqWiden ==
  ASSUME NEW S, NEW T, S \subseteq T
  PROVE  Seq(S) \subseteq Seq(T)
BY SeqMonotonic

\* A prefix of a sequence, however long, is a sequence over the same set.
LEMMA PrefixSeq ==
  ASSUME NEW S, NEW s \in Seq(S), NEW n \in Int, n <= Len(s)
  PROVE  SubSeq(s, 1, n) \in Seq(S)
<1>1. Len(s) \in Nat
  BY LenProperties
<1>2. \A i \in 1 .. n : s[i] \in S
  BY <1>1, ElementOfSeq
<1>3. QED
  BY <1>2, SubSeqProperties

\* It has the same elements.
LEMMA PrefixElements ==
  ASSUME NEW S, NEW s \in Seq(S), NEW n \in 0 .. Len(s)
  PROVE  /\ Len(SubSeq(s, 1, n)) = n
         /\ \A i \in 1 .. n : SubSeq(s, 1, n)[i] = s[i]
<1>1. Len(s) \in Nat
  BY LenProperties
<1>2. \A i \in 1 .. n : s[i] \in S
  BY <1>1, ElementOfSeq
<1>3. n \in Int
  BY <1>1
<1>4. QED
  BY <1>1, <1>2, <1>3, SubSeqProperties

-----------------------------------------------------------------------------
(* Values and the heap.                                                    *)

\* A larger heap has all the values of a smaller one.
LEMMA ValuesWiden ==
  ASSUME NEW m \in Nat, NEW n \in Nat, m <= n
  PROVE  Values(m) \subseteq Values(n)
<1>1. 1 .. m \subseteq 1 .. n
  OBVIOUS
<1>2. QED
  BY <1>1 DEF Values

\* Null, numbers and truth values are values in every heap.
LEMMA Scalars ==
  ASSUME NEW n \in Nat
  PROVE  /\ Null \in Values(n)
         /\ \A i \in Int : IntVal(i) \in Values(n)
         /\ \A b \in BOOLEAN : BoolVal(b) \in Values(n)
BY DEF Values, IntVal, BoolVal

\* A reference to an object of the heap, and a pointer into one, is a value.
LEMMA References ==
  ASSUME NEW n \in Nat, NEW id \in 1 .. n
  PROVE  /\ Obj(id) \in Values(n)
         /\ \A i \in Int : PtrVal(id, i) \in Values(n)
BY DEF Values, Obj, PtrVal

\* What a value that refers to something refers to.
LEMMA ReferencesLead ==
  ASSUME NEW n \in Nat, NEW v \in Values(n)
  PROVE  /\ v[1] = "obj" => v[2] \in 1 .. n
         /\ v[1] = "ptr" => v[2] \in 1 .. n /\ v[3] \in Int
         /\ v[1] = "int" => v[2] \in Int
BY DEF Values, Null

\* An object of a heap is one of every larger heap.
LEMMA ObjectWiden ==
  ASSUME NEW m \in Nat, NEW n \in Nat, m <= n, NEW o, IsObject(o, m)
  PROVE  IsObject(o, n)
<1>1. Values(m) \subseteq Values(n)
  BY ValuesWiden
<1>2. Entries(m) \subseteq Entries(n)
  BY <1>1 DEF Entries
<1>3. QED
  BY <1>1, <1>2, SeqWiden DEF IsObject

\* Appending an object of the old or of the new heap keeps a heap.
LEMMA HeapAppend ==
  ASSUME NEW h, IsHeap(h), NEW o, IsObject(o, Len(h) + 1)
  PROVE  /\ IsHeap(Append(h, o))
         /\ Len(Append(h, o)) = Len(h) + 1
<1> DEFINE S == {h[i] : i \in 1 .. Len(h)} \cup {o}
<1>1. Len(h) \in Nat
  BY DEF IsHeap
<1>2. h \in Seq(S)
  <2>1. h \in [1 .. Len(h) -> S]
    BY DEF IsHeap
  <2>2. QED
    BY <1>1, <2>1, FunIsSeq
<1>3. /\ Append(h, o) \in Seq(S)
      /\ Len(Append(h, o)) = Len(h) + 1
      /\ \A i \in 1 .. Len(h) : Append(h, o)[i] = h[i]
      /\ Append(h, o)[Len(h) + 1] = o
  BY <1>2, AppendProperties
<1>4. Append(h, o) = [i \in 1 .. Len(Append(h, o)) |-> Append(h, o)[i]]
  BY <1>3, LenProperties
<1>5. ASSUME NEW i \in 1 .. Len(h) + 1
      PROVE  IsObject(Append(h, o)[i], Len(h) + 1)
  <2>1. CASE i = Len(h) + 1
    BY <2>1, <1>3
  <2>2. CASE i # Len(h) + 1
    <3>1. i \in 1 .. Len(h)
      BY <1>1, <2>2
    <3>2. IsObject(h[i], Len(h))
      BY <3>1 DEF IsHeap
    <3>3. QED
      BY <1>1, <1>3, <3>1, <3>2, ObjectWiden
  <2>3. QED
    BY <2>1, <2>2
<1>6. QED
  BY <1>1, <1>3, <1>4, <1>5 DEF IsHeap

\* Replacing an object by another keeps a heap.
LEMMA HeapReplace ==
  ASSUME NEW h, IsHeap(h), NEW id \in 1 .. Len(h), NEW o, IsObject(o, Len(h))
  PROVE  /\ IsHeap([h EXCEPT ![id] = o])
         /\ Len([h EXCEPT ![id] = o]) = Len(h)
<1> DEFINE S == {h[i] : i \in 1 .. Len(h)} \cup {o}
           g == [h EXCEPT ![id] = o]
<1>1. Len(h) \in Nat /\ h = [i \in 1 .. Len(h) |-> h[i]]
  BY DEF IsHeap
<1>2. h \in Seq(S)
  BY <1>1, FunIsSeq
<1>3. Len(g) = Len(h) /\ g \in Seq(S)
  BY <1>2, ExceptSeq
<1>4. g = [i \in 1 .. Len(g) |-> g[i]]
  BY <1>3, LenProperties
<1>5. \A i \in 1 .. Len(h) : g[i] = IF i = id THEN o ELSE h[i]
  BY <1>2, ExceptSeq
<1>6. \A i \in 1 .. Len(h) : IsObject(g[i], Len(h))
  BY <1>5 DEF IsHeap
<1>7. QED
  BY <1>1, <1>3, <1>4, <1>6 DEF IsHeap

\* New fields for an object.
LEMMA HeapFields ==
  ASSUME NEW h, IsHeap(h), NEW id \in 1 .. Len(h), NEW fs \in Seq(Values(Len(h)))
  PROVE  /\ IsHeap([h EXCEPT ![id].fields = fs])
         /\ Len([h EXCEPT ![id].fields = fs]) = Len(h)
<1> DEFINE o == [h[id] EXCEPT !.fields = fs]
<1>1. IsObject(h[id], Len(h))
  BY DEF IsHeap
<1>2. IsObject(o, Len(h))
  BY <1>1 DEF IsObject, Object
<1>3. [h EXCEPT ![id].fields = fs] = [h EXCEPT ![id] = o]
  OBVIOUS
<1>4. QED
  BY <1>2, <1>3, HeapReplace

\* New entries for an object.
LEMMA ObjectPairs ==
  ASSUME NEW n, NEW o, IsObject(o, n), NEW ps \in Seq(Entries(n))
  PROVE  IsObject([o EXCEPT !.pairs = ps], n)
BY DEF IsObject, Object

LEMMA HeapPairs ==
  ASSUME NEW h, IsHeap(h), NEW id \in 1 .. Len(h), NEW ps \in Seq(Entries(Len(h)))
  PROVE  /\ IsHeap([h EXCEPT ![id] = [h[id] EXCEPT !.pairs = ps]])
         /\ Len([h EXCEPT ![id] = [h[id] EXCEPT !.pairs = ps]]) = Len(h)
<1> DEFINE o == [h[id] EXCEPT !.pairs = ps]
<1>1. IsObject(h[id], Len(h))
  BY DEF IsHeap
<1>2. IsObject(o, Len(h))
  BY <1>1, ObjectPairs
<1> HIDE DEF o
<1>3. IsHeap([h EXCEPT ![id] = o]) /\ Len([h EXCEPT ![id] = o]) = Len(h)
  BY <1>2, HeapReplace
<1>4. QED
  BY <1>3 DEF o

-----------------------------------------------------------------------------
(* What an instruction reads.                                              *)

\* A function of the image has a number of locals and a sequence of instructions.
LEMMA FunctionOfImage ==
  ASSUME IInv, NEW f \in DOMAIN image.funcs
  PROVE  image.funcs[f].nlocals \in Nat /\ image.funcs[f].code \in Seq(Instr)
<1> DEFINE R == [nlocals : Nat, code : Seq(Instr)]
<1>1. image.funcs \in Seq(R)
  BY DEF IInv, ProgramOK, Image
<1>2. image.funcs[f] \in R
  BY <1>1, LenProperties, ElementOfSeq
<1>3. QED
  BY <1>2

\* The instruction in hand is one of the image's.
LEMMA InHand ==
  ASSUME IInv, NEW ops, At(ops)
  PROVE  I \in Instr /\ I.op \in ops
<1>1. image.funcs[cur].code \in Seq(Instr)
  BY FunctionOfImage DEF IInv, ProgramOK
<1>2. QED
  BY <1>1, LenProperties, ElementOfSeq DEF At, I, Code

\* The instructions with a number, and what is pushed.
Numbered == Counted \cup {"JMP", "JZ", "CALL", "NEW_CLOSURE", "METHOD", "CALL_EXTERN"}

LEMMA Arguments ==
  ASSUME NEW i \in Instr
  PROVE  /\ i.op \in Numbered => i.n \in Nat
         /\ i.op = "PUSH" /\ i.v[1] # "str" => \A n \in Nat : i.v \in Values(n)
<1>1. CASE i \in [op : Plain]
  BY <1>1 DEF Plain, Counted, Numbered
<1>2. CASE i \in [op : {"PUSH"}, v : {Null} \cup ({"int"} \X Int) \cup ({"bool"} \X BOOLEAN)
                                       \cup ({"str"} \X STRING)]
  BY <1>2 DEF Counted, Numbered, Values
<1>3. CASE i \in [op : Counted, n : Nat] \cup [op : {"JMP", "JZ"}, n : Nat]
  BY <1>3 DEF Counted, Numbered
<1>4. CASE i \in [op : {"CALL", "NEW_CLOSURE"}, fn : Nat, n : Nat]
  BY <1>4
<1>5. CASE i \in [op : {"METHOD", "CALL_EXTERN"}, name : STRING, n : Nat]
  BY <1>5
<1>6. QED
  BY <1>1, <1>2, <1>3, <1>4, <1>5 DEF Instr

LEMMA NumberInHand ==
  ASSUME IInv, NEW ops, At(ops), ops \subseteq Numbered
  PROVE  I.n \in Nat
BY InHand, Arguments

\* An operand is a value, also where the stack has none.
LEMMA OperandValue ==
  ASSUME IInv, NEW n \in Int, NEW i \in Int
  PROVE  Operand(n, i) \in Values(Len(heap))
<1>1. Len(heap) \in Nat /\ stack \in Seq(Values(Len(heap)))
  BY DEF IInv, IsHeap
<1>2. \A j \in DOMAIN stack : stack[j] \in Values(Len(heap))
  BY <1>1, LenProperties, ElementOfSeq
<1>3. QED
  BY <1>1, <1>2, Scalars DEF Operand

LEMMA OperandsValues ==
  ASSUME IInv, NEW n \in Nat
  PROVE  /\ Operands(n) \in Seq(Values(Len(heap)))
         /\ Len(Operands(n)) = n
         /\ \A i \in 1 .. n : Operands(n)[i] \in Values(Len(heap))
<1>1. Operands(n) \in [1 .. n -> Values(Len(heap))]
  BY OperandValue DEF Operands
<1>2. Operands(n) \in Seq(Values(Len(heap)))
  BY <1>1, FunIsSeq
<1>3. Len(Operands(n)) = n
  BY <1>1, <1>2, LenProperties DEF Operands
<1>4. QED
  BY <1>1, <1>2, <1>3

LEMMA BelowSeq ==
  ASSUME IInv, NEW n \in Nat
  PROVE  /\ Below(n) \in Seq(Values(Len(heap)))
         /\ Len(Below(n)) \in Nat
<1>1. stack \in Seq(Values(Len(heap))) /\ Len(stack) \in Nat
  BY LenProperties DEF IInv
<1>2. Len(stack) - n \in Int /\ Len(stack) - n <= Len(stack)
  BY <1>1
<1>3. QED
  BY <1>1, <1>2, PrefixSeq, LenProperties DEF Below

\* A slot of an object is a value, also one that the object does not have.
LEMMA SlotValue ==
  ASSUME IInv, NEW id \in 1 .. Len(heap), NEW i
  PROVE  Slot(id, i) \in Values(Len(heap))
<1>1. Len(heap) \in Nat /\ heap[id].fields \in Seq(Values(Len(heap)))
  BY DEF IInv, IsHeap, IsObject
<1>2. QED
  BY <1>1, LenProperties, ElementOfSeq, Scalars DEF Slot

-----------------------------------------------------------------------------
(* What an instruction writes.                                             *)

\* A step that leaves values of a heap that is at least as large.
LEMMA StepKeeps ==
  ASSUME IInv, NEW n \in Nat, NEW vs, Step(n, vs),
         IsHeap(heap'), Len(heap') >= Len(heap), vs \in Seq(Values(Len(heap'))),
         globals' \in Seq(Values(Len(heap')))
  PROVE  IInv'
<1>1. Len(heap) \in Nat /\ Len(heap') \in Nat
  BY DEF IInv, IsHeap
<1>2. Values(Len(heap)) \subseteq Values(Len(heap'))
  BY <1>1, ValuesWiden
<1>3. stack' \in Seq(Values(Len(heap')))
  <2>1. Below(n) \in Seq(Values(Len(heap')))
    BY <1>2, BelowSeq, SeqWiden
  <2>2. QED
    BY <2>1, ConcatProperties DEF Step
<1>4. frames' \in Seq(Frames(image', Len(heap')))
  <2>1. Frames(image, Len(heap)) \subseteq Frames(image, Len(heap'))
    BY <1>1 DEF Frames
  <2>2. QED
    BY <2>1, SeqWiden DEF IInv, Step
<1>5. QED
  BY <1>1, <1>3, <1>4 DEF IInv, ProgramOK, Step

\* The empty sequence and a sequence of one value.
LEMMA OneValue ==
  ASSUME NEW n \in Nat, NEW v \in Values(n)
  PROVE  <<v>> \in Seq(Values(n)) /\ << >> \in Seq(Values(n))
OBVIOUS

\* Globals stay values when the heap grows.
LEMMA GlobalsWiden ==
  ASSUME IInv, Len(heap') \in Nat, Len(heap') >= Len(heap)
  PROVE  globals \in Seq(Values(Len(heap')))
<1>1. Len(heap) \in Nat
  BY DEF IInv, IsHeap
<1>2. QED
  BY <1>1, ValuesWiden, SeqWiden DEF IInv

\* A step that changes no more than operands.
LEMMA QuietKeeps ==
  ASSUME IInv, NEW n \in Nat, NEW vs, Step(n, vs), UNCHANGED <<heap, globals>>,
         vs \in Seq(Values(Len(heap)))
  PROVE  IInv'
<1>1. Len(heap) \in Nat /\ IsHeap(heap') /\ Len(heap') = Len(heap)
  BY DEF IInv, IsHeap
<1>2. globals' \in Seq(Values(Len(heap')))
  BY DEF IInv
<1>3. QED
  BY <1>1, <1>2, StepKeeps

LEMMA PureKeeps ==
  ASSUME IInv, NEW n \in Nat, NEW v \in Values(Len(heap)), Pure(n, v)
  PROVE  IInv'
<1>1. Len(heap) \in Nat
  BY DEF IInv, IsHeap
<1>2. QED
  BY <1>1, OneValue, QuietKeeps DEF Pure

LEMMA NewObjectKeeps ==
  ASSUME IInv, NEW n \in Nat, NEW o, IsObject(o, Len(heap)), heap' = Append(heap, o),
         Step(n, <<Obj(Len(heap) + 1)>>), UNCHANGED globals
  PROVE  IInv'
<1> DEFINE vs == <<Obj(Len(heap) + 1)>>
<1>1. Len(heap) \in Nat /\ IsHeap(heap)
  BY DEF IInv, IsHeap
<1>2. IsObject(o, Len(heap) + 1)
  BY <1>1, ObjectWiden
<1>3. IsHeap(heap') /\ Len(heap') = Len(heap) + 1
  BY <1>1, <1>2, HeapAppend
<1>4. vs \in Seq(Values(Len(heap')))
  BY <1>1, <1>3, References, OneValue
<1>5. globals' \in Seq(Values(Len(heap')))
  BY <1>1, <1>3, GlobalsWiden
<1>6. Step(n, vs) /\ Len(heap') >= Len(heap)
  BY <1>1, <1>3
<1> HIDE DEF vs
<1>7. QED
  BY <1>3, <1>4, <1>5, <1>6, StepKeeps

LEMMA AllocateKeeps ==
  ASSUME IInv, NEW n \in Nat, NEW o, IsObject(o, Len(heap)), Allocate(n, o)
  PROVE  IInv'
BY NewObjectKeeps DEF Allocate

\* A new heap of the same size, and values of it.
LEMMA ChangeKeeps ==
  ASSUME IInv, NEW n \in Nat, NEW vs \in Seq(Values(Len(heap))), Step(n, vs),
         IsHeap(heap'), Len(heap') = Len(heap), UNCHANGED globals
  PROVE  IInv'
<1>1. Len(heap) \in Nat
  BY DEF IInv, IsHeap
<1>2. globals' \in Seq(Values(Len(heap')))
  BY DEF IInv
<1>3. QED
  BY <1>1, <1>2, StepKeeps

\* A store keeps a heap, also one that is lost.
LEMMA StoreSlotKeeps ==
  ASSUME IInv, NEW id \in 1 .. Len(heap), NEW i, NEW v \in Values(Len(heap)), StoreSlot(id, i, v)
  PROVE  IsHeap(heap') /\ Len(heap') = Len(heap)
<1> DEFINE fs == [heap[id].fields EXCEPT ![i] = v]
<1>1. IsHeap(heap)
  BY DEF IInv
<1>2. CASE i \in DOMAIN heap[id].fields
  <2>1. heap[id].fields \in Seq(Values(Len(heap)))
    BY <1>1 DEF IsHeap, IsObject
  <2>2. i \in 1 .. Len(heap[id].fields)
    BY <1>2, <2>1, LenProperties
  <2>3. fs \in Seq(Values(Len(heap)))
    BY <2>1, <2>2, ExceptSeq
  <2>4. heap' = [heap EXCEPT ![id].fields = fs]
    BY <1>2 DEF StoreSlot
  <2>5. QED
    BY <1>1, <2>3, <2>4, HeapFields
<1>3. CASE i \notin DOMAIN heap[id].fields
  BY <1>1, <1>3 DEF StoreSlot
<1>4. QED
  BY <1>2, <1>3

LEMMA FailKeeps ==
  ASSUME IInv, NEW kind, Fail(kind)
  PROVE  IInv'
BY DEF IInv, ProgramOK, Fail

\* The locals of a new frame make an object.
LEMMA LocalsObject ==
  ASSUME IInv, NEW f \in DOMAIN image.funcs, NEW n \in Nat, NEW seed \in Seq(Values(n))
  PROVE  IsObject(FrameObject(Locals(f, seed)), n)
<1>1. image.funcs[f].nlocals \in Nat
  BY FunctionOfImage
<1>2. Locals(f, seed) \in [1 .. image.funcs[f].nlocals -> Values(n)]
  BY Scalars, LenProperties, ElementOfSeq DEF Locals
<1>3. Locals(f, seed) \in Seq(Values(n))
  BY <1>1, <1>2, FunIsSeq
<1>4. QED
  BY <1>3, EmptySeq DEF IsObject, FrameObject, Object

\* The heap with the frame of a call.
LEMMA FrameAppended ==
  ASSUME IInv, NEW f \in DOMAIN image.funcs, NEW seed \in Seq(Values(Len(heap))),
         heap' = Append(heap, FrameObject(Locals(f, seed)))
  PROVE  /\ IsHeap(heap')
         /\ Len(heap') = Len(heap) + 1
         /\ Values(Len(heap)) \subseteq Values(Len(heap'))
         /\ Seq(Values(Len(heap))) \subseteq Seq(Values(Len(heap')))
         /\ Seq(Frames(image, Len(heap))) \subseteq Seq(Frames(image, Len(heap')))
<1>1. IsHeap(heap) /\ Len(heap) \in Nat
  BY DEF IInv, IsHeap
<1>2. IsObject(FrameObject(Locals(f, seed)), Len(heap) + 1)
  BY <1>1, LocalsObject, ObjectWiden
<1>3. IsHeap(heap') /\ Len(heap') = Len(heap) + 1
  BY <1>1, <1>2, HeapAppend
<1>4. Values(Len(heap)) \subseteq Values(Len(heap'))
  BY <1>1, <1>3, ValuesWiden
<1>5. Frames(image, Len(heap)) \subseteq Frames(image, Len(heap'))
  BY <1>1, <1>3 DEF Frames
<1>6. QED
  BY <1>3, <1>4, <1>5, SeqWiden

LEMMA EnterKeeps ==
  ASSUME IInv, NEW f \in DOMAIN image.funcs, NEW seed \in Seq(Values(Len(heap))),
         NEW n \in Nat, Enter(f, seed, n)
  PROVE  IInv'
<1> DEFINE new == [cur |-> cur, pc |-> pc + 1, frame |-> frame, base |-> base]
<1>1. /\ IsHeap(heap') /\ Len(heap') = Len(heap) + 1 /\ Len(heap) \in Nat
      /\ Seq(Values(Len(heap))) \subseteq Seq(Values(Len(heap')))
      /\ Seq(Frames(image, Len(heap))) \subseteq Seq(Frames(image, Len(heap')))
  BY FrameAppended DEF Enter, IInv, IsHeap
<1>2. frames' \in Seq(Frames(image', Len(heap')))
  <2>1. new \in Frames(image, Len(heap))
    BY DEF IInv, ProgramOK, Frames
  <2>2. Append(frames, new) \in Seq(Frames(image, Len(heap)))
    BY <2>1, AppendProperties DEF IInv
  <2>3. QED
    BY <1>1, <2>2 DEF Enter
<1>3. stack' \in Seq(Values(Len(heap'))) /\ base' \in Nat
  BY <1>1, BelowSeq DEF Enter
<1>4. globals' \in Seq(Values(Len(heap')))
  BY <1>1 DEF Enter, IInv
<1>5. ProgramOK' /\ pc' \in Nat /\ frame' \in 1 .. Len(heap')
  BY <1>1 DEF Enter, IInv, ProgramOK
<1>6. QED
  BY <1>1, <1>2, <1>3, <1>4, <1>5 DEF IInv

-----------------------------------------------------------------------------
(* One lemma per instruction, or per kind of instruction.                  *)

LEMMA PushKeeps == ASSUME IInv, Push PROVE IInv'
<1>1. Len(heap) \in Nat /\ I \in Instr
  BY InHand DEF Push, IInv, IsHeap
<1>2. IsObject(StrObject(I.v[2]), Len(heap))
  BY EmptySeq DEF IsObject, StrObject, Object
<1>3. I.op = "PUSH"
  BY InHand DEF Push
<1>4. CASE I.v[1] = "str"
  BY <1>2, <1>4, AllocateKeeps DEF Push
<1>5. CASE I.v[1] # "str"
  <2>1. I.v \in Values(Len(heap)) /\ Pure(0, I.v)
    BY <1>1, <1>3, <1>5, Arguments DEF Push
  <2>2. QED
    BY <2>1, PureKeeps
<1>6. QED
  BY <1>4, <1>5

LEMMA PopKeeps == ASSUME IInv, Pop PROVE IInv'
BY QuietKeeps, EmptySeq DEF Pop

\* Loads from and stores into the locals of the frame.
LEMMA LocalKeeps == ASSUME IInv, LoadLocal \/ StoreLocal \/ AddrLocal PROVE IInv'
<1>1. /\ Len(heap) \in Nat /\ frame \in 1 .. Len(heap)
      /\ << >> \in Seq(Values(Len(heap)))
  BY EmptySeq DEF IInv, IsHeap
<1>2. CASE LoadLocal
  BY <1>1, <1>2, SlotValue, PureKeeps DEF LoadLocal
<1>3. CASE StoreLocal
  <2>1. Operand(1, 1) \in Values(Len(heap))
    BY OperandValue
  <2>2. IsHeap(heap') /\ Len(heap') = Len(heap)
    BY <1>1, <1>3, <2>1, StoreSlotKeeps DEF StoreLocal
  <2>3. QED
    BY <1>1, <1>3, <2>2, ChangeKeeps DEF StoreLocal
<1>4. CASE AddrLocal
  <2>1. I.n \in Nat
    BY <1>4, NumberInHand DEF AddrLocal, Numbered, Counted
  <2>2. PtrVal(frame, I.n + 1) \in Values(Len(heap)) /\ Pure(0, PtrVal(frame, I.n + 1))
    BY <1>1, <1>4, <2>1, References DEF AddrLocal
  <2>3. QED
    BY <2>2, PureKeeps
<1>5. QED
  BY <1>2, <1>3, <1>4

LEMMA GlobalKeeps == ASSUME IInv, LoadGlobal \/ StoreGlobal PROVE IInv'
<1> DEFINE V == Values(Len(heap))
<1>1. Len(heap) \in Nat /\ globals \in Seq(V) /\ Len(globals) \in Nat
  BY LenProperties DEF IInv, IsHeap
<1>2. Null \in V /\ \A i \in DOMAIN globals : globals[i] \in V
  BY <1>1, Scalars, LenProperties, ElementOfSeq
<1>3. CASE LoadGlobal
  <2>1. PICK v \in V : Pure(0, v)
    BY <1>2, <1>3 DEF LoadGlobal
  <2>2. QED
    BY <2>1, PureKeeps
<1>4. CASE StoreGlobal
  <2> DEFINE n == IF I.n > Len(globals) THEN I.n ELSE Len(globals)
  <2>1. I.n \in Nat
    BY <1>4, NumberInHand DEF StoreGlobal, Numbered, Counted
  <2>2. n \in Nat
    BY <1>1, <2>1
  <2>3. globals' \in [1 .. n -> V]
    BY <1>2, <1>4, OperandValue DEF StoreGlobal
  <2>4. globals' \in Seq(V)
    BY <2>2, <2>3, FunIsSeq
  <2>5. heap' = heap /\ Step(1, << >>) /\ << >> \in Seq(V) /\ IsHeap(heap)
    BY <1>4, EmptySeq DEF StoreGlobal, IInv
  <2>6. /\ IsHeap(heap') /\ Len(heap') >= Len(heap)
        /\ << >> \in Seq(Values(Len(heap'))) /\ globals' \in Seq(Values(Len(heap')))
    BY <1>1, <2>4, <2>5
  <2>7. QED
    BY <2>5, <2>6, StepKeeps
<1>5. QED
  BY <1>3, <1>4

\* Instructions that follow a reference or a pointer.
LEMMA FieldKeeps ==
  ASSUME IInv, LoadField \/ StoreField \/ AddrField \/ DerefLoad \/ DerefStore
  PROVE  IInv'
<1> DEFINE V == Values(Len(heap))
<1>1. Len(heap) \in Nat /\ << >> \in Seq(V)
  BY EmptySeq DEF IInv, IsHeap
<1>2. \A n, i \in Int : Operand(n, i) \in V
  BY OperandValue
<1>3. \A n, i \in Int : IsObj(Operand(n, i)) => Operand(n, i)[2] \in 1 .. Len(heap)
  BY <1>1, <1>2, ReferencesLead DEF IsObj
<1>4. \A n, i \in Int : Operand(n, i)[1] = "ptr" => Operand(n, i)[2] \in 1 .. Len(heap)
  BY <1>1, <1>2, ReferencesLead
<1>5. CASE LoadField
  BY <1>3, <1>5, SlotValue, PureKeeps, FailKeeps DEF LoadField
<1>6. CASE AddrField
  <2>1. I.n \in Nat
    BY <1>6, NumberInHand DEF AddrField, Numbered, Counted
  <2>2. CASE IsObj(Operand(1, 1))
    <3>1. PICK v \in V : Pure(1, v)
      BY <1>1, <1>3, <1>6, <2>1, <2>2, References DEF AddrField
    <3>2. QED
      BY <3>1, PureKeeps
  <2>3. CASE ~ IsObj(Operand(1, 1))
    BY <1>6, <2>3, FailKeeps DEF AddrField
  <2>4. QED
    BY <2>2, <2>3
<1>7. CASE DerefLoad
  BY <1>4, <1>7, SlotValue, PureKeeps, FailKeeps DEF DerefLoad
<1>8. ASSUME NEW id \in 1 .. Len(heap), NEW i, StoreSlot(id, i, Operand(2, 2)),
             Step(2, << >>), UNCHANGED <<globals, out>>
      PROVE  IInv'
  <2>1. IsHeap(heap') /\ Len(heap') = Len(heap)
    BY <1>2, <1>8, StoreSlotKeeps
  <2>2. QED
    BY <1>1, <1>8, <2>1, ChangeKeeps
<1>9. CASE StoreField
  BY <1>3, <1>8, <1>9, FailKeeps DEF StoreField
<1>10. CASE DerefStore
  BY <1>4, <1>8, <1>10, FailKeeps DEF DerefStore
<1>11. QED
  BY <1>5, <1>6, <1>7, <1>9, <1>10

\* Instructions that make an object of operands.
LEMMA NewKeeps == ASSUME IInv, NewStruct \/ NewList \/ NewMap \/ NewClosure PROVE IInv'
<1> DEFINE V == Values(Len(heap))
<1>1. << >> \in Seq(V) /\ << >> \in Seq(Entries(Len(heap)))
  BY EmptySeq
<1>2. CASE NewStruct
  <2>1. I.n \in Nat
    BY <1>2, NumberInHand DEF NewStruct, Numbered, Counted
  <2>2. IsObject(Struct(Operands(I.n)), Len(heap))
    BY <1>1, <2>1, OperandsValues DEF IsObject, Struct, Object
  <2>3. QED
    BY <1>2, <2>1, <2>2, AllocateKeeps DEF NewStruct
<1>3. CASE NewList
  <2>1. I.n \in Nat
    BY <1>3, NumberInHand DEF NewList, Numbered, Counted
  <2>2. IsObject(ListObject(Operands(I.n)), Len(heap))
    BY <1>1, <2>1, OperandsValues DEF IsObject, ListObject, Object
  <2>3. QED
    BY <1>3, <2>1, <2>2, AllocateKeeps DEF NewList
<1>4. CASE NewMap
  <2> DEFINE kv == Operands(2 * I.n)
             pairs == [i \in 1 .. I.n |-> <<kv[2 * i - 1], kv[2 * i]>>]
  <2>1. I.n \in Nat /\ 2 * I.n \in Nat
    BY <1>4, NumberInHand DEF NewMap, Numbered, Counted
  <2>2. \A i \in 1 .. I.n : 2 * i - 1 \in 1 .. 2 * I.n /\ 2 * i \in 1 .. 2 * I.n
    BY <2>1
  <2>3. \A i \in 1 .. 2 * I.n : kv[i] \in V
    BY <2>1, OperandsValues
  <2>4. pairs \in [1 .. I.n -> Entries(Len(heap))]
    BY <2>2, <2>3 DEF Entries
  <2>5. pairs \in Seq(Entries(Len(heap)))
    BY <2>1, <2>4, FunIsSeq
  <2>6. IsObject(MapObject(pairs), Len(heap))
    BY <1>1, <2>5 DEF IsObject, MapObject, Object
  <2>7. Allocate(2 * I.n, MapObject(pairs))
    BY <1>4 DEF NewMap
  <2>8. QED
    BY <2>1, <2>6, <2>7, AllocateKeeps
<1>5. CASE NewClosure
  <2>1. I.n \in Nat
    BY <1>5, NumberInHand DEF NewClosure, Numbered
  <2>2. IsObject(ClosureObject(I.fn, Operands(I.n)), Len(heap))
    BY <1>1, <2>1, OperandsValues DEF IsObject, ClosureObject, Object
  <2>3. QED
    BY <1>5, <2>1, <2>2, AllocateKeeps DEF NewClosure
<1>6. QED
  BY <1>2, <1>3, <1>4, <1>5

\* The text of a new string does not matter.
LEMMA StringObject ==
  ASSUME NEW str, NEW n
  PROVE  IsObject(StrObject(str), n)
BY EmptySeq DEF IsObject, StrObject, Object

-----------------------------------------------------------------------------
(* Numbers, truth values and text.                                         *)

LEMMA QuotientInt ==
  ASSUME NEW x \in Int, NEW y \in Int, y # 0
  PROVE  Quotient(x, y) \in Int
<1> DEFINE a == IF x < 0 THEN 0 - x ELSE x
           b == IF y < 0 THEN 0 - y ELSE y
<1>1. a \in Int /\ b \in Int /\ b > 0
  OBVIOUS
<1> HIDE DEF a, b
<1>2. a \div b \in Int
  BY <1>1
<1>3. QED
  BY <1>2 DEF Quotient, a, b

LEMMA ArithInt ==
  ASSUME NEW op \in {"+", "-", "*", "/", "%"}, NEW x \in Int, NEW y \in Int,
         y # 0 \/ op \notin {"/", "%"}
  PROVE  Arith(op, x, y) \in Int
<1>1. CASE op \in {"+", "-", "*"}
  BY <1>1 DEF Arith
<1>2. CASE op \in {"/", "%"}
  <2>1. Quotient(x, y) \in Int
    BY <1>2, QuotientInt
  <2>2. y * Quotient(x, y) \in Int
    BY <2>1
  <2>3. QED
    BY <1>2, <2>1, <2>2 DEF Arith
<1>3. QED
  BY <1>1, <1>2

LEMMA TruthyBool ==
  ASSUME NEW n, NEW v \in Values(n)
  PROVE  Truthy(v) \in BOOLEAN
<1>1. CASE v[1] = "bool"
  <2>1. v[2] \in BOOLEAN
    BY <1>1 DEF Values, Null
  <2>2. QED
    BY <1>1, <2>1, Zenon DEF Truthy
<1>2. CASE v[1] = "int"
  <2>1. Truthy(v) <=> v[2] # 0
    BY <1>2 DEF Truthy
  <2>2. v[1] # "bool" /\ v[1] # "null"
    BY <1>2
  <2>3. QED
    BY <1>2, <2>2, Zenon DEF Truthy
<1>3. CASE v[1] \notin {"bool", "int"}
  BY <1>3, Zenon DEF Truthy
<1>4. QED
  BY <1>1, <1>2, <1>3

LEMMA OrderedBool ==
  ASSUME NEW op \in {"==", "!=", "<", "<=", ">", ">="}, NEW x \in Int, NEW y \in Int
  PROVE  Ordered(op, x, y) \in BOOLEAN
<1>1. (x < y) \in BOOLEAN /\ (x <= y) \in BOOLEAN /\ (x > y) \in BOOLEAN /\ (x >= y) \in BOOLEAN
  BY SMT
<1>2. (x = y) \in BOOLEAN /\ (x # y) \in BOOLEAN
  BY Zenon
<1>3. CASE op = "=="
  BY <1>2, <1>3, Zenon DEF Ordered
<1>4. CASE op = "!="
  BY <1>2, <1>4, Zenon DEF Ordered
<1>5. CASE op = "<"
  BY <1>1, <1>5, Zenon DEF Ordered
<1>6. CASE op = "<="
  BY <1>1, <1>6, Zenon DEF Ordered
<1>7. CASE op = ">"
  BY <1>1, <1>7, Zenon DEF Ordered
<1>8. CASE op = ">="
  BY <1>1, <1>8, Zenon DEF Ordered
<1>9. QED
  BY <1>3, <1>4, <1>5, <1>6, <1>7, <1>8

\* Only numbers and truth values are compared by order.
LEMMA ComparedBool ==
  ASSUME NEW op \in {"==", "!=", "<", "<=", ">", ">="}, NEW n,
         NEW a \in Values(n), NEW b \in Values(n)
  PROVE  Compared(op, a, b) \subseteq BOOLEAN
<1> DEFINE same == op \in {"==", "<=", ">="}
<1>1. IsInt(a) /\ IsInt(b) => Ordered(op, a[2], b[2]) \in BOOLEAN
  <2>1. IsInt(a) /\ IsInt(b) => a[2] \in Int /\ b[2] \in Int
    BY DEF IsInt, Values, Null
  <2>2. QED
    BY <2>1, OrderedBool
<1>2. Ordered(op, AsNumber(a[2]), AsNumber(b[2])) \in BOOLEAN
  BY OrderedBool DEF AsNumber
<1>3. same \in BOOLEAN
  BY SMT
<1> HIDE DEF same
<1>4. Compared(op, a, b) \subseteq BOOLEAN \cup {same, (ValuesEqual(a, b) /\ same)}
  BY <1>1, <1>2, Zenon DEF Compared, same
<1>5. (ValuesEqual(a, b) /\ same) \in BOOLEAN
  BY Zenon
<1>6. QED
  BY <1>3, <1>4, <1>5, Zenon

LEMMA ArithmeticKeeps == ASSUME IInv, Arithmetic \/ Negate PROVE IInv'
<1>1. Len(heap) \in Nat
  BY DEF IInv, IsHeap
<1>2. \A n, i \in Int : IsInt(Operand(n, i)) => Operand(n, i)[2] \in Int
  BY <1>1, OperandValue, ReferencesLead DEF IsInt
<1>3. CASE Arithmetic
  <2> DEFINE a == Operand(2, 1)
             b == Operand(2, 2)
  <2>1. I.op \in {"+", "-", "*", "/", "%"}
    BY <1>3, InHand DEF Arithmetic
  <2>2. CASE /\ IsInt(a) /\ IsInt(b)
             /\ b[2] # 0 \/ I.op \notin {"/", "%"}
             /\ Pure(2, IntVal(Arith(I.op, a[2], b[2])))
    <3>1. a[2] \in Int /\ b[2] \in Int
      BY <1>2, <2>2
    <3>2. Arith(I.op, a[2], b[2]) \in Int
      BY <2>1, <2>2, <3>1, ArithInt
    <3>3. QED
      BY <1>1, <2>2, <3>2, Scalars, PureKeeps
  <2>3. CASE \E kind : Fail(kind)
    BY <2>3, FailKeeps
  <2>4. QED
    BY <1>3, <2>2, <2>3 DEF Arithmetic
<1>4. CASE Negate
  <2>1. CASE IsInt(Operand(1, 1))
    <3>1. Operand(1, 1)[2] \in Int
      BY <1>2, <2>1
    <3>2. 0 - Operand(1, 1)[2] \in Int
      BY <3>1
    <3>3. IntVal(0 - Operand(1, 1)[2]) \in Values(Len(heap))
      BY <1>1, <3>2, Scalars
    <3>4. QED
      BY <1>4, <2>1, <3>3, PureKeeps DEF Negate
  <2>2. CASE ~ IsInt(Operand(1, 1))
    BY <1>4, <2>2, FailKeeps DEF Negate
  <2>3. QED
    BY <2>1, <2>2
<1>5. QED
  BY <1>3, <1>4

LEMMA TruthKeeps == ASSUME IInv, Compare \/ Logic PROVE IInv'
<1>1. Len(heap) \in Nat
  BY DEF IInv, IsHeap
<1>2. \A n, i \in Int : Truthy(Operand(n, i)) \in BOOLEAN
  BY OperandValue, TruthyBool
<1>3. ASSUME NEW n \in Nat, NEW b \in BOOLEAN, Pure(n, BoolVal(b))
      PROVE  IInv'
  <2>1. BoolVal(b) \in Values(Len(heap))
    BY <1>1, Scalars
  <2>2. QED
    BY <1>3, <2>1, PureKeeps
<1>4. CASE Compare
  <2>1. I.op \in {"==", "!=", "<", "<=", ">", ">="}
    BY <1>4, InHand DEF Compare
  <2>2. Compared(I.op, Operand(2, 1), Operand(2, 2)) \subseteq BOOLEAN
    BY <2>1, OperandValue, ComparedBool
  <2>3. QED
    BY <1>3, <1>4, <2>2, FailKeeps DEF Compare
<1>5. CASE Logic
  <2> DEFINE x == Truthy(Operand(2, 1))
             y == Truthy(Operand(2, 2))
             z == Truthy(Operand(1, 1))
  <2>1. x \in BOOLEAN /\ y \in BOOLEAN /\ z \in BOOLEAN
    BY <1>2
  <2>2. Pure(2, BoolVal(x /\ y)) \/ Pure(2, BoolVal(x \/ y)) \/ Pure(1, BoolVal(~z))
    BY <1>5 DEF Logic
  <2> HIDE DEF x, y, z
  <2>3. (x /\ y) \in BOOLEAN /\ (x \/ y) \in BOOLEAN /\ (~z) \in BOOLEAN
    OBVIOUS
  <2>4. QED
    BY <1>3, <2>2, <2>3
<1>6. QED
  BY <1>4, <1>5

LEMMA TextKeeps == ASSUME IInv, Concat \/ PrintOut PROVE IInv'
<1>1. CASE Concat
  BY <1>1, StringObject, AllocateKeeps DEF Concat
<1>2. CASE PrintOut
  BY <1>2, EmptySeq, QuietKeeps DEF PrintOut
<1>3. QED
  BY <1>1, <1>2

-----------------------------------------------------------------------------
(* Jumps, calls and returns.                                               *)

LEMMA JumpKeeps == ASSUME IInv, Jump \/ JumpZero PROVE IInv'
<1>1. I.n \in Nat
  BY NumberInHand DEF Jump, JumpZero, Numbered
<1>2. Below(1) \in Seq(Values(Len(heap)))
  BY BelowSeq
<1>3. CASE Jump
  BY <1>1, <1>3 DEF Jump, IInv, ProgramOK
<1>4. CASE JumpZero
  <2>1. pc' \in Nat
    BY <1>1, <1>4 DEF JumpZero, IInv
  <2>2. QED
    BY <1>2, <1>4, <2>1 DEF JumpZero, IInv, ProgramOK
<1>5. QED
  BY <1>3, <1>4

LEMMA CallKeeps == ASSUME IInv, CallFunc \/ CallClosure PROVE IInv'
<1>1. I.n \in Nat
  BY NumberInHand DEF CallFunc, CallClosure, Numbered, Counted
<1>2. Operands(I.n) \in Seq(Values(Len(heap)))
  BY <1>1, OperandsValues
<1>3. CASE CallFunc
  BY <1>1, <1>2, <1>3, EnterKeeps, FailKeeps DEF CallFunc
<1>4. CASE CallClosure
  <2> DEFINE c == Operand(I.n + 1, 1)
             f == heap[c[2]].fn
             seed == heap[c[2]].fields \o Operands(I.n)
  <2>1. CASE IsA(c, "Closure") /\ f \in DOMAIN image.funcs
    <3>1. c \in Values(Len(heap)) /\ c[1] = "obj"
      BY <1>1, <2>1, OperandValue DEF IsA, IsObj
    <3>2. c[2] \in 1 .. Len(heap)
      BY <3>1, ReferencesLead DEF IInv, IsHeap
    <3>3. heap[c[2]].fields \in Seq(Values(Len(heap)))
      BY <3>2 DEF IInv, IsHeap, IsObject
    <3>4. seed \in Seq(Values(Len(heap)))
      BY <1>2, <3>3, ConcatProperties
    <3>5. Enter(f, seed, I.n + 1) /\ I.n + 1 \in Nat
      BY <1>1, <1>4, <2>1 DEF CallClosure
    <3> HIDE DEF f, seed
    <3>6. QED
      BY <2>1, <3>4, <3>5, EnterKeeps
  <2>2. CASE ~ (IsA(c, "Closure") /\ f \in DOMAIN image.funcs)
    BY <1>4, <2>2, FailKeeps DEF CallClosure
  <2>3. QED
    BY <2>1, <2>2
<1>5. QED
  BY <1>3, <1>4

LEMMA ReturnKeeps == ASSUME IInv, Return PROVE IInv'
<1> DEFINE n == IF I.op = "RETURN" THEN 1 ELSE 0
           v == IF I.op = "RETURN" THEN Operand(1, 1) ELSE Null
           caller == frames[Len(frames)]
           V == Values(Len(heap))
<1>0. Len(heap) \in Nat
  BY DEF IInv, IsHeap
<1>1. n \in Nat /\ v \in V /\ Len(heap) \in Nat
  BY <1>0, OperandValue, Scalars
<1>2. Below(n) \in Seq(V) /\ Len(Below(n)) \in Nat
  BY <1>1, BelowSeq
<1>3. frames \in Seq(Frames(image, Len(heap))) /\ Len(frames) \in Nat
  BY LenProperties DEF IInv
<1>4. CASE frames # << >>
  <2>1. Len(frames) \in 1 .. Len(frames)
    BY <1>3, <1>4, EmptySeq
  <2>2. caller \in Frames(image, Len(heap))
    BY <1>3, <2>1, ElementOfSeq
  <2>3. frames' \in Seq(Frames(image, Len(heap)))
    <3>1. Len(frames) - 1 \in Int /\ Len(frames) - 1 <= Len(frames)
      BY <1>3
    <3>2. SubSeq(frames, 1, Len(frames) - 1) \in Seq(Frames(image, Len(heap)))
      BY <1>3, <3>1, PrefixSeq
    <3>3. QED
      BY <1>4, <3>2 DEF Return
  <2>4. stack' \in Seq(V)
    <3>1. Append(Below(n), v) \in Seq(V)
      BY <1>1, <1>2, AppendProperties
    <3>2. QED
      BY <1>4, <3>1 DEF Return
  <2>5. /\ cur' = caller.cur /\ pc' = caller.pc /\ frame' = caller.frame /\ base' = caller.base
        /\ UNCHANGED <<image, heap, globals>>
    BY <1>4 DEF Return
  <2>6. QED
    BY <2>2, <2>3, <2>4, <2>5 DEF IInv, ProgramOK, Frames
<1>5. CASE frames = << >> /\ cur = image.init
  <2>1. /\ stack' = Below(n) /\ base' = Len(stack') /\ Begin(image.main)
        /\ UNCHANGED <<image, globals, frames>>
    BY <1>5 DEF Return
  <2>2. image.main \in DOMAIN image.funcs /\ << >> \in Seq(V)
    BY EmptySeq DEF IInv, ProgramOK
  <2>3. heap' = Append(heap, FrameObject(Locals(image.main, << >>)))
    BY <2>1 DEF Begin
  <2>4. /\ IsHeap(heap') /\ Len(heap') = Len(heap) + 1
        /\ Seq(V) \subseteq Seq(Values(Len(heap')))
        /\ Seq(Frames(image, Len(heap))) \subseteq Seq(Frames(image, Len(heap')))
    BY <2>2, <2>3, FrameAppended
  <2>5. cur' = image.main /\ pc' = 1 /\ frame' \in 1 .. Len(heap')
    BY <1>1, <2>1, <2>4 DEF Begin
  <2>6. stack' \in Seq(Values(Len(heap'))) /\ base' \in Nat
    BY <1>2, <2>1, <2>4
  <2>7. QED
    BY <2>1, <2>2, <2>4, <2>5, <2>6 DEF IInv, ProgramOK
<1>6. CASE frames = << >> /\ cur # image.init
  <2>1. /\ stack' = Below(n) /\ base' = Len(stack')
        /\ UNCHANGED <<image, heap, globals, frames, cur, pc, frame>>
    BY <1>6 DEF Return
  <2>2. QED
    BY <1>2, <2>1 DEF IInv, ProgramOK
<1>7. QED
  BY <1>4, <1>5, <1>6

-----------------------------------------------------------------------------
(* Containers, strings and builtins.                                       *)

\* A set of numbers has a least one.
LEMMA LeastNumber ==
  ASSUME NEW S, S \subseteq Nat, S # {}
  PROVE  \E m \in S : \A k \in S : m <= k
<1> DEFINE R == {ij \in Nat \X Nat : ij[1] < ij[2]}
<1>1. IsWellFoundedOn(R, Nat)
  BY NatLessThanWellFounded DEF OpToRel
<1>2. PICK m \in S : \A k \in S : ~ (<<k, m>> \in R)
  BY <1>1, WFMin, Zenon
<1>3. ASSUME NEW k \in S
      PROVE  m <= k
  <2>1. m \in Nat /\ k \in Nat /\ ~ (<<k, m>> \in R)
    BY <1>2
  <2>2. QED
    BY <2>1
<1>4. QED
  BY <1>3

\* An entry that is found is one of the map's.
LEMMA EntryIndex ==
  ASSUME NEW id, NEW key, IsHeap(heap), id \in 1 .. Len(heap), EntryAt(id, key) # 0
  PROVE  EntryAt(id, key) \in 1 .. Len(heap[id].pairs)
<1> DEFINE at == {i \in DOMAIN heap[id].pairs : ValuesEqual(heap[id].pairs[i][1], key)}
<1>1. DOMAIN heap[id].pairs = 1 .. Len(heap[id].pairs)
  BY LenProperties DEF IsHeap, IsObject
<1>2. at # {} /\ at \subseteq Nat
  BY <1>1 DEF EntryAt
<1>3. \E i \in at : \A j \in at : i <= j
  BY <1>2, LeastNumber
<1>4. EntryAt(id, key) \in at
  BY <1>2, <1>3, Zenon DEF EntryAt
<1>5. QED
  BY <1>1, <1>4

\* The keys and values of a map are values.
LEMMA PairsValues ==
  ASSUME IInv, NEW id \in 1 .. Len(heap)
  PROVE  /\ heap[id].pairs \in Seq(Entries(Len(heap)))
         /\ Len(heap[id].pairs) \in Nat
         /\ DOMAIN heap[id].pairs = 1 .. Len(heap[id].pairs)
         /\ \A i \in 1 .. Len(heap[id].pairs) :
              heap[id].pairs[i] \in Entries(Len(heap))
<1>1. heap[id].pairs \in Seq(Entries(Len(heap)))
  BY DEF IInv, IsHeap, IsObject
<1>2. QED
  BY <1>1, LenProperties, ElementOfSeq

LEMMA EntryValueOK ==
  ASSUME IInv, NEW id \in 1 .. Len(heap), NEW key
  PROVE  EntryValue(id, key) \in Values(Len(heap))
<1>1. Len(heap) \in Nat /\ IsHeap(heap)
  BY DEF IInv, IsHeap
<1>2. CASE EntryAt(id, key) = 0
  BY <1>1, <1>2, Scalars DEF EntryValue
<1>3. CASE EntryAt(id, key) # 0
  <2>1. heap[id].pairs[EntryAt(id, key)] \in Entries(Len(heap))
    BY <1>1, <1>3, EntryIndex, PairsValues
  <2>2. QED
    BY <1>3, <2>1 DEF EntryValue, Entries
<1>4. QED
  BY <1>2, <1>3

LEMMA SetEntryKeeps ==
  ASSUME IInv, NEW id \in 1 .. Len(heap), NEW key \in Values(Len(heap)),
         NEW v \in Values(Len(heap)), SetEntry(id, key, v)
  PROVE  IsHeap(heap') /\ Len(heap') = Len(heap)
<1> DEFINE pairs == heap[id].pairs
           at == EntryAt(id, key)
           P == Entries(Len(heap))
<1>1. IsHeap(heap) /\ pairs \in Seq(P)
  BY PairsValues DEF IInv
<1>2. CASE at = 0
  <2> DEFINE ps == Append(pairs, <<key, v>>)
  <2>1. ps \in Seq(P)
    BY <1>1, AppendProperties DEF Entries
  <2>2. heap' = [heap EXCEPT ![id].pairs = ps]
    BY <1>2 DEF SetEntry
  <2> HIDE DEF ps
  <2>3. QED
    BY <1>1, <2>1, <2>2, HeapPairs
<1>3. CASE at # 0
  <2> DEFINE new == [pairs[at] EXCEPT ![2] = v]
  <2>1. at \in 1 .. Len(pairs)
    BY <1>1, <1>3, EntryIndex
  <2>2. pairs[at] \in P
    BY <2>1, PairsValues
  <2>3. new \in P
    BY <2>2 DEF Entries
  <2> DEFINE ps == [pairs EXCEPT ![at] = new]
  <2>4. ps \in Seq(P)
    BY <1>1, <2>1, <2>3, ExceptSeq
  <2>5. heap' = [heap EXCEPT ![id].pairs = ps]
    BY <1>3 DEF SetEntry
  <2> HIDE DEF ps
  <2>6. QED
    BY <1>1, <2>4, <2>5, HeapPairs
<1>4. QED
  BY <1>2, <1>3

LEMMA IndexKeeps == ASSUME IInv, Index PROVE IInv'
<1> DEFINE c == Operand(2, 1)
           i == Operand(2, 2)
<1>1. Len(heap) \in Nat
  BY DEF IInv, IsHeap
<1>2. IsA(c, "List") \/ IsA(c, "Map") => c[2] \in 1 .. Len(heap)
  BY <1>1, OperandValue, ReferencesLead DEF IsA, IsObj
<1>3. CASE IsA(c, "List") /\ InList(c[2], i)
  BY <1>2, <1>3, SlotValue, PureKeeps DEF Index
<1>4. CASE ~ IsA(c, "List") /\ IsA(c, "Map")
  BY <1>2, <1>4, EntryValueOK, PureKeeps DEF Index
<1>5. CASE \E kind : Fail(kind)
  BY <1>5, FailKeeps
<1>6. QED
  BY <1>3, <1>4, <1>5 DEF Index

LEMMA IndexStoreKeeps == ASSUME IInv, IndexStore PROVE IInv'
<1> DEFINE c == Operand(3, 1)
           i == Operand(3, 2)
           v == Operand(3, 3)
<1>0. c \in Values(Len(heap)) /\ i \in Values(Len(heap)) /\ v \in Values(Len(heap))
  BY OperandValue
<1>1. /\ Len(heap) \in Nat
      /\ c \in Values(Len(heap)) /\ i \in Values(Len(heap)) /\ v \in Values(Len(heap))
  BY <1>0 DEF IInv, IsHeap
<1>2. IsA(c, "List") \/ IsA(c, "Map") => c[2] \in 1 .. Len(heap)
  BY <1>1, ReferencesLead DEF IsA, IsObj
<1>3. <<Null>> \in Seq(Values(Len(heap)))
  BY <1>1, Scalars, OneValue
<1>4. ASSUME IsHeap(heap'), Len(heap') = Len(heap), Step(3, <<Null>>), UNCHANGED <<globals, out>>
      PROVE  IInv'
  BY <1>3, <1>4, ChangeKeeps
<1>5. CASE IsA(c, "List") /\ InList(c[2], i)
  BY <1>1, <1>2, <1>4, <1>5, StoreSlotKeeps DEF IndexStore
<1>6. CASE ~ IsA(c, "List") /\ IsA(c, "Map")
  BY <1>1, <1>2, <1>4, <1>6, SetEntryKeeps DEF IndexStore
<1>7. CASE \E kind : Fail(kind)
  BY <1>7, FailKeeps
<1>8. QED
  BY <1>5, <1>6, <1>7 DEF IndexStore

LEMMA ListMethodKeeps ==
  ASSUME IInv, I.n \in Nat, NEW id \in 1 .. Len(heap), ListMethod(id, Operands(I.n))
  PROVE  IInv'
<1> DEFINE V == Values(Len(heap))
           fields == heap[id].fields
           args == Operands(I.n)
           n == Len(fields)
<1>1. /\ Len(heap) \in Nat /\ IsHeap(heap) /\ I.n + 1 \in Nat
      /\ fields \in Seq(V) /\ n \in Nat /\ DOMAIN fields = 1 .. n
  BY LenProperties DEF IInv, IsHeap, IsObject
<1>2. Len(args) = I.n /\ \A i \in 1 .. I.n : args[i] \in V
  BY OperandsValues
<1>3. ASSUME NEW v \in V, heap' = heap, Step(I.n + 1, <<v>>), UNCHANGED <<globals, out>>
      PROVE  IInv'
  BY <1>1, <1>3, OneValue, QuietKeeps
<1>4. ASSUME NEW fs \in Seq(V), NEW v \in V, heap' = [heap EXCEPT ![id].fields = fs],
             Step(I.n + 1, <<v>>), UNCHANGED <<globals, out>>
      PROVE  IInv'
  <2>1. IsHeap(heap') /\ Len(heap') = Len(heap)
    BY <1>1, <1>4, HeapFields
  <2>2. QED
    BY <1>1, <1>4, <2>1, OneValue, ChangeKeeps
<1>5. CASE I.name = "len"
  <2>1. IntVal(n) \in V
    BY <1>1, Scalars
  <2>2. QED
    BY <1>3, <1>5, <2>1 DEF ListMethod
<1>6. CASE I.name = "push" /\ Len(args) = 1
  <2>1. Append(fields, args[1]) \in Seq(V) /\ Null \in V
    BY <1>1, <1>2, <1>6, AppendProperties, Scalars
  <2>2. QED
    BY <1>4, <1>6, <2>1 DEF ListMethod
<1>7. CASE I.name = "pop"
  <2>1. CASE n = 0
    <3>1. Null \in V
      BY <1>1, Scalars
    <3>2. QED
      BY <1>3, <1>7, <2>1, <3>1 DEF ListMethod
  <2>2. CASE n # 0
    <3>1. n - 1 \in Int /\ n - 1 <= n /\ n \in 1 .. n
      BY <1>1, <2>2
    <3>2. SubSeq(fields, 1, n - 1) \in Seq(V) /\ fields[n] \in V
      BY <1>1, <3>1, PrefixSeq, ElementOfSeq
    <3>3. QED
      BY <1>4, <1>7, <2>2, <3>2 DEF ListMethod
  <2>3. QED
    BY <2>1, <2>2
<1>8. CASE I.name = "get" /\ Len(args) # 0 /\ IsInt(args[1])
  <2>1. Slot(id, args[1][2] + 1) \in V
    BY SlotValue
  <2>2. QED
    BY <1>3, <1>8, <2>1 DEF ListMethod
<1>9. CASE I.name = "set" /\ Len(args) = 2 /\ IsInt(args[1])
  <2>1. Null \in V /\ args[2] \in V
    BY <1>1, <1>2, <1>9, Scalars
  <2>2. CASE InList(id, args[1])
    <3>1. [fields EXCEPT ![args[1][2] + 1] = args[2]] \in Seq(V)
      BY <1>1, <2>1, <2>2, ExceptSeq DEF InList
    <3>2. QED
      BY <1>4, <1>9, <2>1, <2>2, <3>1 DEF ListMethod
  <2>3. CASE ~ InList(id, args[1])
    BY <1>3, <1>9, <2>1, <2>3 DEF ListMethod
  <2>4. QED
    BY <2>2, <2>3
<1>10. CASE \E kind : Fail(kind)
  BY <1>10, FailKeeps
<1>11. QED
  BY <1>5, <1>6, <1>7, <1>8, <1>9, <1>10 DEF ListMethod

LEMMA MapMethodKeeps ==
  ASSUME IInv, I.n \in Nat, NEW id \in 1 .. Len(heap), MapMethod(id, Operands(I.n))
  PROVE  IInv'
<1> DEFINE V == Values(Len(heap))
           pairs == heap[id].pairs
           args == Operands(I.n)
           at == EntryAt(id, args[1])
           n == Len(pairs)
<1>1. /\ Len(heap) \in Nat /\ IsHeap(heap) /\ I.n + 1 \in Nat
      /\ pairs \in Seq(Entries(Len(heap))) /\ n \in Nat /\ DOMAIN pairs = 1 .. n
      /\ \A i \in 1 .. n : pairs[i] \in Entries(Len(heap))
  BY PairsValues DEF IInv, IsHeap
<1>2. Len(args) = I.n /\ \A i \in 1 .. I.n : args[i] \in V
  BY OperandsValues
<1>3. ASSUME NEW v \in V, heap' = heap, Step(I.n + 1, <<v>>), UNCHANGED <<globals, out>>
      PROVE  IInv'
  BY <1>1, <1>3, OneValue, QuietKeeps
<1>4. ASSUME NEW v \in V, IsHeap(heap'), Len(heap') = Len(heap),
             Step(I.n + 1, <<v>>), UNCHANGED <<globals, out>>
      PROVE  IInv'
  BY <1>1, <1>4, OneValue, ChangeKeeps
<1>5. Null \in V /\ IntVal(n) \in V /\ \A b \in BOOLEAN : BoolVal(b) \in V
  BY <1>1, Scalars
<1>6. CASE I.name = "len" /\ heap' = heap /\ Step(I.n + 1, <<IntVal(n)>>) /\ UNCHANGED <<globals, out>>
  BY <1>3, <1>5, <1>6
<1>7. CASE /\ I.name = "set" /\ Len(args) = 2 /\ SetEntry(id, args[1], args[2])
           /\ Step(I.n + 1, <<Null>>) /\ UNCHANGED <<globals, out>>
  <2>1. args[1] \in V /\ args[2] \in V
    BY <1>2, <1>7
  <2>2. IsHeap(heap') /\ Len(heap') = Len(heap)
    BY <1>7, <2>1, SetEntryKeeps
  <2>3. QED
    BY <1>4, <1>5, <1>7, <2>2
<1>8. CASE /\ heap' = heap /\ Step(I.n + 1, <<EntryValue(id, args[1])>>)
           /\ UNCHANGED <<globals, out>>
  <2>1. EntryValue(id, args[1]) \in V
    BY EntryValueOK
  <2>2. QED
    BY <1>3, <1>8, <2>1
<1>9. CASE /\ heap' = heap /\ Step(I.n + 1, <<BoolVal(at # 0)>>)
           /\ UNCHANGED <<globals, out>>
  <2>1. BoolVal(at # 0) \in V
    BY <1>5
  <2>2. QED
    BY <1>3, <1>9, <2>1
<1>10. CASE /\ heap' = [heap EXCEPT ![id].pairs =
                           [i \in 1 .. n - (IF at = 0 THEN 0 ELSE 1) |->
                              pairs[IF at = 0 \/ i < at THEN i ELSE i + 1]]]
            /\ Step(I.n + 1, <<BoolVal(at # 0)>>) /\ UNCHANGED <<globals, out>>
  <2> DEFINE m == n - (IF at = 0 THEN 0 ELSE 1)
             ps == [i \in 1 .. m |-> pairs[IF at = 0 \/ i < at THEN i ELSE i + 1]]
  <2>1. at = 0 \/ at \in 1 .. n
    BY <1>1, EntryIndex
  <2>2. m \in Nat /\ \A i \in 1 .. m : (IF at = 0 \/ i < at THEN i ELSE i + 1) \in 1 .. n
    BY <1>1, <2>1
  <2>3. ps \in [1 .. m -> Entries(Len(heap))]
    BY <1>1, <2>2
  <2>4. ps \in Seq(Entries(Len(heap)))
    BY <2>2, <2>3, FunIsSeq
  <2>5. heap' = [heap EXCEPT ![id] = [heap[id] EXCEPT !.pairs = ps]]
    BY <1>10
  <2> HIDE DEF ps
  <2>6. /\ IsHeap([heap EXCEPT ![id] = [heap[id] EXCEPT !.pairs = ps]])
        /\ Len([heap EXCEPT ![id] = [heap[id] EXCEPT !.pairs = ps]]) = Len(heap)
    BY <1>1, <2>4, HeapPairs
  <2>7. IsHeap(heap') /\ Len(heap') = Len(heap) /\ BoolVal(at # 0) \in V
    BY <1>5, <2>5, <2>6
  <2>8. QED
    BY <1>4, <1>10, <2>7
<1>11. CASE Allocate(I.n + 1, ListObject([i \in DOMAIN pairs |-> pairs[i][1]]))
  <2> DEFINE fs == [i \in DOMAIN pairs |-> pairs[i][1]]
  <2>1. fs \in [1 .. n -> V]
    BY <1>1 DEF Entries
  <2>2. fs \in Seq(V) /\ << >> \in Seq(Entries(Len(heap)))
    BY <1>1, <2>1, FunIsSeq, EmptySeq
  <2>3. IsObject(ListObject(fs), Len(heap))
    BY <2>2 DEF IsObject, ListObject, Object
  <2>4. QED
    BY <1>1, <1>11, <2>3, AllocateKeeps
<1>12. CASE \E kind : Fail(kind)
  BY <1>12, FailKeeps
<1>13. QED
  BY <1>6, <1>7, <1>8, <1>9, <1>10, <1>11, <1>12 DEF MapMethod

LEMMA StrMethodKeeps ==
  ASSUME IInv, I.n \in Nat, NEW str, StrMethod(str, Operands(I.n))
  PROVE  IInv'
<1>1. CASE \E s : Allocate(I.n + 1, StrObject(s))
  BY <1>1, StringObject, AllocateKeeps
<1>2. CASE Pure(I.n + 1, IntVal(Length(str)))
  <2>1. IntVal(Length(str)) \in Values(Len(heap)) /\ I.n + 1 \in Nat
    BY Scalars DEF Length, IInv, IsHeap
  <2>2. QED
    BY <1>2, <2>1, PureKeeps
<1>3. CASE \E kind : Fail(kind)
  BY <1>3, FailKeeps
<1>4. QED
  BY <1>1, <1>2, <1>3 DEF StrMethod

LEMMA LibraryKeeps == ASSUME IInv, CallMethod \/ CallExtern PROVE IInv'
<1>1. I.n \in Nat /\ Len(heap) \in Nat
  BY NumberInHand DEF CallMethod, CallExtern, Numbered, IInv, IsHeap
<1>2. CASE CallMethod
  <2> DEFINE recv == Operand(I.n + 1, 1)
  <2>1. recv \in Values(Len(heap))
    BY <1>1, OperandValue
  <2>2. IsA(recv, "List") \/ IsA(recv, "Map") => recv[2] \in 1 .. Len(heap)
    BY <1>1, <2>1, ReferencesLead DEF IsA, IsObj
  <2>3. \/ IsA(recv, "List") /\ ListMethod(recv[2], Operands(I.n))
        \/ IsA(recv, "Map") /\ MapMethod(recv[2], Operands(I.n))
        \/ StrMethod(Text(recv), Operands(I.n))
    BY <1>2 DEF CallMethod
  <2> HIDE DEF recv
  <2>4. QED
    BY <1>1, <2>2, <2>3, ListMethodKeeps, MapMethodKeeps, StrMethodKeeps
<1>3. CASE CallExtern
  <2>1. CASE heap' = Append(heap, StrObject(Answer)) /\ Step(I.n, <<Obj(Len(heap) + 1)>>)
             /\ UNCHANGED globals
    BY <1>1, <2>1, StringObject, NewObjectKeeps
  <2>2. CASE Allocate(I.n, ListObject(<< >>))
    <3>1. IsObject(ListObject(<< >>), Len(heap))
      BY EmptySeq DEF IsObject, ListObject, Object
    <3>2. QED
      BY <1>1, <2>2, <3>1, AllocateKeeps
  <2>3. CASE \E v \in Values(Len(heap)) : Pure(I.n, v)
    BY <1>1, <2>3, PureKeeps
  <2>4. /\ \A name : IntVal(HostNumber(name)) \in Values(Len(heap))
        /\ BoolVal(TRUE) \in Values(Len(heap)) /\ Null \in Values(Len(heap))
    <3>1. \A name : HostNumber(name) \in Int
      BY DEF HostNumber
    <3>2. \A name : IntVal(HostNumber(name)) \in Values(Len(heap))
      BY <1>1, <3>1, Scalars
    <3>3. TRUE \in BOOLEAN
      OBVIOUS
    <3>4. BoolVal(TRUE) \in Values(Len(heap)) /\ Null \in Values(Len(heap))
      BY <1>1, <3>3, Scalars
    <3>5. QED
      BY <3>2, <3>4
  <2>5. QED
    BY <1>3, <2>1, <2>2, <2>3, <2>4 DEF CallExtern
<1>4. QED
  BY <1>2, <1>3

-----------------------------------------------------------------------------
(* The theorem.                                                            *)

\* The heap of a program that starts has one frame, whose locals are null.
LEMMA StartKeeps ==
  ASSUME NEW im \in Image, im.main \in DOMAIN im.funcs, im.init \in DOMAIN im.funcs \cup {0},
         0 \notin DOMAIN im.funcs, Start(im)
  PROVE  IInv
<1> DEFINE f == IF im.init # 0 THEN im.init ELSE im.main
           locals == [i \in 1 .. im.funcs[f].nlocals |-> Null]
           o == FrameObject(locals)
<1>1. f \in DOMAIN im.funcs
  OBVIOUS
<1>2. im.funcs[f].nlocals \in Nat
  <2> DEFINE R == [nlocals : Nat, code : Seq(Instr)]
  <2> HIDE DEF f
  <2>1. im.funcs \in Seq(R)
    BY DEF Image
  <2>2. im.funcs[f] \in R
    BY <1>1, <2>1, LenProperties, ElementOfSeq
  <2>3. QED
    BY <2>2
<1>3. locals \in Seq(Values(1))
  <2>1. locals \in [1 .. im.funcs[f].nlocals -> Values(1)]
    BY Scalars
  <2>2. QED
    BY <1>2, <2>1, FunIsSeq
<1>4. IsObject(o, 1)
  BY <1>3, EmptySeq DEF IsObject, FrameObject, Object
<1>5. /\ image = im /\ heap = <<o>> /\ globals = << >> /\ stack = << >> /\ frames = << >>
      /\ cur = f /\ pc = 1 /\ frame = 1 /\ base = 0
  BY DEF Start
<1> HIDE DEF o, locals, f
<1>6. Len(heap) = 1 /\ IsHeap(heap)
  BY <1>4, <1>5 DEF IsHeap
<1>7. /\ << >> \in Seq(Values(Len(heap)))
      /\ << >> \in Seq(Frames(image, Len(heap)))
  BY EmptySeq
<1>8. QED
  BY <1>1, <1>5, <1>6, <1>7 DEF IInv, ProgramOK

\* Every instruction keeps the invariant.
LEMMA NextKeeps == ASSUME IInv, [Next]_vars PROVE IInv'
<1>1. CASE Data
  BY <1>1, PushKeeps, PopKeeps, LocalKeeps, GlobalKeeps, FieldKeeps, NewKeeps, ArithmeticKeeps,
     TruthKeeps, TextKeeps DEF Data
<1>2. CASE Control
  BY <1>2, JumpKeeps, CallKeeps, ReturnKeeps DEF Control
<1>3. CASE Library
  BY <1>3, IndexKeeps, IndexStoreKeeps, LibraryKeeps DEF Library
<1>4. CASE UNCHANGED vars
  BY <1>4 DEF vars, IInv, ProgramOK
<1>5. QED
  BY <1>1, <1>2, <1>3, <1>4 DEF Next

\* Where every value is one, no reference dangles.
LEMMA InvariantHolds == ASSUME IInv PROVE NoDangling
<1> DEFINE V == Values(Len(heap))
<1>1. /\ Len(heap) \in Nat /\ DOMAIN heap = 1 .. Len(heap) /\ frame \in DOMAIN heap
  BY DEF IInv, IsHeap
<1>2. \A v \in V : Valid(v, heap)
  BY <1>1, ReferencesLead DEF Valid
<1>3. \A i \in DOMAIN frames : frames[i].frame \in DOMAIN heap
  <2>1. \A i \in DOMAIN frames : frames[i] \in Frames(image, Len(heap))
    BY LenProperties, ElementOfSeq DEF IInv
  <2>2. QED
    BY <1>1, <2>1 DEF Frames
<1>4. /\ \A i \in DOMAIN stack : stack[i] \in V
      /\ \A i \in DOMAIN globals : globals[i] \in V
  BY LenProperties, ElementOfSeq DEF IInv
<1>5. ASSUME NEW o \in DOMAIN heap
      PROVE  /\ \A i \in DOMAIN heap[o].fields : heap[o].fields[i] \in V
             /\ \A i \in DOMAIN heap[o].pairs :
                  heap[o].pairs[i][1] \in V /\ heap[o].pairs[i][2] \in V
  <2>1. heap[o].fields \in Seq(V)
    BY <1>1 DEF IInv, IsHeap, IsObject
  <2>2. \A i \in DOMAIN heap[o].fields : heap[o].fields[i] \in V
    BY <2>1, LenProperties, ElementOfSeq
  <2>3. \A i \in DOMAIN heap[o].pairs : heap[o].pairs[i] \in Entries(Len(heap))
    BY <1>1, PairsValues
  <2>4. QED
    BY <2>2, <2>3 DEF Entries
<1>6. QED
  BY <1>1, <1>2, <1>3, <1>4, <1>5 DEF NoDangling

LEMMA InvariantAtFirst == ASSUME Init PROVE IInv
<1>1. ASSUME NEW im \in Image
      PROVE  0 \notin DOMAIN im.funcs
  BY LenProperties DEF Image
<1>2. QED
  BY <1>1, StartKeeps DEF Init

\* Whatever the image: no operand, global, frame or object of the VM refers to an object that
\* does not exist.
THEOREM References_never_dangle == Spec => []NoDangling
<1>1. Init => IInv
  BY InvariantAtFirst
<1>2. IInv /\ [Next]_vars => IInv'
  BY NextKeeps
<1>3. IInv => NoDangling
  BY InvariantHolds
<1>4. QED
  BY <1>1, <1>2, <1>3, PTL DEF Spec

-----------------------------------------------------------------------------
(* Inside the code of a function.                                          *)

\* An instruction that takes n operands, leaves k and goes on to the next, or ends the run.
Advances(n, k) ==
  \/ \E kind \in {"type", "value", "panic"} : Fail(kind)
  \/ k = 0 /\ Step(n, <<>>)
  \/ k = 1 /\ \E v : Step(n, <<v>>)

\* Every instruction but jumps, calls and returns does, as its numbers say.
GoesOn == status = "run" /\ pc \in DOMAIN Code /\ Flows(I) /\ Advances(Pops(I), Pushes(I))

LEMMA VariablesGoOn ==
  ASSUME \/ Push \/ Pop \/ LoadLocal \/ StoreLocal \/ LoadGlobal \/ StoreGlobal
         \/ LoadField \/ StoreField \/ AddrLocal \/ AddrField \/ DerefLoad \/ DerefStore
  PROVE  GoesOn
<1>1. CASE Push
  BY <1>1 DEF Push, At, I, GoesOn, Flows, Pops, Pushes, Advances, Allocate, Pure
<1>2. CASE Pop \/ StoreLocal \/ StoreGlobal
  BY <1>2 DEF Pop, StoreLocal, StoreGlobal, At, I, GoesOn, Flows, Pops, Pushes, Advances
<1>3. CASE LoadLocal \/ LoadGlobal \/ AddrLocal
  BY <1>3 DEF LoadLocal, LoadGlobal, AddrLocal, At, I, GoesOn, Flows, Pops, Pushes, Advances, Pure
<1>4. CASE LoadField \/ AddrField \/ DerefLoad
  BY <1>4 DEF LoadField, AddrField, DerefLoad, At, I, GoesOn, Flows, Pops, Pushes, Advances, Pure
<1>5. CASE StoreField \/ DerefStore
  BY <1>5 DEF StoreField, DerefStore, At, I, GoesOn, Flows, Pops, Pushes, Advances
<1>6. QED
  BY <1>1, <1>2, <1>3, <1>4, <1>5

LEMMA ValuesGoOn ==
  ASSUME \/ NewStruct \/ NewList \/ NewMap \/ NewClosure
         \/ Arithmetic \/ Negate \/ Compare \/ Logic \/ Concat \/ PrintOut
  PROVE  GoesOn
<1>1. CASE NewStruct \/ NewList \/ NewMap \/ NewClosure
  BY <1>1 DEF NewStruct, NewList, NewMap, NewClosure, At, I, GoesOn, Flows, Pops, Pushes,
     Advances, Allocate
<1>2. CASE Arithmetic
  BY <1>2 DEF Arithmetic, At, I, GoesOn, Flows, Pops, Pushes, Advances, Pure
<1>3. CASE Negate
  BY <1>3 DEF Negate, At, I, GoesOn, Flows, Pops, Pushes, Advances, Pure
<1>4. CASE Compare
  BY <1>4 DEF Compare, At, I, GoesOn, Flows, Pops, Pushes, Advances, Pure
<1>5. CASE Logic
  BY <1>5 DEF Logic, At, I, GoesOn, Flows, Pops, Pushes, Advances, Pure
<1>6. CASE Concat \/ PrintOut
  BY <1>6 DEF Concat, PrintOut, At, I, GoesOn, Flows, Pops, Pushes, Advances, Allocate
<1>7. QED
  BY <1>1, <1>2, <1>3, <1>4, <1>5, <1>6

LEMMA LibraryGoesOn == ASSUME Library PROVE GoesOn
<1>1. CASE Index \/ IndexStore
  BY <1>1 DEF Index, IndexStore, At, I, GoesOn, Flows, Pops, Pushes, Advances, Pure
<1>2. CASE CallMethod
  <2> DEFINE recv == Operand(I.n + 1, 1)
             args == Operands(I.n)
  <2>1. \/ ListMethod(recv[2], args) \/ MapMethod(recv[2], args)
        \/ StrMethod(Text(recv), args)
    BY <1>2 DEF CallMethod
  <2> HIDE DEF recv, args
  <2>2. Advances(I.n + 1, 1)
    <3>1. CASE ListMethod(recv[2], args)
      BY <3>1 DEF ListMethod, Advances
    <3>2. CASE MapMethod(recv[2], args)
      BY <3>2 DEF MapMethod, Advances, Allocate
    <3>3. CASE StrMethod(Text(recv), args)
      BY <3>3 DEF StrMethod, Advances, Allocate, Pure
    <3>4. QED
      BY <2>1, <3>1, <3>2, <3>3
  <2>3. QED
    BY <1>2, <2>2 DEF CallMethod, At, I, GoesOn, Flows, Pops, Pushes
<1>3. CASE CallExtern
  BY <1>3 DEF CallExtern, At, I, GoesOn, Flows, Pops, Pushes, Advances, Allocate, Pure
<1>4. QED
  BY <1>1, <1>2, <1>3 DEF Library

\* Nothing is run over its end: what goes on has a next instruction.
LEMMA NextInstruction ==
  ASSUME IInv, Enclosed(image), pc \in DOMAIN Code, Flows(I)
  PROVE  pc + 1 \in DOMAIN Code
<1>1. Code \in Seq(Instr) /\ cur \in DOMAIN image.funcs
  BY FunctionOfImage DEF IInv, ProgramOK, Code
<1>2. Len(Code) \in Nat /\ DOMAIN Code = 1 .. Len(Code)
  BY <1>1, LenProperties
<1>3. ~Flows(Code[Len(Code)])
  BY <1>1 DEF Enclosed, Code
<1>4. pc # Len(Code)
  BY <1>3 DEF I
<1>5. QED
  BY <1>2, <1>4

\* A function begins at an instruction.
LEMMA FirstInstruction ==
  ASSUME IInv, Enclosed(image), NEW f \in DOMAIN image.funcs
  PROVE  1 \in DOMAIN image.funcs[f].code
<1>1. image.funcs[f].code \in Seq(Instr) /\ Len(image.funcs[f].code) > 0
  BY FunctionOfImage DEF Enclosed
<1>2. QED
  BY <1>1, LenProperties

\* The next instruction, and those that callers go on with, exist.
Here == status = "run" => pc \in DOMAIN Code

CodeAt(c) == image.funcs[c.cur].code

There == \A i \in 1 .. Len(frames) : frames[i].pc \in DOMAIN CodeAt(frames[i])

InsideInv == IInv /\ Enclosed(image) /\ Here /\ There

\* What goes on stays in its function.
LEMMA GoingOnStaysInside ==
  ASSUME InsideInv, GoesOn
  PROVE  /\ Here' /\ There'
         /\ UNCHANGED <<image, frames, cur, base>>
<1>1. CASE \E kind \in {"type", "value", "panic"} : Fail(kind)
  BY <1>1 DEF Fail, Here, There, InsideInv, CodeAt
<1>2. CASE \E n, vs : Step(n, vs)
  <2>1. pc + 1 \in DOMAIN Code
    BY NextInstruction DEF InsideInv, GoesOn
  <2>2. QED
    BY <1>2, <2>1 DEF Step, Here, There, InsideInv, Code, CodeAt
<1>3. QED
  BY <1>1, <1>2 DEF GoesOn, Advances

\* So does a jump.
LEMMA JumpStaysInside ==
  ASSUME InsideInv, Jump \/ JumpZero
  PROVE  /\ pc' \in DOMAIN Code /\ Here' /\ There'
         /\ UNCHANGED <<image, frames, cur, base, status>>
<1>1. pc \in DOMAIN Code /\ I.op \in {"JMP", "JZ"} /\ cur \in DOMAIN image.funcs
  BY DEF Jump, JumpZero, At, I, InsideInv, IInv, ProgramOK
<1>2. I.n \in DOMAIN Code
  BY <1>1 DEF InsideInv, Enclosed, Code, I
<1>3. Flows(I) => pc + 1 \in DOMAIN Code
  BY <1>1, NextInstruction DEF InsideInv
<1>4. pc' \in DOMAIN Code
  BY <1>2, <1>3 DEF Jump, JumpZero, At, I, Flows
<1>5. UNCHANGED <<image, frames, cur, base, status>>
  BY DEF Jump, JumpZero
<1>6. QED
  BY <1>4, <1>5 DEF Here, There, InsideInv, Code, CodeAt

\* A call enters a function and saves where its caller goes on.
LEMMA EnterInside ==
  ASSUME InsideInv, NEW f, NEW seed, NEW n, Enter(f, seed, n),
         f \in DOMAIN image.funcs, status = "run", pc \in DOMAIN Code, Flows(I)
  PROVE  Here' /\ There'
<1> DEFINE c == [cur |-> cur, pc |-> pc + 1, frame |-> frame, base |-> base]
<1>1. frames \in Seq(Frames(image, Len(heap))) /\ Len(frames) \in Nat
  BY LenProperties DEF InsideInv, IInv
<1>2. /\ image' = image /\ frames' = Append(frames, c) /\ cur' = f /\ pc' = 1
  BY DEF Enter
<1>3. c.cur = cur /\ c.pc = pc + 1
  OBVIOUS
<1> HIDE DEF c
<1>4. Here'
  BY <1>2, FirstInstruction DEF InsideInv, Here, Code
<1>5. c.pc \in DOMAIN CodeAt(c)
  BY <1>3, NextInstruction DEF InsideInv, Code, CodeAt
<1>6. /\ Len(frames') = Len(frames) + 1
      /\ \A i \in 1 .. Len(frames) + 1 :
           frames'[i] = IF i <= Len(frames) THEN frames[i] ELSE c
  BY <1>1, <1>2
<1>7. There'
  BY <1>1, <1>2, <1>5, <1>6 DEF There, InsideInv, CodeAt
<1>8. QED
  BY <1>4, <1>7

LEMMA CallStaysInside ==
  ASSUME InsideInv, CallFunc \/ CallClosure
  PROVE  Here' /\ There'
<1>1. status = "run" /\ pc \in DOMAIN Code /\ Flows(I)
  BY DEF CallFunc, CallClosure, At, I, Flows
<1>2. CASE \E kind \in {"type", "panic"} : Fail(kind)
  BY <1>2 DEF Fail, Here, There, InsideInv, CodeAt
<1>3. CASE \E f \in DOMAIN image.funcs : \E seed, n : Enter(f, seed, n)
  BY <1>1, <1>3, EnterInside
<1>4. QED
  BY <1>2, <1>3 DEF CallFunc, CallClosure

\* A return goes on where the caller was left; without one, main begins or the run ends.
LEMMA ReturnStaysInside ==
  ASSUME InsideInv, Return
  PROVE  Here' /\ There'
<1>1. frames \in Seq(Frames(image, Len(heap))) /\ Len(frames) \in Nat
  BY LenProperties DEF InsideInv, IInv
<1>2. CASE frames # << >>
  <2> DEFINE d == Len(frames)
  <2>1. d \in 1 .. Len(frames)
    BY <1>1, <1>2, EmptySeq
  <2>2. /\ image' = image /\ frames' = SubSeq(frames, 1, d - 1)
        /\ cur' = frames[d].cur /\ pc' = frames[d].pc
    BY <1>2 DEF Return
  <2>3. Here'
    BY <2>1, <2>2 DEF Here, There, InsideInv, Code, CodeAt
  <2>4. d - 1 \in 0 .. Len(frames)
    BY <1>1, <2>1
  <2>5. /\ Len(frames') = d - 1 /\ \A i \in 1 .. d - 1 : frames'[i] = frames[i]
    BY <1>1, <2>2, <2>4, PrefixElements
  <2>6. There'
    BY <1>1, <2>2, <2>5 DEF There, InsideInv, CodeAt
  <2>7. QED
    BY <2>3, <2>6
<1>3. CASE frames = << >> /\ cur = image.init
  <2>1. image' = image /\ frames' = frames /\ cur' = image.main /\ pc' = 1
    BY <1>3 DEF Return, Begin
  <2>2. image.main \in DOMAIN image.funcs
    BY DEF InsideInv, IInv, ProgramOK
  <2>3. QED
    BY <2>1, <2>2, FirstInstruction DEF InsideInv, Here, There, Code, CodeAt
<1>4. CASE frames = << >> /\ cur # image.init
  BY <1>4 DEF Return, Here, There, InsideInv, CodeAt
<1>5. QED
  BY <1>2, <1>3, <1>4

\* Every step.
LEMMA InsideKeeps == ASSUME InsideInv, [Next]_vars PROVE InsideInv'
<1>1. IInv'
  BY NextKeeps DEF InsideInv
<1>2. image' = image
  <2>1. CASE Data \/ Library
    BY <2>1, VariablesGoOn, ValuesGoOn, LibraryGoesOn, GoingOnStaysInside DEF Data
  <2>2. CASE Control
    BY <2>2 DEF Control, Jump, JumpZero, CallFunc, CallClosure, Enter, Fail, Return, Begin
  <2>3. QED
    BY <2>1, <2>2 DEF Next, vars
<1>3. Here' /\ There'
  <2>1. CASE Data \/ Library
    BY <2>1, VariablesGoOn, ValuesGoOn, LibraryGoesOn, GoingOnStaysInside DEF Data
  <2>2. CASE Control
    BY <2>2, JumpStaysInside, CallStaysInside, ReturnStaysInside DEF Control
  <2>3. CASE UNCHANGED vars
    BY <2>3 DEF vars, Here, There, InsideInv, Code, CodeAt
  <2>4. QED
    BY <2>1, <2>2, <2>3 DEF Next
<1>4. QED
  BY <1>1, <1>2, <1>3 DEF InsideInv

\* A program starts at an instruction.
LEMMA InsideAtFirst == ASSUME Init, Enclosed(image) PROVE InsideInv
<1>1. PICK im \in Image :
        im.main \in DOMAIN im.funcs /\ im.init \in DOMAIN im.funcs \cup {0} /\ Start(im)
  BY DEF Init
<1>2. IInv
  BY InvariantAtFirst
<1>3. cur \in DOMAIN image.funcs /\ pc = 1 /\ frames = << >>
  BY <1>1 DEF Start
<1>4. Here /\ There
  BY <1>2, <1>3, FirstInstruction, EmptySeq DEF Here, There, Code
<1>5. QED
  BY <1>2, <1>4 DEF InsideInv

\* Where jumps and slots are the functions' own, the next instruction names a local.
LEMMA InsideSuffices == ASSUME InsideInv PROVE InsideFunction
<1>1. SUFFICES ASSUME status = "run" PROVE InsideFunction
  BY DEF InsideFunction
<1>2. image \in Image /\ cur \in DOMAIN image.funcs /\ pc \in DOMAIN Code
  BY <1>1 DEF InsideInv, IInv, ProgramOK, Here
<1>3. QED
  BY <1>1, <1>2 DEF InsideInv, Enclosed, InsideFunction, Code, I

\* In an image whose jumps and slots are its functions' own and whose functions end with a
\* return, the VM never decodes outside of a function and never misses a local.
THEOREM StaysInside == Spec /\ Enclosed(image) => []InsideFunction
<1>1. Init /\ Enclosed(image) => InsideInv
  BY InsideAtFirst
<1>2. InsideInv /\ [Next]_vars => InsideInv'
  BY InsideKeeps
<1>3. InsideInv => InsideFunction
  BY InsideSuffices
<1>4. QED
  BY <1>1, <1>2, <1>3, PTL DEF Spec

-----------------------------------------------------------------------------
(* The operands of the callers.                                            *)

FuncCode(f) == image.funcs[f].code

HeightOf(f) == CHOOSE h \in [DOMAIN FuncCode(f) -> Nat] : Fits(FuncCode(f), h)

BaseAt(d) == IF d = Len(frames) + 1 THEN base ELSE frames[d].base

\* The running function has the operands that its next instruction takes.
Enough == status = "run" => Len(stack) >= base + HeightOf(cur)[pc]

\* Functions stand on each other.
Bases == \A d, e \in 1 .. Len(frames) + 1 : d < e => BaseAt(d) <= BaseAt(e)

\* So will a caller have, with the value that is returned to it.
Returns ==
  \A d \in 1 .. Len(frames) :
    frames[d].base + HeightOf(frames[d].cur)[frames[d].pc] <= BaseAt(d + 1) + 1

OperandInv == InsideInv /\ Balanced(image) /\ Enough /\ Bases /\ Returns

\* The heights of a function's code fit it.
LEMMA HeightFits ==
  ASSUME Balanced(image), NEW f \in DOMAIN image.funcs
  PROVE  Fits(FuncCode(f), HeightOf(f))
BY DEF Balanced, HeightOf, FuncCode

\* What the current instruction takes and leaves.
LEMMA NowFits ==
  ASSUME OperandInv, status = "run"
  PROVE  LET h == HeightOf(cur)  rest == h[pc] - Pops(I) IN
         /\ pc \in DOMAIN Code /\ h[pc] \in Nat /\ rest >= 0
         /\ Flows(I) => h[pc + 1] <= rest + Pushes(I) /\ h[pc + 1] \in Nat
         /\ I.op \in {"JMP", "JZ"} => h[I.n] <= rest /\ h[I.n] \in Nat
         /\ Len(stack) \in Nat /\ base \in Nat /\ Len(stack) >= base + h[pc]
<1> DEFINE h == HeightOf(cur)
<1>1. cur \in DOMAIN image.funcs /\ pc \in DOMAIN Code /\ Code = FuncCode(cur)
  BY DEF OperandInv, InsideInv, IInv, ProgramOK, Here, Code, FuncCode
<1>2. Len(stack) \in Nat /\ base \in Nat /\ Len(stack) >= base + h[pc]
  BY LenProperties DEF OperandInv, InsideInv, IInv, Enough
<1>3. Flows(I) => pc + 1 \in DOMAIN Code
  BY <1>1, NextInstruction DEF OperandInv, InsideInv
<1>4. I.op \in {"JMP", "JZ"} => I.n \in DOMAIN Code
  BY <1>1 DEF OperandInv, InsideInv, Enclosed, Code, I
<1>5. Fits(Code, h)
  BY <1>1, HeightFits DEF OperandInv
<1> HIDE DEF h
<1>6. h \in [DOMAIN Code -> Nat]
  BY <1>5 DEF Fits
<1>7. /\ h[pc] - Pops(I) >= 0
      /\ Flows(I) => h[pc + 1] <= h[pc] - Pops(I) + Pushes(I)
      /\ I.op \in {"JMP", "JZ"} => h[I.n] <= h[pc] - Pops(I)
  BY <1>1, <1>5 DEF Fits, I
<1>8. QED
  BY <1>1, <1>2, <1>3, <1>4, <1>6, <1>7 DEF h

\* How many operands an instruction takes is a number.
LEMMA PopsNat ==
  ASSUME InsideInv, status = "run"
  PROVE  Pops(I) \in Nat /\ Pushes(I) \in {0, 1}
<1>1. I \in Instr
  <2>1. At({I.op})
    BY DEF At, I, InsideInv, Here
  <2>2. QED
    BY <2>1, InHand DEF InsideInv
<1>2. I.op \in {"NEW_STRUCT", "NEW_LIST", "NEW_CLOSURE", "CALL", "CALL_EXTERN", "CALL_CLOSURE",
                "METHOD", "NEW_MAP"} => I.n \in Nat
  BY <1>1, Arguments DEF Numbered, Counted
<1>3. QED
  BY <1>2 DEF Pops, Pushes

\* What is below the operands that are taken stays.
LEMMA BelowLen ==
  ASSUME IInv, NEW n \in Nat, n <= Len(stack)
  PROVE  Len(Below(n)) = Len(stack) - n
<1>1. stack \in Seq(Values(Len(heap))) /\ Len(stack) \in Nat
  BY LenProperties DEF IInv
<1>2. Len(stack) - n \in 0 .. Len(stack)
  BY <1>1
<1>3. QED
  BY <1>1, <1>2, PrefixElements DEF Below

\* A step that stays in its function keeps what its callers have.
LEMMA CallersKeep ==
  ASSUME OperandInv, UNCHANGED <<image, frames, base>>
  PROVE  Bases' /\ Returns' /\ Balanced(image)'
BY DEF OperandInv, Bases, Returns, BaseAt, HeightOf, FuncCode

\* What goes on leaves what the next instruction takes.
LEMMA GoingOnKeepsOperands ==
  ASSUME OperandInv, GoesOn
  PROVE  Enough' /\ Bases' /\ Returns' /\ Balanced(image)'
<1> DEFINE h == HeightOf(cur)
<1>1. UNCHANGED <<image, frames, cur, base>>
  BY GoingOnStaysInside DEF OperandInv
<1>2. Bases' /\ Returns' /\ Balanced(image)'
  BY <1>1, CallersKeep
<1>3. CASE \E kind \in {"type", "value", "panic"} : Fail(kind)
  BY <1>2, <1>3 DEF Fail, Enough
<1>4. ASSUME NEW vs, Step(Pops(I), vs), vs = << >> \/ \E v : vs = <<v>>, Len(vs) = Pushes(I)
      PROVE  Enough'
  <2>1. /\ h[pc] \in Nat /\ h[pc] - Pops(I) >= 0 /\ Pops(I) \in Nat /\ Pushes(I) \in Nat
        /\ h[pc + 1] <= h[pc] - Pops(I) + Pushes(I) /\ h[pc + 1] \in Nat
        /\ Len(stack) \in Nat /\ base \in Nat /\ Len(stack) >= base + h[pc]
    BY NowFits, PopsNat DEF GoesOn, OperandInv
  <2>2. (HeightOf(cur)[pc])' = h[pc + 1]
    BY <1>1, <1>4 DEF HeightOf, FuncCode, Step
  <2> HIDE DEF h
  <2>3. IInv /\ Pops(I) <= Len(stack)
    BY <2>1 DEF OperandInv, InsideInv
  <2> DEFINE b == Below(Pops(I))
  <2>4. Len(b) = Len(stack) - Pops(I) /\ b \in Seq(Values(Len(heap)))
    BY <2>1, <2>3, BelowLen, BelowSeq
  <2>5. stack' = b \o vs
    BY <1>4 DEF Step
  <2> HIDE DEF b
  <2>6. Len(b \o vs) = Len(b) + Len(vs)
    BY <1>4, <2>4
  <2>7. Len(stack') = Len(stack) - Pops(I) + Pushes(I)
    BY <1>4, <2>4, <2>5, <2>6
  <2>8. QED
    BY <1>1, <2>1, <2>2, <2>7 DEF Enough
<1>5. QED
  BY <1>2, <1>3, <1>4 DEF GoesOn, Advances

\* A jump finds at its target what that takes.
LEMMA JumpKeepsOperands ==
  ASSUME OperandInv, Jump \/ JumpZero
  PROVE  Enough' /\ Bases' /\ Returns' /\ Balanced(image)'
<1> DEFINE h == HeightOf(cur)
<1>1. UNCHANGED <<image, frames, cur, base, status>>
  BY JumpStaysInside DEF OperandInv
<1>2. Bases' /\ Returns' /\ Balanced(image)'
  BY <1>1, CallersKeep
<1>3. status = "run" /\ I.op \in {"JMP", "JZ"} /\ IInv
      /\ Pops(I) = (IF I.op = "JZ" THEN 1 ELSE 0) /\ Pushes(I) = 0 /\ (Flows(I) <=> I.op = "JZ")
  BY DEF Jump, JumpZero, At, I, Pops, Pushes, Flows, OperandInv, InsideInv
<1>4. /\ h[pc] \in Nat /\ h[pc] - Pops(I) >= 0
      /\ Flows(I) => h[pc + 1] <= h[pc] - Pops(I) + Pushes(I) /\ h[pc + 1] \in Nat
      /\ h[I.n] <= h[pc] - Pops(I) /\ h[I.n] \in Nat
      /\ Len(stack) \in Nat /\ base \in Nat /\ Len(stack) >= base + h[pc]
  BY <1>3, NowFits
<1>5. (HeightOf(cur)[pc])' = h[pc']
  BY <1>1 DEF HeightOf, FuncCode
<1> HIDE DEF h
<1>6. CASE Jump
  <2>1. pc' = I.n /\ stack' = stack /\ Pops(I) = 0
    BY <1>3, <1>6 DEF Jump, At, I
  <2>2. QED
    BY <1>1, <1>2, <1>4, <1>5, <2>1 DEF Enough
<1>7. CASE JumpZero
  <2>1. stack' = Below(1) /\ (pc' = I.n \/ pc' = pc + 1) /\ Pops(I) = 1 /\ Flows(I)
    BY <1>3, <1>7 DEF JumpZero, At, I
  <2>2. Len(stack') = Len(stack) - 1
    BY <1>3, <1>4, <2>1, BelowLen
  <2>3. h[pc'] <= h[pc] - 1 /\ h[pc'] \in Nat
    BY <1>3, <1>4, <2>1
  <2>4. QED
    BY <1>1, <1>2, <1>4, <1>5, <2>2, <2>3 DEF Enough
<1>8. QED
  BY <1>6, <1>7

\* A call takes the arguments from the caller's own operands.
LEMMA EnterKeepsOperands ==
  ASSUME OperandInv, NEW f \in DOMAIN image.funcs, NEW seed, NEW n \in Nat, Enter(f, seed, n),
         status = "run", Flows(I), Pops(I) = n, Pushes(I) = 1
  PROVE  Enough' /\ Bases' /\ Returns' /\ Balanced(image)'
<1> DEFINE h == HeightOf(cur)
           c == [cur |-> cur, pc |-> pc + 1, frame |-> frame, base |-> base]
           d == Len(frames)
<1>1. frames \in Seq(Frames(image, Len(heap))) /\ d \in Nat /\ IInv
  BY LenProperties DEF OperandInv, InsideInv, IInv
<1>2. /\ image' = image /\ frames' = Append(frames, c) /\ cur' = f /\ pc' = 1
      /\ stack' = Below(n) /\ base' = Len(stack')
  BY DEF Enter
<1>3. c.cur = cur /\ c.pc = pc + 1 /\ c.base = base
  OBVIOUS
<1>4. /\ h[pc] \in Nat /\ h[pc] - n >= 0 /\ h[pc + 1] <= h[pc] - n + 1 /\ h[pc + 1] \in Nat
      /\ Len(stack) \in Nat /\ base \in Nat /\ Len(stack) >= base + h[pc]
  BY NowFits
<1>5. HeightOf(f)[1] = 0
  BY HeightFits DEF OperandInv, Fits
<1>6. (HeightOf(cur)[pc])' = 0
  BY <1>2, <1>5 DEF HeightOf, FuncCode
<1> HIDE DEF h, c
<1>7. n <= Len(stack)
  BY <1>4
<1>8. Len(stack') = Len(stack) - n
  BY <1>1, <1>2, <1>7, BelowLen
<1>9. base' \in Nat /\ base' >= base /\ base + h[pc + 1] <= base' + 1
  BY <1>2, <1>4, <1>7, <1>8
<1>10. Enough'
  BY <1>2, <1>6, <1>9 DEF Enough
<1>11. /\ Len(frames') = d + 1 /\ frames'[d + 1] = c
       /\ \A e \in 1 .. d : frames'[e] = frames[e]
  BY <1>1, <1>2
<1>12. /\ \A e \in 1 .. d + 1 : BaseAt(e)' = BaseAt(e)
       /\ \A e : e = d + 2 => BaseAt(e)' = base'
  <2>1. ASSUME NEW e \in 1 .. d PROVE BaseAt(e)' = BaseAt(e)
    <3>1. e # d + 1 /\ e # d + 1 + 1
      BY <1>1
    <3>2. QED
      BY <1>11, <3>1 DEF BaseAt
  <2>2. ASSUME NEW e, e = d + 1 PROVE BaseAt(e)' = BaseAt(e)
    <3>1. e # d + 1 + 1
      BY <1>1, <2>2
    <3>2. QED
      BY <1>3, <1>11, <2>2, <3>1 DEF BaseAt
  <2>3. ASSUME NEW e, e = d + 2 PROVE BaseAt(e)' = base'
    BY <1>1, <1>11, <2>3 DEF BaseAt
  <2>4. QED
    BY <1>1, <2>1, <2>2, <2>3
<1>13. \A e \in 1 .. d + 1 : BaseAt(e) <= base'
  <2> TAKE e \in 1 .. d + 1
  <2>1. CASE e = d + 1
    BY <1>9, <2>1 DEF BaseAt
  <2>2. CASE e # d + 1
    <3>1. e \in 1 .. d /\ e < d + 1 /\ d + 1 \in 1 .. d + 1
      BY <1>1, <2>2
    <3>2. frames[e] \in Frames(image, Len(heap))
      BY <1>1, <3>1, ElementOfSeq
    <3>3. BaseAt(e) <= base /\ BaseAt(e) \in Nat
      BY <3>1, <3>2 DEF OperandInv, Bases, BaseAt, Frames
    <3>4. QED
      BY <1>4, <1>9, <3>3
  <2>3. QED
    BY <2>1, <2>2
<1>14. Bases'
  <2>1. SUFFICES ASSUME NEW x \in 1 .. d + 2, NEW e \in 1 .. d + 2, x < e
                 PROVE  BaseAt(x)' <= BaseAt(e)'
    BY <1>1, <1>11 DEF Bases
  <2>2. x \in 1 .. d + 1 /\ (e \in 1 .. d + 1 \/ e = d + 2)
    BY <1>1, <2>1
  <2>3. CASE e \in 1 .. d + 1
    BY <1>12, <2>1, <2>2, <2>3 DEF OperandInv, Bases
  <2>4. CASE e = d + 2
    BY <1>12, <1>13, <2>2, <2>4
  <2>5. QED
    BY <2>2, <2>3, <2>4
<1>15. Returns'
  <2>1. SUFFICES ASSUME NEW e \in 1 .. d + 1
        PROVE  frames'[e].base + HeightOf(frames'[e].cur)[frames'[e].pc] <= BaseAt(e + 1)' + 1
    BY <1>2, <1>11 DEF Returns, HeightOf, FuncCode
  <2>2. CASE e = d + 1
    <3>1. frames'[e] = c /\ e + 1 = d + 2
      BY <1>1, <1>11, <2>2
    <3>2. BaseAt(e + 1)' = base'
      BY <1>12, <3>1
    <3>3. QED
      BY <1>3, <1>9, <3>1, <3>2 DEF h
  <2>3. CASE e # d + 1
    <3>1. e \in 1 .. d /\ e + 1 \in 1 .. d + 1
      BY <1>1, <2>3
    <3>2. frames'[e] = frames[e]
      BY <1>11, <3>1
    <3>3. BaseAt(e + 1)' = BaseAt(e + 1)
      BY <1>12, <3>1
    <3>4. QED
      BY <3>1, <3>2, <3>3 DEF OperandInv, Returns
  <2>4. QED
    BY <2>2, <2>3
<1>16. QED
  BY <1>2, <1>10, <1>14, <1>15 DEF OperandInv

LEMMA CallKeepsOperands ==
  ASSUME OperandInv, CallFunc \/ CallClosure
  PROVE  Enough' /\ Bases' /\ Returns' /\ Balanced(image)'
<1>1. status = "run" /\ Flows(I) /\ Pushes(I) = 1 /\ Pops(I) \in Nat
  BY PopsNat DEF CallFunc, CallClosure, At, I, Flows, Pushes, OperandInv
<1>2. CASE \E kind \in {"type", "panic"} : Fail(kind)
  <2>1. UNCHANGED <<image, frames, base>> /\ status' # "run"
    BY <1>2 DEF Fail
  <2>2. QED
    BY <2>1, CallersKeep DEF Enough
<1>3. CASE \E f \in DOMAIN image.funcs : \E seed : Enter(f, seed, Pops(I))
  BY <1>1, <1>3, EnterKeepsOperands
<1>4. CASE CallFunc
  <2>1. Pops(I) = I.n
    BY <1>4 DEF CallFunc, At, I, Pops
  <2>2. QED
    BY <1>2, <1>3, <1>4, <2>1 DEF CallFunc
<1>5. CASE CallClosure
  <2>1. Pops(I) = I.n + 1
    BY <1>5 DEF CallClosure, At, I, Pops
  <2>2. QED
    BY <1>2, <1>3, <1>5, <2>1 DEF CallClosure
<1>6. QED
  BY <1>4, <1>5

\* A return gives the caller its operands back, and the value.
LEMMA ReturnKeepsOperands ==
  ASSUME OperandInv, Return
  PROVE  Enough' /\ Bases' /\ Returns' /\ Balanced(image)'
<1> DEFINE n == IF I.op = "RETURN" THEN 1 ELSE 0
           v == IF I.op = "RETURN" THEN Operand(1, 1) ELSE Null
           d == Len(frames)
<1>1. frames \in Seq(Frames(image, Len(heap))) /\ d \in Nat /\ IInv
  BY LenProperties DEF OperandInv, InsideInv, IInv
<1>2. status = "run" /\ Pops(I) = n /\ n \in Nat
  BY DEF Return, At, I, Pops
<1>3. /\ HeightOf(cur)[pc] \in Nat /\ HeightOf(cur)[pc] - n >= 0
      /\ Len(stack) \in Nat /\ base \in Nat /\ Len(stack) >= base + HeightOf(cur)[pc]
  BY <1>2, NowFits
<1>4. Len(stack) - n >= base /\ n <= Len(stack)
  BY <1>2, <1>3
<1>5. Len(Below(n)) = Len(stack) - n /\ Below(n) \in Seq(Values(Len(heap)))
  BY <1>1, <1>2, <1>4, BelowLen, BelowSeq
<1>6. CASE frames # << >>
  <2>1. d \in 1 .. d
    BY <1>1, <1>6, EmptySeq
  <2>2. /\ image' = image /\ frames' = SubSeq(frames, 1, d - 1) /\ stack' = Append(Below(n), v)
        /\ cur' = frames[d].cur /\ pc' = frames[d].pc /\ base' = frames[d].base
    BY <1>6 DEF Return
  <2> DEFINE need == HeightOf(frames[d].cur)[frames[d].pc]
  <2>3. frames[d] \in Frames(image, Len(heap)) /\ frames[d].pc \in DOMAIN FuncCode(frames[d].cur)
    BY <1>1, <2>1, ElementOfSeq DEF OperandInv, InsideInv, There, CodeAt, FuncCode
  <2>4. need \in Nat /\ frames[d].base \in Nat
    BY <2>3, HeightFits DEF OperandInv, Fits, Frames
  <2>5. frames[d].base + need <= base + 1
    BY <1>1, <2>1 DEF OperandInv, Returns, BaseAt
  <2>6. (HeightOf(cur)[pc])' = need
    BY <2>2 DEF HeightOf, FuncCode
  <2> HIDE DEF need, n, v
  <2>7. Len(stack') = Len(stack) - n + 1
    BY <1>5, <2>2, LenProperties
  <2>8. Enough'
    BY <1>2, <1>3, <1>4, <2>2, <2>4, <2>5, <2>6, <2>7 DEF Enough
  <2>9. d - 1 \in 0 .. Len(frames)
    BY <1>1, <2>1
  <2>10. Len(frames') = d - 1 /\ \A e \in 1 .. d - 1 : frames'[e] = frames[e]
    BY <1>1, <2>2, <2>9, PrefixElements
  <2>11. \A e \in 1 .. d : BaseAt(e)' = BaseAt(e)
    <3> TAKE e \in 1 .. d
    <3>1. CASE e = d
      BY <1>1, <2>2, <2>10, <3>1 DEF BaseAt
    <3>2. CASE e # d
      <4>1. e \in 1 .. d - 1 /\ e # d + 1
        BY <1>1, <3>2
      <4>2. QED
        BY <1>1, <2>10, <3>2, <4>1 DEF BaseAt
    <3>3. QED
      BY <3>1, <3>2
  <2>12. Bases'
    <3>1. SUFFICES ASSUME NEW x \in 1 .. d, NEW e \in 1 .. d, x < e
                   PROVE  BaseAt(x)' <= BaseAt(e)'
      BY <1>1, <2>10 DEF Bases
    <3>2. x \in 1 .. d + 1 /\ e \in 1 .. d + 1
      BY <1>1
    <3>3. QED
      BY <2>11, <3>1, <3>2 DEF OperandInv, Bases
  <2>13. Returns'
    <3>1. SUFFICES ASSUME NEW e \in 1 .. d - 1
          PROVE  frames'[e].base + HeightOf(frames'[e].cur)[frames'[e].pc] <= BaseAt(e + 1)' + 1
      BY <2>2, <2>10 DEF Returns, HeightOf, FuncCode
    <3>2. e \in 1 .. d /\ e + 1 \in 1 .. d
      BY <1>1
    <3>3. QED
      BY <2>10, <2>11, <3>1, <3>2 DEF OperandInv, Returns
  <2>14. QED
    BY <2>2, <2>8, <2>12, <2>13 DEF OperandInv
<1>7. CASE frames = << >>
  <2>1. d = 0 /\ frames' = frames /\ image' = image /\ stack' = Below(n) /\ base' = Len(stack')
        /\ (status' = "run" => cur' = image.main /\ pc' = 1)
    BY <1>7, EmptySeq DEF Return, Begin
  <2>2. Bases' /\ Returns' /\ Balanced(image)'
    BY <2>1 DEF Bases, Returns, OperandInv
  <2>3. image.main \in DOMAIN image.funcs
    BY DEF OperandInv, InsideInv, IInv, ProgramOK
  <2>4. HeightOf(image.main)[1] = 0
    BY <2>3, HeightFits DEF OperandInv, Fits
  <2>5. status' = "run" => (HeightOf(cur)[pc])' = 0
    BY <2>1, <2>4 DEF HeightOf, FuncCode
  <2>6. base' \in Nat
    BY <1>2, <1>3, <1>4, <1>5, <2>1
  <2>7. Enough'
    BY <2>1, <2>5, <2>6 DEF Enough
  <2>8. QED
    BY <2>2, <2>7
<1>8. QED
  BY <1>6, <1>7

\* A program starts without operands, and its first instruction takes none.
LEMMA OperandsAtFirst ==
  ASSUME Init, Enclosed(image), Balanced(image)
  PROVE  OperandInv
<1>1. InsideInv
  BY InsideAtFirst
<1>2. /\ pc = 1 /\ frames = << >> /\ Len(frames) = 0 /\ stack = << >> /\ base = 0
      /\ cur \in DOMAIN image.funcs
  BY <1>1, EmptySeq DEF Init, Start, InsideInv, IInv, ProgramOK
<1>3. HeightOf(cur)[1] = 0
  BY <1>2, HeightFits DEF Fits
<1>4. Enough
  BY <1>2, <1>3 DEF Enough
<1>5. QED
  BY <1>1, <1>2, <1>4 DEF OperandInv, Bases, Returns

\* Every step.
LEMMA OperandsKeep == ASSUME OperandInv, [Next]_vars PROVE OperandInv'
<1>1. InsideInv'
  BY InsideKeeps DEF OperandInv
<1>2. Enough' /\ Bases' /\ Returns' /\ Balanced(image)'
  <2>1. CASE Data \/ Library
    BY <2>1, VariablesGoOn, ValuesGoOn, LibraryGoesOn, GoingOnKeepsOperands DEF Data
  <2>2. CASE Control
    BY <2>2, JumpKeepsOperands, CallKeepsOperands, ReturnKeepsOperands DEF Control
  <2>3. CASE UNCHANGED vars
    BY <2>3, CallersKeep DEF vars, OperandInv, Enough, HeightOf, FuncCode
  <2>4. QED
    BY <2>1, <2>2, <2>3 DEF Next
<1>3. QED
  BY <1>1, <1>2 DEF OperandInv

\* No function stands lower than its callers.
LEMMA CallersAreBelow ==
  ASSUME IInv, Bases, NEW i \in DOMAIN frames
  PROVE  frames[i].base <= base
<1>1. Len(frames) \in Nat /\ DOMAIN frames = 1 .. Len(frames)
  BY LenProperties DEF IInv
<1>2. i \in 1 .. Len(frames) + 1 /\ Len(frames) + 1 \in 1 .. Len(frames) + 1
      /\ i < Len(frames) + 1
  BY <1>1
<1>3. QED
  BY <1>1, <1>2 DEF Bases, BaseAt

\* Who has what the next instruction takes has not less than when it was entered.
LEMMA OperandsSuffice == ASSUME OperandInv PROVE CallersOperands
<1>1. SUFFICES ASSUME status = "run" PROVE CallersOperands
  BY DEF CallersOperands
<1>2. /\ HeightOf(cur)[pc] \in Nat /\ Len(stack) \in Nat /\ base \in Nat
      /\ Len(stack) >= base + HeightOf(cur)[pc]
  BY <1>1, NowFits
<1>3. Len(stack) >= base
  BY <1>2
<1>4. \A i \in DOMAIN frames : frames[i].base <= base
  BY CallersAreBelow DEF OperandInv, InsideInv
<1>5. QED
  BY <1>3, <1>4 DEF CallersOperands

\* In such an image, whose instructions also find on every path to them the operands they
\* take, no function ever takes an operand of its callers, and each resumes with its own.
THEOREM OperandsAreOwn == Spec /\ Enclosed(image) /\ Balanced(image) => []CallersOperands
<1>1. Init /\ Enclosed(image) /\ Balanced(image) => OperandInv
  BY OperandsAtFirst
<1>2. OperandInv /\ [Next]_vars => OperandInv'
  BY OperandsKeep
<1>3. OperandInv => CallersOperands
  BY OperandsSuffice
<1>4. QED
  BY <1>1, <1>2, <1>3, PTL DEF Spec

-----------------------------------------------------------------------------
(***************************************************************************)
(* The same of IsolatedCalls: for a VM that runs functions in other VMs    *)
(* and copies their results into its own heap, if no scheduled function is *)
(* given a reference.                                                      *)
(*                                                                         *)
(* A VM that waits is a VM that has executed its call, but for the value.  *)
(* While the result is copied, what has been copied so far are values of   *)
(* the heap that it goes to, and what is still to be copied are values of  *)
(* the heap that it comes from.                                            *)
(***************************************************************************)

\* A sequence, of whatever.
IsSeq(s) == s \in Seq({s[i] : i \in 1 .. Len(s)})

Waits(w, im) ==
  /\ w.cur \in DOMAIN im.funcs /\ w.pc \in Nat /\ w.base \in Nat
  /\ IsHeap(w.heap) /\ w.frame \in 1 .. Len(w.heap)
  /\ w.globals \in Seq(Values(Len(w.heap)))
  /\ w.stack \in Seq(Values(Len(w.heap)))
  /\ w.frames \in Seq(Frames(im, Len(w.heap)))

CallersWait == IsSeq(callers) /\ \A i \in 1 .. Len(callers) : Waits(callers[i], image)

\* The calls of materialize, from a heap of m objects to one of n.
Copies(m, n) == [v : Values(m), parts : Seq(Values(n))]

Copying == IsHeap(source) /\ copying \in Seq(Copies(Len(source), Len(heap)))

IsolatedInv == IInv /\ scheduled \subseteq DOMAIN image.funcs /\ CallersWait /\ Copying

-----------------------------------------------------------------------------
(* Sequences.                                                              *)

\* What is a sequence over some set is a sequence.
LEMMA SomeSeq ==
  ASSUME NEW S, NEW s \in Seq(S)
  PROVE  IsSeq(s) /\ Len(s) \in Nat /\ DOMAIN s = 1 .. Len(s)
<1>1. Len(s) \in Nat /\ s \in [1 .. Len(s) -> S] /\ DOMAIN s = 1 .. Len(s)
  BY LenProperties
<1>2. s \in [1 .. Len(s) -> {s[i] : i \in 1 .. Len(s)}]
  BY <1>1
<1>3. QED
  BY <1>1, <1>2, FunIsSeq DEF IsSeq

\* One element more.
LEMMA LongerSeq ==
  ASSUME NEW s, IsSeq(s), NEW x
  PROVE  /\ IsSeq(Append(s, x)) /\ Len(s) \in Nat /\ Len(Append(s, x)) = Len(s) + 1
         /\ \A i \in 1 .. Len(s) : Append(s, x)[i] = s[i]
         /\ Append(s, x)[Len(s) + 1] = x
<1> DEFINE S == {s[i] : i \in 1 .. Len(s)} \cup {x}
<1>1. s \in Seq(S)
  <2>1. Seq({s[i] : i \in 1 .. Len(s)}) \subseteq Seq(S)
    BY SeqWiden
  <2>2. QED
    BY <2>1 DEF IsSeq
<1>2. x \in S
  OBVIOUS
<1> HIDE DEF S
<1>3. Append(s, x) \in Seq(S)
  BY <1>1, <1>2, AppendProperties
<1>4. /\ Len(s) \in Nat /\ Len(Append(s, x)) = Len(s) + 1
      /\ \A i \in 1 .. Len(s) : Append(s, x)[i] = s[i]
      /\ Append(s, x)[Len(s) + 1] = x
  BY <1>1, <1>2, AppendProperties, LenProperties
<1>5. QED
  BY <1>3, <1>4, SomeSeq

\* The last element less.
LEMMA ShorterSeq ==
  ASSUME NEW s, IsSeq(s), NEW n \in 0 .. Len(s)
  PROVE  /\ IsSeq(SubSeq(s, 1, n)) /\ Len(SubSeq(s, 1, n)) = n
         /\ \A i \in 1 .. n : SubSeq(s, 1, n)[i] = s[i]
<1> DEFINE S == {s[i] : i \in 1 .. Len(s)}
<1>1. s \in Seq(S)
  BY DEF IsSeq
<1> HIDE DEF S
<1>2. Len(s) \in Nat
  BY <1>1, LenProperties
<1>3. n \in Int /\ n <= Len(s)
  BY <1>2
<1>4. SubSeq(s, 1, n) \in Seq(S)
  BY <1>1, <1>3, PrefixSeq
<1>5. QED
  BY <1>1, <1>4, SomeSeq, PrefixElements

\* The empty sequence, and one of a single element.
LEMMA ShortSeqs ==
  ASSUME NEW x
  PROVE  /\ IsSeq(<< >>) /\ Len(<< >>) = 0
         /\ IsSeq(<<x>>) /\ Len(<<x>>) = 1 /\ <<x>>[1] = x
<1>1. << >> \in Seq({x}) /\ <<x>> \in Seq({x}) /\ Len(<< >>) = 0 /\ Len(<<x>>) = 1
  OBVIOUS
<1>2. QED
  BY <1>1, SomeSeq

-----------------------------------------------------------------------------
(* Heaps.                                                                  *)

\* Nothing, and a single frame without references, are heaps.
LEMMA SmallHeaps ==
  ASSUME NEW o, IsObject(o, 1)
  PROVE  /\ IsHeap(<< >>) /\ Len(<< >>) = 0
         /\ IsHeap(<<o>>) /\ Len(<<o>>) = 1
BY DEF IsHeap

\* What is no reference is a value in every heap.
LEMMA PlainValue ==
  ASSUME NEW m \in Nat, NEW n \in Nat, NEW v \in Values(m), ~IsRef(v)
  PROVE  v \in Values(n)
BY DEF Values, IsRef, Null

LEMMA PlainSeq ==
  ASSUME NEW m \in Nat, NEW n \in Nat, NEW s \in Seq(Values(m)),
         \A i \in DOMAIN s : ~IsRef(s[i])
  PROVE  s \in Seq(Values(n))
<1>1. Len(s) \in Nat /\ s \in [1 .. Len(s) -> Values(m)]
  BY LenProperties
<1>2. s \in [1 .. Len(s) -> Values(n)]
  BY <1>1, PlainValue
<1>3. QED
  BY <1>1, <1>2, FunIsSeq

\* The parts of an object are values.
LEMMA PartsAreValues ==
  ASSUME NEW n \in Nat, NEW o, IsObject(o, n)
  PROVE  /\ Parts(o) \in Seq(Values(n)) /\ Len(Parts(o)) = Len(o.fields) + 2 * Len(o.pairs)
         /\ Len(o.fields) \in Nat /\ Len(o.pairs) \in Nat
<1> DEFINE V == Values(n)
           k == Len(o.pairs)
           ps == [i \in 1 .. 2 * k |-> o.pairs[(i + 1) \div 2][2 - (i % 2)]]
<1>1. o.fields \in Seq(V) /\ o.pairs \in Seq(Entries(n)) /\ k \in Nat /\ Len(o.fields) \in Nat
  BY LenProperties DEF IsObject
<1>2. ASSUME NEW i \in 1 .. 2 * k
      PROVE  o.pairs[(i + 1) \div 2][2 - (i % 2)] \in V
  <2>1. (i + 1) \div 2 \in 1 .. k /\ 2 - (i % 2) \in {1, 2}
    BY <1>1
  <2>2. o.pairs[(i + 1) \div 2] \in V \X V
    BY <1>1, <2>1, ElementOfSeq DEF Entries
  <2>3. QED
    BY <2>1, <2>2
<1>3. ps \in [1 .. 2 * k -> V] /\ 2 * k \in Nat
  BY <1>1, <1>2
<1>4. ps \in Seq(V) /\ Len(ps) = 2 * k
  BY <1>3, FunIsSeq, LenProperties
<1> HIDE DEF V, ps, k
<1>5. o.fields \o ps \in Seq(V) /\ Len(o.fields \o ps) = Len(o.fields) + Len(ps)
  BY <1>1, <1>4, ConcatProperties
<1>6. QED
  BY <1>1, <1>4, <1>5 DEF Parts, V, ps, k

\* An object with other parts, as many as it has, is one of the heap they belong to.
LEMMA WithPartsObject ==
  ASSUME NEW m \in Nat, NEW n \in Nat, NEW o, IsObject(o, m),
         NEW vs \in Seq(Values(n)), Len(vs) >= Len(Parts(o))
  PROVE  IsObject(WithParts(o, vs), n)
<1> DEFINE f == Len(o.fields)
           k == Len(o.pairs)
           ps == [i \in DOMAIN o.pairs |-> <<vs[f + 2 * i - 1], vs[f + 2 * i]>>]
<1>1. /\ f \in Nat /\ k \in Nat /\ Len(vs) \in Nat /\ Len(vs) >= f + 2 * k
      /\ DOMAIN o.pairs = 1 .. k
  BY PartsAreValues, LenProperties DEF IsObject
<1>2. SubSeq(vs, 1, f) \in Seq(Values(n))
  <2> HIDE DEF f, k
  <2>1. f \in Int /\ f <= Len(vs)
    BY <1>1
  <2>2. QED
    BY <2>1, PrefixSeq
<1>3. ASSUME NEW i \in 1 .. k
      PROVE  <<vs[f + 2 * i - 1], vs[f + 2 * i]>> \in Entries(n)
  <2> HIDE DEF f, k
  <2>1. f + 2 * i - 1 \in 1 .. Len(vs) /\ f + 2 * i \in 1 .. Len(vs)
    BY <1>1
  <2>2. vs[f + 2 * i - 1] \in Values(n) /\ vs[f + 2 * i] \in Values(n)
    BY <2>1, ElementOfSeq
  <2>3. QED
    BY <2>2 DEF Entries
<1>4. ps \in Seq(Entries(n))
  <2>1. ps \in [1 .. k -> Entries(n)]
    BY <1>1, <1>3
  <2>2. QED
    BY <1>1, <2>1, FunIsSeq
<1> HIDE DEF ps
<1>5. IsObject(Object(o.kind, SubSeq(vs, 1, f), ps, o.str, o.fn), n)
  BY <1>2, <1>4 DEF IsObject, Object
<1>6. QED
  BY <1>5 DEF WithParts, ps

-----------------------------------------------------------------------------
(* Steps.                                                                  *)

\* No instruction changes the program.
LEMMA ImageStays == ASSUME Next PROVE UNCHANGED image
<1>1. ASSUME GoesOn PROVE UNCHANGED image
  BY <1>1 DEF GoesOn, Advances, Step, Fail
<1>2. CASE Data \/ Library
  BY <1>1, <1>2, VariablesGoOn, ValuesGoOn, LibraryGoesOn DEF Data
<1>3. CASE Control
  BY <1>3 DEF Control, Jump, JumpZero, CallFunc, CallClosure, Return, Enter, Begin, Fail
<1>4. QED
  BY <1>2, <1>3 DEF Next

\* Who waits goes on waiting.
LEMMA CallersGoOnWaiting ==
  ASSUME CallersWait, UNCHANGED <<image, callers>>
  PROVE  CallersWait'
BY DEF CallersWait

\* What the machine does by itself.
LEMMA InsideKeepsIsolated == ASSUME IsolatedInv, Inside PROVE IsolatedInv'
<1>1. IInv' /\ UNCHANGED <<image, scheduled, callers, source, copying>> /\ copying = << >>
  BY NextKeeps, ImageStays DEF IsolatedInv, Inside, Runs
<1>2. CallersWait'
  BY <1>1, CallersGoOnWaiting DEF IsolatedInv
<1>3. << >> \in Seq(Copies(Len(source'), Len(heap')))
  BY EmptySeq
<1>4. QED
  BY <1>1, <1>2, <1>3 DEF IsolatedInv, Copying

\* The callers with one more.
LEMMA CallersGrow ==
  ASSUME CallersWait, NEW w, callers' = Append(callers, w)
  PROVE  /\ IsSeq(callers')
         /\ \A i \in 1 .. Len(callers') :
              callers'[i] = w \/ (i \in 1 .. Len(callers) /\ callers'[i] = callers[i])
<1>1. /\ IsSeq(callers') /\ Len(callers) \in Nat /\ Len(callers') = Len(callers) + 1
      /\ \A i \in 1 .. Len(callers) : callers'[i] = callers[i]
      /\ callers'[Len(callers) + 1] = w
  BY LongerSeq DEF CallersWait
<1>2. \A i \in 1 .. Len(callers') : i \in 1 .. Len(callers) \/ i = Len(callers) + 1
  BY <1>1
<1>3. QED
  BY <1>1, <1>2

\* The callers but the last.
LEMMA CallersShrink ==
  ASSUME CallersWait, callers # << >>, callers' = SubSeq(callers, 1, Len(callers) - 1)
  PROVE  /\ Len(callers) \in 1 .. Len(callers) /\ IsSeq(callers')
         /\ \A i \in 1 .. Len(callers') : i \in 1 .. Len(callers) /\ callers'[i] = callers[i]
<1>1. Len(callers) \in Nat /\ Len(callers) # 0
  <2> DEFINE S == {callers[i] : i \in 1 .. Len(callers)}
  <2>1. callers \in Seq(S)
    BY DEF CallersWait, IsSeq
  <2> HIDE DEF S
  <2>2. QED
    BY <2>1, EmptySeq, LenProperties
<1>2. Len(callers) - 1 \in 0 .. Len(callers) /\ Len(callers) \in 1 .. Len(callers)
  BY <1>1
<1>3. /\ IsSeq(callers') /\ Len(callers') = Len(callers) - 1
      /\ \A i \in 1 .. Len(callers) - 1 : callers'[i] = callers[i]
  BY <1>2, ShorterSeq DEF CallersWait
<1>4. QED
  BY <1>1, <1>2, <1>3

\* A VM of its own, for a function that is given no reference.
LEMMA IsolateKeeps ==
  ASSUME IsolatedInv, Runs, NEW f \in scheduled, NEW seed \in Seq(Values(Len(heap))),
         \A i \in DOMAIN seed : ~IsRef(seed[i]), NEW n \in Nat, Isolate(f, seed, n)
  PROVE  IsolatedInv'
<1> DEFINE o == FrameObject(Locals(f, seed))
           w == Waiting(n)
<1>1. IInv /\ Len(heap) \in Nat /\ f \in DOMAIN image.funcs
  BY DEF IsolatedInv, IInv, IsHeap
<1>2. IsObject(o, 1)
  <2>1. seed \in Seq(Values(1))
    BY <1>1, PlainSeq
  <2>2. QED
    BY <1>1, <2>1, LocalsObject
<1>3. /\ heap' = <<o>> /\ callers' = Append(callers, w)
      /\ globals' = << >> /\ stack' = << >> /\ frames' = << >>
      /\ cur' = f /\ pc' = 1 /\ frame' = 1 /\ base' = 0
      /\ UNCHANGED <<image, scheduled, source, copying>>
  BY DEF Isolate
<1>4. /\ w.heap = heap /\ w.globals = globals /\ w.stack = Below(n) /\ w.frames = frames
      /\ w.cur = cur /\ w.pc = pc + 1 /\ w.frame = frame /\ w.base = base
  BY DEF Waiting
<1> HIDE DEF o, w
<1>5. Waits(w, image)
  <2>1. w.stack \in Seq(Values(Len(heap)))
    BY <1>1, <1>4, BelowSeq
  <2>2. /\ cur \in DOMAIN image.funcs /\ pc \in Nat /\ base \in Nat /\ IsHeap(heap)
        /\ frame \in 1 .. Len(heap) /\ globals \in Seq(Values(Len(heap)))
        /\ frames \in Seq(Frames(image, Len(heap)))
    BY <1>1 DEF IInv, ProgramOK
  <2>3. pc + 1 \in Nat
    BY <2>2
  <2>4. QED
    BY <1>4, <2>1, <2>2, <2>3 DEF Waits
<1>6. IInv'
  <2>1. IsHeap(heap') /\ Len(heap') = 1
    BY <1>2, <1>3, SmallHeaps
  <2>2. << >> \in Seq(Values(Len(heap'))) /\ << >> \in Seq(Frames(image', Len(heap')))
    BY EmptySeq
  <2>3. ProgramOK'
    BY <1>1, <1>3 DEF IInv, ProgramOK
  <2>4. QED
    BY <1>3, <2>1, <2>2, <2>3 DEF IInv
<1>7. CallersWait'
  <2>1. /\ IsSeq(callers')
        /\ \A i \in 1 .. Len(callers') :
             callers'[i] = w \/ (i \in 1 .. Len(callers) /\ callers'[i] = callers[i])
    BY <1>3, CallersGrow DEF IsolatedInv
  <2>2. QED
    BY <1>3, <1>5, <2>1 DEF IsolatedInv, CallersWait
<1>8. Copying'
  <2>1. << >> \in Seq(Copies(Len(source'), Len(heap')))
    BY EmptySeq
  <2>2. QED
    BY <1>3, <2>1 DEF IsolatedInv, Copying, Runs
<1>9. QED
  BY <1>3, <1>6, <1>7, <1>8 DEF IsolatedInv

\* The VM that waits goes on, and what the other one returns is to be copied.
LEMMA DeliverKeeps == ASSUME IsolatedInv, Deliver PROVE IsolatedInv'
<1> DEFINE w == callers[Len(callers)]
           v == IF I.op = "RETURN" THEN Operand(1, 1) ELSE Null
<1>1. IInv /\ callers # << >> /\ Copying /\ CallersWait
  BY DEF IsolatedInv, Deliver, Ends
<1>2. /\ Len(callers) \in 1 .. Len(callers) /\ IsSeq(callers')
      /\ \A i \in 1 .. Len(callers') : i \in 1 .. Len(callers) /\ callers'[i] = callers[i]
  BY <1>1, CallersShrink DEF Deliver
<1>3. Waits(w, image)
  BY <1>2 DEF IsolatedInv, CallersWait
<1>4. v \in Values(Len(heap)) /\ Len(heap) \in Nat /\ IsHeap(heap)
  <2>1. IsHeap(heap) /\ Len(heap) \in Nat
    BY <1>1 DEF IInv, IsHeap
  <2>2. Operand(1, 1) \in Values(Len(heap)) /\ Null \in Values(Len(heap))
    BY <1>1, <2>1, OperandValue, Scalars
  <2>3. QED
    BY <2>1, <2>2
<1>5. /\ heap' = w.heap /\ stack' = w.stack /\ globals' = w.globals
      /\ frames' = w.frames /\ base' = w.base
      /\ cur' = w.cur /\ pc' = w.pc /\ frame' = w.frame
      /\ callers' = SubSeq(callers, 1, Len(callers) - 1)
      /\ source' = heap /\ copying' = <<Copy(v)>>
      /\ UNCHANGED <<scheduled, image>>
  BY DEF Deliver
<1> HIDE DEF w, v
<1>6. IInv'
  BY <1>1, <1>3, <1>5 DEF Waits, IInv, ProgramOK
<1>7. CallersWait'
  BY <1>1, <1>2, <1>5 DEF CallersWait
<1>8. Copying'
  <2>1. Copy(v) \in Copies(Len(source'), Len(heap'))
    BY <1>4, <1>5, EmptySeq DEF Copy, Copies
  <2>2. QED
    BY <1>4, <1>5, <2>1 DEF Copying
<1>9. QED
  BY <1>5, <1>6, <1>7, <1>8 DEF IsolatedInv

\* What is copied to a heap that has grown since is a value of it still.
LEMMA CopiesWiden ==
  ASSUME NEW l \in Nat, NEW m \in Nat, NEW n \in Nat, m <= n
  PROVE  Seq(Copies(l, m)) \subseteq Seq(Copies(l, n))
<1>1. Seq(Values(m)) \subseteq Seq(Values(n))
  BY ValuesWiden, SeqWiden
<1>2. Copies(l, m) \subseteq Copies(l, n)
  BY <1>1 DEF Copies
<1>3. QED
  BY <1>2, SeqWiden

\* Where something is being copied, the innermost call is one of materialize.
LEMMA InnermostCopies ==
  ASSUME IsolatedInv, ~Runs
  PROVE  /\ Len(copying) \in Nat /\ Len(copying) \in 1 .. Len(copying)
         /\ Innermost \in Copies(Len(source), Len(heap))
         /\ Len(source) \in Nat /\ Len(heap) \in Nat
<1>1. copying \in Seq(Copies(Len(source), Len(heap))) /\ Len(source) \in Nat /\ Len(heap) \in Nat
  BY DEF IsolatedInv, Copying, IInv, IsHeap
<1>2. Len(copying) \in Nat /\ Len(copying) # 0
  BY <1>1, EmptySeq, LenProperties DEF Runs
<1>3. QED
  BY <1>1, <1>2, ElementOfSeq DEF Innermost

\* A copy is a value of the heap that it was made in: the call around it gets one part more,
\* or the VM its operand.
LEMMA CopiedKeeps ==
  ASSUME IsolatedInv, ~Runs, NEW v \in Values(Len(heap')), Copied(v),
         IsHeap(heap'), Len(heap') >= Len(heap), UNCHANGED Rest
  PROVE  IsolatedInv'
<1> DEFINE n == Len(copying) - 1
           C == Copies(Len(source), Len(heap'))
<1>1. /\ Len(heap) \in Nat /\ Len(heap') \in Nat /\ Len(source) \in Nat
      /\ UNCHANGED <<scheduled, callers, image, globals, frames, cur, pc, frame, base>>
      /\ IInv /\ IsHeap(source) /\ copying \in Seq(Copies(Len(source), Len(heap)))
  BY DEF Rest, IsolatedInv, Copying, IInv, IsHeap
<1>2. /\ Seq(Values(Len(heap))) \subseteq Seq(Values(Len(heap')))
      /\ Frames(image, Len(heap)) \subseteq Frames(image, Len(heap'))
      /\ copying \in Seq(C)
  BY <1>1, ValuesWiden, SeqWiden, CopiesWiden DEF Frames
<1>3. stack \in Seq(Values(Len(heap'))) /\ frames' \in Seq(Frames(image', Len(heap')))
  BY <1>1, <1>2, SeqWiden DEF IInv
<1>4. ASSUME stack' \in Seq(Values(Len(heap'))) PROVE IInv'
  BY <1>1, <1>2, <1>3, <1>4 DEF IInv, ProgramOK
<1>5. CallersWait'
  BY <1>1, CallersGoOnWaiting DEF IsolatedInv
<1>6. CASE n = 0
  <2>1. stack' = Append(stack, v) /\ copying' = << >> /\ source' = << >>
    BY <1>6 DEF Copied
  <2>2. stack' \in Seq(Values(Len(heap')))
    BY <1>3, <2>1, AppendProperties
  <2>3. Copying'
    <3>1. IsHeap(<< >>) /\ << >> \in Seq(Copies(Len(source'), Len(heap')))
      BY EmptySeq DEF IsHeap
    <3>2. QED
      BY <2>1, <3>1 DEF Copying
  <2>4. QED
    BY <1>1, <1>4, <1>5, <2>2, <2>3 DEF IsolatedInv
<1>7. CASE n # 0
  <2>1. n \in Nat /\ n <= Len(copying) /\ n \in 1 .. n
    BY <1>7, InnermostCopies
  <2> DEFINE s == SubSeq(copying, 1, n)
             c == [s[n] EXCEPT !.parts = Append(s[n].parts, v)]
  <2>2. copying' = [s EXCEPT ![n] = c] /\ stack' = stack /\ source' = source
    BY <1>7 DEF Copied
  <2> HIDE DEF n
  <2>3. s \in Seq(C) /\ Len(s) = n
    BY <1>2, <2>1, PrefixSeq, PrefixElements
  <2>4. s[n] \in C
    BY <2>1, <2>3, ElementOfSeq
  <2> HIDE DEF s
  <2>5. c \in C
    BY <2>4, AppendProperties DEF Copies
  <2> HIDE DEF c, C
  <2>6. [s EXCEPT ![n] = c] \in Seq(C)
    BY <2>1, <2>3, <2>5, ExceptSeq
  <2>7. QED
    BY <1>1, <1>3, <1>4, <1>5, <2>2, <2>6 DEF IsolatedInv, Copying, C
<1>8. QED
  BY <1>6, <1>7

\* A reference to the copy, or into it.
LEMMA ReferenceToCopy ==
  ASSUME NEW m \in Nat, NEW n \in Nat, NEW v \in Values(m), IsRef(v), NEW id \in 1 .. n
  PROVE  [v EXCEPT ![2] = id] \in Values(n)
<1>1. CASE v[1] = "obj"
  <2>1. PICK x \in 1 .. m : v = <<"obj", x>>
    BY <1>1 DEF Values, Null
  <2>2. [v EXCEPT ![2] = id] = Obj(id)
    BY <2>1 DEF Obj
  <2>3. QED
    BY <2>2, References
<1>2. CASE v[1] = "ptr"
  <2>1. PICK x \in 1 .. m, i \in Int : v = <<"ptr", x, i>>
    BY <1>2 DEF Values, Null
  <2>2. [v EXCEPT ![2] = id] = PtrVal(id, i)
    BY <2>1 DEF PtrVal
  <2>3. QED
    BY <2>2, References
<1>3. QED
  BY <1>1, <1>2 DEF IsRef

\* What is being copied is an object of the heap it comes from.
LEMMA OriginalObject ==
  ASSUME IsolatedInv, ~Runs, IsRef(Innermost.v)
  PROVE  IsObject(Original, Len(source))
<1>1. Innermost.v \in Values(Len(source)) /\ Len(source) \in Nat
  BY InnermostCopies DEF Copies
<1>2. Innermost.v[2] \in 1 .. Len(source)
  BY <1>1, ReferencesLead DEF IsRef
<1>3. QED
  BY <1>2 DEF IsolatedInv, Copying, IsHeap, Original

LEMMA CopyKeeps == ASSUME IsolatedInv, CopyScalar \/ CopyPart \/ CopyObject PROVE IsolatedInv'
<1> DEFINE c == Innermost
<1>1. /\ ~Runs /\ Len(source) \in Nat /\ Len(heap) \in Nat
      /\ c.v \in Values(Len(source)) /\ c.parts \in Seq(Values(Len(heap)))
      /\ IsHeap(heap) /\ IsHeap(source)
  BY InnermostCopies DEF CopyScalar, CopyPart, CopyObject, Copies, IsolatedInv, IInv, Copying
<1>2. Len(c.parts) \in Nat
  BY <1>1, LenProperties
<1>3. CASE CopyScalar
  <2>1. c.v \in Values(Len(heap'))
    BY <1>1, <1>3, PlainValue DEF CopyScalar
  <2>2. IsHeap(heap') /\ Len(heap') >= Len(heap)
    BY <1>1, <1>3 DEF CopyScalar
  <2>3. Copied(c.v) /\ UNCHANGED Rest
    BY <1>3 DEF CopyScalar
  <2> HIDE DEF c
  <2>4. QED
    BY <1>1, <2>1, <2>2, <2>3, CopiedKeeps
<1>4. CASE CopyPart
  <2> DEFINE part == Parts(Original)[Len(c.parts) + 1]
  <2>1. IsObject(Original, Len(source)) /\ Missing
    BY <1>1, <1>4, OriginalObject DEF CopyPart
  <2>2. Parts(Original) \in Seq(Values(Len(source))) /\ Len(Parts(Original)) \in Nat
    BY <1>1, <2>1, PartsAreValues, LenProperties
  <2>3. Len(c.parts) + 1 \in 1 .. Len(Parts(Original))
    BY <1>2, <2>1, <2>2 DEF Missing
  <2>4. part \in Values(Len(source))
    BY <2>2, <2>3, ElementOfSeq
  <2>5. \/ Fail("overflow") /\ UNCHANGED <<scheduled, callers, source, copying>>
        \/ /\ copying' = Append(copying, Copy(part))
           /\ UNCHANGED <<Rest, heap, stack, source>>
    BY <1>4 DEF CopyPart
  <2> HIDE DEF part, c
  <2>6. CASE Fail("overflow") /\ UNCHANGED <<scheduled, callers, source, copying>>
    <3>1. IInv' /\ UNCHANGED <<image, heap>>
      BY <2>6, FailKeeps DEF IsolatedInv, Fail
    <3>2. CallersWait' /\ Copying'
      BY <2>6, <3>1, CallersGoOnWaiting DEF IsolatedInv, Copying
    <3>3. QED
      BY <2>6, <3>1, <3>2 DEF IsolatedInv
  <2>7. CASE copying' = Append(copying, Copy(part)) /\ UNCHANGED <<Rest, heap, stack, source>>
    <3>1. UNCHANGED <<scheduled, callers, image, globals, frames, cur, pc, frame, base>>
      BY <2>7 DEF Rest
    <3>2. IInv' /\ CallersWait'
      BY <2>7, <3>1, CallersGoOnWaiting DEF IsolatedInv, IInv, ProgramOK
    <3>3. Copy(part) \in Copies(Len(source), Len(heap))
      BY <2>4, EmptySeq DEF Copy, Copies
    <3>4. copying' \in Seq(Copies(Len(source), Len(heap)))
      BY <2>7, <3>3, AppendProperties DEF IsolatedInv, Copying
    <3>5. QED
      BY <1>1, <2>7, <3>1, <3>2, <3>4 DEF IsolatedInv, Copying
  <2>8. QED
    BY <2>5, <2>6, <2>7
<1>5. CASE CopyObject
  <2> DEFINE o == WithParts(Original, c.parts)
             v == [c.v EXCEPT ![2] = Len(heap) + 1]
  <2>1. IsObject(Original, Len(source)) /\ ~Missing /\ IsRef(c.v)
    BY <1>1, <1>5, OriginalObject DEF CopyObject
  <2>2. heap' = Append(heap, o) /\ Copied(v) /\ UNCHANGED Rest
    BY <1>5 DEF CopyObject
  <2>3. Parts(Original) \in Seq(Values(Len(source)))
    BY <1>1, <2>1, PartsAreValues
  <2>4. Len(c.parts) >= Len(Parts(Original))
    BY <1>2, <2>1, <2>3, LenProperties DEF Missing
  <2>5. IsObject(o, Len(heap) + 1)
    BY <1>1, <2>1, <2>4, WithPartsObject, ObjectWiden
  <2> HIDE DEF o
  <2>6. IsHeap(heap') /\ Len(heap') = Len(heap) + 1
    BY <1>1, <2>2, <2>5, HeapAppend
  <2>7. v \in Values(Len(heap'))
    BY <1>1, <2>1, <2>6, ReferenceToCopy
  <2> HIDE DEF v
  <2>8. QED
    BY <1>1, <2>2, <2>6, <2>7, CopiedKeeps
<1>6. QED
  BY <1>3, <1>4, <1>5

\* A call in a VM of its own.
LEMMA ScheduleKeeps ==
  ASSUME IsolatedInv, PlainArguments, ScheduleFunc \/ ScheduleClosure
  PROVE  IsolatedInv'
<1>1. IInv /\ Len(heap) \in Nat
  BY DEF IsolatedInv, IInv, IsHeap
<1>2. CASE ScheduleFunc
  <2>1. Runs /\ At({"CALL"}) /\ I.fn \in scheduled /\ Isolate(I.fn, Operands(I.n), I.n)
    BY <1>2 DEF ScheduleFunc, CallsScheduled
  <2>2. I.n \in Nat /\ I.op = "CALL"
    BY <1>1, <2>1, NumberInHand, InHand DEF Numbered
  <2>3. \A i \in DOMAIN Operands(I.n) : ~IsRef(Operands(I.n)[i])
    BY <1>2, <2>2 DEF ScheduleFunc, PlainArguments, Given
  <2>4. Operands(I.n) \in Seq(Values(Len(heap)))
    BY <1>1, <2>2, OperandsValues
  <2>5. QED
    BY <2>1, <2>2, <2>3, <2>4, IsolateKeeps
<1>3. CASE ScheduleClosure
  <2> DEFINE f == heap[Callee[2]].fn
             seed == heap[Callee[2]].fields \o Operands(I.n)
  <2>1. Runs /\ At({"CALL_CLOSURE"}) /\ IsObj(Callee) /\ f \in scheduled
        /\ Isolate(f, seed, I.n + 1)
    BY <1>3 DEF ScheduleClosure, CallsScheduledClosure, IsA
  <2>2. I.n \in Nat /\ I.op = "CALL_CLOSURE"
    BY <1>1, <2>1, NumberInHand, InHand DEF Numbered, Counted
  <2>3. \A i \in DOMAIN seed : ~IsRef(seed[i])
    BY <1>3, <2>2 DEF ScheduleClosure, PlainArguments, Given
  <2>4. seed \in Seq(Values(Len(heap)))
    <3>1. Callee \in Values(Len(heap))
      BY <1>1, <2>2, OperandValue DEF Callee
    <3>2. Callee[2] \in 1 .. Len(heap)
      BY <1>1, <2>1, <3>1, ReferencesLead DEF IsObj
    <3>3. heap[Callee[2]].fields \in Seq(Values(Len(heap)))
      BY <3>2 DEF IsolatedInv, IInv, IsHeap, IsObject
    <3>4. Operands(I.n) \in Seq(Values(Len(heap)))
      BY <1>1, <2>2, OperandsValues
    <3>5. QED
      BY <3>3, <3>4, ConcatProperties
  <2>5. I.n + 1 \in Nat
    BY <2>2
  <2> HIDE DEF f, seed
  <2>6. QED
    BY <2>1, <2>3, <2>4, <2>5, IsolateKeeps
<1>4. QED
  BY <1>2, <1>3

\* Every step.
LEMMA IsolatedKeeps ==
  ASSUME IsolatedInv, PlainArguments, [IsolatedNext]_isolatedVars
  PROVE  IsolatedInv'
<1>1. CASE Unanswered \/ UNCHANGED isolatedVars
  <2>1. UNCHANGED <<scheduled, callers, source, copying, image, heap, globals, stack, frames,
                    cur, pc, frame, base>>
    BY <1>1 DEF Unanswered, isolatedVars, vars
  <2>2. IInv' /\ CallersWait' /\ Copying'
    BY <2>1, CallersGoOnWaiting DEF IsolatedInv, IInv, ProgramOK, Copying
  <2>3. QED
    BY <2>1, <2>2 DEF IsolatedInv
<1>2. QED
  BY <1>1, InsideKeepsIsolated, ScheduleKeeps, DeliverKeeps, CopyKeeps DEF IsolatedNext

\* A program starts in one VM, of which nothing is copied.
LEMMA IsolatedAtFirst == ASSUME IsolatedInit PROVE IsolatedInv
<1>1. PICK functions \in SUBSET DOMAIN image.funcs : Alone(functions)
  BY DEF IsolatedInit
<1>2. IInv
  BY InvariantAtFirst DEF IsolatedInit
<1>3. CallersWait
  <2>1. callers = << >> /\ IsSeq(<< >>) /\ Len(<< >>) = 0
    BY <1>1, ShortSeqs DEF Alone
  <2>2. QED
    BY <2>1 DEF CallersWait
<1>4. Copying
  <2>1. source = << >> /\ copying = << >>
    BY <1>1 DEF Alone
  <2>2. IsHeap(<< >>) /\ << >> \in Seq(Copies(Len(source), Len(heap)))
    BY EmptySeq DEF IsHeap
  <2>3. QED
    BY <2>1, <2>2 DEF Copying
<1>5. QED
  BY <1>1, <1>2, <1>3, <1>4 DEF IsolatedInv, Alone

\* No VM has a reference without an object, neither the one that runs nor the one that a
\* result is copied to, if no scheduled function is given a reference.
THEOREM IsolatedReferences == IsolatedSpec /\ []PlainArguments => []NoDangling
<1>1. IsolatedInit => IsolatedInv
  BY IsolatedAtFirst
<1>2. IsolatedInv /\ PlainArguments /\ [IsolatedNext]_isolatedVars => IsolatedInv'
  BY IsolatedKeeps
<1>3. IsolatedInv => NoDangling
  BY InvariantHolds DEF IsolatedInv
<1>4. QED
  BY <1>1, <1>2, <1>3, PTL DEF IsolatedSpec

-----------------------------------------------------------------------------
(* Inside the code of a function.                                          *)

\* Who waits goes on at an instruction, and so do its callers.
WaitsInside(w, im) ==
  /\ w.pc \in DOMAIN im.funcs[w.cur].code
  /\ \A i \in 1 .. Len(w.frames) : w.frames[i].pc \in DOMAIN im.funcs[w.frames[i].cur].code

CallersInside == \A i \in 1 .. Len(callers) : WaitsInside(callers[i], image)

IsolatedInside == IsolatedInv /\ InsideInv /\ CallersInside

\* A call that is scheduled is an instruction that the function goes on after.
LEMMA ScheduledCall ==
  ASSUME InsideInv, ScheduleFunc \/ ScheduleClosure
  PROVE  /\ status = "run" /\ Runs /\ Flows(I) /\ Pushes(I) = 1 /\ Pops(I) \in Nat
         /\ \E f \in scheduled : \E seed : Isolate(f, seed, Pops(I))
<1>1. CASE ScheduleFunc
  <2>1. Runs /\ At({"CALL"}) /\ I.fn \in scheduled /\ Isolate(I.fn, Operands(I.n), I.n)
    BY <1>1 DEF ScheduleFunc, CallsScheduled
  <2>2. status = "run" /\ Flows(I) /\ Pushes(I) = 1 /\ Pops(I) = I.n
    BY <2>1 DEF At, I, Flows, Pushes, Pops
  <2>3. QED
    BY <2>1, <2>2, PopsNat
<1>2. CASE ScheduleClosure
  <2> DEFINE f == heap[Callee[2]].fn
             seed == heap[Callee[2]].fields \o Operands(I.n)
  <2>1. Runs /\ At({"CALL_CLOSURE"}) /\ f \in scheduled /\ Isolate(f, seed, I.n + 1)
    BY <1>2 DEF ScheduleClosure, CallsScheduledClosure
  <2>2. status = "run" /\ Flows(I) /\ Pushes(I) = 1 /\ Pops(I) = I.n + 1
    BY <2>1 DEF At, I, Flows, Pushes, Pops
  <2> HIDE DEF f, seed
  <2>3. QED
    BY <2>1, <2>2, PopsNat
<1>3. QED
  BY <1>1, <1>2

\* The one that waits is inside its function, and the one that starts at its first instruction.
LEMMA ScheduledInside ==
  ASSUME IsolatedInside, ScheduleFunc \/ ScheduleClosure, IInv'
  PROVE  InsideInv' /\ CallersInside'
<1>1. InsideInv /\ status = "run" /\ Flows(I) /\ CallersWait /\ IInv /\ pc \in DOMAIN Code
      /\ Enclosed(image) /\ scheduled \subseteq DOMAIN image.funcs
  BY ScheduledCall DEF IsolatedInside, IsolatedInv, InsideInv, Here
<1>2. PICK f \in scheduled : \E seed : Isolate(f, seed, Pops(I))
  BY <1>1, ScheduledCall
<1> DEFINE w == Waiting(Pops(I))
<1>3. /\ callers' = Append(callers, w) /\ frames' = << >> /\ cur' = f /\ pc' = 1
      /\ image' = image
  BY <1>2 DEF Isolate
<1>4. w.cur = cur /\ w.pc = pc + 1 /\ w.frames = frames
  BY DEF Waiting
<1>5. WaitsInside(w, image)
  <2>1. pc + 1 \in DOMAIN Code
    BY <1>1, NextInstruction
  <2>2. QED
    BY <1>1, <1>4, <2>1 DEF WaitsInside, Code, InsideInv, There, CodeAt
<1> HIDE DEF w
<1>6. CallersInside'
  <2>1. \A i \in 1 .. Len(callers') :
          callers'[i] = w \/ (i \in 1 .. Len(callers) /\ callers'[i] = callers[i])
    BY <1>1, <1>3, CallersGrow
  <2>2. QED
    BY <1>3, <1>5, <2>1 DEF IsolatedInside, CallersInside
<1>7. Here' /\ There'
  <2>1. 1 \in DOMAIN image.funcs[f].code
    BY <1>1, FirstInstruction
  <2>2. QED
    BY <1>3, <2>1, EmptySeq DEF Here, There, Code
<1>8. QED
  BY <1>1, <1>3, <1>6, <1>7 DEF InsideInv

LEMMA DeliveredInside ==
  ASSUME IsolatedInside, Deliver, IInv'
  PROVE  InsideInv' /\ CallersInside'
<1> DEFINE w == callers[Len(callers)]
<1>1. CallersWait /\ callers # << >>
  BY DEF IsolatedInside, IsolatedInv, Deliver, Ends
<1>2. /\ Len(callers) \in 1 .. Len(callers)
      /\ \A i \in 1 .. Len(callers') : i \in 1 .. Len(callers) /\ callers'[i] = callers[i]
  BY <1>1, CallersShrink DEF Deliver
<1>3. WaitsInside(w, image) /\ Enclosed(image)
  BY <1>2 DEF IsolatedInside, CallersInside, InsideInv
<1>4. cur' = w.cur /\ pc' = w.pc /\ frames' = w.frames /\ image' = image
  BY DEF Deliver
<1> HIDE DEF w
<1>5. Here' /\ There'
  BY <1>3, <1>4 DEF Here, There, Code, CodeAt, WaitsInside
<1>6. CallersInside'
  BY <1>2, <1>4 DEF IsolatedInside, CallersInside
<1>7. QED
  BY <1>3, <1>4, <1>5, <1>6 DEF InsideInv

\* Nothing else moves a VM but itself.
LEMMA CopiedInside ==
  ASSUME IsolatedInside, IInv',
         CopyScalar \/ CopyPart \/ CopyObject \/ Unanswered \/ UNCHANGED isolatedVars
  PROVE  /\ InsideInv' /\ CallersInside'
         /\ UNCHANGED <<image, callers, frames, cur, pc, base>>
         /\ status' = "run" => status = "run"
<1>1. /\ UNCHANGED <<image, callers, frames, cur, pc, base>>
      /\ status' = "run" => status = "run"
  BY DEF CopyScalar, CopyPart, CopyObject, Unanswered, Fail, Rest, isolatedVars, vars
<1>2. QED
  BY <1>1 DEF IsolatedInside, InsideInv, Here, There, Code, CodeAt, CallersInside

\* Every step.
LEMMA IsolatedInsideKeeps ==
  ASSUME IsolatedInside, PlainArguments, [IsolatedNext]_isolatedVars
  PROVE  IsolatedInside'
<1>1. IsolatedInv' /\ IInv'
  BY IsolatedKeeps DEF IsolatedInside, IsolatedInv
<1>2. CASE Inside
  <2>1. InsideInv'
    BY <1>2, InsideKeeps DEF IsolatedInside, Inside
  <2>2. UNCHANGED <<image, callers>>
    BY <1>2, ImageStays DEF Inside
  <2>3. QED
    BY <1>1, <2>1, <2>2 DEF IsolatedInside, CallersInside
<1>3. QED
  BY <1>1, <1>2, ScheduledInside, DeliveredInside, CopiedInside DEF IsolatedNext, IsolatedInside

LEMMA IsolatedInsideAtFirst ==
  ASSUME IsolatedInit, Enclosed(image)
  PROVE  IsolatedInside
<1>1. IsolatedInv /\ InsideInv
  BY IsolatedAtFirst, InsideAtFirst DEF IsolatedInit
<1>2. callers = << >>
  BY DEF IsolatedInit, Alone
<1>3. QED
  BY <1>1, <1>2, EmptySeq DEF IsolatedInside, CallersInside

\* Where slots are locals and jumps stay in the code, so does a VM that runs functions in
\* others: it goes on after the call.
THEOREM IsolatedStaysInside ==
  IsolatedSpec /\ Enclosed(image) /\ []PlainArguments => []InsideFunction
<1>1. IsolatedInit /\ Enclosed(image) => IsolatedInside
  BY IsolatedInsideAtFirst
<1>2. IsolatedInside /\ PlainArguments /\ [IsolatedNext]_isolatedVars => IsolatedInside'
  BY IsolatedInsideKeeps
<1>3. IsolatedInside => InsideFunction
  BY InsideSuffices DEF IsolatedInside
<1>4. QED
  BY <1>1, <1>2, <1>3, PTL DEF IsolatedSpec

-----------------------------------------------------------------------------
(* The operands of the callers.                                            *)

\* Bases and Returns of a VM that waits.
BaseIn(w, d) == IF d = Len(w.frames) + 1 THEN w.base ELSE w.frames[d].base

BasesIn(w) == \A d, e \in 1 .. Len(w.frames) + 1 : d < e => BaseIn(w, d) <= BaseIn(w, e)

ReturnsIn(w) ==
  \A d \in 1 .. Len(w.frames) :
    w.frames[d].base + HeightOf(w.frames[d].cur)[w.frames[d].pc] <= BaseIn(w, d + 1) + 1

\* It has what the next instruction takes, but for the value that it waits for.
WaitsForOne(w) ==
  /\ Len(w.stack) >= w.base
  /\ Len(w.stack) + 1 >= w.base + HeightOf(w.cur)[w.pc]
  /\ BasesIn(w) /\ ReturnsIn(w)

CallersWaitForOne == \A i \in 1 .. Len(callers) : WaitsForOne(callers[i])

\* So does the VM that the value is being copied to.
Awaiting ==
  ~Runs => Len(stack) >= base /\ Len(stack) + 1 >= base + HeightOf(cur)[pc]

Operates == (Runs => Enough) /\ Awaiting /\ Bases /\ Returns

IsolatedOperands == IsolatedInside /\ Balanced(image) /\ Operates /\ CallersWaitForOne

\* The heights belong to the program.
LEMMA HeightStays ==
  ASSUME UNCHANGED image
  PROVE  \A f : HeightOf(f)' = HeightOf(f)
BY DEF HeightOf, FuncCode

LEMMA WaitingStays ==
  ASSUME UNCHANGED image, NEW w, WaitsForOne(w)
  PROVE  WaitsForOne(w)'
BY HeightStays DEF WaitsForOne, ReturnsIn, BasesIn, BaseIn

\* Instructions of the VM by itself.
LEMMA InsideOperates ==
  ASSUME IsolatedOperands, Inside
  PROVE  Operates' /\ CallersWaitForOne'
<1>1. OperandInv /\ Next /\ copying = << >> /\ UNCHANGED <<image, copying, callers>>
  BY ImageStays DEF IsolatedOperands, IsolatedInside, Operates, OperandInv, Inside, Runs
<1>2. Enough' /\ Bases' /\ Returns'
  BY <1>1, OperandsKeep DEF OperandInv
<1>3. CallersWaitForOne'
  BY <1>1, WaitingStays DEF IsolatedOperands, CallersWaitForOne
<1>4. QED
  BY <1>1, <1>2, <1>3 DEF Operates, Awaiting, Runs

\* The arguments are the caller's own, and the one that starts has no callers.
LEMMA ScheduledOperates ==
  ASSUME IsolatedOperands, ScheduleFunc \/ ScheduleClosure
  PROVE  Operates' /\ CallersWaitForOne'
<1> DEFINE h == HeightOf(cur)
           n == Pops(I)
           w == Waiting(n)
<1>1. InsideInv /\ status = "run" /\ Runs /\ Flows(I) /\ Pushes(I) = 1 /\ n \in Nat
      /\ IInv /\ CallersWait /\ scheduled \subseteq DOMAIN image.funcs /\ Balanced(image)
  BY ScheduledCall DEF IsolatedOperands, IsolatedInside, IsolatedInv
<1>2. PICK f \in scheduled : \E seed : Isolate(f, seed, n)
  BY <1>1, ScheduledCall DEF IsolatedOperands, IsolatedInside
<1>3. /\ callers' = Append(callers, w) /\ frames' = << >> /\ cur' = f /\ pc' = 1
      /\ stack' = << >> /\ base' = 0 /\ image' = image /\ copying' = copying
  BY <1>2 DEF Isolate
<1>4. /\ w.cur = cur /\ w.pc = pc + 1 /\ w.frames = frames /\ w.base = base
      /\ w.stack = Below(n)
  BY DEF Waiting
<1>5. OperandInv
  BY <1>1 DEF IsolatedOperands, Operates, OperandInv
<1>6. /\ h[pc] \in Nat /\ h[pc] - n >= 0 /\ h[pc + 1] <= h[pc] - n + 1 /\ h[pc + 1] \in Nat
      /\ Len(stack) \in Nat /\ base \in Nat /\ Len(stack) >= base + h[pc]
  BY <1>1, <1>5, NowFits
<1> HIDE DEF h, n, w
<1>7. n <= Len(stack)
  BY <1>1, <1>6
<1>8. Len(w.stack) = Len(stack) - n
  BY <1>1, <1>4, <1>7, BelowLen
<1>9. Len(w.stack) >= w.base /\ Len(w.stack) + 1 >= w.base + h[pc + 1]
  <2>1. n \in Nat
    BY <1>1
  <2>2. Len(stack) - n >= base /\ Len(stack) - n + 1 >= base + h[pc + 1]
    BY <1>6, <2>1
  <2>3. QED
    BY <1>4, <1>8, <2>2
<1>10. WaitsForOne(w)
  <2>1. BasesIn(w) /\ ReturnsIn(w)
    BY <1>4, <1>5 DEF OperandInv, Bases, Returns, BaseAt, BasesIn, ReturnsIn, BaseIn
  <2>2. QED
    BY <1>4, <1>9, <2>1 DEF WaitsForOne, h
<1>11. CallersWaitForOne'
  <2>1. \A i \in 1 .. Len(callers') :
          callers'[i] = w \/ (i \in 1 .. Len(callers) /\ callers'[i] = callers[i])
    BY <1>1, <1>3, CallersGrow
  <2>2. \A i \in 1 .. Len(callers') : WaitsForOne(callers'[i])
    BY <1>10, <2>1 DEF IsolatedOperands, CallersWaitForOne
  <2>3. QED
    BY <1>3, <2>2, WaitingStays DEF CallersWaitForOne
<1>12. Enough'
  <2>1. HeightOf(f)[1] = 0 /\ HeightOf(f)' = HeightOf(f)
    BY <1>1, <1>3, HeightFits, HeightStays DEF Fits
  <2>2. (HeightOf(cur)[pc])' = 0
    BY <1>3, <2>1
  <2>3. QED
    BY <1>3, <2>2 DEF Enough
<1>13. QED
  BY <1>1, <1>3, <1>11, <1>12, EmptySeq DEF Operates, Awaiting, Runs, Bases, Returns

\* Who waited waits for the value still, until that is copied.
LEMMA DeliveredOperates ==
  ASSUME IsolatedOperands, Deliver
  PROVE  Operates' /\ CallersWaitForOne'
<1> DEFINE w == callers[Len(callers)]
<1>1. CallersWait /\ callers # << >>
  BY DEF IsolatedOperands, IsolatedInside, IsolatedInv, Deliver, Ends
<1>2. /\ Len(callers) \in 1 .. Len(callers)
      /\ \A i \in 1 .. Len(callers') : i \in 1 .. Len(callers) /\ callers'[i] = callers[i]
  BY <1>1, CallersShrink DEF Deliver
<1>3. WaitsForOne(w)
  BY <1>2 DEF IsolatedOperands, CallersWaitForOne
<1>4. /\ cur' = w.cur /\ pc' = w.pc /\ frames' = w.frames /\ base' = w.base
      /\ stack' = w.stack /\ image' = image
  BY DEF Deliver
<1>5. ~Runs'
  <2>1. PICK c : copying' = <<c>>
    BY DEF Deliver
  <2>2. QED
    BY <2>1 DEF Runs
<1> HIDE DEF w
<1>6. Awaiting' /\ Bases' /\ Returns'
  BY <1>3, <1>4, HeightStays DEF Awaiting, Bases, Returns, BaseAt, WaitsForOne, BasesIn, ReturnsIn, BaseIn
<1>7. CallersWaitForOne'
  BY <1>2, <1>4, WaitingStays DEF IsolatedOperands, CallersWaitForOne
<1>8. QED
  BY <1>5, <1>6, <1>7 DEF Operates

\* What is copied last is the value.
LEMMA CopiedOperates ==
  ASSUME IsolatedOperands, NEW v, Copied(v), ~Runs, UNCHANGED Rest
  PROVE  Operates' /\ CallersWaitForOne'
<1>1. UNCHANGED <<image, callers, frames, cur, pc, base, status>>
  BY DEF Rest
<1>2. CallersWaitForOne' /\ Bases' /\ Returns'
  BY <1>1, WaitingStays, HeightStays
  DEF IsolatedOperands, CallersWaitForOne, Operates, Bases, Returns, BaseAt
<1>3. /\ Len(stack) >= base /\ Len(stack) + 1 >= base + HeightOf(cur)[pc]
      /\ stack \in Seq(Values(Len(heap))) /\ Len(stack) \in Nat /\ base \in Nat
  BY LenProperties
  DEF IsolatedOperands, Operates, Awaiting, IsolatedInside, IsolatedInv, IInv
<1>4. (HeightOf(cur)[pc])' = HeightOf(cur)[pc]
  BY <1>1, HeightStays
<1>5. CASE Len(copying) - 1 = 0
  <2>1. stack' = Append(stack, v) /\ copying' = << >>
    BY <1>5 DEF Copied
  <2>2. Len(stack') = Len(stack) + 1
    BY <1>3, <2>1
  <2>3. Enough'
    BY <1>1, <1>3, <1>4, <2>2 DEF Enough
  <2>4. QED
    BY <1>2, <2>1, <2>3 DEF Operates, Awaiting, Runs
<1>6. CASE Len(copying) - 1 # 0
  <2>1. stack' = stack
    BY <1>6 DEF Copied
  <2>2. ~Runs'
    <3> DEFINE n == Len(copying) - 1
               s == SubSeq(copying, 1, n)
    <3>1. copying' = [s EXCEPT ![n].parts = Append(@, v)]
      BY <1>6 DEF Copied
    <3>2. copying \in Seq(Copies(Len(source), Len(heap))) /\ n \in 0 .. Len(copying) /\ n # 0
      BY <1>6, InnermostCopies DEF IsolatedOperands, IsolatedInside, IsolatedInv, Copying
    <3> HIDE DEF n
    <3>3. s \in Seq(Copies(Len(source), Len(heap))) /\ Len(s) = n
      BY <3>2, PrefixSeq, PrefixElements, LenProperties
    <3>4. DOMAIN s = 1 .. n
      BY <3>3, LenProperties
    <3> HIDE DEF s
    <3>5. DOMAIN copying' = 1 .. n
      BY <3>1, <3>4
    <3>6. 1 \in DOMAIN copying'
      BY <3>2, <3>5
    <3>7. QED
      BY <3>6 DEF Runs
  <2>3. QED
    BY <1>1, <1>2, <1>3, <1>4, <2>1, <2>2 DEF Operates, Awaiting
<1>7. QED
  BY <1>5, <1>6

LEMMA CopyOperates ==
  ASSUME IsolatedOperands, IInv',
         CopyScalar \/ CopyPart \/ CopyObject \/ Unanswered \/ UNCHANGED isolatedVars
  PROVE  Operates' /\ CallersWaitForOne'
<1>1. CASE CopyScalar \/ CopyObject
  <2>1. ~Runs /\ UNCHANGED Rest /\ \E v : Copied(v)
    BY <1>1 DEF CopyScalar, CopyObject
  <2>2. QED
    BY <2>1, CopiedOperates
<1>2. CASE CopyPart \/ Unanswered \/ UNCHANGED isolatedVars
  <2>1. /\ UNCHANGED <<image, callers, frames, cur, pc, base>>
        /\ status' = "run" => status = "run"
    BY CopiedInside DEF IsolatedOperands
  <2>2. UNCHANGED stack
    BY <1>2 DEF CopyPart, Unanswered, Fail, isolatedVars, vars
  <2>3. Runs' <=> Runs
    <3>1. CASE Unanswered \/ UNCHANGED isolatedVars
      BY <3>1 DEF Unanswered, isolatedVars, Runs
    <3>2. CASE CopyPart
      <4>1. copying' = copying \/ \E c : copying' = Append(copying, c)
        BY <3>2 DEF CopyPart
      <4>2. copying \in Seq(Copies(Len(source), Len(heap))) /\ ~Runs
        BY <3>2 DEF CopyPart, IsolatedOperands, IsolatedInside, IsolatedInv, Copying
      <4>3. QED
        BY <4>1, <4>2 DEF Runs
    <3>3. QED
      BY <1>2, <3>1, <3>2
  <2>4. CallersWaitForOne' /\ Bases' /\ Returns' /\ (HeightOf(cur)[pc])' = HeightOf(cur)[pc]
    BY <2>1, WaitingStays, HeightStays
    DEF IsolatedOperands, CallersWaitForOne, Operates, Bases, Returns, BaseAt
  <2>5. QED
    BY <2>1, <2>2, <2>3, <2>4 DEF IsolatedOperands, Operates, Enough, Awaiting
<1>3. QED
  BY <1>1, <1>2

\* Every step.
LEMMA IsolatedOperandsKeep ==
  ASSUME IsolatedOperands, PlainArguments, [IsolatedNext]_isolatedVars
  PROVE  IsolatedOperands'
<1>1. IsolatedInside' /\ IInv'
  BY IsolatedInsideKeeps DEF IsolatedOperands, IsolatedInside, IsolatedInv
<1>2. Operates' /\ CallersWaitForOne'
  BY <1>1, InsideOperates, ScheduledOperates, DeliveredOperates, CopyOperates DEF IsolatedNext
<1>3. UNCHANGED image
  BY ImageStays DEF IsolatedNext, Inside, ScheduleFunc, ScheduleClosure, Isolate, Deliver,
     CopyScalar, CopyPart, CopyObject, Unanswered, Fail, Rest, isolatedVars, vars
<1>4. QED
  BY <1>1, <1>2, <1>3 DEF IsolatedOperands

LEMMA IsolatedOperandsAtFirst ==
  ASSUME IsolatedInit, Enclosed(image), Balanced(image)
  PROVE  IsolatedOperands
<1>1. IsolatedInside /\ OperandInv
  BY IsolatedInsideAtFirst, OperandsAtFirst DEF IsolatedInit
<1>2. copying = << >> /\ callers = << >>
  BY DEF IsolatedInit, Alone
<1>3. QED
  BY <1>1, <1>2, EmptySeq
  DEF IsolatedOperands, OperandInv, Operates, Awaiting, Runs, CallersWaitForOne

\* Nobody has less than when it was entered, also while the value is copied.
LEMMA IsolatedSuffice == ASSUME IsolatedOperands PROVE CallersOperands
<1>1. CASE Runs
  BY <1>1, OperandsSuffice DEF IsolatedOperands, IsolatedInside, Operates, OperandInv
<1>2. CASE ~Runs
  <2>1. \A i \in DOMAIN frames : frames[i].base <= base
    BY CallersAreBelow DEF IsolatedOperands, IsolatedInside, IsolatedInv, Operates
  <2>2. QED
    BY <1>2, <2>1 DEF IsolatedOperands, Operates, Awaiting, CallersOperands
<1>3. QED
  BY <1>1, <1>2

\* Where every instruction finds its operands, no function takes one of its callers, also in
\* a VM that runs functions in others: it goes on with those it had, and the value.
THEOREM IsolatedOperandsAreOwn ==
  IsolatedSpec /\ Enclosed(image) /\ Balanced(image) /\ []PlainArguments => []CallersOperands
<1>1. IsolatedInit /\ Enclosed(image) /\ Balanced(image) => IsolatedOperands
  BY IsolatedOperandsAtFirst
<1>2. IsolatedOperands /\ PlainArguments /\ [IsolatedNext]_isolatedVars => IsolatedOperands'
  BY IsolatedOperandsKeep
<1>3. IsolatedOperands => CallersOperands
  BY IsolatedSuffice
<1>4. QED
  BY <1>1, <1>2, <1>3, PTL DEF IsolatedSpec
=============================================================================

