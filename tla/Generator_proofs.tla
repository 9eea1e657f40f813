-------------------------- MODULE Generator_proofs --------------------------
(***************************************************************************)
(* Proofs about Generator: whatever program it compiles, instructions find *)
(* their operands on every path and end only try blocks that were begun.   *)
(*                                                                         *)
(* The invariant says of every task in progress where it begins and ends:  *)
(* the next one finds the operands and the open try blocks that the one    *)
(* before it leaves.  The positions that a task will patch are those of    *)
(* instructions of the right kind, inside of at least as many try blocks   *)
(* as there will be at the target; and a jump that is not patched yet goes *)
(* to the first instruction, where there is nothing to get wrong.          *)
(***************************************************************************)
EXTENDS Generator, SequenceTheorems, WellFoundedInduction, TLAPS

-----------------------------------------------------------------------------
(* The inductive invariant *)

\* A sequence, of whatever elements.
IsList(s) == Len(s) \in Nat /\ s = [i \in 1..Len(s) |-> s[i]]

\* Instruction i of c, with h operands and m open tries at each of them.
\* There are nx slots and n functions.
Operands(ins, nx, n) ==
  /\ ins.op \in Opcodes
  /\ ins.op = "PUSH" => ins.val \in Value
  /\ ins.op \in {"LOAD_LOCAL", "STORE_LOCAL"} => ins.slot \in 1..nx
  /\ ins.op = "CALL" => ins.func \in 1..n /\ ins.nargs \in Nat

\* A position p where statements begin, with d open tries.
Mark(h, m, p, d) == p \in 1..Len(h) /\ h[p] = 0 /\ m[p] = d

MarkBelow(h, m, p, d) == p \in 1..Len(h) /\ h[p] = 0 /\ m[p] <= d

TryOK(c, h, m, nx, i) ==
  /\ c[i].hasCatch \in BOOLEAN /\ c[i].hasFinally \in BOOLEAN
  /\ c[i].hasCatch \/ c[i].hasFinally
  /\ c[i].slot \in Nat
  /\ c[i].hasCatch => c[i].slot \in 1..nx
  /\ Mark(h, m, c[i].catch, m[i]) /\ Mark(h, m, c[i].finally, m[i])

\* There is a try at d open tries whose finally an instruction can end.
FinallyBegun(c, m, d) ==
  \E j \in 1..Len(c) : c[j].op = "TRY" /\ c[j].hasFinally /\ m[j] = d

InstrOK(c, h, m, nx, n, i) ==
  /\ Operands(c[i], nx, n)
  /\ Pops(c[i]) <= h[i]
  /\ Flows(c[i]) => h[i + 1] <= h[i] - Pops(c[i]) + Pushes(c[i])
  /\ c[i].op = "ENDTRY" => m[i] > 0
  /\ m[i + 1] = IF c[i].op = "TRY" THEN m[i] + 1 ELSE TriesBehind(c[i], m[i])
  /\ c[i].op \in {"JMP", "JZ"} => MarkBelow(h, m, c[i].to, m[i])
  /\ c[i].op = "TRY" => TryOK(c, h, m, nx, i)
  /\ c[i].op = "FINALLY_END" => FinallyBegun(c, m, m[i])

CodeOK(c, h, m, nx, n) ==
  /\ IsList(c) /\ h \in Seq(Nat) /\ m \in Seq(Nat) /\ nx \in Nat
  /\ Len(h) = Len(c) + 1 /\ Len(m) = Len(c) + 1
  /\ h[1] = 0 /\ m[1] = 0
  /\ \A i \in 1..Len(c) : InstrOK(c, h, m, nx, n, i)

\* The code of a function that is done.
MadeOK(r, n) ==
  /\ IsList(r.code) /\ r.heights \in Seq(Nat) /\ r.tries \in Seq(Nat)
  /\ Len(r.code) > 0 /\ r.nlocals \in Nat
  /\ Len(r.heights) = Len(r.code) /\ Len(r.tries) = Len(r.code)
  /\ r.heights[1] = 0 /\ r.tries[1] = 0
  /\ r.code[Len(r.code)] = [op |-> "RETURN_VOID"]
  /\ \A i \in 1..(Len(r.code) - 1) : InstrOK(r.code, r.heights, r.tries, r.nlocals, n, i)

\* What a task may ask of the instructions it will patch.
JumpAt(c, m, p, d) ==
  p \in 1..Len(c) /\ c[p].op \in {"JMP", "JZ"} /\ d <= m[p]

JumpsAt(c, m, ps, d) == \A p \in ps : JumpAt(c, m, p, d)

TryAt(c, m, p, d, s) ==
  /\ p \in 1..Len(c) /\ c[p].op = "TRY" /\ m[p] = d
  /\ c[p].hasCatch = s.hasCatch /\ c[p].hasFinally = s.hasFinally

IsTree(s, kinds) == s \in Statements /\ s.s \in kinds

EmitFits(ins, th, left, tm, c, m, nx, n) ==
  /\ ins.op \notin {"JMP", "JZ", "TRY"}
  /\ Operands(ins, nx, n) /\ left \in Nat
  /\ Pops(ins) <= th
  /\ Flows(ins) => left <= th - Pops(ins) + Pushes(ins)
  /\ ins.op = "ENDTRY" => tm > 0
  /\ ins.op = "FINALLY_END" => FinallyBegun(c, m, tm)

EmitOK(t, c, m, nx, n) == EmitFits(t.ins, t.h, t.left, t.m, c, m, nx, n)

TaskOK(t, c, h, m, nx, n) ==
  /\ t.h \in Nat /\ t.m \in Nat
  /\ t.t = "expr" => t.x \in Expressions
  /\ t.t = "args" => t.xs \in Seq(Expressions)
  /\ t.t = "emit" => EmitOK(t, c, m, nx, n)
  /\ t.t = "block" => t.h = 0 /\ t.ss \in Seq(Statements)
  /\ t.t = "stmt" => t.h = 0 /\ t.s \in Statements
  /\ t.t = "then" => t.h = 1 /\ IsTree(t.s, {"if"})
  /\ t.t = "else" => t.h = 0 /\ IsTree(t.s, {"if"}) /\ JumpAt(c, m, t.at, t.m)
  /\ t.t = "join" => t.h = 0 /\ JumpAt(c, m, t.at, t.m)
  /\ t.t = "loop" => t.h = 1 /\ IsTree(t.s, {"while", "for"}) /\ Mark(h, m, t.start, t.m)
  /\ t.t = "step" =>
       /\ t.h = 0 /\ IsTree(t.s, {"while", "for"}) /\ Mark(h, m, t.start, t.m)
       /\ JumpAt(c, m, t.exit, t.m)
       /\ JumpsAt(c, m, t.brk, t.m) /\ JumpsAt(c, m, t.cont, t.m)
  /\ t.t = "again" =>
       /\ t.h = 0 /\ Mark(h, m, t.start, t.m) /\ Mark(h, m, t.again, t.m)
       /\ JumpAt(c, m, t.exit, t.m)
       /\ JumpsAt(c, m, t.brk, t.m) /\ JumpsAt(c, m, t.cont, t.m)
  /\ t.t = "left" => t.h = 0 /\ IsTree(t.s, {"try"}) /\ TryAt(c, m, t.at, t.m, t.s)
  /\ t.t = "caught" =>
       /\ t.h = 0 /\ IsTree(t.s, {"try"}) /\ TryAt(c, m, t.at, t.m, t.s)
       /\ JumpAt(c, m, t.jmp, t.m)
  /\ t.t = "finally" =>
       /\ t.h = 0 /\ IsTree(t.s, {"try"}) /\ TryAt(c, m, t.at, t.m, t.s)
       /\ JumpsAt(c, m, t.ends, t.m)

\* What a task leaves to the next one.
WithArgs(th, xs) == th + Len(xs)

EndH(t) ==
  CASE t.t = "expr" -> t.h + 1
    [] t.t = "args" -> WithArgs(t.h, t.xs)
    [] t.t = "emit" -> t.left
    [] OTHER        -> 0

EndM(t) == IF t.t = "emit" THEN TriesBehind(t.ins, t.m) ELSE t.m

Lined(ts) ==
  \A k \in 1..(Len(ts) - 1) : ts[k + 1].h = EndH(ts[k]) /\ ts[k + 1].m = EndM(ts[k])

Falling(ts) == \A j, k \in 1..Len(ts) : j <= k => ts[k].m <= ts[j].m

\* The next task begins behind the last instruction.
StartsAt(ts, h, m) ==
  Len(ts) > 0 => ts[1].h = h[Len(h)] /\ ts[1].m = m[Len(m)]

TasksOK(ts, c, h, m, nx, n) ==
  /\ IsList(ts) /\ Lined(ts) /\ Falling(ts) /\ StartsAt(ts, h, m)
  /\ \A k \in 1..Len(ts) : TaskOK(ts[k], c, h, m, nx, n)

NamesOK(ns, nx) == \A x \in DOMAIN ns : ns[x] \in 1..nx

MadeSoFar ==
  /\ source \in Seq(FunctionTrees) /\ source # <<>>
  /\ IsList(made) /\ Len(made) <= Len(source)
  /\ phase \in {"run", "done", "error"}
  /\ phase = "run" => Len(made) < Len(source)
  /\ phase = "done" => Len(made) = Len(source)
  /\ \A f \in 1..Len(made) : MadeOK(made[f], Len(source))

GenInv ==
  /\ MadeSoFar
  /\ phase = "run" =>
       /\ CodeOK(code, heights, tries, next, Len(source))
       /\ TasksOK(todo, code, heights, tries, next, Len(source))
       /\ NamesOK(names, next)

-----------------------------------------------------------------------------
(* Lists *)

\* A list is a sequence of its own elements.
LEMMA ListIsSeq ==
  ASSUME NEW s, IsList(s) PROVE s \in Seq({s[i] : i \in 1..Len(s)})
<1>1. s \in [1..Len(s) -> {s[i] : i \in 1..Len(s)}] BY DEF IsList
<1> QED BY <1>1, SeqDef DEF IsList

\* Any sequence is a list.
LEMMA SeqIsList ==
  ASSUME NEW S, NEW s \in Seq(S) PROVE IsList(s) /\ DOMAIN s = 1..Len(s)
BY LenProperties DEF IsList

\* Append adds one element and leaves the others alone.
LEMMA AppendToList ==
  ASSUME NEW s, IsList(s), NEW x
  PROVE  /\ IsList(Append(s, x)) /\ Len(Append(s, x)) = Len(s) + 1
         /\ \A i \in 1..Len(s) : Append(s, x)[i] = s[i]
         /\ Append(s, x)[Len(s) + 1] = x
<1> DEFINE S == {s[i] : i \in 1..Len(s)} \cup {x}
<1>1. s \in Seq(S)
  <2>1. s \in [1..Len(s) -> S] BY DEF IsList
  <2> QED BY <2>1, SeqDef DEF IsList
<1>2. x \in S OBVIOUS
<1> HIDE DEF S
<1>3. Append(s, x) \in Seq(S) BY <1>1, <1>2, AppendProperties
<1>4. /\ Len(Append(s, x)) = Len(s) + 1
      /\ \A i \in 1..Len(s) : Append(s, x)[i] = s[i]
      /\ Append(s, x)[Len(s) + 1] = x
  BY <1>1, <1>2, AppendProperties
<1> QED BY <1>3, <1>4, SeqIsList

\* A concatenation has the elements of the one and then of the other.
LEMMA ConcatLists ==
  ASSUME NEW s, NEW t, IsList(s), IsList(t)
  PROVE  /\ IsList(s \o t) /\ Len(s \o t) = Len(s) + Len(t)
         /\ \A i \in 1..Len(s) : (s \o t)[i] = s[i]
         /\ \A i \in 1..Len(t) : (s \o t)[Len(s) + i] = t[i]
<1> DEFINE S == {s[i] : i \in 1..Len(s)} \cup {t[i] : i \in 1..Len(t)}
<1>1. s \in Seq(S)
  <2>1. s \in [1..Len(s) -> S] BY DEF IsList
  <2> QED BY <2>1, SeqDef DEF IsList
<1>2. t \in Seq(S)
  <2>1. t \in [1..Len(t) -> S] BY DEF IsList
  <2> QED BY <2>1, SeqDef DEF IsList
<1> HIDE DEF S
<1>3. s \o t \in Seq(S) /\ Len(s \o t) = Len(s) + Len(t) BY <1>1, <1>2, ConcatProperties
<1>4. \A i \in 1..(Len(s) + Len(t)) :
        (s \o t)[i] = IF i <= Len(s) THEN s[i] ELSE t[i - Len(s)]
  BY <1>1, <1>2, ConcatProperties
<1>5. Len(s) \in Nat /\ Len(t) \in Nat BY DEF IsList
<1>6. \A i \in 1..Len(s) : (s \o t)[i] = s[i] BY <1>4, <1>5
<1>7. \A i \in 1..Len(t) : (s \o t)[Len(s) + i] = t[i]
  <2> TAKE i \in 1..Len(t)
  <2>1. Len(s) + i \in 1..(Len(s) + Len(t)) /\ ~(Len(s) + i <= Len(s)) /\ (Len(s) + i) - Len(s) = i
    BY <1>5
  <2> QED BY <2>1, <1>4
<1> QED BY <1>3, <1>6, <1>7, SeqIsList

\* The tail of a list begins with its second element.
LEMMA TailOfList ==
  ASSUME NEW s, IsList(s), s # <<>>
  PROVE  /\ Len(s) > 0 /\ Head(s) = s[1]
         /\ IsList(Tail(s)) /\ Len(Tail(s)) = Len(s) - 1
         /\ \A i \in 1..(Len(s) - 1) : Tail(s)[i] = s[i + 1]
<1> DEFINE S == {s[i] : i \in 1..Len(s)}
<1>1. s \in Seq(S) BY ListIsSeq
<1> HIDE DEF S
<1>2. Tail(s) \in Seq(S) /\ Len(Tail(s)) = Len(s) - 1
  BY <1>1, HeadTailProperties
<1>3. \A i \in 1..Len(Tail(s)) : Tail(s)[i] = s[i + 1] BY <1>1, HeadTailProperties
<1>4. Len(s) > 0 /\ Head(s) = s[1] BY <1>1, EmptySeq, LenProperties
<1> QED BY <1>2, <1>3, <1>4, SeqIsList

\* A list that is not empty has a first element, and the empty one has none.
LEMMA EmptyList ==
  ASSUME NEW s, IsList(s) PROVE s = <<>> <=> Len(s) = 0
<1>1. s \in Seq({s[i] : i \in 1..Len(s)}) BY ListIsSeq
<1> QED BY <1>1, EmptySeq

\* A function on 1..n is a list.
LEMMA FunctionIsList ==
  ASSUME NEW n \in Nat, NEW S, NEW f \in [1..n -> S]
  PROVE  IsList(f) /\ Len(f) = n
<1>1. f \in Seq(S) BY SeqDef
<1>2. Len(f) = n BY <1>1, LenProperties
<1> QED BY <1>1, <1>2, SeqIsList

\* Tuples are lists.
LEMMA TuplesAreLists ==
  /\ IsList(<<>>) /\ Len(<<>>) = 0
  /\ \A x : IsList(<<x>>) /\ Len(<<x>>) = 1
  /\ \A x, y : IsList(<<x, y>>) /\ Len(<<x, y>>) = 2
  /\ \A x, y, z : IsList(<<x, y, z>>) /\ Len(<<x, y, z>>) = 3
<1>1. <<>> \in Seq({}) OBVIOUS
<1>2. ASSUME NEW x PROVE <<x>> \in Seq({x}) /\ Len(<<x>>) = 1 OBVIOUS
<1>3. ASSUME NEW x, NEW y PROVE <<x, y>> \in Seq({x, y}) /\ Len(<<x, y>>) = 2 OBVIOUS
<1>4. ASSUME NEW x, NEW y, NEW z
      PROVE <<x, y, z>> \in Seq({x, y, z}) /\ Len(<<x, y, z>>) = 3 OBVIOUS
<1> QED BY <1>1, <1>2, <1>3, <1>4, SeqIsList

-----------------------------------------------------------------------------
(* Code that grows and is patched *)

Alike(a, b) ==
  /\ b.op = a.op
  /\ a.op = "TRY" => b.hasCatch = a.hasCatch /\ b.hasFinally = a.hasFinally

\* Every position of c has an instruction of the same kind in c2.
Keeps(c, c2) == Len(c) <= Len(c2) /\ \A i \in 1..Len(c) : Alike(c[i], c2[i])

Longer(s, s2) == Len(s) <= Len(s2) /\ \A i \in 1..Len(s) : s2[i] = s[i]

Extends(c, h, m, nx, c2, h2, m2, nx2) ==
  /\ Keeps(c, c2) /\ Longer(h, h2) /\ Longer(m, m2) /\ nx <= nx2
  /\ Len(c) \in Nat /\ Len(c2) \in Nat /\ nx \in Nat /\ nx2 \in Nat
  /\ Len(h) = Len(c) + 1 /\ Len(m) = Len(c) + 1
  /\ Len(h2) \in Nat /\ Len(m2) = Len(h2)

\* Positions, operands and open finallys stay what they are.
LEMMA MarkKept ==
  ASSUME NEW c, NEW h, NEW m, NEW nx, NEW c2, NEW h2, NEW m2, NEW nx2,
         Extends(c, h, m, nx, c2, h2, m2, nx2), NEW p, NEW d
  PROVE  /\ Mark(h, m, p, d) => Mark(h2, m2, p, d)
         /\ MarkBelow(h, m, p, d) => MarkBelow(h2, m2, p, d)
BY DEF Extends, Longer, Mark, MarkBelow

LEMMA JumpAtKept ==
  ASSUME NEW c, NEW h, NEW m, NEW nx, NEW c2, NEW h2, NEW m2, NEW nx2,
         Extends(c, h, m, nx, c2, h2, m2, nx2), NEW p, NEW d, JumpAt(c, m, p, d)
  PROVE  JumpAt(c2, m2, p, d)
<1>1. p \in 1..Len(c) /\ p \in 1..Len(m) /\ p \in 1..Len(c2)
  BY DEF Extends, Keeps, JumpAt
<1>2. c2[p].op = c[p].op BY <1>1 DEF Extends, Keeps, Alike
<1>3. m2[p] = m[p] BY <1>1 DEF Extends, Longer
<1> QED BY <1>1, <1>2, <1>3 DEF JumpAt

LEMMA JumpsAtKept ==
  ASSUME NEW c, NEW h, NEW m, NEW nx, NEW c2, NEW h2, NEW m2, NEW nx2,
         Extends(c, h, m, nx, c2, h2, m2, nx2), NEW ps, NEW d, JumpsAt(c, m, ps, d)
  PROVE  JumpsAt(c2, m2, ps, d)
BY JumpAtKept DEF JumpsAt

LEMMA TryAtKept ==
  ASSUME NEW c, NEW h, NEW m, NEW nx, NEW c2, NEW h2, NEW m2, NEW nx2,
         Extends(c, h, m, nx, c2, h2, m2, nx2), NEW p, NEW d, NEW s, TryAt(c, m, p, d, s)
  PROVE  TryAt(c2, m2, p, d, s)
<1>1. p \in 1..Len(c) /\ p \in 1..Len(m) /\ p \in 1..Len(c2)
  BY DEF Extends, Keeps, TryAt
<1>2. Alike(c[p], c2[p]) BY <1>1 DEF Extends, Keeps
<1>3. m2[p] = m[p] BY <1>1 DEF Extends, Longer
<1> QED BY <1>1, <1>2, <1>3 DEF TryAt, Alike

LEMMA FinallyBegunKept ==
  ASSUME NEW c, NEW h, NEW m, NEW nx, NEW c2, NEW h2, NEW m2, NEW nx2,
         Extends(c, h, m, nx, c2, h2, m2, nx2), NEW d, FinallyBegun(c, m, d)
  PROVE  FinallyBegun(c2, m2, d)
<1>1. PICK j \in 1..Len(c) : c[j].op = "TRY" /\ c[j].hasFinally /\ m[j] = d
  BY DEF FinallyBegun
<1>2. j \in 1..Len(c2) /\ j \in 1..Len(m) BY <1>1 DEF Extends, Keeps
<1>3. Alike(c[j], c2[j]) BY <1>1 DEF Extends, Keeps
<1>4. m2[j] = m[j] BY <1>2 DEF Extends, Longer
<1> QED BY <1>1, <1>2, <1>3, <1>4 DEF FinallyBegun, Alike

LEMMA OperandsKept ==
  ASSUME NEW nx \in Nat, NEW nx2 \in Nat, nx <= nx2, NEW n, NEW ins, Operands(ins, nx, n)
  PROVE  Operands(ins, nx2, n)
BY DEF Operands

\* An instruction that nobody patches stays as good as it was.
LEMMA InstrKept ==
  ASSUME NEW c, NEW h, NEW m, NEW nx, NEW c2, NEW h2, NEW m2, NEW nx2, NEW n,
         Extends(c, h, m, nx, c2, h2, m2, nx2),
         NEW i \in 1..Len(c), c2[i] = c[i], InstrOK(c, h, m, nx, n, i)
  PROVE  InstrOK(c2, h2, m2, nx2, n, i)
<1>1. i \in 1..Len(h) /\ i + 1 \in 1..Len(h) /\ i \in 1..Len(m) /\ i + 1 \in 1..Len(m)
  BY DEF Extends
<1>2. h2[i] = h[i] /\ h2[i + 1] = h[i + 1] /\ m2[i] = m[i] /\ m2[i + 1] = m[i + 1]
  BY <1>1 DEF Extends, Longer
<1>3. Operands(c2[i], nx2, n) BY OperandsKept DEF Extends, InstrOK
<1>4. c2[i].op \in {"JMP", "JZ"} => MarkBelow(h2, m2, c2[i].to, m2[i])
  <2>1. c[i].op \in {"JMP", "JZ"} => MarkBelow(h, m, c[i].to, m[i]) BY DEF InstrOK
  <2> QED BY <2>1, <1>2, MarkKept
<1>5. c2[i].op = "TRY" => TryOK(c2, h2, m2, nx2, i)
  <2> SUFFICES ASSUME c[i].op = "TRY" PROVE TryOK(c2, h2, m2, nx2, i) OBVIOUS
  <2>1. TryOK(c, h, m, nx, i) BY DEF InstrOK
  <2>2. Mark(h2, m2, c[i].catch, m[i]) /\ Mark(h2, m2, c[i].finally, m[i])
    BY <2>1, MarkKept DEF TryOK
  <2>3. c[i].hasCatch => c[i].slot \in 1..nx2
    <3>1. nx <= nx2 /\ nx \in Nat /\ nx2 \in Nat BY DEF Extends
    <3>2. c[i].hasCatch => c[i].slot \in 1..nx BY <2>1 DEF TryOK
    <3> QED BY <3>1, <3>2
  <2> QED BY <2>1, <2>2, <2>3, <1>2 DEF TryOK
<1>6. c2[i].op = "FINALLY_END" => FinallyBegun(c2, m2, m2[i])
  <2>1. c[i].op = "FINALLY_END" => FinallyBegun(c, m, m[i]) BY DEF InstrOK
  <2> QED BY <2>1, <1>2, FinallyBegunKept
<1>7. /\ Pops(c2[i]) <= h2[i]
      /\ Flows(c2[i]) => h2[i + 1] <= h2[i] - Pops(c2[i]) + Pushes(c2[i])
      /\ c2[i].op = "ENDTRY" => m2[i] > 0
      /\ m2[i + 1] = IF c2[i].op = "TRY" THEN m2[i] + 1 ELSE TriesBehind(c2[i], m2[i])
  BY <1>2 DEF InstrOK
<1> QED BY <1>3, <1>4, <1>5, <1>6, <1>7 DEF InstrOK

\* So does a task that is not the next one.
LEMMA TaskKept ==
  ASSUME NEW c, NEW h, NEW m, NEW nx, NEW c2, NEW h2, NEW m2, NEW nx2, NEW n,
         Extends(c, h, m, nx, c2, h2, m2, nx2), NEW t, TaskOK(t, c, h, m, nx, n)
  PROVE  TaskOK(t, c2, h2, m2, nx2, n)
<1>1. t.t = "emit" => EmitOK(t, c2, m2, nx2, n)
  <2> SUFFICES ASSUME t.t = "emit" PROVE EmitOK(t, c2, m2, nx2, n) OBVIOUS
  <2>1. EmitOK(t, c, m, nx, n) BY DEF TaskOK
  <2>2. Operands(t.ins, nx2, n) BY <2>1, OperandsKept DEF EmitOK, EmitFits, Extends
  <2>3. t.ins.op = "FINALLY_END" => FinallyBegun(c2, m2, t.m)
    BY <2>1, FinallyBegunKept DEF EmitOK, EmitFits
  <2> QED BY <2>1, <2>2, <2>3 DEF EmitOK, EmitFits
<1>2. \A p, d : JumpAt(c, m, p, d) => JumpAt(c2, m2, p, d) BY JumpAtKept
<1>3. \A ps, d : JumpsAt(c, m, ps, d) => JumpsAt(c2, m2, ps, d) BY JumpsAtKept
<1>4. \A p, d : Mark(h, m, p, d) => Mark(h2, m2, p, d) BY MarkKept
<1>5. \A p, d, s : TryAt(c, m, p, d, s) => TryAt(c2, m2, p, d, s) BY TryAtKept
<1> QED BY <1>1, <1>2, <1>3, <1>4, <1>5 DEF TaskOK

\* Code is good if every instruction is new and good, or an old one.
LEMMA CodeExtended ==
  ASSUME NEW c, NEW h, NEW m, NEW nx, NEW c2, NEW h2, NEW m2, NEW nx2, NEW n,
         CodeOK(c, h, m, nx, n), Extends(c, h, m, nx, c2, h2, m2, nx2),
         IsList(c2), h2 \in Seq(Nat), m2 \in Seq(Nat),
         Len(h2) = Len(c2) + 1, Len(m2) = Len(c2) + 1,
         \A i \in 1..Len(c2) :
           \/ i <= Len(c) /\ c2[i] = c[i]
           \/ InstrOK(c2, h2, m2, nx2, n, i)
  PROVE  CodeOK(c2, h2, m2, nx2, n)
<1>1. ASSUME NEW i \in 1..Len(c2), i <= Len(c), c2[i] = c[i]
      PROVE InstrOK(c2, h2, m2, nx2, n, i)
  <2>1. i \in 1..Len(c) BY <1>1 DEF Extends
  <2>2. InstrOK(c, h, m, nx, n, i) BY <2>1 DEF CodeOK
  <2> QED BY <1>1, <2>1, <2>2, InstrKept
<1>2. 1 \in 1..Len(h) /\ 1 \in 1..Len(m) BY DEF Extends
<1>3. h2[1] = 0 /\ m2[1] = 0 BY <1>2 DEF Extends, Longer, CodeOK
<1> QED BY <1>1, <1>3 DEF CodeOK, Extends

\* More slots are given out.
LEMMA SlotsGrow ==
  ASSUME NEW c, NEW h, NEW m, NEW nx, NEW n, CodeOK(c, h, m, nx, n), NEW nx2 \in Nat, nx <= nx2
  PROVE  CodeOK(c, h, m, nx2, n) /\ Extends(c, h, m, nx, c, h, m, nx2)
<1>1. Len(c) \in Nat BY DEF CodeOK, IsList
<1>2. Keeps(c, c) /\ Longer(h, h) /\ Longer(m, m) BY <1>1 DEF CodeOK, Keeps, Longer, Alike
<1>3. Extends(c, h, m, nx, c, h, m, nx2) BY <1>1, <1>2 DEF Extends, CodeOK
<1>4. CodeOK(c, h, m, nx2, n)
  <2>1. IsList(c) /\ h \in Seq(Nat) /\ m \in Seq(Nat) /\ Len(h) = Len(c) + 1 /\ Len(m) = Len(c) + 1
    BY DEF CodeOK
  <2>2. \A i \in 1..Len(c) : i <= Len(c) /\ c[i] = c[i] BY <1>1
  <2> QED BY <1>3, <2>1, <2>2, CodeExtended
<1> QED BY <1>3, <1>4

LEMMA ExtendsTwice ==
  ASSUME NEW c, NEW h, NEW m, NEW nx, NEW c1, NEW h1, NEW m1, NEW nx1,
         NEW c2, NEW h2, NEW m2, NEW nx2,
         Extends(c, h, m, nx, c1, h1, m1, nx1), Extends(c1, h1, m1, nx1, c2, h2, m2, nx2)
  PROVE  Extends(c, h, m, nx, c2, h2, m2, nx2)
<1>1. Keeps(c, c2)
  <2>1. Len(c) <= Len(c2) /\ 1..Len(c) \subseteq 1..Len(c1) BY DEF Extends, Keeps
  <2>2. ASSUME NEW i \in 1..Len(c) PROVE Alike(c[i], c2[i])
    <3>1. Alike(c[i], c1[i]) BY DEF Extends, Keeps
    <3>2. Alike(c1[i], c2[i]) BY <2>1 DEF Extends, Keeps
    <3> QED BY <3>1, <3>2 DEF Alike
  <2> QED BY <2>1, <2>2 DEF Keeps
<1>2. Longer(h, h2) BY DEF Extends, Longer
<1>3. Longer(m, m2) BY DEF Extends, Longer
<1>4. nx <= nx2 BY DEF Extends
<1> QED BY <1>1, <1>2, <1>3, <1>4 DEF Extends

\* An instruction is appended, with what there is behind it.
LEMMA AppendKeeps ==
  ASSUME NEW c, NEW h, NEW m, NEW nx, NEW n, CodeOK(c, h, m, nx, n),
         NEW ins, NEW h1 \in Nat, NEW m1 \in Nat
  PROVE  LET c2 == Append(c, ins)  h2 == Append(h, h1)  m2 == Append(m, m1) IN
         /\ Extends(c, h, m, nx, c2, h2, m2, nx)
         /\ Len(c2) = Len(c) + 1 /\ c2[Len(c) + 1] = ins
         /\ h2[Len(c) + 1] = h[Len(h)] /\ m2[Len(c) + 1] = m[Len(m)]
         /\ Len(h2) = Len(h) + 1 /\ Len(m2) = Len(m) + 1
         /\ h2[Len(c) + 2] = h1 /\ m2[Len(c) + 2] = m1
         /\ InstrOK(c2, h2, m2, nx, n, Len(c) + 1) => CodeOK(c2, h2, m2, nx, n)
<1> DEFINE c2 == Append(c, ins)  h2 == Append(h, h1)  m2 == Append(m, m1)
<1>1. /\ IsList(c) /\ Len(c) \in Nat /\ h \in Seq(Nat) /\ m \in Seq(Nat) /\ nx \in Nat
      /\ Len(h) = Len(c) + 1 /\ Len(m) = Len(c) + 1
  BY DEF CodeOK, IsList
<1>2. /\ IsList(c2) /\ Len(c2) = Len(c) + 1 /\ c2[Len(c) + 1] = ins
      /\ \A i \in 1..Len(c) : c2[i] = c[i]
  BY <1>1, AppendToList
<1>3. /\ h2 \in Seq(Nat) /\ Len(h2) = Len(h) + 1 /\ h2[Len(h) + 1] = h1
      /\ \A i \in 1..Len(h) : h2[i] = h[i]
  BY <1>1, AppendProperties
<1>4. /\ m2 \in Seq(Nat) /\ Len(m2) = Len(m) + 1 /\ m2[Len(m) + 1] = m1
      /\ \A i \in 1..Len(m) : m2[i] = m[i]
  BY <1>1, AppendProperties
<1> HIDE DEF c2, h2, m2
<1>5. Keeps(c, c2) BY <1>1, <1>2 DEF Keeps, Alike
<1>6. Longer(h, h2) /\ Longer(m, m2) BY <1>1, <1>3, <1>4 DEF Longer
<1>7. Extends(c, h, m, nx, c2, h2, m2, nx)
  BY <1>1, <1>2, <1>3, <1>4, <1>5, <1>6 DEF Extends
<1>8. h2[Len(c) + 1] = h[Len(h)] /\ m2[Len(c) + 1] = m[Len(m)]
  <2>1. Len(h) \in 1..Len(h) /\ Len(m) \in 1..Len(m) BY <1>1
  <2>2. h2[Len(h)] = h[Len(h)] /\ m2[Len(m)] = m[Len(m)] BY <2>1, <1>3, <1>4
  <2> QED BY <2>2, <1>1
<1>9. h2[Len(c) + 2] = h1 /\ m2[Len(c) + 2] = m1 BY <1>1, <1>3, <1>4
<1>10. ASSUME InstrOK(c2, h2, m2, nx, n, Len(c) + 1) PROVE CodeOK(c2, h2, m2, nx, n)
  <2>1. \A i \in 1..Len(c2) :
          (i <= Len(c) /\ c2[i] = c[i]) \/ InstrOK(c2, h2, m2, nx, n, i)
    <3> TAKE i \in 1..Len(c2)
    <3>1. i \in 1..Len(c) \/ i = Len(c) + 1 BY <1>1, <1>2
    <3>2. CASE i \in 1..Len(c) BY <3>2, <1>1, <1>2
    <3>3. CASE i = Len(c) + 1 BY <3>3, <1>10
    <3> QED BY <3>1, <3>2, <3>3
  <2>2. Len(h2) = Len(c2) + 1 /\ Len(m2) = Len(c2) + 1 BY <1>1, <1>2, <1>3, <1>4
  <2> QED BY <1>2, <1>3, <1>4, <1>7, <2>1, <2>2, CodeExtended
<1> QED BY <1>2, <1>3, <1>4, <1>7, <1>8, <1>9, <1>10 DEF c2, h2, m2

\* An instruction whose operands are there, that is no jump and no try.
LEMMA EmitKeeps ==
  ASSUME NEW c, NEW h, NEW m, NEW nx, NEW n, CodeOK(c, h, m, nx, n),
         NEW t, EmitOK(t, c, m, nx, n), t.h = h[Len(h)], t.m = m[Len(m)]
  PROVE  LET c2 == Append(c, t.ins)
             h2 == Append(h, t.left)
             m2 == Append(m, TriesBehind(t.ins, t.m))
         IN  /\ CodeOK(c2, h2, m2, nx, n) /\ Extends(c, h, m, nx, c2, h2, m2, nx)
             /\ h2[Len(h2)] = t.left /\ m2[Len(m2)] = TriesBehind(t.ins, t.m)
<1> DEFINE d == TriesBehind(t.ins, t.m)
           c2 == Append(c, t.ins)  h2 == Append(h, t.left)  m2 == Append(m, d)
           i == Len(c) + 1
<1>1. t.m \in Nat
  <2>1. m \in Seq(Nat) /\ Len(m) \in 1..Len(m) BY DEF CodeOK, IsList
  <2> QED BY <2>1
<1>2. d \in Nat BY <1>1 DEF EmitOK, EmitFits, TriesBehind
<1>3. t.left \in Nat BY DEF EmitOK, EmitFits
<1> HIDE DEF d
<1>4. /\ Extends(c, h, m, nx, c2, h2, m2, nx)
      /\ c2[i] = t.ins
      /\ Len(h2) = Len(h) + 1 /\ Len(m2) = Len(m) + 1
      /\ h2[i] = t.h /\ m2[i] = t.m /\ h2[Len(c) + 2] = t.left /\ m2[Len(c) + 2] = d
      /\ InstrOK(c2, h2, m2, nx, n, i) => CodeOK(c2, h2, m2, nx, n)
  <2>1. /\ Extends(c, h, m, nx, c2, h2, m2, nx)
        /\ c2[i] = t.ins
        /\ Len(h2) = Len(h) + 1 /\ Len(m2) = Len(m) + 1
    BY <1>2, <1>3, AppendKeeps
  <2>2. /\ h2[i] = h[Len(h)] /\ m2[i] = m[Len(m)]
        /\ h2[Len(c) + 2] = t.left /\ m2[Len(c) + 2] = d
        /\ InstrOK(c2, h2, m2, nx, n, i) => CodeOK(c2, h2, m2, nx, n)
    BY <1>2, <1>3, AppendKeeps
  <2> HIDE DEF c2, h2, m2, i
  <2> QED BY <2>1, <2>2
<1>5. /\ h2[i + 1] = t.left /\ m2[i + 1] = d
      /\ h2[Len(h2)] = t.left /\ m2[Len(m2)] = d
  <2>1. i + 1 = Len(c) + 2 BY DEF CodeOK, IsList
  <2>2. Len(h2) = Len(c) + 2 /\ Len(m2) = Len(c) + 2 BY <1>4 DEF CodeOK, IsList
  <2> QED BY <2>1, <2>2, <1>4
<1> HIDE DEF c2, h2, m2, i
<1>6. FinallyBegun(c, m, t.m) => FinallyBegun(c2, m2, t.m) BY <1>4, FinallyBegunKept
<1>7. InstrOK(c2, h2, m2, nx, n, i)
  <2>1. Operands(c2[i], nx, n) BY <1>4 DEF EmitOK, EmitFits
  <2>2. Pops(c2[i]) <= h2[i] BY <1>4 DEF EmitOK, EmitFits
  <2>3. Flows(c2[i]) => h2[i + 1] <= h2[i] - Pops(c2[i]) + Pushes(c2[i])
    BY <1>4, <1>5 DEF EmitOK, EmitFits
  <2>4. c2[i].op \notin {"JMP", "JZ", "TRY"} BY <1>4 DEF EmitOK, EmitFits
  <2>5. c2[i].op = "ENDTRY" => m2[i] > 0 BY <1>4 DEF EmitOK, EmitFits
  <2>6. m2[i + 1] = TriesBehind(c2[i], m2[i]) BY <1>4, <1>5 DEF d
  <2>7. c2[i].op = "FINALLY_END" => FinallyBegun(c2, m2, m2[i]) BY <1>4, <1>6 DEF EmitOK, EmitFits
  <2> QED BY <2>1, <2>2, <2>3, <2>4, <2>5, <2>6, <2>7 DEF InstrOK
<1> QED BY <1>4, <1>5, <1>7 DEF c2, h2, m2, d

\* A jump to a place that is there, or to the one behind the jump.
LEMMA JumpKeeps ==
  ASSUME NEW c, NEW h, NEW m, NEW nx, NEW n, CodeOK(c, h, m, nx, n),
         NEW op \in {"JMP", "JZ"}, NEW to,
         IF op = "JZ" THEN h[Len(h)] = 1 ELSE h[Len(h)] = 0,
         MarkBelow(h, m, to, m[Len(m)]),
         NEW at, at = Len(c) + 1, NEW behind, behind = Len(c) + 2
  PROVE  LET c2 == Append(c, Goto(op, to))  h2 == Append(h, 0)  m2 == Append(m, m[Len(m)]) IN
         /\ CodeOK(c2, h2, m2, nx, n)
         /\ Extends(c, h, m, nx, c2, h2, m2, nx)
         /\ Len(c2) = at
         /\ JumpAt(c2, m2, at, m[Len(m)])
         /\ Mark(h2, m2, behind, m[Len(m)])
         /\ h2[Len(h2)] = 0 /\ m2[Len(m2)] = m[Len(m)]
<1> DEFINE d == m[Len(m)]
           c2 == Append(c, Goto(op, to))  h2 == Append(h, 0)  m2 == Append(m, d)
           i == Len(c) + 1
<1>1. Len(c) \in Nat /\ Len(h) = Len(c) + 1 /\ Len(m) = Len(c) + 1 BY DEF CodeOK, IsList
<1>2. d \in Nat
  <2>1. m \in Seq(Nat) /\ Len(m) \in 1..Len(m) BY <1>1 DEF CodeOK
  <2> QED BY <2>1
<1> HIDE DEF d
<1>3. /\ Extends(c, h, m, nx, c2, h2, m2, nx)
      /\ Len(c2) = Len(c) + 1 /\ c2[i] = Goto(op, to)
      /\ h2[i] = h[Len(h)] /\ m2[i] = d /\ h2[Len(c) + 2] = 0 /\ m2[Len(c) + 2] = d
      /\ Len(h2) = Len(h) + 1 /\ Len(m2) = Len(m) + 1
      /\ InstrOK(c2, h2, m2, nx, n, i) => CodeOK(c2, h2, m2, nx, n)
  BY <1>2, AppendKeeps DEF d
<1>4. h2[i + 1] = 0 /\ m2[i + 1] = d
  <2>1. i + 1 = Len(c) + 2 BY <1>1
  <2> QED BY <2>1, <1>3
<1> HIDE DEF c2, h2, m2
<1>5. MarkBelow(h2, m2, to, d) BY <1>3, MarkKept DEF d
<1>6. c2[i].op = op /\ c2[i].to = to BY <1>3 DEF Goto
<1>7. InstrOK(c2, h2, m2, nx, n, i)
  <2>1. Operands(c2[i], nx, n) BY <1>6 DEF Operands, Opcodes
  <2>2. Pops(c2[i]) = (IF op = "JZ" THEN 1 ELSE 0) /\ Pushes(c2[i]) = 0
    BY <1>6 DEF Pops, Pushes
  <2>3. Pops(c2[i]) = h2[i] BY <2>2, <1>3
  <2>4. h2[i] \in Nat BY <1>3
  <2>5. m2[i + 1] = TriesBehind(c2[i], m2[i]) BY <1>3, <1>4, <1>6 DEF TriesBehind
  <2>6. MarkBelow(h2, m2, c2[i].to, m2[i]) BY <1>3, <1>5, <1>6
  <2> HIDE DEF i
  <2>7. Pops(c2[i]) <= h2[i] BY <2>3, <2>4
  <2>8. h2[i + 1] <= h2[i] - Pops(c2[i]) + Pushes(c2[i]) BY <2>2, <2>3, <2>4, <1>4
  <2> QED BY <2>1, <2>5, <2>6, <2>7, <2>8, <1>6 DEF InstrOK
<1>8. JumpAt(c2, m2, i, d) BY <1>1, <1>2, <1>3, <1>6 DEF JumpAt
<1>9. Mark(h2, m2, Len(c) + 2, d) BY <1>1, <1>3 DEF Mark
<1>10. h2[Len(h2)] = 0 /\ m2[Len(m2)] = d
  <2>1. Len(h2) = Len(c) + 2 /\ Len(m2) = Len(c) + 2 BY <1>1, <1>3
  <2> QED BY <2>1, <1>3
<1>11. i = at /\ Len(c) + 2 = behind OBVIOUS
<1> QED BY <1>3, <1>7, <1>8, <1>9, <1>10, <1>11 DEF c2, h2, m2, d

\* Jumps out of at least as many tries as there are at their new target.
LEMMA PatchKeeps ==
  ASSUME NEW c, NEW h, NEW m, NEW nx, NEW n, CodeOK(c, h, m, nx, n),
         NEW ps, NEW to, NEW d, JumpsAt(c, m, ps, d), Mark(h, m, to, d)
  PROVE  LET c2 == Patched(c, ps, to) IN
         /\ CodeOK(c2, h, m, nx, n)
         /\ Extends(c, h, m, nx, c2, h, m, nx)
         /\ Len(c2) = Len(c)
<1> DEFINE c2 == Patched(c, ps, to)
<1>1. /\ Len(c) \in Nat /\ Len(h) = Len(c) + 1 /\ Len(m) = Len(c) + 1 /\ nx \in Nat
      /\ h \in Seq(Nat) /\ m \in Seq(Nat) /\ DOMAIN c = 1..Len(c)
  BY DEF CodeOK, IsList
<1>2. \A i \in 1..Len(c) : c2[i] = IF i \in ps THEN Goto(c[i].op, to) ELSE c[i]
  BY <1>1 DEF Patched
<1>3. IsList(c2) /\ Len(c2) = Len(c)
  <2>1. c2 \in [1..Len(c) -> {c2[i] : i \in 1..Len(c)}] BY <1>1 DEF Patched
  <2> HIDE DEF c2
  <2> QED BY <1>1, <2>1, FunctionIsList
<1> HIDE DEF c2
<1>4. \A i \in 1..Len(c) : i \in ps => c[i].op \in {"JMP", "JZ"} /\ d <= m[i]
  BY DEF JumpsAt, JumpAt
<1>5. Keeps(c, c2)
  <2>1. ASSUME NEW i \in 1..Len(c) PROVE Alike(c[i], c2[i])
    <3>1. CASE i \in ps
      <4>1. c2[i] = Goto(c[i].op, to) BY <3>1, <1>2
      <4>2. c2[i].op = c[i].op BY <4>1 DEF Goto
      <4>3. c[i].op # "TRY" BY <3>1, <1>4
      <4> QED BY <4>2, <4>3 DEF Alike
    <3>2. CASE i \notin ps BY <3>2, <1>2 DEF Alike
    <3> QED BY <3>1, <3>2
  <2> QED BY <2>1, <1>1, <1>3 DEF Keeps
<1>6. Longer(h, h) /\ Longer(m, m) BY <1>1 DEF Longer
<1>7. Extends(c, h, m, nx, c2, h, m, nx) BY <1>1, <1>3, <1>5, <1>6 DEF Extends
<1>8. ASSUME NEW i \in 1..Len(c), i \in ps PROVE InstrOK(c2, h, m, nx, n, i)
  <2>1. InstrOK(c, h, m, nx, n, i) BY DEF CodeOK
  <2>2. c2[i] = Goto(c[i].op, to) /\ c[i].op \in {"JMP", "JZ"} /\ d <= m[i]
    BY <1>2, <1>4, <1>8
  <2>3. c2[i].op = c[i].op /\ c2[i].to = to BY <2>2 DEF Goto
  <2>4. Pops(c2[i]) = Pops(c[i]) /\ Pushes(c2[i]) = Pushes(c[i]) /\ Flows(c2[i]) = Flows(c[i])
    BY <2>2, <2>3 DEF Pops, Pushes, Flows
  <2>5. Operands(c2[i], nx, n) BY <2>2, <2>3 DEF Operands, Opcodes
  <2>6. MarkBelow(h, m, to, m[i]) BY <2>2 DEF Mark, MarkBelow
  <2>7. TriesBehind(c2[i], m[i]) = TriesBehind(c[i], m[i]) BY <2>3 DEF TriesBehind
  <2>8. c[i].op \notin {"TRY", "ENDTRY", "FINALLY_END"} BY <2>2
  <2> QED BY <2>1, <2>3, <2>4, <2>5, <2>6, <2>7, <2>8 DEF InstrOK
<1>9. \A i \in 1..Len(c2) : (i <= Len(c) /\ c2[i] = c[i]) \/ InstrOK(c2, h, m, nx, n, i)
  BY <1>1, <1>2, <1>3, <1>8
<1>10. CodeOK(c2, h, m, nx, n)
  <2>1. Len(h) = Len(c2) + 1 /\ Len(m) = Len(c2) + 1 BY <1>1, <1>3
  <2> QED BY <1>1, <1>3, <1>7, <1>9, <2>1, CodeExtended
<1> QED BY <1>3, <1>7, <1>10 DEF c2

\* The handlers of a try, that are at as many open tries as it is.
LEMMA PatchTryKeeps ==
  ASSUME NEW c, NEW h, NEW m, NEW nx, NEW n, CodeOK(c, h, m, nx, n),
         NEW at, NEW d, NEW s, TryAt(c, m, at, d, s),
         NEW catch, Mark(h, m, catch, d), NEW finally, Mark(h, m, finally, d)
  PROVE  LET c2 == PatchedTry(c, at, TryOf(s, catch, finally, c[at].slot)) IN
         /\ CodeOK(c2, h, m, nx, n)
         /\ Extends(c, h, m, nx, c2, h, m, nx)
         /\ Len(c2) = Len(c)
<1> DEFINE ins == TryOf(s, catch, finally, c[at].slot)
           c2 == PatchedTry(c, at, ins)
<1>1. /\ Len(c) \in Nat /\ Len(h) = Len(c) + 1 /\ Len(m) = Len(c) + 1 /\ nx \in Nat
      /\ h \in Seq(Nat) /\ m \in Seq(Nat) /\ DOMAIN c = 1..Len(c)
  BY DEF CodeOK, IsList
<1>2. \A i \in 1..Len(c) : c2[i] = IF i = at THEN ins ELSE c[i]
  BY <1>1 DEF PatchedTry
<1>3. IsList(c2) /\ Len(c2) = Len(c)
  <2>1. c2 \in [1..Len(c) -> {c2[i] : i \in 1..Len(c)}] BY <1>1 DEF PatchedTry
  <2> HIDE DEF c2
  <2> QED BY <1>1, <2>1, FunctionIsList
<1>4. /\ at \in 1..Len(c) /\ c[at].op = "TRY" /\ m[at] = d
      /\ c[at].hasCatch = s.hasCatch /\ c[at].hasFinally = s.hasFinally
  BY DEF TryAt
<1>5. /\ ins.op = "TRY" /\ ins.hasCatch = s.hasCatch /\ ins.hasFinally = s.hasFinally
      /\ ins.catch = catch /\ ins.finally = finally /\ ins.slot = c[at].slot
  BY DEF TryOf
<1> HIDE DEF c2, ins
<1>6. Keeps(c, c2)
  <2>1. ASSUME NEW i \in 1..Len(c) PROVE Alike(c[i], c2[i])
    <3>1. CASE i = at BY <3>1, <1>2, <1>4, <1>5 DEF Alike
    <3>2. CASE i # at BY <3>2, <1>2 DEF Alike
    <3> QED BY <3>1, <3>2
  <2> QED BY <2>1, <1>1, <1>3 DEF Keeps
<1>7. Longer(h, h) /\ Longer(m, m) BY <1>1 DEF Longer
<1>8. Extends(c, h, m, nx, c2, h, m, nx) BY <1>1, <1>3, <1>6, <1>7 DEF Extends
<1>9. InstrOK(c2, h, m, nx, n, at)
  <2>1. InstrOK(c, h, m, nx, n, at) BY <1>4 DEF CodeOK
  <2>2. c2[at] = ins BY <1>2, <1>4
  <2>3. c2[at].op = c[at].op BY <2>2, <1>4, <1>5
  <2>4. Pops(c2[at]) = Pops(c[at]) /\ Pushes(c2[at]) = Pushes(c[at]) /\ Flows(c2[at]) = Flows(c[at])
    BY <2>3, <1>4 DEF Pops, Pushes, Flows
  <2>5. Operands(c2[at], nx, n) BY <2>3, <1>4 DEF Operands, Opcodes
  <2>6. TryOK(c, h, m, nx, at) BY <2>1, <1>4 DEF InstrOK
  <2>7. TryOK(c2, h, m, nx, at) BY <2>2, <2>6, <1>4, <1>5 DEF TryOK
  <2> QED BY <2>1, <2>3, <2>4, <2>5, <2>7, <1>4 DEF InstrOK
<1>10. \A i \in 1..Len(c2) : (i <= Len(c) /\ c2[i] = c[i]) \/ InstrOK(c2, h, m, nx, n, i)
  BY <1>1, <1>2, <1>3, <1>9
<1>11. CodeOK(c2, h, m, nx, n)
  <2>1. Len(h) = Len(c2) + 1 /\ Len(m) = Len(c2) + 1 BY <1>1, <1>3
  <2> QED BY <1>1, <1>3, <1>8, <1>10, <2>1, CodeExtended
<1> QED BY <1>3, <1>8, <1>11 DEF c2, ins

\* A try begins where a statement does; it is its own target.
LEMMA TryKeeps ==
  ASSUME NEW c, NEW h, NEW m, NEW nx, NEW n, CodeOK(c, h, m, nx, n), h[Len(h)] = 0,
         NEW s, IsStatement(s), s.s = "try",
         NEW slot \in Nat, s.hasCatch => slot \in 1..nx
  PROVE  LET c2 == Append(c, TryOf(s, Len(c) + 1, Len(c) + 1, slot))
             h2 == Append(h, 0)
             m2 == Append(m, m[Len(m)] + 1)
         IN  /\ CodeOK(c2, h2, m2, nx, n)
             /\ Extends(c, h, m, nx, c2, h2, m2, nx)
             /\ TryAt(c2, m2, Len(c) + 1, m[Len(m)], s)
             /\ h2[Len(h2)] = 0 /\ m2[Len(m2)] = m[Len(m)] + 1
<1> DEFINE i == Len(c) + 1  d == m[Len(m)]
           ins == TryOf(s, i, i, slot)
           c2 == Append(c, ins)  h2 == Append(h, 0)  m2 == Append(m, d + 1)
<1>1. Len(c) \in Nat /\ Len(h) = Len(c) + 1 /\ Len(m) = Len(c) + 1 BY DEF CodeOK, IsList
<1>2. d \in Nat
  <2>1. m \in Seq(Nat) /\ Len(m) \in 1..Len(m) BY <1>1 DEF CodeOK
  <2> QED BY <2>1
<1>3. s.hasCatch \in BOOLEAN /\ s.hasFinally \in BOOLEAN /\ (s.hasCatch \/ s.hasFinally)
  BY DEF IsStatement
<1>4. /\ ins.op = "TRY" /\ ins.hasCatch = s.hasCatch /\ ins.hasFinally = s.hasFinally
      /\ ins.catch = i /\ ins.finally = i /\ ins.slot = slot
  BY DEF TryOf
<1> HIDE DEF d, ins
<1>5. /\ Extends(c, h, m, nx, c2, h2, m2, nx)
      /\ Len(c2) = Len(c) + 1 /\ c2[i] = ins
      /\ h2[i] = 0 /\ m2[i] = d /\ h2[Len(c) + 2] = 0 /\ m2[Len(c) + 2] = d + 1
      /\ Len(h2) = Len(h) + 1 /\ Len(m2) = Len(m) + 1
      /\ InstrOK(c2, h2, m2, nx, n, i) => CodeOK(c2, h2, m2, nx, n)
  <2>1. d + 1 \in Nat BY <1>2
  <2> QED BY <2>1, AppendKeeps DEF d
<1> HIDE DEF c2, h2, m2
<1>6. h2[i + 1] = 0 /\ m2[i + 1] = d + 1
  <2>1. i + 1 = Len(c) + 2 BY <1>1
  <2> QED BY <2>1, <1>5
<1>7. Mark(h2, m2, i, d) BY <1>1, <1>5 DEF Mark
<1>8. TryOK(c2, h2, m2, nx, i) BY <1>3, <1>4, <1>5, <1>7 DEF TryOK
<1>9. InstrOK(c2, h2, m2, nx, n, i)
  <2>1. Pops(c2[i]) = 0 /\ Pushes(c2[i]) = 0 BY <1>4, <1>5 DEF Pops, Pushes
  <2>2. Operands(c2[i], nx, n) BY <1>4, <1>5 DEF Operands, Opcodes
  <2>3. Pops(c2[i]) <= h2[i] /\ h2[i + 1] <= h2[i] - Pops(c2[i]) + Pushes(c2[i])
    <3> HIDE DEF i
    <3> QED BY <2>1, <1>5, <1>6
  <2>4. c2[i].op = "TRY" BY <1>4, <1>5
  <2> HIDE DEF i
  <2> QED BY <2>2, <2>3, <2>4, <1>5, <1>6, <1>8 DEF InstrOK
<1>10. TryAt(c2, m2, i, d, s) BY <1>1, <1>4, <1>5 DEF TryAt
<1>11. h2[Len(h2)] = 0 /\ m2[Len(m2)] = d + 1
  <2>1. Len(h2) = Len(c) + 2 /\ Len(m2) = Len(c) + 2 BY <1>1, <1>5
  <2> QED BY <2>1, <1>5
<1> QED BY <1>5, <1>9, <1>10, <1>11 DEF c2, h2, m2, ins, d

-----------------------------------------------------------------------------
(* Tasks that follow each other *)

\* Where tasks stand for the first one of ts: they begin and end where it does.
Replaces(new, t) ==
  /\ IsList(new) /\ Lined(new) /\ Falling(new)
  /\ Len(new) > 0
  /\ EndH(new[Len(new)]) = EndH(t) /\ EndM(new[Len(new)]) = EndM(t)
  /\ \A k \in 1..Len(new) : t.m <= new[k].m /\ new[k].m \in Nat

\* The ms of tasks are numbers.
LEMMA TaskNumbers ==
  ASSUME NEW t, NEW c, NEW h, NEW m, NEW nx, NEW n, TaskOK(t, c, h, m, nx, n)
  PROVE  t.h \in Nat /\ t.m \in Nat
BY DEF TaskOK

\* The first task is done and leaves no other behind.
LEMMA TaskDone ==
  ASSUME NEW ts, IsList(ts), ts # <<>>, Lined(ts), Falling(ts)
  PROVE  LET rest == <<>> \o Tail(ts) IN
         /\ IsList(rest) /\ Lined(rest) /\ Falling(rest)
         /\ Len(rest) = Len(ts) - 1 /\ \A k \in 1..Len(rest) : rest[k] = ts[k + 1]
         /\ Len(rest) > 0 => rest[1].h = EndH(ts[1]) /\ rest[1].m = EndM(ts[1])
<1> DEFINE rest == <<>> \o Tail(ts)
<1>1. /\ Len(ts) > 0 /\ Len(ts) \in Nat /\ IsList(Tail(ts)) /\ Len(Tail(ts)) = Len(ts) - 1
      /\ \A k \in 1..(Len(ts) - 1) : Tail(ts)[k] = ts[k + 1]
  BY TailOfList DEF IsList
<1>2. /\ IsList(rest) /\ Len(rest) = 0 + Len(Tail(ts))
      /\ \A k \in 1..Len(Tail(ts)) : rest[0 + k] = Tail(ts)[k]
  BY <1>1, TuplesAreLists, ConcatLists
<1> HIDE DEF rest
<1>3. Len(rest) = Len(ts) - 1 BY <1>1, <1>2
<1>4. \A k \in 1..(Len(ts) - 1) : rest[k] = ts[k + 1]
  <2> TAKE k \in 1..(Len(ts) - 1)
  <2>1. rest[0 + k] = Tail(ts)[k] /\ 0 + k = k BY <1>1, <1>2
  <2> QED BY <2>1, <1>1
<1>5. Lined(rest)
  <2> SUFFICES ASSUME NEW k \in 1..(Len(rest) - 1)
               PROVE  rest[k + 1].h = EndH(rest[k]) /\ rest[k + 1].m = EndM(rest[k])
    BY DEF Lined
  <2>1. k \in 1..(Len(ts) - 1) /\ k + 1 \in 1..(Len(ts) - 1) BY <1>1, <1>3
  <2>2. rest[k] = ts[k + 1] /\ rest[k + 1] = ts[(k + 1) + 1] BY <2>1, <1>4
  <2> QED BY <2>1, <2>2 DEF Lined
<1>6. Falling(rest)
  <2> SUFFICES ASSUME NEW j \in 1..Len(rest), NEW k \in 1..Len(rest), j <= k
               PROVE  rest[k].m <= rest[j].m
    BY DEF Falling
  <2>1. j \in 1..(Len(ts) - 1) /\ k \in 1..(Len(ts) - 1) /\ j + 1 <= k + 1
        /\ j + 1 \in 1..Len(ts) /\ k + 1 \in 1..Len(ts)
    BY <1>1, <1>3
  <2>2. ts[k + 1].m <= ts[j + 1].m BY <2>1 DEF Falling
  <2> QED BY <2>1, <2>2, <1>4
<1>7. ASSUME Len(rest) > 0 PROVE rest[1].h = EndH(ts[1]) /\ rest[1].m = EndM(ts[1])
  <2>1. 1 \in 1..(Len(ts) - 1) BY <1>1, <1>3, <1>7
  <2>2. rest[1] = ts[1 + 1] BY <2>1, <1>4
  <2> QED BY <2>1, <2>2 DEF Lined
<1> QED BY <1>2, <1>3, <1>4, <1>5, <1>6, <1>7 DEF rest

\* The first task is replaced by others.
LEMMA TaskReplaced ==
  ASSUME NEW ts, IsList(ts), ts # <<>>, Lined(ts), Falling(ts),
         \A k \in 1..Len(ts) : ts[k].m \in Nat,
         NEW new, Replaces(new, ts[1])
  PROVE  LET all == new \o Tail(ts) IN
         /\ IsList(all) /\ Lined(all) /\ Falling(all)
         /\ Len(all) > 0 /\ all[1] = new[1]
         /\ \A k \in 1..Len(all) :
              (\E i \in 1..Len(new) : all[k] = new[i]) \/ (\E i \in 2..Len(ts) : all[k] = ts[i])
<1> DEFINE rest == Tail(ts)  all == new \o rest  a == Len(new)
<1>1. /\ Len(ts) > 0 /\ Len(ts) \in Nat /\ IsList(rest) /\ Len(rest) = Len(ts) - 1
      /\ \A k \in 1..(Len(ts) - 1) : rest[k] = ts[k + 1]
  BY TailOfList DEF IsList
<1>2. IsList(new) /\ a > 0 /\ a \in Nat BY DEF Replaces, IsList
<1> HIDE DEF rest
<1>3. /\ IsList(all) /\ Len(all) = a + Len(rest)
      /\ \A k \in 1..a : all[k] = new[k]
      /\ \A k \in 1..Len(rest) : all[a + k] = rest[k]
  <2>1. IsList(new) /\ IsList(rest) BY <1>1, <1>2
  <2> QED BY <2>1, ConcatLists
<1> HIDE DEF all, a
<1>4. Len(all) = a + (Len(ts) - 1) BY <1>1, <1>3
<1>5. \A k \in 1..(Len(ts) - 1) : all[a + k] = ts[k + 1] BY <1>1, <1>3
<1>6. \A k \in 1..Len(all) : k \in 1..a \/ \E i \in 1..(Len(ts) - 1) : k = a + i
  <2> TAKE k \in 1..Len(all)
  <2>1. CASE k <= a BY <2>1, <1>2, <1>3
  <2>2. CASE k > a
    <3>1. k - a \in 1..(Len(ts) - 1) /\ k = a + (k - a) BY <2>2, <1>1, <1>2, <1>4
    <3> QED BY <3>1
  <2> QED BY <2>1, <2>2, <1>1, <1>2, <1>4
<1>7. Lined(all)
  <2> SUFFICES ASSUME NEW k \in 1..(Len(all) - 1)
               PROVE  all[k + 1].h = EndH(all[k]) /\ all[k + 1].m = EndM(all[k])
    BY DEF Lined
  <2>1. CASE k < a
    <3>1. k \in 1..(a - 1) /\ k \in 1..a /\ k + 1 \in 1..a BY <2>1, <1>2, <1>1, <1>4
    <3>2. new[k + 1].h = EndH(new[k]) /\ new[k + 1].m = EndM(new[k])
      BY <3>1 DEF Replaces, Lined, a
    <3> QED BY <3>1, <3>2, <1>3
  <2>2. CASE k = a
    <3>1. 1 \in 1..(Len(ts) - 1) /\ a \in 1..a BY <2>2, <1>1, <1>2, <1>4
    <3>2. all[k + 1] = ts[1 + 1] /\ all[k] = new[a] BY <3>1, <2>2, <1>3, <1>5
    <3>3. ts[1 + 1].h = EndH(ts[1]) /\ ts[1 + 1].m = EndM(ts[1]) BY <3>1 DEF Lined
    <3>4. EndH(new[a]) = EndH(ts[1]) /\ EndM(new[a]) = EndM(ts[1]) BY DEF Replaces, a
    <3> QED BY <3>2, <3>3, <3>4
  <2>3. CASE k > a
    <3> DEFINE i == k - a
    <3>1. /\ i \in 1..(Len(ts) - 1) /\ i + 1 \in 1..(Len(ts) - 1)
          /\ k = a + i /\ k + 1 = a + (i + 1)
      BY <2>3, <1>1, <1>2, <1>4
    <3> HIDE DEF i
    <3>2. all[k] = ts[i + 1] /\ all[k + 1] = ts[(i + 1) + 1] BY <3>1, <1>5
    <3>3. ts[(i + 1) + 1].h = EndH(ts[i + 1]) /\ ts[(i + 1) + 1].m = EndM(ts[i + 1])
      BY <3>1 DEF Lined
    <3> QED BY <3>2, <3>3
  <2> QED BY <2>1, <2>2, <2>3, <1>1, <1>2, <1>4
<1>8. Falling(all)
  <2> SUFFICES ASSUME NEW j \in 1..Len(all), NEW k \in 1..Len(all), j <= k
               PROVE  all[k].m <= all[j].m
    BY DEF Falling
  <2>1. CASE k \in 1..a
    <3>1. j \in 1..a BY <2>1, <1>2
    <3>2. new[k].m <= new[j].m BY <2>1, <3>1 DEF Replaces, Falling, a
    <3> QED BY <2>1, <3>1, <3>2, <1>3
  <2>2. ASSUME NEW i \in 1..(Len(ts) - 1), k = a + i PROVE all[k].m <= all[j].m
    <3>1. all[k] = ts[i + 1] /\ i + 1 \in 1..Len(ts) /\ 1 \in 1..Len(ts) BY <2>2, <1>1, <1>5
    <3>2. CASE j \in 1..a
      <4>1. ts[1].m <= new[j].m /\ new[j].m \in Nat BY <3>2 DEF Replaces, a
      <4>2. ts[i + 1].m <= ts[1].m BY <3>1, <1>1 DEF Falling
      <4>3. ts[i + 1].m \in Nat /\ ts[1].m \in Nat BY <3>1
      <4>4. all[j] = new[j] BY <3>2, <1>3
      <4> HIDE DEF Falling
      <4> QED BY <3>1, <4>1, <4>2, <4>3, <4>4
    <3>3. ASSUME NEW l \in 1..(Len(ts) - 1), j = a + l PROVE all[k].m <= all[j].m
      <4>1. all[j] = ts[l + 1] /\ l + 1 \in 1..Len(ts) BY <3>3, <1>1, <1>5
      <4>2. l + 1 <= i + 1 BY <2>2, <3>3, <1>2
      <4>3. ts[i + 1].m <= ts[l + 1].m BY <3>1, <4>1, <4>2 DEF Falling
      <4> QED BY <3>1, <4>1, <4>3
    <3> QED BY <3>2, <3>3, <1>6
  <2> QED BY <2>1, <2>2, <1>6
<1>9. Len(all) > 0 /\ all[1] = new[1]
  <2>1. 1 \in 1..a BY <1>2
  <2> QED BY <2>1, <1>1, <1>2, <1>3, <1>4
<1>10. \A k \in 1..Len(all) :
         (\E i \in 1..Len(new) : all[k] = new[i]) \/ (\E i \in 2..Len(ts) : all[k] = ts[i])
  <2> TAKE k \in 1..Len(all)
  <2>1. CASE k \in 1..a
    <3>1. k \in 1..Len(new) /\ all[k] = new[k] BY <2>1, <1>3 DEF a
    <3> QED BY <3>1
  <2>2. ASSUME NEW i \in 1..(Len(ts) - 1), k = a + i
        PROVE  \E l \in 2..Len(ts) : all[k] = ts[l]
    <3>1. i + 1 \in 2..Len(ts) /\ all[k] = ts[i + 1] BY <2>2, <1>1, <1>5
    <3> QED BY <3>1
  <2> QED BY <2>1, <2>2, <1>6
<1> QED BY <1>3, <1>7, <1>8, <1>9, <1>10 DEF all, rest

\* One, two or three tasks in the place of another.
LEMMA OneReplaces ==
  ASSUME NEW a, NEW t, a.m \in Nat, t.m <= a.m, EndH(a) = EndH(t), EndM(a) = EndM(t)
  PROVE  Replaces(<<a>>, t)
<1>1. IsList(<<a>>) /\ Len(<<a>>) = 1 BY TuplesAreLists
<1>2. Lined(<<a>>) BY <1>1 DEF Lined
<1>3. Falling(<<a>>) BY <1>1 DEF Falling
<1> QED BY <1>1, <1>2, <1>3 DEF Replaces

LEMMA TwoReplace ==
  ASSUME NEW a, NEW b, NEW t, a.m \in Nat, b.m \in Nat, t.m \in Nat, t.m <= b.m, b.m <= a.m,
         b.h = EndH(a), b.m = EndM(a), EndH(b) = EndH(t), EndM(b) = EndM(t)
  PROVE  Replaces(<<a, b>>, t)
<1> DEFINE new == <<a, b>>
<1>1. IsList(new) /\ Len(new) = 2 /\ new[1] = a /\ new[2] = b BY TuplesAreLists
<1> HIDE DEF new
<1>2. \A k \in 1..Len(new) : k = 1 \/ k = 2 BY <1>1
<1>3. Lined(new)
  <2> SUFFICES ASSUME NEW k \in 1..(Len(new) - 1)
               PROVE  new[k + 1].h = EndH(new[k]) /\ new[k + 1].m = EndM(new[k])
    BY DEF Lined
  <2>1. k = 1 /\ k + 1 = 2 BY <1>1
  <2> QED BY <2>1, <1>1
<1>4. Falling(new)
  <2> SUFFICES ASSUME NEW j \in 1..Len(new), NEW k \in 1..Len(new), j <= k
               PROVE  new[k].m <= new[j].m
    BY DEF Falling
  <2>1. (j = 1 /\ k = 1) \/ (j = 1 /\ k = 2) \/ (j = 2 /\ k = 2) BY <1>2
  <2> QED BY <2>1, <1>1
<1>5. \A k \in 1..Len(new) : t.m <= new[k].m /\ new[k].m \in Nat
  <2>1. t.m <= a.m OBVIOUS
  <2> QED BY <2>1, <1>1, <1>2
<1>6. EndH(new[Len(new)]) = EndH(t) /\ EndM(new[Len(new)]) = EndM(t) /\ Len(new) > 0 BY <1>1
<1> QED BY <1>1, <1>3, <1>4, <1>5, <1>6 DEF Replaces, new

LEMMA ThreeReplace ==
  ASSUME NEW a, NEW b, NEW e, NEW t, a.m \in Nat, b.m \in Nat, e.m \in Nat, t.m \in Nat,
         t.m <= e.m, e.m <= b.m, b.m <= a.m,
         b.h = EndH(a), b.m = EndM(a), e.h = EndH(b), e.m = EndM(b),
         EndH(e) = EndH(t), EndM(e) = EndM(t)
  PROVE  Replaces(<<a, b, e>>, t)
<1> DEFINE new == <<a, b, e>>
<1>1. IsList(new) /\ Len(new) = 3 /\ new[1] = a /\ new[2] = b /\ new[3] = e BY TuplesAreLists
<1> HIDE DEF new
<1>2. \A k \in 1..Len(new) : k = 1 \/ k = 2 \/ k = 3 BY <1>1
<1>3. Lined(new)
  <2> SUFFICES ASSUME NEW k \in 1..(Len(new) - 1)
               PROVE  new[k + 1].h = EndH(new[k]) /\ new[k + 1].m = EndM(new[k])
    BY DEF Lined
  <2>1. (k = 1 /\ k + 1 = 2) \/ (k = 2 /\ k + 1 = 3) BY <1>1
  <2> QED BY <2>1, <1>1
<1>4. Falling(new)
  <2> SUFFICES ASSUME NEW j \in 1..Len(new), NEW k \in 1..Len(new), j <= k
               PROVE  new[k].m <= new[j].m
    BY DEF Falling
  <2>1. \/ (j = 1 /\ k = 1) \/ (j = 1 /\ k = 2) \/ (j = 1 /\ k = 3)
        \/ (j = 2 /\ k = 2) \/ (j = 2 /\ k = 3) \/ (j = 3 /\ k = 3)
    BY <1>2
  <2>2. e.m <= a.m OBVIOUS
  <2> QED BY <2>1, <2>2, <1>1
<1>5. \A k \in 1..Len(new) : t.m <= new[k].m /\ new[k].m \in Nat
  <2>1. t.m <= a.m /\ t.m <= b.m OBVIOUS
  <2> QED BY <2>1, <1>1, <1>2
<1>6. EndH(new[Len(new)]) = EndH(t) /\ EndM(new[Len(new)]) = EndM(t) /\ Len(new) > 0 BY <1>1
<1> QED BY <1>1, <1>3, <1>4, <1>5, <1>6 DEF Replaces, new

\* The tasks that wait stay good when the first one is done, ...
LEMMA DoneKeepsTasks ==
  ASSUME NEW c, NEW h, NEW m, NEW nx, NEW c2, NEW h2, NEW m2, NEW nx2, NEW n,
         Extends(c, h, m, nx, c2, h2, m2, nx2),
         NEW ts, TasksOK(ts, c, h, m, nx, n), ts # <<>>,
         h2[Len(h2)] = EndH(ts[1]), m2[Len(m2)] = EndM(ts[1])
  PROVE  TasksOK(<<>> \o Tail(ts), c2, h2, m2, nx2, n)
<1> DEFINE rest == <<>> \o Tail(ts)
<1>1. IsList(ts) /\ Lined(ts) /\ Falling(ts) BY DEF TasksOK
<1>2. /\ IsList(rest) /\ Lined(rest) /\ Falling(rest)
      /\ Len(rest) = Len(ts) - 1 /\ \A k \in 1..Len(rest) : rest[k] = ts[k + 1]
      /\ Len(rest) > 0 => rest[1].h = EndH(ts[1]) /\ rest[1].m = EndM(ts[1])
  BY <1>1, TaskDone
<1> HIDE DEF rest
<1>3. StartsAt(rest, h2, m2) BY <1>2 DEF StartsAt
<1>4. ASSUME NEW k \in 1..Len(rest) PROVE TaskOK(rest[k], c2, h2, m2, nx2, n)
  <2>1. k + 1 \in 1..Len(ts)
    <3>1. Len(ts) \in Nat BY <1>1 DEF IsList
    <3> QED BY <3>1, <1>2
  <2>2. TaskOK(ts[k + 1], c, h, m, nx, n) BY <2>1 DEF TasksOK
  <2> QED BY <2>2, <1>2, TaskKept
<1> QED BY <1>2, <1>3, <1>4 DEF TasksOK, rest

\* ... or makes way for others.
LEMMA NewKeepTasks ==
  ASSUME NEW c, NEW h, NEW m, NEW nx, NEW c2, NEW h2, NEW m2, NEW nx2, NEW n,
         Extends(c, h, m, nx, c2, h2, m2, nx2),
         NEW ts, TasksOK(ts, c, h, m, nx, n), ts # <<>>,
         NEW new, Replaces(new, ts[1]),
         new[1].h = h2[Len(h2)], new[1].m = m2[Len(m2)],
         \A k \in 1..Len(new) : TaskOK(new[k], c2, h2, m2, nx2, n)
  PROVE  TasksOK(new \o Tail(ts), c2, h2, m2, nx2, n)
<1> DEFINE all == new \o Tail(ts)
<1>1. IsList(ts) /\ Lined(ts) /\ Falling(ts) BY DEF TasksOK
<1>2. \A k \in 1..Len(ts) : ts[k].m \in Nat BY TaskNumbers DEF TasksOK
<1>3. /\ IsList(all) /\ Lined(all) /\ Falling(all)
      /\ Len(all) > 0 /\ all[1] = new[1]
      /\ \A k \in 1..Len(all) :
           (\E i \in 1..Len(new) : all[k] = new[i]) \/ (\E i \in 2..Len(ts) : all[k] = ts[i])
  BY <1>1, <1>2, TaskReplaced
<1> HIDE DEF all
<1>4. StartsAt(all, h2, m2) BY <1>3 DEF StartsAt
<1>5. ASSUME NEW k \in 1..Len(all) PROVE TaskOK(all[k], c2, h2, m2, nx2, n)
  <2>1. CASE \E i \in 1..Len(new) : all[k] = new[i] BY <2>1
  <2>2. ASSUME NEW i \in 2..Len(ts), all[k] = ts[i] PROVE TaskOK(all[k], c2, h2, m2, nx2, n)
    <3>1. i \in 1..Len(ts) BY <1>1 DEF IsList
    <3>2. TaskOK(ts[i], c, h, m, nx, n) BY <3>1 DEF TasksOK
    <3> QED BY <3>2, <2>2, TaskKept
  <2> QED BY <2>1, <2>2, <1>3
<1> QED BY <1>3, <1>4, <1>5 DEF TasksOK, all

-----------------------------------------------------------------------------
(* The steps of one function *)

\* The next task, and the place where it begins.
LEMMA TaskInHand ==
  ASSUME GenInv, phase = "run", todo # <<>>
  PROVE  /\ CodeOK(code, heights, tries, next, Len(source))
         /\ TasksOK(todo, code, heights, tries, next, Len(source))
         /\ NamesOK(names, next) /\ next \in Nat
         /\ Task = todo[1]
         /\ TaskOK(Task, code, heights, tries, next, Len(source))
         /\ Task.h \in Nat /\ Task.m \in Nat
         /\ Len(code) \in Nat /\ Len(heights) = Marked /\ Len(tries) = Marked
         /\ heights[Len(heights)] = Task.h /\ tries[Len(tries)] = Task.m
         /\ Task.h = 0 => Mark(heights, tries, Marked, Task.m)
         /\ Extends(code, heights, tries, next, code, heights, tries, next)
<1>1. /\ CodeOK(code, heights, tries, next, Len(source))
      /\ TasksOK(todo, code, heights, tries, next, Len(source))
      /\ NamesOK(names, next)
  BY DEF GenInv
<1>2. IsList(todo) BY <1>1 DEF TasksOK
<1>3. Task = todo[1] /\ Len(todo) > 0 /\ Len(todo) \in Nat BY <1>2, TailOfList DEF Task, IsList
<1>4. TaskOK(Task, code, heights, tries, next, Len(source)) BY <1>1, <1>3 DEF TasksOK
<1>5. Task.h \in Nat /\ Task.m \in Nat BY <1>4, TaskNumbers
<1>6. next \in Nat /\ Len(code) \in Nat /\ Len(heights) = Marked /\ Len(tries) = Marked
  BY <1>1 DEF CodeOK, IsList, Marked
<1>7. heights[Len(heights)] = Task.h /\ tries[Len(tries)] = Task.m
  BY <1>1, <1>3 DEF TasksOK, StartsAt
<1>8. Task.h = 0 => Mark(heights, tries, Marked, Task.m)
  <2>1. Marked \in 1..Len(heights) BY <1>6 DEF Marked
  <2> QED BY <2>1, <1>6, <1>7 DEF Mark
<1>9. Extends(code, heights, tries, next, code, heights, tries, next)
  BY <1>1, <1>6, SlotsGrow
<1> QED BY <1>1, <1>3, <1>4, <1>5, <1>6, <1>7, <1>8, <1>9

\* The invariant, when the function in hand is as it should be.
LEMMA FunctionKept ==
  ASSUME GenInv, phase = "run", UNCHANGED lasting,
         CodeOK(code', heights', tries', next', Len(source)),
         TasksOK(todo', code', heights', tries', next', Len(source)),
         NamesOK(names', next')
  PROVE  GenInv'
<1>1. MadeSoFar' BY DEF GenInv, MadeSoFar, lasting
<1>2. source' = source BY DEF lasting
<1> QED BY <1>1, <1>2 DEF GenInv

\* The next task is replaced by others ...
LEMMA OthersFollow ==
  ASSUME GenInv, phase = "run", todo # <<>>, UNCHANGED lasting,
         CodeOK(code', heights', tries', next', Len(source)),
         Extends(code, heights, tries, next, code', heights', tries', next'),
         NamesOK(names', next'),
         NEW new, Becomes(new), Replaces(new, Task),
         new[1].h = heights'[Len(heights')], new[1].m = tries'[Len(tries')],
         \A k \in 1..Len(new) : TaskOK(new[k], code', heights', tries', next', Len(source))
  PROVE  GenInv'
<1>1. TasksOK(todo, code, heights, tries, next, Len(source)) /\ Task = todo[1] BY TaskInHand
<1>2. todo' = new \o Tail(todo) BY DEF Becomes
<1>3. TasksOK(todo', code', heights', tries', next', Len(source)) BY <1>1, <1>2, NewKeepTasks
<1> QED BY <1>3, FunctionKept

\* ... or done.
LEMMA NoneFollows ==
  ASSUME GenInv, phase = "run", todo # <<>>, UNCHANGED lasting,
         CodeOK(code', heights', tries', next', Len(source)),
         Extends(code, heights, tries, next, code', heights', tries', next'),
         NamesOK(names', next'),
         Becomes(<<>>),
         EndH(Task) = heights'[Len(heights')], EndM(Task) = tries'[Len(tries')]
  PROVE  GenInv'
<1>1. TasksOK(todo, code, heights, tries, next, Len(source)) /\ Task = todo[1] BY TaskInHand
<1>2. todo' = <<>> \o Tail(todo) BY DEF Becomes
<1>3. TasksOK(todo', code', heights', tries', next', Len(source)) BY <1>1, <1>2, DoneKeepsTasks
<1> QED BY <1>3, FunctionKept

\* A step that only plans has nothing else to show.
LEMMA NoPlanKept ==
  ASSUME GenInv, phase = "run", todo # <<>>, Plan(<<>>),
         EndH(Task) = Task.h, EndM(Task) = Task.m
  PROVE  GenInv'
<1>1. /\ code' = code /\ heights' = heights /\ tries' = tries /\ next' = next /\ names' = names
      /\ UNCHANGED lasting /\ Becomes(<<>>)
  BY DEF Plan, text, scope
<1>2. /\ CodeOK(code, heights, tries, next, Len(source)) /\ NamesOK(names, next)
      /\ Extends(code, heights, tries, next, code, heights, tries, next)
      /\ heights[Len(heights)] = Task.h /\ tries[Len(tries)] = Task.m
  BY TaskInHand
<1> QED BY <1>1, <1>2, NoneFollows

Placed(th, tm) == th \in Nat /\ tm \in Nat

\* The tasks that actions leave behind, and where they begin and end.
LEMMA ExprTasks ==
  ASSUME NEW c, NEW h, NEW m, NEW nx, NEW n, NEW x \in Expressions, NEW th, NEW tm, Placed(th, tm)
  PROVE  LET t == ExprTask(x, th, tm) IN
         /\ TaskOK(t, c, h, m, nx, n)
         /\ t.h = th /\ t.m = tm /\ EndH(t) = th + 1 /\ EndM(t) = tm
<1> DEFINE t == ExprTask(x, th, tm)
<1>1. t.t = "expr" /\ t.x = x /\ t.h = th /\ t.m = tm BY DEF ExprTask
<1> HIDE DEF t
<1>2. TaskOK(t, c, h, m, nx, n) BY <1>1 DEF TaskOK, Placed
<1>3. EndH(t) = th + 1 /\ EndM(t) = tm BY <1>1 DEF EndH, EndM
<1> QED BY <1>1, <1>2, <1>3 DEF t

\* The value that a statement begins with.
LEMMA ValueTasks ==
  ASSUME NEW c, NEW h, NEW m, NEW nx, NEW n, NEW x \in Expressions, NEW tm, Placed(0, tm)
  PROVE  LET t == ExprTask(x, 0, tm) IN
         /\ TaskOK(t, c, h, m, nx, n)
         /\ t.h = 0 /\ t.m = tm /\ EndH(t) = 1 /\ EndM(t) = tm
<1> DEFINE t == ExprTask(x, 0, tm)
<1>1. t.t = "expr" /\ t.x = x /\ t.h = 0 /\ t.m = tm BY DEF ExprTask
<1> HIDE DEF t
<1>2. TaskOK(t, c, h, m, nx, n) BY <1>1 DEF TaskOK, Placed
<1>3. EndH(t) = 1 /\ EndM(t) = tm BY <1>1 DEF EndH, EndM
<1> QED BY <1>1, <1>2, <1>3 DEF t

LEMMA ArgsTasks ==
  ASSUME NEW c, NEW h, NEW m, NEW nx, NEW n,
         NEW xs \in Seq(Expressions), NEW th, NEW tm, Placed(th, tm)
  PROVE  LET t == ArgsTask(xs, th, tm) IN
         /\ TaskOK(t, c, h, m, nx, n)
         /\ t.h = th /\ t.m = tm /\ EndH(t) = WithArgs(th, xs) /\ EndM(t) = tm
<1> DEFINE t == ArgsTask(xs, th, tm)
<1>1. t.t = "args" /\ t.xs = xs /\ t.h = th /\ t.m = tm BY DEF ArgsTask
<1> HIDE DEF t
<1>2. TaskOK(t, c, h, m, nx, n) BY <1>1 DEF TaskOK, Placed
<1>3. EndH(t) = WithArgs(th, xs) /\ EndM(t) = tm BY <1>1 DEF EndH, EndM
<1> QED BY <1>1, <1>2, <1>3 DEF t

LEMMA EmitTasks ==
  ASSUME NEW c, NEW h, NEW m, NEW nx, NEW n,
         NEW ins, NEW th, NEW left, NEW tm, Placed(th, tm),
         EmitFits(ins, th, left, tm, c, m, nx, n)
  PROVE  LET t == EmitTask(ins, th, left, tm) IN
         /\ TaskOK(t, c, h, m, nx, n) /\ EmitOK(t, c, m, nx, n)
         /\ t.ins = ins /\ t.left = left
         /\ t.h = th /\ t.m = tm /\ EndH(t) = left /\ EndM(t) = TriesBehind(ins, tm)
<1> DEFINE t == EmitTask(ins, th, left, tm)
<1>1. t.t = "emit" /\ t.ins = ins /\ t.left = left /\ t.h = th /\ t.m = tm BY DEF EmitTask
<1> HIDE DEF t
<1>2. EmitOK(t, c, m, nx, n) BY <1>1 DEF EmitOK
<1>3. TaskOK(t, c, h, m, nx, n) BY <1>1, <1>2 DEF TaskOK, Placed
<1>4. EndH(t) = left /\ EndM(t) = TriesBehind(ins, tm) BY <1>1 DEF EndH, EndM
<1> QED BY <1>1, <1>2, <1>3, <1>4 DEF t

LEMMA BlockTasks ==
  ASSUME NEW c, NEW h, NEW m, NEW nx, NEW n, NEW ss \in Seq(Statements), NEW tm, Placed(0, tm)
  PROVE  LET t == BlockTask(ss, tm) IN
         /\ TaskOK(t, c, h, m, nx, n)
         /\ t.h = 0 /\ t.m = tm /\ EndH(t) = 0 /\ EndM(t) = tm
<1> DEFINE t == BlockTask(ss, tm)
<1>1. t.t = "block" /\ t.ss = ss /\ t.h = 0 /\ t.m = tm BY DEF BlockTask
<1> HIDE DEF t
<1>2. TaskOK(t, c, h, m, nx, n) BY <1>1 DEF TaskOK, Placed
<1>3. EndH(t) = 0 /\ EndM(t) = tm BY <1>1 DEF EndH, EndM
<1> QED BY <1>1, <1>2, <1>3 DEF t

\* Tuples of good tasks.
LEMMA TupleOfTasks ==
  ASSUME NEW c, NEW h, NEW m, NEW nx, NEW n
  PROVE  /\ \A a : TaskOK(a, c, h, m, nx, n) =>
              \A k \in 1..Len(<<a>>) : TaskOK(<<a>>[k], c, h, m, nx, n)
         /\ \A a, b : TaskOK(a, c, h, m, nx, n) /\ TaskOK(b, c, h, m, nx, n) =>
              \A k \in 1..Len(<<a, b>>) : TaskOK(<<a, b>>[k], c, h, m, nx, n)
         /\ \A a, b, e :
              TaskOK(a, c, h, m, nx, n) /\ TaskOK(b, c, h, m, nx, n) /\ TaskOK(e, c, h, m, nx, n) =>
              \A k \in 1..Len(<<a, b, e>>) : TaskOK(<<a, b, e>>[k], c, h, m, nx, n)
<1>1. ASSUME NEW a, TaskOK(a, c, h, m, nx, n), NEW k \in 1..Len(<<a>>)
      PROVE  TaskOK(<<a>>[k], c, h, m, nx, n)
  <2>1. k = 1 BY TuplesAreLists
  <2> QED BY <2>1, <1>1
<1>2. ASSUME NEW a, NEW b, TaskOK(a, c, h, m, nx, n), TaskOK(b, c, h, m, nx, n),
             NEW k \in 1..Len(<<a, b>>)
      PROVE  TaskOK(<<a, b>>[k], c, h, m, nx, n)
  <2>1. k = 1 \/ k = 2 BY TuplesAreLists
  <2>2. CASE k = 1 BY <2>2, <1>2
  <2>3. CASE k = 2 BY <2>3, <1>2
  <2> QED BY <2>1, <2>2, <2>3
<1>3. ASSUME NEW a, NEW b, NEW e, TaskOK(a, c, h, m, nx, n), TaskOK(b, c, h, m, nx, n),
             TaskOK(e, c, h, m, nx, n), NEW k \in 1..Len(<<a, b, e>>)
      PROVE  TaskOK(<<a, b, e>>[k], c, h, m, nx, n)
  <2>1. k = 1 \/ k = 2 \/ k = 3 BY TuplesAreLists
  <2>2. CASE k = 1 BY <2>2, <1>3
  <2>3. CASE k = 2 BY <2>3, <1>3
  <2>4. CASE k = 3 BY <2>4, <1>3
  <2> QED BY <2>1, <2>2, <2>3, <2>4
<1> QED BY <1>1, <1>2, <1>3

\* One, two or three tasks follow.
LEMMA FollowOne ==
  ASSUME GenInv, phase = "run", todo # <<>>, UNCHANGED lasting,
         CodeOK(code', heights', tries', next', Len(source)),
         Extends(code, heights, tries, next, code', heights', tries', next'),
         NamesOK(names', next'),
         NEW a, Becomes(<<a>>),
         a.h = heights'[Len(heights')], a.m = tries'[Len(tries')],
         Task.m <= a.m, EndH(a) = EndH(Task), EndM(a) = EndM(Task),
         TaskOK(a, code', heights', tries', next', Len(source))
  PROVE  GenInv'
<1>1. Task.m \in Nat BY TaskInHand
<1>2. a.m \in Nat BY TaskNumbers
<1>3. Replaces(<<a>>, Task) BY <1>1, <1>2, OneReplaces
<1>4. \A k \in 1..Len(<<a>>) :
        TaskOK(<<a>>[k], code', heights', tries', next', Len(source))
  BY TupleOfTasks
<1>5. <<a>>[1] = a OBVIOUS
<1>6. <<a>>[1].h = heights'[Len(heights')] /\ <<a>>[1].m = tries'[Len(tries')] BY <1>5
<1> QED BY <1>3, <1>4, <1>6, OthersFollow

LEMMA FollowTwo ==
  ASSUME GenInv, phase = "run", todo # <<>>, UNCHANGED lasting,
         CodeOK(code', heights', tries', next', Len(source)),
         Extends(code, heights, tries, next, code', heights', tries', next'),
         NamesOK(names', next'),
         NEW a, NEW b, Becomes(<<a, b>>),
         a.h = heights'[Len(heights')], a.m = tries'[Len(tries')],
         b.h = EndH(a), b.m = EndM(a), b.m <= a.m,
         Task.m <= b.m, EndH(b) = EndH(Task), EndM(b) = EndM(Task),
         TaskOK(a, code', heights', tries', next', Len(source)),
         TaskOK(b, code', heights', tries', next', Len(source))
  PROVE  GenInv'
<1>1. Task.m \in Nat BY TaskInHand
<1>2. a.m \in Nat /\ b.m \in Nat BY TaskNumbers
<1>3. Replaces(<<a, b>>, Task) BY <1>1, <1>2, TwoReplace
<1>4. \A k \in 1..Len(<<a, b>>) :
        TaskOK(<<a, b>>[k], code', heights', tries', next', Len(source))
  BY TupleOfTasks
<1>5. <<a, b>>[1] = a OBVIOUS
<1>6. <<a, b>>[1].h = heights'[Len(heights')] /\ <<a, b>>[1].m = tries'[Len(tries')] BY <1>5
<1> QED BY <1>3, <1>4, <1>6, OthersFollow

LEMMA FollowThree ==
  ASSUME GenInv, phase = "run", todo # <<>>, UNCHANGED lasting,
         CodeOK(code', heights', tries', next', Len(source)),
         Extends(code, heights, tries, next, code', heights', tries', next'),
         NamesOK(names', next'),
         NEW a, NEW b, NEW e, Becomes(<<a, b, e>>),
         a.h = heights'[Len(heights')], a.m = tries'[Len(tries')],
         b.h = EndH(a), b.m = EndM(a), b.m <= a.m,
         e.h = EndH(b), e.m = EndM(b), e.m <= b.m,
         Task.m <= e.m, EndH(e) = EndH(Task), EndM(e) = EndM(Task),
         TaskOK(a, code', heights', tries', next', Len(source)),
         TaskOK(b, code', heights', tries', next', Len(source)),
         TaskOK(e, code', heights', tries', next', Len(source))
  PROVE  GenInv'
<1>1. Task.m \in Nat BY TaskInHand
<1>2. a.m \in Nat /\ b.m \in Nat /\ e.m \in Nat BY TaskNumbers
<1>3. Replaces(<<a, b, e>>, Task) BY <1>1, <1>2, ThreeReplace
<1>4. \A k \in 1..Len(<<a, b, e>>) :
        TaskOK(<<a, b, e>>[k], code', heights', tries', next', Len(source))
  BY TupleOfTasks
<1>5. <<a, b, e>>[1] = a OBVIOUS
<1>6. <<a, b, e>>[1].h = heights'[Len(heights')] /\ <<a, b, e>>[1].m = tries'[Len(tries')] BY <1>5
<1> QED BY <1>3, <1>4, <1>6, OthersFollow

\* They do, and that is all.
LEMMA PlanOne ==
  ASSUME GenInv, phase = "run", todo # <<>>,
         NEW a, Plan(<<a>>),
         a.h = Task.h, a.m = Task.m,
         Task.m <= a.m, EndH(a) = EndH(Task), EndM(a) = EndM(Task),
         TaskOK(a, code, heights, tries, next, Len(source))
  PROVE  GenInv'
<1>1. /\ code' = code /\ heights' = heights /\ tries' = tries /\ next' = next /\ names' = names
      /\ UNCHANGED lasting /\ Becomes(<<a>>)
  BY DEF Plan, text, scope
<1>2. /\ CodeOK(code, heights, tries, next, Len(source)) /\ NamesOK(names, next)
      /\ Extends(code, heights, tries, next, code, heights, tries, next)
      /\ heights[Len(heights)] = Task.h /\ tries[Len(tries)] = Task.m
  BY TaskInHand
<1> QED BY <1>1, <1>2, FollowOne

LEMMA PlanTwo ==
  ASSUME GenInv, phase = "run", todo # <<>>,
         NEW a, NEW b, Plan(<<a, b>>),
         a.h = Task.h, a.m = Task.m,
         b.h = EndH(a), b.m = EndM(a), b.m <= a.m,
         Task.m <= b.m, EndH(b) = EndH(Task), EndM(b) = EndM(Task),
         TaskOK(a, code, heights, tries, next, Len(source)),
         TaskOK(b, code, heights, tries, next, Len(source))
  PROVE  GenInv'
<1>1. /\ code' = code /\ heights' = heights /\ tries' = tries /\ next' = next /\ names' = names
      /\ UNCHANGED lasting /\ Becomes(<<a, b>>)
  BY DEF Plan, text, scope
<1>2. /\ CodeOK(code, heights, tries, next, Len(source)) /\ NamesOK(names, next)
      /\ Extends(code, heights, tries, next, code, heights, tries, next)
      /\ heights[Len(heights)] = Task.h /\ tries[Len(tries)] = Task.m
  BY TaskInHand
<1> QED BY <1>1, <1>2, FollowTwo

LEMMA PlanThree ==
  ASSUME GenInv, phase = "run", todo # <<>>,
         NEW a, NEW b, NEW e, Plan(<<a, b, e>>),
         a.h = Task.h, a.m = Task.m,
         b.h = EndH(a), b.m = EndM(a), b.m <= a.m,
         e.h = EndH(b), e.m = EndM(b), e.m <= b.m,
         Task.m <= e.m, EndH(e) = EndH(Task), EndM(e) = EndM(Task),
         TaskOK(a, code, heights, tries, next, Len(source)),
         TaskOK(b, code, heights, tries, next, Len(source)),
         TaskOK(e, code, heights, tries, next, Len(source))
  PROVE  GenInv'
<1>1. /\ code' = code /\ heights' = heights /\ tries' = tries /\ next' = next /\ names' = names
      /\ UNCHANGED lasting /\ Becomes(<<a, b, e>>)
  BY DEF Plan, text, scope
<1>2. /\ CodeOK(code, heights, tries, next, Len(source)) /\ NamesOK(names, next)
      /\ Extends(code, heights, tries, next, code, heights, tries, next)
      /\ heights[Len(heights)] = Task.h /\ tries[Len(tries)] = Task.m
  BY TaskInHand
<1> QED BY <1>1, <1>2, FollowThree

-----------------------------------------------------------------------------
(* Expressions *)

\* A task that is one instruction.
LEMMA Emitted ==
  ASSUME GenInv, phase = "run", todo # <<>>, NEW t, EmitOK(t, code, tries, next, Len(source)),
         t.h = Task.h, t.m = Task.m,
         Put(t.ins, t.left, TriesBehind(t.ins, t.m)), Becomes(<<>>), UNCHANGED <<scope, lasting>>,
         EndH(Task) = t.left, EndM(Task) = TriesBehind(t.ins, t.m)
  PROVE  GenInv'
<1> DEFINE d == TriesBehind(t.ins, t.m)
<1>1. /\ code' = Append(code, t.ins) /\ heights' = Append(heights, t.left)
      /\ tries' = Append(tries, d) /\ names' = names /\ next' = next /\ UNCHANGED lasting
  BY DEF Put, Grown, scope
<1>2. /\ CodeOK(code, heights, tries, next, Len(source)) /\ NamesOK(names, next)
      /\ t.h = heights[Len(heights)] /\ t.m = tries[Len(tries)]
  BY TaskInHand
<1>3. /\ CodeOK(code', heights', tries', next', Len(source))
      /\ Extends(code, heights, tries, next, code', heights', tries', next')
      /\ heights'[Len(heights')] = t.left /\ tries'[Len(tries')] = d
  BY <1>1, <1>2, EmitKeeps
<1> HIDE DEF d
<1> QED BY <1>1, <1>2, <1>3, NoneFollows DEF d

\* An expression in hand is one of the parser's.
LEMMA ExprInHand ==
  ASSUME GenInv, NEW kinds, WorkExpr(kinds)
  PROVE  /\ phase = "run" /\ todo # <<>> /\ Task.x.e \in kinds
         /\ Task.x \in Expressions /\ IsExpression(Task.x)
         /\ EndH(Task) = Task.h + 1 /\ EndM(Task) = Task.m
<1>1. phase = "run" /\ todo # <<>> /\ Task.t = "expr" /\ Task.x.e \in kinds
  BY DEF WorkExpr, Work
<1>2. Task.x \in Expressions BY <1>1, TaskInHand DEF TaskOK
<1>3. IsExpression(Task.x) BY <1>2, SourcesAssumption
<1>4. EndH(Task) = Task.h + 1 /\ EndM(Task) = Task.m BY <1>1 DEF EndH, EndM
<1> QED BY <1>1, <1>2, <1>3, <1>4

LEMMA LeafKept ==
  ASSUME GenInv, CompileLeaf PROVE GenInv'
<1> DEFINE x == Task.x  h == Task.h  m == Task.m  ins == LeafCode(x)
           t == EmitTask(ins, h, h + 1, m)
<1>1. /\ Put(ins, h + 1, m) /\ Becomes(<<>>) /\ UNCHANGED <<scope, lasting>>
      /\ WorkExpr({"const", "ask", "fault", "loop"})
  BY DEF CompileLeaf
<1>2. /\ phase = "run" /\ todo # <<>> /\ x.e \in {"const", "ask", "fault", "loop"}
      /\ IsExpression(x) /\ EndH(Task) = h + 1 /\ EndM(Task) = m
  BY <1>1, ExprInHand
<1>3. h \in Nat /\ m \in Nat /\ Placed(h, m) BY <1>2, TaskInHand DEF Placed
<1>4. /\ ins.op \in {"PUSH", "CALL_EXTERN", "FAIL"}
      /\ ins.op = "PUSH" => ins.val \in Value
  BY <1>2 DEF LeafCode, IsExpression
<1> HIDE DEF ins, x, h, m
<1>5. EmitFits(ins, h, h + 1, m, code, tries, next, Len(source))
  <2>1. Operands(ins, next, Len(source)) BY <1>4 DEF Operands, Opcodes
  <2>2. Pops(ins) = 0 /\ (Flows(ins) => Pushes(ins) = 1) BY <1>4 DEF Pops, Pushes, Flows
  <2>3. Pops(ins) <= h /\ (Flows(ins) => h + 1 <= h - Pops(ins) + Pushes(ins)) BY <1>3, <2>2
  <2> QED BY <1>3, <1>4, <2>1, <2>3 DEF EmitFits
<1>6. /\ EmitOK(t, code, tries, next, Len(source))
      /\ t.ins = ins /\ t.left = h + 1 /\ t.h = h /\ t.m = m
  BY <1>3, <1>5, EmitTasks
<1>7. TriesBehind(ins, m) = m BY <1>4 DEF TriesBehind
<1> HIDE DEF t
<1> QED BY <1>1, <1>2, <1>6, <1>7, Emitted DEF h, m

LEMMA VarKept ==
  ASSUME GenInv, CompileVar PROVE GenInv'
<1> DEFINE h == Task.h  m == Task.m  ins == [op |-> "LOAD_LOCAL", slot |-> names[Task.x.x]]
           t == EmitTask(ins, h, h + 1, m)
<1>1. /\ Put(ins, h + 1, m) /\ Becomes(<<>>) /\ UNCHANGED <<scope, lasting>>
      /\ WorkExpr({"var"}) /\ Task.x.x \in DOMAIN names
  BY DEF CompileVar
<1>2. /\ phase = "run" /\ todo # <<>> /\ EndH(Task) = h + 1 /\ EndM(Task) = m
  BY <1>1, ExprInHand
<1>3. h \in Nat /\ m \in Nat /\ Placed(h, m) BY <1>2, TaskInHand DEF Placed
<1>4. names[Task.x.x] \in 1..next BY <1>1, <1>2, TaskInHand DEF NamesOK
<1>5. ins.op = "LOAD_LOCAL" /\ ins.slot \in 1..next BY <1>4
<1> HIDE DEF ins, h, m
<1>6. EmitFits(ins, h, h + 1, m, code, tries, next, Len(source))
  <2>1. Operands(ins, next, Len(source)) BY <1>5 DEF Operands, Opcodes
  <2>2. Pops(ins) = 0 /\ Pushes(ins) = 1 BY <1>5 DEF Pops, Pushes
  <2>3. Pops(ins) <= h /\ h + 1 <= h - Pops(ins) + Pushes(ins) BY <1>3, <2>2
  <2> QED BY <1>3, <1>5, <2>1, <2>3 DEF EmitFits
<1>7. /\ EmitOK(t, code, tries, next, Len(source))
      /\ t.ins = ins /\ t.left = h + 1 /\ t.h = h /\ t.m = m
  BY <1>3, <1>6, EmitTasks
<1>8. TriesBehind(ins, m) = m BY <1>5 DEF TriesBehind
<1> HIDE DEF t
<1> QED BY <1>1, <1>2, <1>7, <1>8, Emitted DEF h, m

LEMMA SumKept ==
  ASSUME GenInv, CompileSum PROVE GenInv'
<1> DEFINE x == Task.x  h == Task.h  m == Task.m  ins == [op |-> "ADD"]
           a == ExprTask(x.l, h, m)  b == ExprTask(x.r, h + 1, m)
           e == EmitTask(ins, h + 2, h + 1, m)
<1>1. Plan(<<a, b, e>>) /\ WorkExpr({"sum"}) BY DEF CompileSum
<1>2. /\ phase = "run" /\ todo # <<>> /\ x.e = "sum" /\ IsExpression(x)
      /\ EndH(Task) = h + 1 /\ EndM(Task) = m
  BY <1>1, ExprInHand
<1>3. h \in Nat /\ m \in Nat /\ Placed(h, m) BY <1>2, TaskInHand DEF Placed
<1>4. x.l \in Expressions /\ x.r \in Expressions BY <1>2 DEF IsExpression
<1>5. ins.op = "ADD" OBVIOUS
<1> HIDE DEF x, h, m, ins
<1>6. h + 1 \in Nat /\ h + 2 \in Nat /\ (h + 1) + 1 = h + 2 /\ m <= m
      /\ Placed(h + 1, m) /\ Placed(h + 2, m)
  BY <1>3 DEF Placed
<1>7. EmitFits(ins, h + 2, h + 1, m, code, tries, next, Len(source))
  <2>1. Operands(ins, next, Len(source)) BY <1>5 DEF Operands, Opcodes
  <2>2. Pops(ins) = 2 /\ Pushes(ins) = 1 BY <1>5 DEF Pops, Pushes
  <2>3. Pops(ins) <= h + 2 /\ h + 1 <= (h + 2) - Pops(ins) + Pushes(ins) BY <1>3, <2>2
  <2> QED BY <1>5, <1>6, <2>1, <2>3 DEF EmitFits
<1>8. TriesBehind(ins, m) = m BY <1>5 DEF TriesBehind
<1>9. /\ TaskOK(a, code, heights, tries, next, Len(source))
      /\ a.h = h /\ a.m = m /\ EndH(a) = h + 1 /\ EndM(a) = m
  BY <1>3, <1>4, ExprTasks
<1>10. /\ TaskOK(b, code, heights, tries, next, Len(source))
       /\ b.h = h + 1 /\ b.m = m /\ EndH(b) = h + 2 /\ EndM(b) = m
  BY <1>3, <1>4, <1>6, ExprTasks
<1>11. /\ TaskOK(e, code, heights, tries, next, Len(source))
       /\ e.h = h + 2 /\ e.m = m /\ EndH(e) = h + 1 /\ EndM(e) = m
  BY <1>3, <1>6, <1>7, <1>8, EmitTasks
<1> HIDE DEF a, b, e
<1> QED BY <1>1, <1>2, <1>6, <1>9, <1>10, <1>11, PlanThree DEF h, m

LEMMA CallKept ==
  ASSUME GenInv, CompileCall PROVE GenInv'
<1> DEFINE x == Task.x  h == Task.h  m == Task.m  ins == CallCode(x)  n == Len(x.args)
           a == ArgsTask(x.args, h, m)  b == EmitTask(ins, h + n, h + 1, m)
<1>1. Plan(<<a, b>>) /\ WorkExpr({"call", "on"}) /\ x.f \in DOMAIN source BY DEF CompileCall
<1>2. /\ phase = "run" /\ todo # <<>> /\ x.e \in {"call", "on"} /\ IsExpression(x)
      /\ EndH(Task) = h + 1 /\ EndM(Task) = m
  BY <1>1, ExprInHand
<1>3. h \in Nat /\ m \in Nat /\ Placed(h, m) BY <1>2, TaskInHand DEF Placed
<1>4. x.args \in Seq(Expressions) BY <1>2 DEF IsExpression
<1>5. n \in Nat BY <1>4, LenProperties
<1>6. x.f \in 1..Len(source)
  <2>1. source \in Seq(FunctionTrees) BY DEF GenInv, MadeSoFar
  <2> QED BY <1>1, <2>1, LenProperties
<1>7. \/ ins.op = "CALL" /\ ins.func = x.f /\ ins.nargs = n
      \/ ins.op = "CALL_EXTERN"
  BY <1>2 DEF CallCode
<1> HIDE DEF x, h, m, ins, n
<1>8. EmitFits(ins, h + n, h + 1, m, code, tries, next, Len(source))
  <2>1. Operands(ins, next, Len(source)) BY <1>5, <1>6, <1>7 DEF Operands, Opcodes
  <2>2. Pops(ins) \in {0, n} /\ Pushes(ins) = 1 BY <1>7 DEF Pops, Pushes
  <2>3. Pops(ins) <= h + n /\ h + 1 <= (h + n) - Pops(ins) + Pushes(ins) BY <1>3, <1>5, <2>2
  <2>4. h + 1 \in Nat BY <1>3
  <2> QED BY <1>7, <2>1, <2>3, <2>4 DEF EmitFits
<1>9. TriesBehind(ins, m) = m /\ m <= m BY <1>3, <1>7 DEF TriesBehind
<1>10. /\ TaskOK(a, code, heights, tries, next, Len(source))
       /\ a.h = h /\ a.m = m /\ EndH(a) = h + n /\ EndM(a) = m
  <2>1. WithArgs(h, x.args) = h + n BY DEF WithArgs, n
  <2> QED BY <1>3, <1>4, <2>1, ArgsTasks
<1>11. Placed(h + n, m) BY <1>3, <1>5 DEF Placed
<1>12. /\ TaskOK(b, code, heights, tries, next, Len(source))
       /\ b.h = h + n /\ b.m = m /\ EndH(b) = h + 1 /\ EndM(b) = m
  BY <1>8, <1>9, <1>11, EmitTasks
<1> HIDE DEF a, b
<1> QED BY <1>1, <1>2, <1>9, <1>10, <1>12, PlanTwo DEF h, m

LEMMA ArgKept ==
  ASSUME GenInv, CompileArg PROVE GenInv'
<1> DEFINE xs == Task.xs  h == Task.h  m == Task.m  rest == Tail(xs)  then == h + 1
           a == ExprTask(Head(xs), h, m)  b == ArgsTask(rest, then, m)
<1>1. /\ phase = "run" /\ todo # <<>> /\ Task.t = "args"
      /\ IF xs = <<>> THEN Plan(<<>>) ELSE Plan(<<a, b>>)
  BY DEF CompileArg, Work
<1>2. h \in Nat /\ m \in Nat /\ Placed(h, m) /\ TaskOK(Task, code, heights, tries, next, Len(source))
  BY <1>1, TaskInHand DEF Placed
<1>3. xs \in Seq(Expressions) BY <1>1, <1>2 DEF TaskOK
<1>4. EndH(Task) = h + Len(xs) /\ EndM(Task) = m BY <1>1 DEF EndH, EndM, WithArgs
<1>5. CASE xs = <<>>
  <2>1. h + Len(xs) = h BY <1>2, <1>5
  <2> QED BY <1>1, <1>4, <1>5, <2>1, NoPlanKept
<1>6. CASE xs # <<>>
  <2>1. Head(xs) \in Expressions /\ rest \in Seq(Expressions) /\ Len(rest) = Len(xs) - 1
        /\ Len(xs) \in Nat
    BY <1>3, <1>6, HeadTailProperties, LenProperties
  <2> HIDE DEF xs, h, m, rest
  <2>2. Placed(then, m) /\ m <= m /\ then = h + 1 BY <1>2 DEF Placed
  <2>3. WithArgs(then, rest) = h + Len(xs) BY <1>2, <2>1 DEF WithArgs
  <2> HIDE DEF then
  <2>4. /\ TaskOK(a, code, heights, tries, next, Len(source))
        /\ a.h = h /\ a.m = m /\ EndH(a) = h + 1 /\ EndM(a) = m
    BY <1>2, <2>1, ExprTasks
  <2>5. /\ TaskOK(b, code, heights, tries, next, Len(source))
        /\ b.h = then /\ b.m = m /\ EndH(b) = WithArgs(then, rest) /\ EndM(b) = m
    BY <2>1, <2>2, ArgsTasks
  <2> HIDE DEF a, b
  <2> QED BY <1>1, <1>4, <1>6, <2>2, <2>3, <2>4, <2>5, PlanTwo DEF h, m
<1> QED BY <1>5, <1>6

LEMMA EmitKept ==
  ASSUME GenInv, EmitOp PROVE GenInv'
<1>1. /\ phase = "run" /\ todo # <<>> /\ Task.t = "emit"
      /\ Put(Task.ins, Task.left, TriesBehind(Task.ins, Task.m))
      /\ Becomes(<<>>) /\ UNCHANGED <<scope, lasting>>
  BY DEF EmitOp, Work
<1>2. EmitOK(Task, code, tries, next, Len(source)) BY <1>1, TaskInHand DEF TaskOK
<1>3. EndH(Task) = Task.left /\ EndM(Task) = TriesBehind(Task.ins, Task.m)
  BY <1>1 DEF EndH, EndM
<1> QED BY <1>1, <1>2, <1>3, Emitted

-----------------------------------------------------------------------------
(* Blocks and simple statements *)

\* A statement in hand is one of the parser's.
LEMMA StmtInHand ==
  ASSUME GenInv, NEW kinds, WorkStmt(kinds)
  PROVE  /\ phase = "run" /\ todo # <<>> /\ Task.s.s \in kinds
         /\ Task.s \in Statements /\ IsStatement(Task.s)
         /\ Task.h = 0 /\ Task.m \in Nat /\ Task.m <= Task.m
         /\ Placed(0, Task.m) /\ Placed(1, Task.m)
         /\ EndH(Task) = 0 /\ EndM(Task) = Task.m
<1>1. phase = "run" /\ todo # <<>> /\ Task.t = "stmt" /\ Task.s.s \in kinds
  BY DEF WorkStmt, Work
<1>2. Task.s \in Statements /\ Task.h = 0 /\ Task.m \in Nat BY <1>1, TaskInHand DEF TaskOK
<1>3. IsStatement(Task.s) BY <1>2, SourcesAssumption
<1>4. EndH(Task) = 0 /\ EndM(Task) = Task.m BY <1>1 DEF EndH, EndM
<1>5. Placed(0, Task.m) /\ Placed(1, Task.m) /\ Task.m <= Task.m BY <1>2 DEF Placed
<1> QED BY <1>1, <1>2, <1>3, <1>4, <1>5

LEMMA NextKept ==
  ASSUME GenInv, CompileNext PROVE GenInv'
<1> DEFINE ss == Task.ss  m == Task.m
           a == StmtTask(Head(ss), m)  b == BlockTask(Tail(ss), m)
<1>1. /\ phase = "run" /\ todo # <<>> /\ Task.t = "block"
      /\ IF ss = <<>> THEN Plan(<<>>) ELSE Plan(<<a, b>>)
  BY DEF CompileNext, Work
<1>2. m \in Nat /\ TaskOK(Task, code, heights, tries, next, Len(source)) BY <1>1, TaskInHand
<1>3. ss \in Seq(Statements) /\ Task.h = 0 BY <1>1, <1>2 DEF TaskOK
<1>4. EndH(Task) = 0 /\ EndM(Task) = m BY <1>1 DEF EndH, EndM
<1>5. CASE ss = <<>> BY <1>1, <1>3, <1>4, <1>5, NoPlanKept
<1>6. CASE ss # <<>>
  <2>1. Head(ss) \in Statements /\ Tail(ss) \in Seq(Statements) BY <1>3, <1>6, HeadTailProperties
  <2> HIDE DEF ss, m
  <2>2. Placed(0, m) /\ m <= m BY <1>2 DEF Placed
  <2>3. a.t = "stmt" /\ a.s = Head(ss) /\ a.h = 0 /\ a.m = m BY DEF StmtTask
  <2>4. /\ TaskOK(b, code, heights, tries, next, Len(source))
        /\ b.h = 0 /\ b.m = m /\ EndH(b) = 0 /\ EndM(b) = m
    BY <2>1, <2>2, BlockTasks
  <2> HIDE DEF a, b
  <2>5. TaskOK(a, code, heights, tries, next, Len(source)) BY <1>2, <2>1, <2>3 DEF TaskOK
  <2>6. EndH(a) = 0 /\ EndM(a) = m BY <2>3 DEF EndH, EndM
  <2> QED BY <1>1, <1>3, <1>4, <1>6, <2>2, <2>3, <2>4, <2>5, <2>6, PlanTwo DEF m
<1> QED BY <1>5, <1>6

LEMMA ValueKept ==
  ASSUME GenInv, CompileValue PROVE GenInv'
<1> DEFINE s == Task.s  m == Task.m  ins == [op |-> OpOf[s.s]]
           a == ExprTask(s.x, 0, m)  b == EmitTask(ins, 1, 0, m)
<1>1. Plan(<<a, b>>) /\ WorkStmt(DOMAIN OpOf) BY DEF CompileValue
<1>2. /\ phase = "run" /\ todo # <<>> /\ s.s \in DOMAIN OpOf /\ IsStatement(s)
      /\ Task.h = 0 /\ m \in Nat /\ m <= m /\ Placed(0, m) /\ Placed(1, m)
      /\ EndH(Task) = 0 /\ EndM(Task) = m
  BY <1>1, StmtInHand
<1>3. s.s \in {"say", "do", "throw", "return"} BY <1>2 DEF OpOf
<1>4. s.x \in Expressions BY <1>3, <1>2 DEF IsStatement
<1>5. ins.op \in {"PRINTLN", "POP", "THROW", "RETURN"} BY <1>3 DEF OpOf
<1> HIDE DEF s, m, ins
<1>6. EmitFits(ins, 1, 0, m, code, tries, next, Len(source))
  <2>1. Operands(ins, next, Len(source)) BY <1>5 DEF Operands, Opcodes
  <2>2. Pops(ins) = 1 /\ Pushes(ins) = 0 BY <1>5 DEF Pops, Pushes
  <2> QED BY <1>5, <2>1, <2>2 DEF EmitFits
<1>7. TriesBehind(ins, m) = m BY <1>5 DEF TriesBehind
<1>8. /\ TaskOK(a, code, heights, tries, next, Len(source))
      /\ a.h = 0 /\ a.m = m /\ EndH(a) = 1 /\ EndM(a) = m
  BY <1>2, <1>4, ValueTasks
<1>9. /\ TaskOK(b, code, heights, tries, next, Len(source))
      /\ b.h = 1 /\ b.m = m /\ EndH(b) = 0 /\ EndM(b) = m
  BY <1>2, <1>6, <1>7, EmitTasks
<1> HIDE DEF a, b
<1> QED BY <1>1, <1>2, <1>8, <1>9, PlanTwo DEF m

LEMMA ReturnVoidKept ==
  ASSUME GenInv, CompileReturnVoid PROVE GenInv'
<1> DEFINE m == Task.m  ins == [op |-> "RETURN_VOID"]  a == EmitTask(ins, 0, 0, m)
<1>1. Plan(<<a>>) /\ WorkStmt({"returnVoid"}) BY DEF CompileReturnVoid
<1>2. /\ phase = "run" /\ todo # <<>> /\ Task.h = 0 /\ m \in Nat /\ m <= m /\ Placed(0, m)
      /\ EndH(Task) = 0 /\ EndM(Task) = m
  BY <1>1, StmtInHand
<1>3. ins.op = "RETURN_VOID" OBVIOUS
<1> HIDE DEF m, ins
<1>4. EmitFits(ins, 0, 0, m, code, tries, next, Len(source))
  <2>1. Operands(ins, next, Len(source)) BY <1>3 DEF Operands, Opcodes
  <2>2. Pops(ins) = 0 /\ Pushes(ins) = 0 BY <1>3 DEF Pops, Pushes
  <2> QED BY <1>3, <2>1, <2>2 DEF EmitFits
<1>5. TriesBehind(ins, m) = m BY <1>3 DEF TriesBehind
<1>6. /\ TaskOK(a, code, heights, tries, next, Len(source))
      /\ a.h = 0 /\ a.m = m /\ EndH(a) = 0 /\ EndM(a) = m
  BY <1>2, <1>4, <1>5, EmitTasks
<1> HIDE DEF a
<1> QED BY <1>1, <1>2, <1>6, PlanOne DEF m

\* A name that is bound to a slot that is there.
LEMMA BoundNames ==
  ASSUME NamesOK(names, next), next \in Nat, NEW nx2 \in Nat, next <= nx2,
         NEW x, NEW slot \in 1..nx2
  PROVE  NamesOK(BoundTo(x, slot), nx2)
<1> DEFINE ns == BoundTo(x, slot)
<1>1. /\ DOMAIN ns = DOMAIN names \cup {x}
      /\ \A y \in DOMAIN ns : ns[y] = IF y = x THEN slot ELSE names[y]
  BY DEF BoundTo
<1> HIDE DEF ns
<1>2. ASSUME NEW y \in DOMAIN ns PROVE ns[y] \in 1..nx2
  <2>1. CASE y = x BY <2>1, <1>1
  <2>2. CASE y # x
    <3>1. ns[y] = names[y] /\ y \in DOMAIN names BY <2>2, <1>1
    <3>2. names[y] \in 1..next BY <3>1 DEF NamesOK
    <3>3. names[y] \in 1..nx2 BY <3>2
    <3> QED BY <3>1, <3>3
  <2> QED BY <2>1, <2>2
<1> QED BY <1>2 DEF NamesOK, ns

LEMMA LetKept ==
  ASSUME GenInv, CompileLet PROVE GenInv'
<1> DEFINE s == Task.s  m == Task.m  slot == next + 1  ins == [op |-> "STORE_LOCAL", slot |-> slot]
           a == ExprTask(s.x, 0, m)  b == EmitTask(ins, 1, 0, m)
<1>1. /\ WorkStmt({"let"}) /\ Becomes(<<a, b>>)
      /\ names' = BoundTo(s.v, slot) /\ next' = slot
      /\ code' = code /\ heights' = heights /\ tries' = tries /\ UNCHANGED lasting
  BY DEF CompileLet, text
<1>2. /\ phase = "run" /\ todo # <<>> /\ s.s = "let" /\ IsStatement(s)
      /\ Task.h = 0 /\ m \in Nat /\ m <= m /\ Placed(0, m) /\ Placed(1, m)
      /\ EndH(Task) = 0 /\ EndM(Task) = m
  BY <1>1, StmtInHand
<1>3. /\ CodeOK(code, heights, tries, next, Len(source)) /\ NamesOK(names, next) /\ next \in Nat
      /\ heights[Len(heights)] = 0 /\ tries[Len(tries)] = m
  BY <1>2, TaskInHand
<1>4. s.x \in Expressions BY <1>2 DEF IsStatement
<1>5. slot \in Nat /\ next <= slot /\ slot \in 1..slot BY <1>3
<1>6. ins.op = "STORE_LOCAL" /\ ins.slot \in 1..slot BY <1>5
<1> HIDE DEF s, m, slot, ins
<1>7. NamesOK(names', slot) BY <1>1, <1>3, <1>5, BoundNames
<1>8. /\ CodeOK(code, heights, tries, slot, Len(source))
      /\ Extends(code, heights, tries, next, code, heights, tries, slot)
  BY <1>3, <1>5, SlotsGrow
<1>9. EmitFits(ins, 1, 0, m, code, tries, slot, Len(source))
  <2>1. Operands(ins, slot, Len(source)) BY <1>6 DEF Operands, Opcodes
  <2>2. Pops(ins) = 1 /\ Pushes(ins) = 0 BY <1>6 DEF Pops, Pushes
  <2> QED BY <1>6, <2>1, <2>2 DEF EmitFits
<1>10. TriesBehind(ins, m) = m BY <1>6 DEF TriesBehind
<1>11. /\ TaskOK(a, code, heights, tries, slot, Len(source))
       /\ a.h = 0 /\ a.m = m /\ EndH(a) = 1 /\ EndM(a) = m
  BY <1>2, <1>4, ValueTasks
<1>12. /\ TaskOK(b, code, heights, tries, slot, Len(source))
       /\ b.h = 1 /\ b.m = m /\ EndH(b) = 0 /\ EndM(b) = m
  BY <1>2, <1>9, <1>10, EmitTasks
<1> HIDE DEF a, b
<1> QED BY <1>1, <1>2, <1>3, <1>7, <1>8, <1>11, <1>12, FollowTwo DEF m

-----------------------------------------------------------------------------
(* if *)

\* A jump is emitted that will be patched.
LEMMA JumpPut ==
  ASSUME GenInv, phase = "run", todo # <<>>, NEW op \in {"JMP", "JZ"},
         IF op = "JZ" THEN Task.h = 1 ELSE Task.h = 0
  PROVE  LET c2 == Append(code, Goto(op, 1))
             h2 == Append(heights, 0)
             m2 == Append(tries, Task.m)
         IN  /\ CodeOK(c2, h2, m2, next, Len(source))
             /\ Extends(code, heights, tries, next, c2, h2, m2, next)
             /\ Len(c2) = Marked
             /\ JumpAt(c2, m2, Marked, Task.m)
             /\ Mark(h2, m2, Marked + 1, Task.m)
             /\ h2[Len(h2)] = 0 /\ m2[Len(m2)] = Task.m
<1>1. /\ CodeOK(code, heights, tries, next, Len(source))
      /\ Task.m \in Nat /\ Len(code) \in Nat /\ Len(heights) = Marked /\ Len(tries) = Marked
      /\ heights[Len(heights)] = Task.h /\ tries[Len(tries)] = Task.m
  BY TaskInHand
<1>2. Marked = Len(code) + 1 /\ Marked + 1 = Len(code) + 2 BY <1>1 DEF Marked
<1>3. MarkBelow(heights, tries, 1, tries[Len(tries)])
  <2>1. 1 \in 1..Len(heights) /\ heights[1] = 0 /\ tries[1] = 0 BY <1>1, <1>2 DEF CodeOK
  <2> QED BY <2>1, <1>1 DEF MarkBelow
<1>4. IF op = "JZ" THEN heights[Len(heights)] = 1 ELSE heights[Len(heights)] = 0 BY <1>1
<1>5. tries[Len(tries)] = Task.m BY <1>1
<1> DEFINE c2 == Append(code, Goto(op, 1))  h2 == Append(heights, 0)
           m2 == Append(tries, tries[Len(tries)])
<1>6. /\ CodeOK(c2, h2, m2, next, Len(source))
      /\ Extends(code, heights, tries, next, c2, h2, m2, next)
      /\ Len(c2) = Marked
      /\ JumpAt(c2, m2, Marked, tries[Len(tries)])
      /\ Mark(h2, m2, Marked + 1, tries[Len(tries)])
      /\ h2[Len(h2)] = 0 /\ m2[Len(m2)] = tries[Len(tries)]
  <2> DEFINE at == Marked  behind == Marked + 1
  <2>1. at = Len(code) + 1 /\ behind = Len(code) + 2 BY <1>2
  <2> HIDE DEF at, behind
  <2>2. /\ CodeOK(c2, h2, m2, next, Len(source))
        /\ Extends(code, heights, tries, next, c2, h2, m2, next)
        /\ Len(c2) = at
        /\ JumpAt(c2, m2, at, tries[Len(tries)])
        /\ Mark(h2, m2, behind, tries[Len(tries)])
        /\ h2[Len(h2)] = 0 /\ m2[Len(m2)] = tries[Len(tries)]
    BY <1>1, <1>3, <1>4, <2>1, JumpKeeps
  <2> QED BY <2>2 DEF at, behind
<1> QED BY <1>5, <1>6

LEMMA IfKept ==
  ASSUME GenInv, BeginIf PROVE GenInv'
<1> DEFINE s == Task.s  m == Task.m  a == ExprTask(s.c, 0, m)  b == ThenTask(s, m)
<1>1. Plan(<<a, b>>) /\ WorkStmt({"if"}) BY DEF BeginIf
<1>2. /\ phase = "run" /\ todo # <<>> /\ s.s = "if" /\ s \in Statements /\ IsStatement(s)
      /\ Task.h = 0 /\ m \in Nat /\ m <= m /\ Placed(0, m)
      /\ EndH(Task) = 0 /\ EndM(Task) = m
  BY <1>1, StmtInHand
<1>3. s.c \in Expressions BY <1>2 DEF IsStatement
<1>4. b.t = "then" /\ b.s = s /\ b.h = 1 /\ b.m = m BY DEF ThenTask
<1> HIDE DEF s, m, b
<1>5. /\ TaskOK(a, code, heights, tries, next, Len(source))
      /\ a.h = 0 /\ a.m = m /\ EndH(a) = 1 /\ EndM(a) = m
  BY <1>2, <1>3, ValueTasks
<1>6. TaskOK(b, code, heights, tries, next, Len(source)) BY <1>2, <1>4 DEF TaskOK, IsTree
<1>7. EndH(b) = 0 /\ EndM(b) = m BY <1>4 DEF EndH, EndM
<1> HIDE DEF a
<1> QED BY <1>1, <1>2, <1>4, <1>5, <1>6, <1>7, PlanTwo DEF m

LEMMA ThenKept ==
  ASSUME GenInv, BeginThen PROVE GenInv'
<1> DEFINE s == Task.s  m == Task.m  at == Marked
           a == BlockTask(s.then, m)  b == ElseTask(s, at, m)
<1>1. /\ phase = "run" /\ todo # <<>> /\ Task.t = "then" /\ Becomes(<<a, b>>)
      /\ code' = Append(code, Goto("JZ", 1)) /\ heights' = Append(heights, 0)
      /\ tries' = Append(tries, m) /\ names' = names /\ next' = next /\ UNCHANGED lasting
  BY DEF BeginThen, Work, Put, Grown, scope
<1>2. /\ TaskOK(Task, code, heights, tries, next, Len(source)) /\ NamesOK(names, next)
      /\ m \in Nat
  BY <1>1, TaskInHand
<1>3. Task.h = 1 /\ IsTree(s, {"if"}) BY <1>1, <1>2 DEF TaskOK
<1>4. s \in Statements /\ s.s = "if" /\ s.then \in Seq(Statements)
  BY <1>3, SourcesAssumption DEF IsTree, IsStatement
<1>5. /\ CodeOK(code', heights', tries', next', Len(source))
      /\ Extends(code, heights, tries, next, code', heights', tries', next')
      /\ JumpAt(code', tries', at, m)
      /\ heights'[Len(heights')] = 0 /\ tries'[Len(tries')] = m
  BY <1>1, <1>3, JumpPut
<1>6. EndH(Task) = 0 /\ EndM(Task) = m BY <1>1 DEF EndH, EndM
<1>7. b.t = "else" /\ b.s = s /\ b.at = at /\ b.h = 0 /\ b.m = m BY DEF ElseTask
<1> HIDE DEF s, m, at, b
<1>8. Placed(0, m) /\ m <= m BY <1>2 DEF Placed
<1>9. /\ TaskOK(a, code', heights', tries', next', Len(source))
      /\ a.h = 0 /\ a.m = m /\ EndH(a) = 0 /\ EndM(a) = m
  BY <1>4, <1>8, BlockTasks
<1>10. TaskOK(b, code', heights', tries', next', Len(source))
  BY <1>2, <1>3, <1>5, <1>7 DEF TaskOK
<1>11. EndH(b) = 0 /\ EndM(b) = m BY <1>7 DEF EndH, EndM
<1> HIDE DEF a
<1> QED BY <1>1, <1>2, <1>5, <1>6, <1>7, <1>8, <1>9, <1>10, <1>11, FollowTwo DEF m

LEMMA ElseKept ==
  ASSUME GenInv, BeginElse PROVE GenInv'
<1> DEFINE s == Task.s  m == Task.m  at == Marked
           c1 == Append(code, Goto("JMP", 1))
           a == BlockTask(s.else, m)  b == JoinTask(at, m)
<1>1. /\ phase = "run" /\ todo # <<>> /\ Task.t = "else" /\ Becomes(<<a, b>>)
      /\ code' = Patched(c1, {Task.at}, at + 1) /\ heights' = Append(heights, 0)
      /\ tries' = Append(tries, m) /\ names' = names /\ next' = next /\ UNCHANGED lasting
  BY DEF BeginElse, Work, Grown, scope
<1>2. /\ TaskOK(Task, code, heights, tries, next, Len(source)) /\ NamesOK(names, next)
      /\ m \in Nat
  BY <1>1, TaskInHand
<1>3. Task.h = 0 /\ IsTree(s, {"if"}) /\ JumpAt(code, tries, Task.at, m)
  BY <1>1, <1>2 DEF TaskOK
<1>4. s.else \in Seq(Statements)
  BY <1>3, SourcesAssumption DEF IsTree, IsStatement
<1>5. /\ CodeOK(c1, heights', tries', next, Len(source))
      /\ Extends(code, heights, tries, next, c1, heights', tries', next)
      /\ JumpAt(c1, tries', at, m) /\ Mark(heights', tries', at + 1, m)
      /\ heights'[Len(heights')] = 0 /\ tries'[Len(tries')] = m
  BY <1>1, <1>3, JumpPut
<1>6. EndH(Task) = 0 /\ EndM(Task) = m BY <1>1 DEF EndH, EndM
<1>7. b.t = "join" /\ b.at = at /\ b.h = 0 /\ b.m = m BY DEF JoinTask
<1> HIDE DEF s, m, at, b, c1
<1>8. JumpsAt(c1, tries', {Task.at}, m) BY <1>3, <1>5, JumpAtKept DEF JumpsAt
<1>9. /\ CodeOK(code', heights', tries', next, Len(source))
      /\ Extends(c1, heights', tries', next, code', heights', tries', next)
  BY <1>1, <1>5, <1>8, PatchKeeps
<1>10. Extends(code, heights, tries, next, code', heights', tries', next)
  BY <1>5, <1>9, ExtendsTwice
<1>11. JumpAt(code', tries', at, m) BY <1>5, <1>9, JumpAtKept
<1>12. Placed(0, m) /\ m <= m BY <1>2 DEF Placed
<1>13. /\ TaskOK(a, code', heights', tries', next', Len(source))
       /\ a.h = 0 /\ a.m = m /\ EndH(a) = 0 /\ EndM(a) = m
  BY <1>4, <1>12, BlockTasks
<1>14. TaskOK(b, code', heights', tries', next', Len(source))
  BY <1>2, <1>7, <1>11 DEF TaskOK
<1>15. EndH(b) = 0 /\ EndM(b) = m BY <1>7 DEF EndH, EndM
<1> HIDE DEF a
<1> QED
  BY <1>1, <1>2, <1>5, <1>6, <1>7, <1>9, <1>10, <1>12, <1>13, <1>14, <1>15, FollowTwo DEF m

LEMMA EndIfKept ==
  ASSUME GenInv, EndIf PROVE GenInv'
<1> DEFINE m == Task.m
<1>1. /\ phase = "run" /\ todo # <<>> /\ Task.t \in {"join", "else"} /\ Becomes(<<>>)
      /\ code' = Patched(code, {Task.at}, Marked) /\ heights' = heights /\ tries' = tries
      /\ names' = names /\ next' = next /\ UNCHANGED lasting
  BY DEF EndIf, Work, scope
<1>2. /\ CodeOK(code, heights, tries, next, Len(source))
      /\ TaskOK(Task, code, heights, tries, next, Len(source)) /\ NamesOK(names, next)
      /\ heights[Len(heights)] = Task.h /\ tries[Len(tries)] = m
      /\ Task.h = 0 => Mark(heights, tries, Marked, m)
  BY <1>1, TaskInHand
<1>3. Task.h = 0 /\ JumpAt(code, tries, Task.at, m) BY <1>1, <1>2 DEF TaskOK
<1>4. JumpsAt(code, tries, {Task.at}, m) BY <1>3 DEF JumpsAt
<1>5. /\ CodeOK(code', heights, tries, next, Len(source))
      /\ Extends(code, heights, tries, next, code', heights, tries, next)
  BY <1>1, <1>2, <1>3, <1>4, PatchKeeps
<1>6. EndH(Task) = 0 /\ EndM(Task) = m BY <1>1 DEF EndH, EndM
<1> QED BY <1>1, <1>2, <1>3, <1>5, <1>6, NoneFollows

-----------------------------------------------------------------------------
(* Loops *)

LEMMA LoopKept ==
  ASSUME GenInv, BeginLoop PROVE GenInv'
<1> DEFINE s == Task.s  m == Task.m  at == Marked
           a == ExprTask(s.c, 0, m)  b == LoopTask(s, at, m)
<1>1. Plan(<<a, b>>) /\ WorkStmt({"while", "for"}) BY DEF BeginLoop
<1>2. /\ phase = "run" /\ todo # <<>> /\ s.s \in {"while", "for"}
      /\ s \in Statements /\ IsStatement(s)
      /\ Task.h = 0 /\ m \in Nat /\ m <= m /\ Placed(0, m)
      /\ EndH(Task) = 0 /\ EndM(Task) = m
  BY <1>1, StmtInHand
<1>3. Mark(heights, tries, at, m) BY <1>2, TaskInHand
<1>4. s.c \in Expressions BY <1>2 DEF IsStatement
<1>5. b.t = "loop" /\ b.s = s /\ b.start = at /\ b.h = 1 /\ b.m = m BY DEF LoopTask
<1> HIDE DEF s, m, at, b
<1>6. /\ TaskOK(a, code, heights, tries, next, Len(source))
      /\ a.h = 0 /\ a.m = m /\ EndH(a) = 1 /\ EndM(a) = m
  BY <1>2, <1>4, ValueTasks
<1>7. TaskOK(b, code, heights, tries, next, Len(source))
  BY <1>2, <1>3, <1>5 DEF TaskOK, IsTree
<1>8. EndH(b) = 0 /\ EndM(b) = m BY <1>5 DEF EndH, EndM
<1> HIDE DEF a
<1> QED BY <1>1, <1>2, <1>5, <1>6, <1>7, <1>8, PlanTwo DEF m

LEMMA LoopBodyKept ==
  ASSUME GenInv, BeginLoopBody PROVE GenInv'
<1> DEFINE s == Task.s  m == Task.m  at == Marked  start == Task.start
           a == BlockTask(s.body, m)  b == StepTask(s, start, at, {}, {}, m)
<1>1. /\ phase = "run" /\ todo # <<>> /\ Task.t = "loop" /\ Becomes(<<a, b>>)
      /\ code' = Append(code, Goto("JZ", 1)) /\ heights' = Append(heights, 0)
      /\ tries' = Append(tries, m) /\ names' = names /\ next' = next /\ UNCHANGED lasting
  BY DEF BeginLoopBody, Work, Put, Grown, scope
<1>2. /\ TaskOK(Task, code, heights, tries, next, Len(source)) /\ NamesOK(names, next)
      /\ m \in Nat
  BY <1>1, TaskInHand
<1>3. Task.h = 1 /\ IsTree(s, {"while", "for"}) /\ Mark(heights, tries, start, m)
  BY <1>1, <1>2 DEF TaskOK
<1>4. s.body \in Seq(Statements) BY <1>3, SourcesAssumption DEF IsTree, IsStatement
<1>5. /\ CodeOK(code', heights', tries', next', Len(source))
      /\ Extends(code, heights, tries, next, code', heights', tries', next')
      /\ JumpAt(code', tries', at, m)
      /\ heights'[Len(heights')] = 0 /\ tries'[Len(tries')] = m
  BY <1>1, <1>3, JumpPut
<1>6. EndH(Task) = 0 /\ EndM(Task) = m BY <1>1 DEF EndH, EndM
<1>7. /\ b.t = "step" /\ b.s = s /\ b.start = start /\ b.exit = at
      /\ b.brk = {} /\ b.cont = {} /\ b.h = 0 /\ b.m = m
  BY DEF StepTask
<1> HIDE DEF s, m, at, start, b
<1>8. Placed(0, m) /\ m <= m BY <1>2 DEF Placed
<1>9. /\ TaskOK(a, code', heights', tries', next', Len(source))
      /\ a.h = 0 /\ a.m = m /\ EndH(a) = 0 /\ EndM(a) = m
  BY <1>4, <1>8, BlockTasks
<1>10. Mark(heights', tries', start, m) BY <1>3, <1>5, MarkKept
<1>11. JumpsAt(code', tries', {}, m) BY DEF JumpsAt
<1>12. TaskOK(b, code', heights', tries', next', Len(source))
  BY <1>2, <1>3, <1>5, <1>7, <1>10, <1>11 DEF TaskOK
<1>13. EndH(b) = 0 /\ EndM(b) = m BY <1>7 DEF EndH, EndM
<1> HIDE DEF a
<1> QED BY <1>1, <1>2, <1>5, <1>6, <1>7, <1>8, <1>9, <1>12, <1>13, FollowTwo DEF m

\* The end of a loop, whose `continue` goes to `again`.
LEMMA AgainTasks ==
  ASSUME NEW c, NEW h, NEW m, NEW nx, NEW n, NEW tm, Placed(0, tm),
         NEW start, NEW again, NEW exit, NEW brk, NEW cont,
         Mark(h, m, start, tm), Mark(h, m, again, tm),
         JumpAt(c, m, exit, tm), JumpsAt(c, m, brk, tm), JumpsAt(c, m, cont, tm)
  PROVE  LET t == AgainTask(start, again, exit, brk, cont, tm) IN
         /\ TaskOK(t, c, h, m, nx, n)
         /\ t.h = 0 /\ t.m = tm /\ EndH(t) = 0 /\ EndM(t) = tm
<1> DEFINE t == AgainTask(start, again, exit, brk, cont, tm)
<1>1. /\ t.t = "again" /\ t.start = start /\ t.again = again /\ t.exit = exit
      /\ t.brk = brk /\ t.cont = cont /\ t.h = 0 /\ t.m = tm
  BY DEF AgainTask
<1> HIDE DEF t
<1>2. TaskOK(t, c, h, m, nx, n) BY <1>1 DEF TaskOK, Placed
<1>3. EndH(t) = 0 /\ EndM(t) = tm BY <1>1 DEF EndH, EndM
<1> QED BY <1>1, <1>2, <1>3 DEF t

LEMMA StepKept ==
  ASSUME GenInv, CompileStep PROVE GenInv'
<1> DEFINE s == Task.s  m == Task.m  at == Marked
           start == Task.start  exit == Task.exit  brk == Task.brk  cont == Task.cont
           ins == [op |-> "POP"]
           w == AgainTask(start, start, exit, brk, cont, m)
           a == ExprTask(s.step, 0, m)  b == EmitTask(ins, 1, 0, m)
           e == AgainTask(start, at, exit, brk, cont, m)
<1>1. /\ phase = "run" /\ todo # <<>> /\ Task.t = "step"
      /\ IF s.s = "while" THEN Plan(<<w>>) ELSE Plan(<<a, b, e>>)
  BY DEF CompileStep, Work
<1>2. /\ TaskOK(Task, code, heights, tries, next, Len(source)) /\ m \in Nat
      /\ Task.h = 0 => Mark(heights, tries, at, m)
  BY <1>1, TaskInHand
<1>3. /\ Task.h = 0 /\ IsTree(s, {"while", "for"}) /\ Mark(heights, tries, start, m)
      /\ JumpAt(code, tries, exit, m)
      /\ JumpsAt(code, tries, brk, m) /\ JumpsAt(code, tries, cont, m)
  BY <1>1, <1>2 DEF TaskOK
<1>4. EndH(Task) = 0 /\ EndM(Task) = m BY <1>1 DEF EndH, EndM
<1>5. IsStatement(s) /\ s.s \in {"while", "for"} BY <1>3, SourcesAssumption DEF IsTree
<1>6. ins.op = "POP" OBVIOUS
<1> HIDE DEF s, m, at, start, exit, brk, cont, ins
<1>7. Placed(0, m) /\ Placed(1, m) /\ m <= m BY <1>2 DEF Placed
<1>8. CASE s.s = "while"
  <2>1. /\ TaskOK(w, code, heights, tries, next, Len(source))
        /\ w.h = 0 /\ w.m = m /\ EndH(w) = 0 /\ EndM(w) = m
    BY <1>3, <1>7, AgainTasks
  <2>2. Plan(<<w>>) BY <1>1, <1>8
  <2> HIDE DEF w
  <2> QED BY <1>1, <1>3, <1>4, <1>7, <2>1, <2>2, PlanOne DEF m
<1>9. CASE s.s = "for"
  <2>1. s.step \in Expressions BY <1>5, <1>9 DEF IsStatement
  <2>2. Plan(<<a, b, e>>) BY <1>1, <1>9
  <2>3. /\ TaskOK(a, code, heights, tries, next, Len(source))
        /\ a.h = 0 /\ a.m = m /\ EndH(a) = 1 /\ EndM(a) = m
    BY <1>7, <2>1, ValueTasks
  <2>4. EmitFits(ins, 1, 0, m, code, tries, next, Len(source))
    <3>1. Operands(ins, next, Len(source)) BY <1>6 DEF Operands, Opcodes
    <3>2. Pops(ins) = 1 /\ Pushes(ins) = 0 BY <1>6 DEF Pops, Pushes
    <3> QED BY <1>6, <3>1, <3>2 DEF EmitFits
  <2>5. TriesBehind(ins, m) = m BY <1>6 DEF TriesBehind
  <2>6. /\ TaskOK(b, code, heights, tries, next, Len(source))
        /\ b.h = 1 /\ b.m = m /\ EndH(b) = 0 /\ EndM(b) = m
    BY <1>7, <2>4, <2>5, EmitTasks
  <2>7. /\ TaskOK(e, code, heights, tries, next, Len(source))
        /\ e.h = 0 /\ e.m = m /\ EndH(e) = 0 /\ EndM(e) = m
    <3>1. Mark(heights, tries, at, m) BY <1>2, <1>3
    <3> QED BY <3>1, <1>3, <1>7, AgainTasks
  <2> HIDE DEF a, b, e
  <2> QED BY <1>1, <1>3, <1>4, <1>7, <2>2, <2>3, <2>6, <2>7, PlanThree DEF m
<1> QED BY <1>5, <1>8, <1>9

\* A loop is done: continue, the jump back, and then the exit and break.
LEMMA EndLoopKept ==
  ASSUME GenInv, EndLoop PROVE GenInv'
<1> DEFINE m == Task.m  at == Marked  outs == Task.brk \cup {Task.exit}
           c0 == Patched(code, Task.cont, Task.again)
           c1 == Append(c0, Goto("JMP", Task.start))
<1>1. /\ phase = "run" /\ todo # <<>> /\ Task.t = "again" /\ Becomes(<<>>)
      /\ code' = Patched(c1, outs, at + 1)
      /\ heights' = Append(heights, 0) /\ tries' = Append(tries, m)
      /\ names' = names /\ next' = next /\ UNCHANGED lasting
  BY DEF EndLoop, Work, Grown, scope
<1>2. /\ CodeOK(code, heights, tries, next, Len(source))
      /\ TaskOK(Task, code, heights, tries, next, Len(source)) /\ NamesOK(names, next)
      /\ m \in Nat /\ Len(code) \in Nat
      /\ heights[Len(heights)] = Task.h /\ tries[Len(tries)] = m
  BY <1>1, TaskInHand
<1>3. /\ Task.h = 0
      /\ Mark(heights, tries, Task.start, m) /\ Mark(heights, tries, Task.again, m)
      /\ JumpAt(code, tries, Task.exit, m)
      /\ JumpsAt(code, tries, Task.brk, m) /\ JumpsAt(code, tries, Task.cont, m)
  BY <1>1, <1>2 DEF TaskOK
<1>4. /\ CodeOK(c0, heights, tries, next, Len(source))
      /\ Extends(code, heights, tries, next, c0, heights, tries, next)
      /\ Len(c0) = Len(code)
  BY <1>2, <1>3, PatchKeeps
<1>5. JumpsAt(code, tries, outs, m) BY <1>3 DEF JumpsAt
<1>6. MarkBelow(heights, tries, Task.start, tries[Len(tries)])
  <2>1. tries[Len(tries)] <= m BY <1>2
  <2> QED BY <2>1, <1>2, <1>3 DEF Mark, MarkBelow
<1>7. at = Len(c0) + 1 /\ at + 1 = Len(c0) + 2 BY <1>2, <1>4 DEF Marked
<1>8. EndH(Task) = 0 /\ EndM(Task) = m BY <1>1 DEF EndH, EndM
<1> HIDE DEF c0, at, outs, m
<1>9. /\ CodeOK(c1, heights', tries', next, Len(source))
      /\ Extends(c0, heights, tries, next, c1, heights', tries', next)
      /\ Mark(heights', tries', at + 1, m)
      /\ heights'[Len(heights')] = 0 /\ tries'[Len(tries')] = m
  <2>1. IF "JMP" = "JZ" THEN heights[Len(heights)] = 1 ELSE heights[Len(heights)] = 0
    BY <1>2, <1>3
  <2> DEFINE behind == at + 1
  <2>2. behind = Len(c0) + 2 BY <1>7
  <2> HIDE DEF behind
  <2>3. /\ CodeOK(c1, heights', tries', next, Len(source))
        /\ Extends(c0, heights, tries, next, c1, heights', tries', next)
        /\ Mark(heights', tries', behind, m)
        /\ heights'[Len(heights')] = 0 /\ tries'[Len(tries')] = m
    BY <1>1, <1>2, <1>4, <1>6, <1>7, <2>1, <2>2, JumpKeeps
  <2> QED BY <2>3 DEF behind
<1> HIDE DEF c1
<1>10. Extends(code, heights, tries, next, c1, heights', tries', next)
  BY <1>4, <1>9, ExtendsTwice
<1>11. JumpsAt(c1, tries', outs, m) BY <1>5, <1>10, JumpsAtKept
<1>12. /\ CodeOK(code', heights', tries', next, Len(source))
       /\ Extends(c1, heights', tries', next, code', heights', tries', next)
  BY <1>1, <1>9, <1>11, PatchKeeps
<1>13. Extends(code, heights, tries, next, code', heights', tries', next)
  BY <1>10, <1>12, ExtendsTwice
<1> QED BY <1>1, <1>2, <1>8, <1>9, <1>12, <1>13, NoneFollows

\* Any set of numbers has a least one.
LEMMA LeastNumber ==
  ASSUME NEW S \in SUBSET Nat, S # {} PROVE \E k \in S : \A j \in S : k <= j
<1> DEFINE R == {p \in Nat \X Nat : p[1] < p[2]}
<1>1. IsWellFoundedOn(R, Nat) BY NatLessThanWellFounded DEF OpToRel
<1>2. PICK k \in S : \A j \in S : ~(<<j, k>> \in R) BY <1>1, WFMin, Zenon
<1>3. ASSUME NEW j \in S PROVE k <= j
  <2>1. k \in Nat /\ j \in Nat /\ ~(<<j, k>> \in R) BY <1>2
  <2> QED BY <2>1
<1> QED BY <1>3

\* Tasks that begin and end as those before them did.
LEMMA TasksAlike ==
  ASSUME NEW c, NEW h, NEW m, NEW nx, NEW n, NEW ts, TasksOK(ts, c, h, m, nx, n),
         NEW ts2, IsList(ts2), Len(ts2) = Len(ts),
         \A k \in 1..Len(ts) :
           /\ ts2[k].h = ts[k].h /\ ts2[k].m = ts[k].m
           /\ EndH(ts2[k]) = EndH(ts[k]) /\ EndM(ts2[k]) = EndM(ts[k])
           /\ TaskOK(ts2[k], c, h, m, nx, n)
  PROVE  TasksOK(ts2, c, h, m, nx, n)
<1>1. Len(ts) \in Nat BY DEF TasksOK, IsList
<1>2. Lined(ts2)
  <2> SUFFICES ASSUME NEW k \in 1..(Len(ts2) - 1)
               PROVE  ts2[k + 1].h = EndH(ts2[k]) /\ ts2[k + 1].m = EndM(ts2[k])
    BY DEF Lined
  <2>1. k \in 1..(Len(ts) - 1) /\ k \in 1..Len(ts) /\ k + 1 \in 1..Len(ts) BY <1>1
  <2>2. ts[k + 1].h = EndH(ts[k]) /\ ts[k + 1].m = EndM(ts[k]) BY <2>1 DEF TasksOK, Lined
  <2> QED BY <2>1, <2>2
<1>3. Falling(ts2)
  <2> SUFFICES ASSUME NEW j \in 1..Len(ts2), NEW k \in 1..Len(ts2), j <= k
               PROVE  ts2[k].m <= ts2[j].m
    BY DEF Falling
  <2>1. ts[k].m <= ts[j].m BY DEF TasksOK, Falling
  <2>2. ts2[k].m = ts[k].m /\ ts2[j].m = ts[j].m OBVIOUS
  <2> QED BY <2>1, <2>2
<1>4. StartsAt(ts2, h, m)
  <2> SUFFICES ASSUME Len(ts) > 0
               PROVE  ts2[1].h = h[Len(h)] /\ ts2[1].m = m[Len(m)]
    BY DEF StartsAt
  <2>1. 1 \in 1..Len(ts) BY <1>1
  <2>2. ts[1].h = h[Len(h)] /\ ts[1].m = m[Len(m)] BY DEF TasksOK, StartsAt
  <2> QED BY <2>1, <2>2
<1> QED BY <1>2, <1>3, <1>4 DEF TasksOK

\* One more break or continue of a loop, out of as many open tries as the loop or more.
LEMMA LeaveTask ==
  ASSUME NEW c, NEW h, NEW m, NEW nx, NEW n, NEW t, TaskOK(t, c, h, m, nx, n), t.t = "step",
         NEW kind, NEW at, JumpAt(c, m, at, t.m)
  PROVE  LET u == WithLeave(t, kind, at) IN
         /\ TaskOK(u, c, h, m, nx, n)
         /\ u.h = t.h /\ u.m = t.m /\ EndH(u) = EndH(t) /\ EndM(u) = EndM(t)
<1> DEFINE u == WithLeave(t, kind, at)
           brk == IF kind = "break" THEN t.brk \cup {at} ELSE t.brk
           cont == IF kind = "break" THEN t.cont ELSE t.cont \cup {at}
<1>1. /\ t.h = 0 /\ t.m \in Nat /\ IsTree(t.s, {"while", "for"}) /\ Mark(h, m, t.start, t.m)
      /\ JumpAt(c, m, t.exit, t.m)
      /\ JumpsAt(c, m, t.brk, t.m) /\ JumpsAt(c, m, t.cont, t.m)
  BY DEF TaskOK
<1>2. JumpsAt(c, m, brk, t.m) /\ JumpsAt(c, m, cont, t.m) BY <1>1 DEF JumpsAt
<1>3. /\ u.t = "step" /\ u.s = t.s /\ u.start = t.start /\ u.exit = t.exit
      /\ u.brk = brk /\ u.cont = cont /\ u.h = 0 /\ u.m = t.m
  BY DEF WithLeave, StepTask
<1> HIDE DEF u, brk, cont
<1>4. TaskOK(u, c, h, m, nx, n) BY <1>1, <1>2, <1>3 DEF TaskOK
<1>5. EndH(u) = 0 /\ EndM(u) = t.m BY <1>3 DEF EndH, EndM
<1>6. EndH(t) = 0 /\ EndM(t) = t.m BY DEF EndH, EndM
<1> QED BY <1>1, <1>3, <1>4, <1>5, <1>6 DEF u

\* The innermost loop is one of the tasks behind the next one.
LEMMA LoopLeft ==
  ASSUME IsList(todo), Loops # {} PROVE Innermost \in 1..Len(todo) /\ todo[Innermost].t = "step"
<1>1. DOMAIN todo = 1..Len(todo) /\ Len(todo) \in Nat BY DEF IsList
<1>2. Loops \in SUBSET Nat BY <1>1 DEF Loops
<1>3. \E k \in Loops : \A j \in Loops : k <= j BY <1>2, LeastNumber
<1>4. Innermost \in Loops BY <1>3 DEF Innermost
<1> QED BY <1>1, <1>4 DEF Loops

LEMMA LeaveKept ==
  ASSUME GenInv, CompileLeave PROVE GenInv'
<1> DEFINE m == Task.m  at == Marked  kind == Task.s.s
           rest == <<>> \o Tail(todo)
           Left(k) == IF k + 1 = Innermost THEN WithLeave(todo[k + 1], kind, at)
                                           ELSE todo[k + 1]
           c == code'  h == heights'  mm == tries'
<1>1. /\ WorkStmt({"break", "continue"}) /\ Loops # {}
      /\ c = Append(code, Goto("JMP", 1)) /\ h = Append(heights, 0) /\ mm = Append(tries, m)
      /\ todo' = [k \in 1..(Len(todo) - 1) |-> Left(k)]
      /\ names' = names /\ next' = next /\ UNCHANGED lasting
  BY DEF CompileLeave, Put, Grown, scope
<1>2. /\ phase = "run" /\ todo # <<>> /\ Task.h = 0 /\ m \in Nat
      /\ EndH(Task) = 0 /\ EndM(Task) = m /\ Task.t = "stmt"
  BY <1>1, StmtInHand DEF WorkStmt, Work
<1>3. /\ TasksOK(todo, code, heights, tries, next, Len(source)) /\ NamesOK(names, next)
      /\ Task = todo[1]
  BY <1>2, TaskInHand
<1>4. IsList(todo) /\ Lined(todo) /\ Falling(todo) BY <1>3 DEF TasksOK
<1>5. /\ CodeOK(c, h, mm, next, Len(source))
      /\ Extends(code, heights, tries, next, c, h, mm, next)
      /\ JumpAt(c, mm, at, m)
      /\ h[Len(h)] = 0 /\ mm[Len(mm)] = m
  BY <1>1, <1>2, JumpPut
<1> HIDE DEF at, c, h, mm
<1>6. TasksOK(rest, c, h, mm, next, Len(source))
  BY <1>2, <1>3, <1>5, DoneKeepsTasks
<1>7. Len(rest) = Len(todo) - 1 /\ \A k \in 1..Len(rest) : rest[k] = todo[k + 1]
  BY <1>2, <1>4, TaskDone
<1>8. Len(todo) \in Nat /\ Len(todo) > 0 BY <1>2, <1>4, EmptyList DEF IsList
<1> HIDE DEF rest
<1>9. Innermost \in 1..Len(todo) /\ todo[Innermost].t = "step" BY <1>1, <1>4, LoopLeft
<1>10. /\ IsList(todo') /\ Len(todo') = Len(rest)
       /\ \A k \in 1..Len(rest) : todo'[k] = Left(k)
  <2>1. Len(todo) - 1 \in Nat BY <1>8
  <2>2. todo' \in [1..(Len(todo) - 1) -> {Left(k) : k \in 1..(Len(todo) - 1)}] BY <1>1
  <2>3. IsList(todo') /\ Len(todo') = Len(todo) - 1 BY <2>1, <2>2, FunctionIsList
  <2> QED BY <2>3, <1>1, <1>7
<1>11. ASSUME NEW k \in 1..Len(rest)
       PROVE  /\ todo'[k].h = rest[k].h /\ todo'[k].m = rest[k].m
              /\ EndH(todo'[k]) = EndH(rest[k]) /\ EndM(todo'[k]) = EndM(rest[k])
              /\ TaskOK(todo'[k], c, h, mm, next, Len(source))
  <2>1. TaskOK(rest[k], c, h, mm, next, Len(source)) BY <1>6 DEF TasksOK
  <2>2. todo'[k] = Left(k) /\ rest[k] = todo[k + 1] BY <1>7, <1>10
  <2>3. CASE k + 1 = Innermost
    <3>1. todo'[k] = WithLeave(rest[k], kind, at) /\ rest[k].t = "step" BY <2>2, <2>3, <1>9
    <3>2. rest[k].m <= m
      <4>1. 1 \in 1..Len(todo) /\ k + 1 \in 1..Len(todo) /\ 1 <= k + 1 BY <1>7, <1>8
      <4>2. todo[k + 1].m <= todo[1].m BY <4>1, <1>4 DEF Falling
      <4> QED BY <4>2, <2>2, <1>3
    <3>3. JumpAt(c, mm, at, rest[k].m)
      <4>1. at \in 1..Len(c) /\ c[at].op \in {"JMP", "JZ"} /\ m <= mm[at] BY <1>5 DEF JumpAt
      <4>2. rest[k].m \in Nat BY <2>1, TaskNumbers
      <4>3. mm[at] \in Nat
        <5>1. at \in 1..Len(mm) /\ mm \in Seq(Nat) BY <4>1, <1>5 DEF CodeOK, IsList
        <5> QED BY <5>1
      <4> HIDE DEF m
      <4>4. rest[k].m <= mm[at] BY <4>1, <4>2, <4>3, <3>2, <1>2
      <4> QED BY <4>1, <4>4 DEF JumpAt
    <3> QED BY <2>1, <3>1, <3>3, LeaveTask
  <2>4. CASE k + 1 # Innermost BY <2>1, <2>2, <2>4
  <2> QED BY <2>3, <2>4
<1>12. TasksOK(todo', c, h, mm, next, Len(source)) BY <1>6, <1>10, <1>11, TasksAlike
<1> QED BY <1>1, <1>2, <1>3, <1>5, <1>12, FunctionKept DEF c, h, mm

-----------------------------------------------------------------------------
(* try *)

LEMMA TryKept ==
  ASSUME GenInv, BeginTry PROVE GenInv'
<1> DEFINE s == Task.s  m == Task.m  d == m + 1  at == Marked  ins == [op |-> "ENDTRY"]
           slot == IF s.hasCatch THEN next + 1 ELSE 0
           nx2 == IF s.hasCatch THEN next + 1 ELSE next
           a == BlockTask(s.body, d)  b == EmitTask(ins, 0, 0, d)  e == LeftTask(s, at, m)
<1>1. /\ WorkStmt({"try"}) /\ Becomes(<<a, b, e>>)
      /\ code' = Append(code, TryOf(s, at, at, slot))
      /\ heights' = Append(heights, 0) /\ tries' = Append(tries, d)
      /\ IF s.hasCatch THEN names' = BoundTo(s.v, next + 1) ELSE names' = names
      /\ next' = nx2 /\ UNCHANGED lasting
  BY DEF BeginTry, Put, Grown, scope
<1>2. /\ phase = "run" /\ todo # <<>> /\ s.s = "try" /\ s \in Statements /\ IsStatement(s)
      /\ Task.h = 0 /\ m \in Nat /\ m <= m /\ EndH(Task) = 0 /\ EndM(Task) = m
  BY <1>1, StmtInHand
<1>3. /\ CodeOK(code, heights, tries, next, Len(source)) /\ NamesOK(names, next) /\ next \in Nat
      /\ heights[Len(heights)] = 0 /\ tries[Len(tries)] = m
  BY <1>2, TaskInHand
<1>4. s.hasCatch \in BOOLEAN /\ s.body \in Seq(Statements) BY <1>2 DEF IsStatement
<1>5. /\ nx2 \in Nat /\ next <= nx2 /\ slot \in Nat
      /\ s.hasCatch => slot \in 1..nx2 /\ slot = next + 1
  BY <1>3, <1>4
<1>6. NamesOK(names', nx2)
  <2>1. CASE s.hasCatch BY <2>1, <1>1, <1>3, <1>5, BoundNames
  <2>2. CASE ~s.hasCatch BY <2>2, <1>1, <1>3
  <2> QED BY <2>1, <2>2
<1>7. at = Len(code) + 1 BY DEF Marked
<1>8. /\ d \in Nat /\ d > 0 /\ m <= d /\ d <= d /\ d - 1 = m
      /\ Placed(0, d) /\ Placed(0, m)
  BY <1>2 DEF Placed
<1>9. d = tries[Len(tries)] + 1 BY <1>3
<1>10. ins.op = "ENDTRY" OBVIOUS
<1>11. e.t = "left" /\ e.s = s /\ e.at = at /\ e.h = 0 /\ e.m = m BY DEF LeftTask
<1> HIDE DEF s, m, d, at, ins, slot, nx2, e
<1>12. /\ CodeOK(code, heights, tries, nx2, Len(source))
       /\ Extends(code, heights, tries, next, code, heights, tries, nx2)
  BY <1>3, <1>5, SlotsGrow
<1>13. /\ CodeOK(code', heights', tries', nx2, Len(source))
       /\ Extends(code, heights, tries, nx2, code', heights', tries', nx2)
       /\ TryAt(code', tries', at, m, s)
       /\ heights'[Len(heights')] = 0 /\ tries'[Len(tries')] = d
  BY <1>1, <1>2, <1>3, <1>5, <1>7, <1>9, <1>12, TryKeeps
<1>14. Extends(code, heights, tries, next, code', heights', tries', nx2)
  BY <1>12, <1>13, ExtendsTwice
<1>15. /\ TaskOK(a, code', heights', tries', nx2, Len(source))
       /\ a.h = 0 /\ a.m = d /\ EndH(a) = 0 /\ EndM(a) = d
  BY <1>4, <1>8, BlockTasks
<1>16. EmitFits(ins, 0, 0, d, code', tries', nx2, Len(source))
  <2>1. Operands(ins, nx2, Len(source)) BY <1>10 DEF Operands, Opcodes
  <2>2. Pops(ins) = 0 /\ Pushes(ins) = 0 BY <1>10 DEF Pops, Pushes
  <2> QED BY <1>8, <1>10, <2>1, <2>2 DEF EmitFits
<1>17. TriesBehind(ins, d) = m BY <1>8, <1>10 DEF TriesBehind
<1>18. /\ TaskOK(b, code', heights', tries', nx2, Len(source))
       /\ b.h = 0 /\ b.m = d /\ EndH(b) = 0 /\ EndM(b) = m
  BY <1>8, <1>16, <1>17, EmitTasks
<1>19. TaskOK(e, code', heights', tries', nx2, Len(source))
  BY <1>2, <1>11, <1>13 DEF TaskOK, IsTree
<1>20. EndH(e) = 0 /\ EndM(e) = m BY <1>11 DEF EndH, EndM
<1> HIDE DEF a, b
<1> QED
  BY <1>1, <1>2, <1>6, <1>8, <1>11, <1>13, <1>14, <1>15, <1>18, <1>19, <1>20, FollowThree DEF m

\* The finally of a try, and what is to be patched at its beginning.
LEMMA FinallyTasks ==
  ASSUME NEW c, NEW h, NEW m, NEW nx, NEW n, NEW s, IsTree(s, {"try"}), NEW tm, Placed(0, tm),
         NEW at, TryAt(c, m, at, tm, s), NEW ends, JumpsAt(c, m, ends, tm)
  PROVE  LET t == FinallyTask(s, at, ends, tm) IN
         /\ TaskOK(t, c, h, m, nx, n)
         /\ t.h = 0 /\ t.m = tm /\ EndH(t) = 0 /\ EndM(t) = tm
<1> DEFINE t == FinallyTask(s, at, ends, tm)
<1>1. t.t = "finally" /\ t.s = s /\ t.at = at /\ t.ends = ends /\ t.h = 0 /\ t.m = tm
  BY DEF FinallyTask
<1> HIDE DEF t
<1>2. TaskOK(t, c, h, m, nx, n) BY <1>1 DEF TaskOK, Placed
<1>3. EndH(t) = 0 /\ EndM(t) = tm BY <1>1 DEF EndH, EndM
<1> QED BY <1>1, <1>2, <1>3 DEF t

\* What is known of a try that is in the code.
LEMMA TryInCode ==
  ASSUME NEW c, NEW h, NEW m, NEW nx, NEW n, CodeOK(c, h, m, nx, n),
         NEW at, NEW d, NEW s, TryAt(c, m, at, d, s)
  PROVE  /\ at \in 1..Len(c) /\ c[at].op = "TRY"
         /\ Mark(h, m, c[at].catch, d) /\ Mark(h, m, c[at].finally, d)
         /\ s.hasCatch => c[at].slot \in 1..nx
<1>1. /\ at \in 1..Len(c) /\ c[at].op = "TRY" /\ m[at] = d /\ c[at].hasCatch = s.hasCatch
  BY DEF TryAt
<1>2. InstrOK(c, h, m, nx, n, at) BY <1>1 DEF CodeOK
<1>3. TryOK(c, h, m, nx, at) BY <1>1, <1>2 DEF InstrOK
<1> QED BY <1>1, <1>3 DEF TryOK

LEMMA CatchKept ==
  ASSUME GenInv, BeginCatch PROVE GenInv'
<1> DEFINE s == Task.s  m == Task.m  at == Marked  p == Task.at
           fin == code[p].finally  slot == code[p].slot
           c1 == Append(code, Goto("JMP", 1))
           a == BlockTask(s.catch, m)  b == CaughtTask(s, p, at, m)
           e == FinallyTask(s, p, {at}, m)
<1>1. /\ phase = "run" /\ todo # <<>> /\ Task.t = "left"
      /\ code' = PatchedTry(c1, p, TryOf(s, at + 1, fin, slot))
      /\ heights' = Append(heights, 0) /\ tries' = Append(tries, m)
      /\ next' = next /\ UNCHANGED lasting
      /\ IF s.hasCatch THEN names' = BoundTo(s.v, slot) /\ Becomes(<<a, b>>)
                       ELSE names' = names /\ Becomes(<<e>>)
  BY DEF BeginCatch, Work, Grown
<1>2. /\ CodeOK(code, heights, tries, next, Len(source))
      /\ TaskOK(Task, code, heights, tries, next, Len(source)) /\ NamesOK(names, next)
      /\ m \in Nat /\ next \in Nat
  BY <1>1, TaskInHand
<1>3. Task.h = 0 /\ IsTree(s, {"try"}) /\ TryAt(code, tries, p, m, s)
  BY <1>1, <1>2 DEF TaskOK
<1>4. s.hasCatch \in BOOLEAN /\ s.catch \in Seq(Statements)
  BY <1>3, SourcesAssumption DEF IsTree, IsStatement
<1>5. /\ CodeOK(c1, heights', tries', next, Len(source))
      /\ Extends(code, heights, tries, next, c1, heights', tries', next)
      /\ JumpAt(c1, tries', at, m) /\ Mark(heights', tries', at + 1, m)
      /\ heights'[Len(heights')] = 0 /\ tries'[Len(tries')] = m
  BY <1>1, <1>3, JumpPut
<1>6. EndH(Task) = 0 /\ EndM(Task) = m BY <1>1 DEF EndH, EndM
<1>7. /\ p \in 1..Len(code) /\ Mark(heights, tries, fin, m)
      /\ s.hasCatch => slot \in 1..next
  BY <1>2, <1>3, TryInCode
<1>8. c1[p].slot = slot
  <2>1. IsList(code) BY <1>2 DEF CodeOK
  <2>2. c1[p] = code[p] BY <1>7, <2>1, AppendToList
  <2> QED BY <2>2
<1>9. b.t = "caught" /\ b.s = s /\ b.at = p /\ b.jmp = at /\ b.h = 0 /\ b.m = m BY DEF CaughtTask
<1> HIDE DEF s, m, at, p, fin, slot, c1, b
<1>10. TryAt(c1, tries', p, m, s) BY <1>3, <1>5, TryAtKept
<1>11. Mark(heights', tries', fin, m) BY <1>5, <1>7, MarkKept
<1>12. /\ CodeOK(code', heights', tries', next, Len(source))
       /\ Extends(c1, heights', tries', next, code', heights', tries', next)
  BY <1>1, <1>5, <1>8, <1>10, <1>11, PatchTryKeeps
<1>13. Extends(code, heights, tries, next, code', heights', tries', next)
  BY <1>5, <1>12, ExtendsTwice
<1>14. TryAt(code', tries', p, m, s) BY <1>10, <1>12, TryAtKept
<1>15. JumpAt(code', tries', at, m) BY <1>5, <1>12, JumpAtKept
<1>16. Placed(0, m) /\ m <= m BY <1>2 DEF Placed
<1>17. CASE s.hasCatch
  <2>1. names' = BoundTo(s.v, slot) /\ Becomes(<<a, b>>) BY <1>1, <1>17
  <2>2. NamesOK(names', next')
    <3>1. next <= next BY <1>2
    <3> QED BY <1>1, <1>2, <1>7, <1>17, <2>1, <3>1, BoundNames
  <2>3. /\ TaskOK(a, code', heights', tries', next', Len(source))
        /\ a.h = 0 /\ a.m = m /\ EndH(a) = 0 /\ EndM(a) = m
    BY <1>4, <1>16, BlockTasks
  <2>4. TaskOK(b, code', heights', tries', next', Len(source))
    BY <1>2, <1>3, <1>9, <1>14, <1>15 DEF TaskOK
  <2>5. EndH(b) = 0 /\ EndM(b) = m BY <1>9 DEF EndH, EndM
  <2> HIDE DEF a
  <2> QED
    BY <1>1, <1>5, <1>6, <1>9, <1>12, <1>13, <1>16, <2>1, <2>2, <2>3, <2>4, <2>5, FollowTwo DEF m
<1>18. CASE ~s.hasCatch
  <2>1. names' = names /\ Becomes(<<e>>) BY <1>1, <1>18
  <2>2. JumpsAt(code', tries', {at}, m) BY <1>15 DEF JumpsAt
  <2>3. /\ TaskOK(e, code', heights', tries', next', Len(source))
        /\ e.h = 0 /\ e.m = m /\ EndH(e) = 0 /\ EndM(e) = m
    BY <1>3, <1>14, <1>16, <2>2, FinallyTasks
  <2> HIDE DEF e
  <2> QED BY <1>1, <1>2, <1>5, <1>6, <1>12, <1>13, <1>16, <2>1, <2>3, FollowOne DEF m
<1> QED BY <1>4, <1>17, <1>18

LEMMA EndCatchKept ==
  ASSUME GenInv, EndCatch PROVE GenInv'
<1> DEFINE s == Task.s  m == Task.m  at == Marked  p == Task.at  jmp == Task.jmp
           a == FinallyTask(s, p, {jmp, at}, m)
<1>1. /\ phase = "run" /\ todo # <<>> /\ Task.t = "caught" /\ Becomes(<<a>>)
      /\ code' = Append(code, Goto("JMP", 1)) /\ heights' = Append(heights, 0)
      /\ tries' = Append(tries, m) /\ names' = names /\ next' = next /\ UNCHANGED lasting
  BY DEF EndCatch, Work, Put, Grown, scope
<1>2. /\ TaskOK(Task, code, heights, tries, next, Len(source)) /\ NamesOK(names, next)
      /\ m \in Nat
  BY <1>1, TaskInHand
<1>3. /\ Task.h = 0 /\ IsTree(s, {"try"}) /\ TryAt(code, tries, p, m, s)
      /\ JumpAt(code, tries, jmp, m)
  BY <1>1, <1>2 DEF TaskOK
<1>4. /\ CodeOK(code', heights', tries', next', Len(source))
      /\ Extends(code, heights, tries, next, code', heights', tries', next')
      /\ JumpAt(code', tries', at, m)
      /\ heights'[Len(heights')] = 0 /\ tries'[Len(tries')] = m
  BY <1>1, <1>3, JumpPut
<1>5. EndH(Task) = 0 /\ EndM(Task) = m BY <1>1 DEF EndH, EndM
<1> HIDE DEF s, m, at, p, jmp
<1>6. Placed(0, m) /\ m <= m BY <1>2 DEF Placed
<1>7. TryAt(code', tries', p, m, s) BY <1>3, <1>4, TryAtKept
<1>8. JumpAt(code', tries', jmp, m) BY <1>3, <1>4, JumpAtKept
<1>9. JumpsAt(code', tries', {jmp, at}, m) BY <1>4, <1>8 DEF JumpsAt
<1>10. /\ TaskOK(a, code', heights', tries', next', Len(source))
       /\ a.h = 0 /\ a.m = m /\ EndH(a) = 0 /\ EndM(a) = m
  BY <1>3, <1>6, <1>7, <1>9, FinallyTasks
<1> HIDE DEF a
<1> QED BY <1>1, <1>2, <1>4, <1>5, <1>6, <1>10, FollowOne DEF m

LEMMA FinallyKept ==
  ASSUME GenInv, BeginFinally PROVE GenInv'
<1> DEFINE s == Task.s  m == Task.m  at == Marked  p == Task.at  ends == Task.ends
           catch == code[p].catch  slot == code[p].slot  ins == [op |-> "FINALLY_END"]
           c1 == Patched(code, ends, at)
           a == BlockTask(s.finally, m)  b == EmitTask(ins, 0, 0, m)
<1>1. /\ phase = "run" /\ todo # <<>> /\ Task.t = "finally"
      /\ code' = PatchedTry(c1, p, TryOf(s, catch, at, slot))
      /\ heights' = heights /\ tries' = tries /\ names' = names
      /\ next' = next /\ UNCHANGED lasting
      /\ Becomes(IF s.hasFinally THEN <<a, b>> ELSE <<>>)
  BY DEF BeginFinally, Work, scope
<1>2. /\ CodeOK(code, heights, tries, next, Len(source))
      /\ TaskOK(Task, code, heights, tries, next, Len(source)) /\ NamesOK(names, next)
      /\ m \in Nat /\ heights[Len(heights)] = Task.h /\ tries[Len(tries)] = m
      /\ Task.h = 0 => Mark(heights, tries, at, m)
  BY <1>1, TaskInHand
<1>3. /\ Task.h = 0 /\ IsTree(s, {"try"}) /\ TryAt(code, tries, p, m, s)
      /\ JumpsAt(code, tries, ends, m)
  BY <1>1, <1>2 DEF TaskOK
<1>4. s.hasFinally \in BOOLEAN /\ s.finally \in Seq(Statements)
  BY <1>3, SourcesAssumption DEF IsTree, IsStatement
<1>5. Mark(heights, tries, at, m) BY <1>2, <1>3
<1>6. /\ CodeOK(c1, heights, tries, next, Len(source))
      /\ Extends(code, heights, tries, next, c1, heights, tries, next)
  BY <1>2, <1>3, <1>5, PatchKeeps
<1>7. EndH(Task) = 0 /\ EndM(Task) = m BY <1>1 DEF EndH, EndM
<1>8. p \in 1..Len(code) /\ code[p].op = "TRY" /\ Mark(heights, tries, catch, m)
  BY <1>2, <1>3, TryInCode
<1>9. c1[p].slot = slot
  <2>1. p \notin ends BY <1>3, <1>8 DEF JumpsAt, JumpAt
  <2>2. DOMAIN code = 1..Len(code) BY <1>2 DEF CodeOK, IsList
  <2>3. c1[p] = code[p] BY <1>8, <2>1, <2>2 DEF Patched
  <2> QED BY <2>3
<1>10. ins.op = "FINALLY_END" OBVIOUS
<1> HIDE DEF s, m, at, p, ends, catch, slot, c1, ins
<1>11. TryAt(c1, tries, p, m, s) BY <1>3, <1>6, TryAtKept
<1>12. /\ CodeOK(code', heights, tries, next, Len(source))
       /\ Extends(c1, heights, tries, next, code', heights, tries, next)
  BY <1>1, <1>5, <1>6, <1>8, <1>9, <1>11, PatchTryKeeps
<1>13. Extends(code, heights, tries, next, code', heights, tries, next)
  BY <1>6, <1>12, ExtendsTwice
<1>14. TryAt(code', tries, p, m, s) BY <1>11, <1>12, TryAtKept
<1>15. Placed(0, m) /\ m <= m BY <1>2 DEF Placed
<1>16. CASE s.hasFinally
  <2>1. Becomes(<<a, b>>) BY <1>1, <1>16
  <2>2. /\ TaskOK(a, code', heights, tries, next, Len(source))
        /\ a.h = 0 /\ a.m = m /\ EndH(a) = 0 /\ EndM(a) = m
    BY <1>4, <1>15, BlockTasks
  <2>3. FinallyBegun(code', tries, m) BY <1>14, <1>16 DEF TryAt, FinallyBegun
  <2>4. EmitFits(ins, 0, 0, m, code', tries, next, Len(source))
    <3>1. Operands(ins, next, Len(source)) BY <1>10 DEF Operands, Opcodes
    <3>2. Pops(ins) = 0 /\ Pushes(ins) = 0 BY <1>10 DEF Pops, Pushes
    <3> QED BY <1>10, <2>3, <3>1, <3>2 DEF EmitFits
  <2>5. TriesBehind(ins, m) = m BY <1>10 DEF TriesBehind
  <2>6. /\ TaskOK(b, code', heights, tries, next, Len(source))
        /\ b.h = 0 /\ b.m = m /\ EndH(b) = 0 /\ EndM(b) = m
    BY <1>15, <2>4, <2>5, EmitTasks
  <2> HIDE DEF a, b
  <2> QED BY <1>1, <1>2, <1>3, <1>7, <1>12, <1>13, <1>15, <2>1, <2>2, <2>6, FollowTwo DEF m
<1>17. CASE ~s.hasFinally
  <2>1. Becomes(<<>>) BY <1>1, <1>17
  <2> QED BY <1>1, <1>2, <1>3, <1>7, <1>12, <1>13, <2>1, NoneFollows
<1> QED BY <1>4, <1>16, <1>17

-----------------------------------------------------------------------------
(* Whole functions *)

\* Of parameters with one name, the last one is bound.
LEMMA ParamsBound ==
  ASSUME NEW params \in Seq(STRING) PROVE NamesOK(ParamNames(params), Len(params))
<1> DEFINE L == Len(params)  ns == ParamNames(params)
<1>1. L \in Nat /\ DOMAIN params = 1..L BY LenProperties
<1>2. ASSUME NEW x \in {params[i] : i \in DOMAIN params} PROVE ns[x] \in 1..L
  <2> DEFINE S == {i \in 1..L : params[i] = x}  D == {L - i : i \in S}
  <2>1. S # {} BY <1>1, <1>2
  <2>2. D \in SUBSET Nat /\ D # {} BY <1>1, <2>1
  <2> HIDE DEF D
  <2>3. PICK k \in D : \A j \in D : k <= j BY <2>2, LeastNumber
  <2>4. PICK i \in S : k = L - i BY <2>3 DEF D
  <2>5. \A j \in S : j <= i
    <3> TAKE j \in S
    <3>1. L - j \in D BY DEF D
    <3>2. L - i <= L - j BY <3>1, <2>3, <2>4
    <3> QED BY <1>1, <3>2
  <2>6. \E l \in DOMAIN params : params[l] = x /\ \A j \in DOMAIN params : params[j] = x => j <= l
    BY <1>1, <2>4, <2>5
  <2>7. ns[x] = CHOOSE l \in DOMAIN params :
                  params[l] = x /\ \A j \in DOMAIN params : params[j] = x => j <= l
    BY <1>2 DEF ParamNames
  <2> QED BY <1>1, <2>6, <2>7
<1>3. DOMAIN ns = {params[i] : i \in DOMAIN params} BY DEF ParamNames
<1> QED BY <1>2, <1>3 DEF NamesOK

\* There is no code yet, and all of the body to do.
LEMMA NewFunction ==
  ASSUME NEW f \in FunctionTrees, NEW n
  PROVE  /\ CodeOK(<<>>, <<0>>, <<0>>, Len(f.params), n)
         /\ TasksOK(<<BlockTask(f.body, 0)>>, <<>>, <<0>>, <<0>>, Len(f.params), n)
         /\ NamesOK(ParamNames(f.params), Len(f.params))
<1> DEFINE z == <<0>>  nx == Len(f.params)  a == BlockTask(f.body, 0)  ts == <<a>>
<1>1. f.params \in Seq(STRING) /\ f.body \in Seq(Statements) BY DEF FunctionTrees
<1>2. nx \in Nat BY <1>1, LenProperties
<1>3. NamesOK(ParamNames(f.params), nx) BY <1>1, ParamsBound
<1>4. z \in Seq(Nat) /\ Len(z) = 1 /\ z[1] = 0 OBVIOUS
<1> HIDE DEF z, nx
<1>5. CodeOK(<<>>, z, z, nx, n) BY <1>2, <1>4, TuplesAreLists DEF CodeOK
<1>6. Placed(0, 0) BY DEF Placed
<1>7. TaskOK(a, <<>>, z, z, nx, n) /\ a.h = 0 /\ a.m = 0 BY <1>1, <1>6, BlockTasks
<1> HIDE DEF a
<1>8. IsList(ts) /\ Len(ts) = 1 /\ ts[1] = a BY TuplesAreLists
<1> HIDE DEF ts
<1>9. Lined(ts) BY <1>8 DEF Lined
<1>10. Falling(ts)
  <2> SUFFICES ASSUME NEW j \in 1..Len(ts), NEW k \in 1..Len(ts) PROVE ts[k].m <= ts[j].m
    BY DEF Falling
  <2>1. j = 1 /\ k = 1 BY <1>8
  <2> QED BY <2>1, <1>7, <1>8
<1>11. StartsAt(ts, z, z) BY <1>4, <1>7, <1>8 DEF StartsAt
<1>12. \A k \in 1..Len(ts) : TaskOK(ts[k], <<>>, z, z, nx, n) BY <1>7, <1>8
<1>13. TasksOK(ts, <<>>, z, z, nx, n) BY <1>8, <1>9, <1>10, <1>11, <1>12 DEF TasksOK
<1> QED BY <1>3, <1>5, <1>13 DEF z, nx, ts, a

\* The function in hand, with the implicit return, is one that is done.
LEMMA FinishedOK ==
  ASSUME CodeOK(code, heights, tries, next, Len(source))
  PROVE  MadeOK(Finished, Len(source))
<1> DEFINE rv == [op |-> "RETURN_VOID"]  c2 == Append(code, rv)  r == Finished
<1>1. r.code = c2 /\ r.nlocals = next /\ r.heights = heights /\ r.tries = tries
  BY DEF Finished
<1>2. /\ IsList(code) /\ Len(code) \in Nat /\ next \in Nat
      /\ heights \in Seq(Nat) /\ tries \in Seq(Nat) /\ heights[1] = 0 /\ tries[1] = 0
      /\ Len(heights) = Len(code) + 1 /\ Len(tries) = Len(code) + 1
  BY DEF CodeOK, IsList
<1>3. /\ IsList(c2) /\ Len(c2) = Len(code) + 1 /\ c2[Len(code) + 1] = rv
      /\ \A i \in 1..Len(code) : c2[i] = code[i]
  BY <1>2, AppendToList
<1> HIDE DEF c2, r, rv
<1>4. Keeps(code, c2) BY <1>2, <1>3 DEF Keeps, Alike
<1>5. Longer(heights, heights) /\ Longer(tries, tries) BY <1>2 DEF Longer
<1>6. Extends(code, heights, tries, next, c2, heights, tries, next)
  BY <1>2, <1>3, <1>4, <1>5 DEF Extends
<1>7. ASSUME NEW i \in 1..(Len(c2) - 1) PROVE InstrOK(c2, heights, tries, next, Len(source), i)
  <2>1. i \in 1..Len(code) BY <1>2, <1>3
  <2>2. InstrOK(code, heights, tries, next, Len(source), i) BY <2>1 DEF CodeOK
  <2> QED BY <1>3, <1>6, <2>1, <2>2, InstrKept
<1>8. Len(c2) > 0 /\ Len(heights) = Len(c2) /\ Len(tries) = Len(c2) BY <1>2, <1>3
<1>9. c2[Len(c2)] = [op |-> "RETURN_VOID"] BY <1>3 DEF rv
<1> QED BY <1>1, <1>2, <1>3, <1>7, <1>8, <1>9 DEF MadeOK, r

LEMMA FunctionEnds ==
  ASSUME GenInv, EndFunction PROVE GenInv'
<1>1. /\ phase = "run" /\ made' = Append(made, Finished) /\ source' = source
      /\ CodeOK(code, heights, tries, next, Len(source))
  BY DEF EndFunction, GenInv
<1>2. /\ source \in Seq(FunctionTrees) /\ source # <<>> /\ Len(source) \in Nat
      /\ IsList(made) /\ Len(made) \in Nat /\ Len(made) < Len(source)
      /\ \A f \in 1..Len(made) : MadeOK(made[f], Len(source))
  BY <1>1, LenProperties DEF GenInv, MadeSoFar, IsList
<1>3. /\ IsList(made') /\ Len(made') = Len(made) + 1 /\ made'[Len(made) + 1] = Finished
      /\ \A f \in 1..Len(made) : made'[f] = made[f]
  BY <1>1, <1>2, AppendToList
<1>4. MadeOK(Finished, Len(source)) BY <1>1, FinishedOK
<1>5. ASSUME NEW f \in 1..Len(made') PROVE MadeOK(made'[f], Len(source))
  <2>1. f \in 1..Len(made) \/ f = Len(made) + 1 BY <1>2, <1>3
  <2>2. CASE f \in 1..Len(made)
    <3>1. made'[f] = made[f] /\ MadeOK(made[f], Len(source)) BY <1>2, <1>3, <2>2
    <3> QED BY <3>1
  <2>3. CASE f = Len(made) + 1
    <3>1. made'[f] = Finished BY <1>3, <2>3
    <3> QED BY <1>4, <3>1
  <2> QED BY <2>1, <2>2, <2>3
<1>6. Len(made') <= Len(source) BY <1>2, <1>3
<1>7. CASE Len(made) + 1 = Len(source)
  <2>1. phase' = "done" BY <1>7 DEF EndFunction
  <2>2. MadeSoFar' BY <1>1, <1>2, <1>3, <1>5, <1>6, <1>7, <2>1 DEF MadeSoFar
  <2> QED BY <2>1, <2>2 DEF GenInv
<1>8. CASE Len(made) + 1 # Len(source)
  <2> DEFINE f == source[Len(made) + 2]
  <2>1. /\ phase' = phase /\ todo' = <<BlockTask(f.body, 0)>>
        /\ names' = ParamNames(f.params) /\ next' = Len(f.params)
        /\ code' = <<>> /\ heights' = <<0>> /\ tries' = <<0>>
    BY <1>8 DEF EndFunction
  <2>2. Len(made') < Len(source) BY <1>2, <1>3, <1>8
  <2>3. MadeSoFar' BY <1>1, <1>2, <1>3, <1>5, <1>6, <2>1, <2>2 DEF MadeSoFar
  <2>4. f \in FunctionTrees
    <3>1. Len(made) + 2 \in 1..Len(source) BY <1>2, <1>8
    <3> QED BY <1>2, <3>1, ElementOfSeq
  <2> HIDE DEF f
  <2>5. /\ CodeOK(code', heights', tries', next', Len(source))
        /\ TasksOK(todo', code', heights', tries', next', Len(source))
        /\ NamesOK(names', next')
    BY <2>1, <2>4, NewFunction
  <2> QED BY <1>1, <2>3, <2>5 DEF GenInv
<1> QED BY <1>7, <1>8

\* Nothing is asked of a compilation that failed.
LEMMA RefuseKept ==
  ASSUME GenInv, Refuse PROVE GenInv'
<1>1. phase' = "error" /\ source' = source /\ made' = made BY DEF Refuse
<1> QED BY <1>1 DEF GenInv, MadeSoFar

LEMMA GenInvInit ==
  ASSUME GenInit PROVE GenInv
<1> DEFINE f == source[1]
<1>1. /\ source \in Sources /\ made = <<>> /\ phase = "run"
      /\ todo = <<BlockTask(f.body, 0)>>
      /\ names = ParamNames(f.params) /\ next = Len(f.params)
      /\ code = <<>> /\ heights = <<0>> /\ tries = <<0>>
  BY DEF GenInit
<1>2. source \in Seq(FunctionTrees) /\ source # <<>> BY <1>1, SourcesAssumption
<1>3. Len(source) \in Nat /\ Len(source) > 0 BY <1>2, EmptySeq, LenProperties
<1>4. f \in FunctionTrees
  <2>1. 1 \in 1..Len(source) BY <1>3
  <2> QED BY <1>2, <2>1, ElementOfSeq
<1>5. IsList(made) /\ Len(made) = 0 BY <1>1, TuplesAreLists
<1>6. MadeSoFar BY <1>1, <1>2, <1>3, <1>5 DEF MadeSoFar
<1> HIDE DEF f
<1>7. /\ CodeOK(code, heights, tries, next, Len(source))
      /\ TasksOK(todo, code, heights, tries, next, Len(source))
      /\ NamesOK(names, next)
  BY <1>1, <1>4, NewFunction
<1> QED BY <1>6, <1>7 DEF GenInv

LEMMA GenInvStep ==
  ASSUME GenInv, [GenNext]_genVars PROVE GenInv'
<1>1. CASE CompileLeaf BY <1>1, LeafKept
<1>2. CASE CompileVar BY <1>2, VarKept
<1>3. CASE CompileSum BY <1>3, SumKept
<1>4. CASE CompileCall BY <1>4, CallKept
<1>5. CASE CompileArg BY <1>5, ArgKept
<1>6. CASE EmitOp BY <1>6, EmitKept
<1>7. CASE CompileNext BY <1>7, NextKept
<1>8. CASE CompileValue BY <1>8, ValueKept
<1>9. CASE CompileReturnVoid BY <1>9, ReturnVoidKept
<1>10. CASE CompileLet BY <1>10, LetKept
<1>11. CASE BeginIf BY <1>11, IfKept
<1>12. CASE BeginThen BY <1>12, ThenKept
<1>13. CASE BeginElse BY <1>13, ElseKept
<1>14. CASE EndIf BY <1>14, EndIfKept
<1>15. CASE BeginLoop BY <1>15, LoopKept
<1>16. CASE BeginLoopBody BY <1>16, LoopBodyKept
<1>17. CASE CompileStep BY <1>17, StepKept
<1>18. CASE EndLoop BY <1>18, EndLoopKept
<1>19. CASE CompileLeave BY <1>19, LeaveKept
<1>20. CASE BeginTry BY <1>20, TryKept
<1>21. CASE BeginCatch BY <1>21, CatchKept
<1>22. CASE EndCatch BY <1>22, EndCatchKept
<1>23. CASE BeginFinally BY <1>23, FinallyKept
<1>24. CASE EndFunction BY <1>24, FunctionEnds
<1>25. CASE Refuse BY <1>25, RefuseKept
<1>26. CASE UNCHANGED genVars
  BY <1>26 DEF genVars, GenInv, MadeSoFar
<1> QED
  BY <1>1, <1>2, <1>3, <1>4, <1>5, <1>6, <1>7, <1>8, <1>9, <1>10, <1>11, <1>12, <1>13, <1>14,
     <1>15, <1>16, <1>17, <1>18, <1>19, <1>20, <1>21, <1>22, <1>23, <1>24, <1>25, <1>26
  DEF GenNext

(***************************************************************************)
(* The invariant of the code generator: at every step of compile_stmt and  *)
(* compile_expr the instructions emitted so far fit together, the calls in *)
(* progress begin where the ones before them end, and they will patch only *)
(* instructions that may be patched so.                                    *)
(***************************************************************************)
THEOREM GenInvAlways == GenSpec => []GenInv
<1>1. GenInit => GenInv BY GenInvInit
<1>2. GenInv /\ [GenNext]_genVars => GenInv' BY GenInvStep
<1> QED BY <1>1, <1>2, PTL DEF GenSpec

-----------------------------------------------------------------------------
(* What the VM gets *)

\* What is known of each instruction of a function that is done.
LEMMA MadeInstr ==
  ASSUME NEW r, NEW n, MadeOK(r, n), NEW i \in 1..Len(r.code)
  PROVE  \/ i \in 1..(Len(r.code) - 1) /\ InstrOK(r.code, r.heights, r.tries, r.nlocals, n, i)
         \/ i = Len(r.code) /\ r.code[i].op = "RETURN_VOID"
<1>1. Len(r.code) \in Nat BY DEF MadeOK, IsList
<1>2. i \in 1..(Len(r.code) - 1) \/ i = Len(r.code) BY <1>1
<1>3. CASE i \in 1..(Len(r.code) - 1) BY <1>3 DEF MadeOK
<1>4. CASE i = Len(r.code)
  <2>1. r.code[Len(r.code)] = [op |-> "RETURN_VOID"] BY DEF MadeOK
  <2> QED BY <2>1, <1>4
<1> QED BY <1>2, <1>3, <1>4

\* f is the function r of the program P.
IsMade(P, f, r, n) ==
  /\ P.code[f] = r.code /\ P.nlocals[f] = r.nlocals /\ DOMAIN P.code = 1..n
  /\ MadeOK(r, n)

LEMMA MadeNumbers ==
  ASSUME NEW P, NEW f, NEW r, NEW n, IsMade(P, f, r, n)
  PROVE  /\ DOMAIN P.code[f] = 1..Len(r.code) /\ Len(r.code) \in Nat /\ Len(r.code) > 0
         /\ Len(r.heights) = Len(r.code) /\ Len(r.tries) = Len(r.code)
         /\ r.heights \in [DOMAIN P.code[f] -> Nat] /\ r.heights[1] = 0
         /\ r.tries \in [DOMAIN P.code[f] -> Nat] /\ r.tries[1] = 0
<1>1. /\ P.code[f] = r.code /\ IsList(r.code) /\ Len(r.code) > 0
      /\ r.heights \in Seq(Nat) /\ r.tries \in Seq(Nat)
      /\ Len(r.heights) = Len(r.code) /\ Len(r.tries) = Len(r.code)
      /\ r.heights[1] = 0 /\ r.tries[1] = 0
  BY DEF IsMade, MadeOK
<1>2. DOMAIN r.code = 1..Len(r.code) /\ Len(r.code) \in Nat BY <1>1 DEF IsList
<1>3. /\ r.heights \in [1..Len(r.heights) -> Nat]
      /\ r.tries \in [1..Len(r.tries) -> Nat]
  BY <1>1, LenProperties
<1> QED BY <1>1, <1>2, <1>3

LEMMA MadeIsWellFormed ==
  ASSUME NEW P, NEW f, NEW r, NEW n, IsMade(P, f, r, n) PROVE WellFormedCode(P, f)
<1> DEFINE c == r.code
<1>1. /\ P.code[f] = c /\ P.nlocals[f] = r.nlocals /\ DOMAIN P.code = 1..n /\ MadeOK(r, n)
      /\ r.nlocals \in Nat /\ c[Len(c)] = [op |-> "RETURN_VOID"]
  BY DEF IsMade, MadeOK
<1>2. /\ DOMAIN P.code[f] = 1..Len(c) /\ Len(c) \in Nat /\ Len(c) > 0
      /\ Len(r.heights) = Len(c)
  BY MadeNumbers
<1>3. c[Len(c)].op = "RETURN_VOID" BY <1>1
<1>4. ASSUME NEW i \in 1..Len(c) PROVE WellFormedInstr(P, f, c[i])
  <2>1. CASE InstrOK(c, r.heights, r.tries, r.nlocals, n, i)
    <3>1. Operands(c[i], r.nlocals, n) BY <2>1 DEF InstrOK
    <3>2. c[i].op \in {"JMP", "JZ"} => c[i].to \in 1..Len(c)
      BY <2>1, <1>2 DEF InstrOK, MarkBelow
    <3>3. c[i].op = "TRY" =>
            /\ c[i].hasCatch \in BOOLEAN /\ c[i].hasFinally \in BOOLEAN
            /\ c[i].hasCatch \/ c[i].hasFinally
            /\ c[i].slot \in Nat
            /\ c[i].catch \in 1..Len(c) /\ c[i].finally \in 1..Len(c)
      BY <2>1, <1>2 DEF InstrOK, TryOK, Mark
    <3> QED BY <1>1, <1>2, <3>1, <3>2, <3>3 DEF WellFormedInstr, Operands
  <2>2. CASE c[i].op = "RETURN_VOID" BY <2>2 DEF WellFormedInstr, Opcodes
  <2> QED BY <1>1, <2>1, <2>2, MadeInstr
<1> HIDE DEF c
<1> QED BY <1>1, <1>2, <1>3, <1>4 DEF WellFormedCode

LEMMA MadeFits ==
  ASSUME NEW P, NEW f, NEW r, NEW n, IsMade(P, f, r, n) PROVE Fits(P, f, r.heights)
<1> DEFINE c == r.code  h == r.heights
<1>1. P.code[f] = c /\ MadeOK(r, n) BY DEF IsMade
<1>2. /\ DOMAIN P.code[f] = 1..Len(c) /\ Len(c) \in Nat /\ Len(h) = Len(c)
      /\ h \in [DOMAIN P.code[f] -> Nat] /\ h[1] = 0
  BY MadeNumbers
<1>3. ASSUME NEW i \in 1..Len(c)
      PROVE  LET ins == c[i]  rest == h[i] - Pops(ins) IN
             /\ rest >= 0
             /\ Flows(ins) => h[i + 1] <= rest + Pushes(ins)
             /\ ins.op \in {"JMP", "JZ"} => h[ins.to] <= rest
             /\ ins.op = "TRY" /\ ins.hasCatch => h[ins.catch] = 0
             /\ ins.op = "TRY" /\ ins.hasFinally => h[ins.finally] = 0
  <2>1. CASE InstrOK(c, h, r.tries, r.nlocals, n, i)
    <3>1. h[i] \in Nat BY <1>2
    <3>2. Operands(c[i], r.nlocals, n) BY <2>1 DEF InstrOK
    <3>3. Pops(c[i]) \in Nat BY <3>2 DEF Pops, Operands
    <3>4. Pops(c[i]) <= h[i] BY <2>1 DEF InstrOK
    <3>5. h[i] - Pops(c[i]) >= 0 BY <3>1, <3>3, <3>4
    <3>6. Flows(c[i]) => h[i + 1] <= h[i] - Pops(c[i]) + Pushes(c[i]) BY <2>1 DEF InstrOK
    <3>7. c[i].op \in {"JMP", "JZ"} => h[c[i].to] = 0 BY <2>1 DEF InstrOK, MarkBelow
    <3>8. c[i].op = "TRY" => h[c[i].catch] = 0 /\ h[c[i].finally] = 0
      BY <2>1 DEF InstrOK, TryOK, Mark
    <3> HIDE DEF c, h
    <3> QED BY <3>5, <3>6, <3>7, <3>8
  <2>2. CASE c[i].op = "RETURN_VOID"
    <3>1. h[i] \in Nat BY <1>2
    <3>2. Pops(c[i]) = 0 BY <2>2 DEF Pops
    <3>3. ~Flows(c[i]) BY <2>2 DEF Flows
    <3>4. h[i] - Pops(c[i]) >= 0 BY <3>1, <3>2
    <3> QED BY <2>2, <3>3, <3>4
  <2> QED BY <1>1, <2>1, <2>2, MadeInstr
<1> HIDE DEF c, h
<1>4. Fits(P, f, h) BY <1>1, <1>2, <1>3 DEF Fits
<1> QED BY <1>4 DEF h

LEMMA MadeCloses ==
  ASSUME NEW P, NEW f, NEW r, NEW n, IsMade(P, f, r, n), FlatFinallys(r.code, r.tries)
  PROVE  Closes(P, f, r.tries)
<1> DEFINE c == r.code  m == r.tries
<1>1. P.code[f] = c /\ MadeOK(r, n) BY DEF IsMade
<1>2. /\ DOMAIN P.code[f] = 1..Len(c) /\ Len(c) \in Nat /\ Len(m) = Len(c)
      /\ m \in [DOMAIN P.code[f] -> Nat] /\ m[1] = 0
  BY MadeNumbers
<1>3. DOMAIN c = 1..Len(c) BY <1>1, <1>2
<1>4. ASSUME NEW i \in 1..Len(c)
      PROVE  LET ins == c[i] IN
             /\ ins.op = "ENDTRY" => m[i] > 0 /\ m[i + 1] <= m[i] - 1
             /\ ins.op = "TRY" => m[i + 1] <= m[i] + 1
             /\ Flows(ins) /\ ins.op \notin {"TRY", "ENDTRY"} => m[i + 1] <= m[i]
             /\ ins.op \in {"JMP", "JZ"} => m[ins.to] <= m[i]
             /\ ins.op = "TRY" => m[ins.catch] = m[i] /\ m[ins.finally] = m[i]
             /\ ins.op = "FINALLY_END" => FinallyBegun(c, m, m[i]) /\ m[i + 1] = m[i]
  <2>1. CASE InstrOK(c, r.heights, m, r.nlocals, n, i)
    <3>1. m[i] \in Nat BY <1>2
    <3>2. m[i + 1] = IF c[i].op = "TRY" THEN m[i] + 1 ELSE TriesBehind(c[i], m[i])
      BY <2>1 DEF InstrOK
    <3>3. c[i].op = "ENDTRY" => m[i] > 0 /\ m[i + 1] <= m[i] - 1
      BY <2>1, <3>1, <3>2 DEF InstrOK, TriesBehind
    <3>4. c[i].op = "TRY" => m[i + 1] <= m[i] + 1 BY <3>1, <3>2
    <3>5. c[i].op \notin {"TRY", "ENDTRY"} => m[i + 1] = m[i] /\ m[i + 1] <= m[i]
      BY <3>1, <3>2 DEF TriesBehind
    <3>6. c[i].op \in {"JMP", "JZ"} => m[c[i].to] <= m[i] BY <2>1 DEF InstrOK, MarkBelow
    <3>7. c[i].op = "TRY" => m[c[i].catch] = m[i] /\ m[c[i].finally] = m[i]
      BY <2>1 DEF InstrOK, TryOK, Mark
    <3>8. c[i].op = "FINALLY_END" => FinallyBegun(c, m, m[i]) BY <2>1 DEF InstrOK
    <3> QED BY <3>3, <3>4, <3>5, <3>6, <3>7, <3>8
  <2>2. CASE c[i].op = "RETURN_VOID" BY <2>2 DEF Flows
  <2> QED BY <1>1, <2>1, <2>2, MadeInstr
<1>5. ASSUME NEW i \in 1..Len(c), NEW j \in 1..Len(c),
             c[i].op = "TRY", c[i].hasFinally, c[j].op = "FINALLY_END"
      PROVE  m[j + 1] <= m[c[i].finally]
  <2>1. m[c[i].finally] = m[i] /\ FinallyBegun(c, m, m[j]) /\ m[j + 1] = m[j] BY <1>4, <1>5
  <2>2. PICK l \in 1..Len(c) : c[l].op = "TRY" /\ c[l].hasFinally /\ m[l] = m[j]
    BY <2>1 DEF FinallyBegun
  <2>3. m[i] = m[l] BY <1>3, <1>5, <2>2 DEF FlatFinallys
  <2>4. m[j] \in Nat BY <1>2
  <2> HIDE DEF c, m
  <2> QED BY <2>1, <2>2, <2>3, <2>4
<1>6. ASSUME NEW i \in 1..Len(c), c[i].op = "TRY"
      PROVE  m[c[i].catch] <= m[i] /\ m[c[i].finally] <= m[i]
  <2>1. m[i] \in Nat /\ m[c[i].catch] = m[i] /\ m[c[i].finally] = m[i] BY <1>2, <1>4, <1>6
  <2> HIDE DEF c, m
  <2> QED BY <2>1
<1> HIDE DEF c, m
<1>7. Closes(P, f, m) BY <1>1, <1>2, <1>4, <1>5, <1>6 DEF Closes
<1> QED BY <1>7 DEF m

\* The program, of the functions that are done.
LEMMA ProgramMade ==
  ASSUME GenInv, phase = "done"
  PROVE  /\ Program.name \in Seq(STRING) /\ Program.name # <<>>
         /\ DOMAIN Program.code = 1..Len(source) /\ DOMAIN Program.name = 1..Len(source)
         /\ DOMAIN source = 1..Len(source)
         /\ \A f \in 1..Len(source) : IsMade(Program, f, made[f], Len(source))
<1> DEFINE n == Len(source)
<1>1. /\ source \in Seq(FunctionTrees) /\ source # <<>> /\ Len(made) = n
      /\ \A f \in 1..Len(made) : MadeOK(made[f], n)
  BY DEF GenInv, MadeSoFar
<1>2. n \in Nat /\ n > 0 /\ DOMAIN source = 1..n BY <1>1, EmptySeq, LenProperties
<1>3. /\ Program.name = [i \in 1..n |-> source[i].name]
      /\ Program.code = [i \in 1..n |-> made[i].code]
      /\ Program.nlocals = [i \in 1..n |-> made[i].nlocals]
  BY DEF Program
<1>4. Program.name \in Seq(STRING) /\ Program.name # <<>>
  <2>1. \A i \in 1..n : source[i].name \in STRING
    <3> TAKE i \in 1..n
    <3>1. source[i] \in FunctionTrees BY <1>1, ElementOfSeq
    <3> QED BY <3>1 DEF FunctionTrees
  <2>2. Program.name \in [1..n -> STRING] BY <1>3, <2>1
  <2>3. Program.name \in Seq(STRING) BY <1>2, <2>2, SeqDef
  <2>4. Len(Program.name) = n BY <1>2, <2>2, <2>3, LenProperties
  <2> QED BY <1>2, <2>3, <2>4, EmptySeq
<1>5. \A f \in 1..n : IsMade(Program, f, made[f], n) BY <1>1, <1>3 DEF IsMade
<1> QED BY <1>2, <1>3, <1>4, <1>5

(***************************************************************************)
(* Whatever program the compiler accepts, the operands of its bytecode are *)
(* in range, every jump is patched to an instruction of its function, and  *)
(* every instruction finds on the stack what it pops, on every path to it: *)
(* what VmExceptions assumes of a program, compile_stmt guarantees.        *)
(***************************************************************************)
THEOREM GeneratedFitsAlways == GenSpec => []GeneratedFits
<1>1. ASSUME GenInv PROVE GeneratedFits
  <2> SUFFICES ASSUME phase = "done"
               PROVE  /\ WellFormedProgram(Program)
                      /\ \A f \in DOMAIN source : Fits(Program, f, made[f].heights)
    BY DEF GeneratedFits
  <2>1. /\ Program.name \in Seq(STRING) /\ Program.name # <<>>
        /\ DOMAIN Program.code = 1..Len(source) /\ DOMAIN Program.name = 1..Len(source)
        /\ DOMAIN source = 1..Len(source)
        /\ \A f \in 1..Len(source) : IsMade(Program, f, made[f], Len(source))
    BY <1>1, ProgramMade
  <2>2. \A f \in DOMAIN Program.code : WellFormedCode(Program, f) BY <2>1, MadeIsWellFormed
  <2>3. \A f \in DOMAIN source : Fits(Program, f, made[f].heights) BY <2>1, MadeFits
  <2>4. WellFormedProgram(Program) BY <2>1, <2>2 DEF WellFormedProgram
  <2> QED BY <2>3, <2>4
<1> QED BY <1>1, GenInvAlways, PTL

(***************************************************************************)
(* And every ENDTRY of it ends a try block that its activation has begun,  *)
(* on every path, also out of loops and catches, where no try block with a *)
(* finally is inside of another one.                                       *)
(***************************************************************************)
THEOREM GeneratedClosesAlways == GenSpec => []GeneratedCloses
<1>1. ASSUME GenInv PROVE GeneratedCloses
  <2> SUFFICES ASSUME phase = "done", NEW f \in DOMAIN source,
                      FlatFinallys(made[f].code, made[f].tries)
               PROVE  Closes(Program, f, made[f].tries)
    BY DEF GeneratedCloses
  <2>1. IsMade(Program, f, made[f], Len(source)) BY <1>1, ProgramMade
  <2> QED BY <2>1, MadeCloses
<1> QED BY <1>1, GenInvAlways, PTL

(***************************************************************************)
(* In the words of VmExceptions: a compiled program is well-formed and     *)
(* Balanced, which StackFloorProved asks of it, and if no finally of it is *)
(* inside of another one its tries close, which CallerHandlersKeptProved   *)
(* asks.                                                                   *)
(***************************************************************************)
THEOREM GeneratedForTheVM ==
  GenSpec => [](phase = "done" =>
                  /\ WellFormedProgram(Program) /\ Balanced(Program)
                  /\ (\A f \in DOMAIN source : FlatFinallys(made[f].code, made[f].tries))
                       => TriesClose(Program))
<1> DEFINE Flat == \A f \in DOMAIN source : FlatFinallys(made[f].code, made[f].tries)
<1>1. ASSUME GenInv, GeneratedFits, GeneratedCloses, phase = "done"
      PROVE  /\ WellFormedProgram(Program) /\ Balanced(Program)
             /\ Flat => TriesClose(Program)
  <2>1. DOMAIN Program.code = DOMAIN source BY <1>1, ProgramMade
  <2>2. WellFormedProgram(Program) BY <1>1 DEF GeneratedFits
  <2>3. \A f \in DOMAIN Program.code : Fits(Program, f, made[f].heights)
    BY <1>1, <2>1 DEF GeneratedFits
  <2>4. Balanced(Program) BY <2>3 DEF Balanced, Fits
  <2>5. ASSUME Flat PROVE TriesClose(Program)
    <3>1. \A f \in DOMAIN Program.code : Closes(Program, f, made[f].tries)
      BY <1>1, <2>1, <2>5 DEF GeneratedCloses
    <3> QED BY <3>1 DEF TriesClose, Closes
  <2> QED BY <2>2, <2>4, <2>5
<1> QED BY <1>1, GenInvAlways, GeneratedFitsAlways, GeneratedClosesAlways, PTL

=============================================================================
