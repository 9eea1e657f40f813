----------------------- MODULE CallRefinement_proofs ------------------------
(***************************************************************************)
(* Proof that ScheduledCalls implements InlineCalls, for every set of      *)
(* programs whose tries call nothing that is scheduled, for every size of  *)
(* the pools and every number of events (the safety part: that every call  *)
(* ends is checked by TLC only).                                           *)
(***************************************************************************)
EXTENDS CallRefinement, ScheduledCalls_proofs, WellFoundedInduction

(* Counting *)

\* A set of numbers has a least one.
LEMMA LeastNumber ==
  ASSUME NEW S, S \subseteq Nat, S # {}
  PROVE  \E m \in S : \A k \in S : m <= k
<1> DEFINE R == {ij \in Nat \X Nat : ij[1] < ij[2]}
<1>1. IsWellFoundedOn(R, Nat)
  BY NatLessThanWellFounded DEF OpToRel
<1>2. PICK m \in S : \A k \in S : ~ (<<k, m>> \in R)
  BY <1>1, WFMin, Zenon
<1>3. ASSUME NEW k \in S
      PROVE  m <= k
  <2>1. m \in Nat /\ k \in Nat /\ ~ (<<k, m>> \in R)
    BY <1>2
  <2>2. QED
    BY <2>1
<1>4. QED
  BY <1>3

\* What holds of a number up to m, and of every successor up to m of one it
\* holds of, holds up to m.
LEMMA UpTo ==
  ASSUME NEW m \in Nat, NEW l \in 0 .. m, NEW S, l \in S,
         \A n \in l .. m : n # m /\ n \in S => n + 1 \in S
  PROVE  l .. m \subseteq S
<1> DEFINE B == {n \in l .. m : n \notin S}
<1>1. SUFFICES ASSUME B # {} PROVE FALSE
  OBVIOUS
<1>2. PICK b \in B : \A k \in B : b <= k
  <2>1. B \subseteq Nat
    OBVIOUS
  <2> HIDE DEF B
  <2>2. QED
    BY <1>1, <2>1, LeastNumber
<1>3. b # l /\ b \in l .. m /\ b \notin S
  BY <1>2
<1>4. b - 1 \in l .. m /\ b - 1 # m /\ b - 1 \notin B
  BY <1>2, <1>3
<1>5. b - 1 \in S
  BY <1>4
<1>6. (b - 1) + 1 \in S
  BY <1>4, <1>5
<1>7. QED
  BY <1>3, <1>6

-----------------------------------------------------------------------------
(* The stacks of the first n VMs *)

\* What Stacks says about n, in terms of what g says about n - 1.
Above(vs, g, n) ==
  IF n = 0 THEN <<>>
  ELSE IF vs[n].state = "gone" THEN g[n - 1]
  ELSE g[n - 1] \o vs[n].stack

\* The recursive definition has a solution.
LEMMA StacksExist ==
  ASSUME NEW vs, NEW m \in Nat
  PROVE  \E g : g = [n \in 0 .. m |-> Above(vs, g, n)]
<1> DEFINE S == {k \in Nat : \E g : g = [n \in 0 .. k |-> Above(vs, g, n)]}
<1>1. 0 \in S
  <2> DEFINE g == [n \in 0 .. 0 |-> <<>>]
  <2>1. g = [n \in 0 .. 0 |-> Above(vs, g, n)]
    BY DEF Above
  <2>2. QED
    BY <2>1
<1>2. ASSUME NEW k \in 0 .. m, k \in S
      PROVE  k + 1 \in S
  <2>1. PICK g : g = [n \in 0 .. k |-> Above(vs, g, n)]
    BY <1>2
  <2> DEFINE h == [n \in 0 .. k + 1 |-> IF n = k + 1 THEN Above(vs, g, n) ELSE g[n]]
  <2>2. \A n \in 0 .. k : h[n] = g[n]
    OBVIOUS
  <2>3. \A n \in 0 .. k + 1 : Above(vs, h, n) = Above(vs, g, n)
    <3>1. ASSUME NEW n \in 0 .. k + 1 PROVE Above(vs, h, n) = Above(vs, g, n)
      <4>1. n = 0 \/ h[n - 1] = g[n - 1]
        BY <2>2
      <4> HIDE DEF h
      <4>2. QED
        BY <4>1 DEF Above
    <3>2. QED
      BY <3>1
  <2>4. \A n \in 0 .. k : g[n] = Above(vs, g, n)
    BY <2>1, Zenon
  <2>5. \A n \in 0 .. k + 1 : h[n] = Above(vs, h, n)
    <3>1. \A n \in 0 .. k + 1 : h[n] = Above(vs, g, n)
      BY <2>4
    <3> HIDE DEF h
    <3>2. QED
      BY <2>3, <3>1
  <2>6. h = [n \in 0 .. k + 1 |-> Above(vs, h, n)]
    <3>1. h = [n \in 0 .. k + 1 |-> h[n]]
      OBVIOUS
    <3> HIDE DEF h
    <3>2. QED
      BY <2>5, <3>1
  <2>7. k + 1 \in Nat
    OBVIOUS
  <2>8. QED
    BY <2>6, <2>7
<1> HIDE DEF S
<1>3. m \in 0 .. m /\ 0 \in 0 .. m
  OBVIOUS
<1>4. 0 .. m \subseteq S
  BY <1>1, <1>2, <1>3, UpTo
<1>5. m \in S
  BY <1>3, <1>4
<1>6. QED
  BY <1>5 DEF S

\* Its solution is Stacks.
LEMMA StacksEquation ==
  ASSUME NEW vs, Len(vs) \in Nat, NEW n \in 0 .. Len(vs)
  PROVE  Stacks(vs)[n] = IF n = 0 THEN <<>>
                         ELSE IF vs[n].state = "gone" THEN Stacks(vs)[n - 1]
                         ELSE Stacks(vs)[n - 1] \o vs[n].stack
<1>1. \E g : g = [k \in 0 .. Len(vs) |-> Above(vs, g, k)]
  BY StacksExist
<1>2. \E g : g = [k \in 0 .. Len(vs) |->
                    IF k = 0 THEN <<>>
                    ELSE IF vs[k].state = "gone" THEN g[k - 1]
                    ELSE g[k - 1] \o vs[k].stack]
  BY <1>1, Zenon DEF Above
<1>3. Stacks(vs) = [k \in 0 .. Len(vs) |->
                      IF k = 0 THEN <<>>
                      ELSE IF vs[k].state = "gone" THEN Stacks(vs)[k - 1]
                      ELSE Stacks(vs)[k - 1] \o vs[k].stack]
  BY <1>2, Zenon DEF Stacks
<1>4. QED
  BY <1>3, Zenon

\* Stacks of stacks of A are stacks of A.
LEMMA StacksType ==
  ASSUME NEW A, NEW vs, Len(vs) \in Nat,
         \A n \in 1 .. Len(vs) : vs[n].stack \in Seq(A)
  PROVE  \A n \in 0 .. Len(vs) : Stacks(vs)[n] \in Seq(A)
<1> DEFINE S == {n \in 0 .. Len(vs) : Stacks(vs)[n] \in Seq(A)}
<1>0. 0 \in 0 .. Len(vs)
  OBVIOUS
<1>1. 0 \in S
  <2>1. Stacks(vs)[0] = <<>>
    BY <1>0, StacksEquation
  <2>2. QED
    BY <1>0, <2>1, EmptySeq
<1>2. ASSUME NEW n \in 0 .. Len(vs), n # Len(vs), n \in S
      PROVE  n + 1 \in S
  <2>1. n + 1 \in 0 .. Len(vs) /\ n + 1 \in 1 .. Len(vs) /\ n + 1 # 0 /\ (n + 1) - 1 = n
    BY <1>2
  <2>2. Stacks(vs)[n + 1] = IF vs[n + 1].state = "gone" THEN Stacks(vs)[n]
                            ELSE Stacks(vs)[n] \o vs[n + 1].stack
    BY <2>1, StacksEquation
  <2>3. Stacks(vs)[n] \in Seq(A) /\ vs[n + 1].stack \in Seq(A)
    BY <1>2, <2>1
  <2>4. QED
    BY <2>1, <2>2, <2>3, ConcatProperties
<1> HIDE DEF S
<1>3. 0 .. Len(vs) \subseteq S
  BY <1>0, <1>1, <1>2, UpTo
<1>4. QED
  BY <1>3 DEF S

\* They depend on the VMs they are made of only.
LEMMA StacksAgree ==
  ASSUME NEW vs, NEW ws, Len(vs) \in Nat, Len(ws) \in Nat,
         NEW m \in 0 .. Len(vs), m <= Len(ws),
         \A n \in 1 .. m : /\ vs[n].stack = ws[n].stack
                           /\ vs[n].state = "gone" <=> ws[n].state = "gone"
  PROVE  Stacks(vs)[m] = Stacks(ws)[m]
<1> DEFINE S == {n \in 0 .. m : Stacks(vs)[n] = Stacks(ws)[n]}
<1>1. 0 \in S
  BY StacksEquation
<1>2. ASSUME NEW n \in 0 .. m, n # m, n \in S
      PROVE  n + 1 \in S
  <2>1. /\ n + 1 \in 0 .. Len(vs) /\ n + 1 \in 0 .. Len(ws) /\ n + 1 \in 1 .. m
        /\ n + 1 # 0 /\ (n + 1) - 1 = n
    BY <1>2
  <2>2. Stacks(vs)[n + 1] = IF vs[n + 1].state = "gone" THEN Stacks(vs)[n]
                            ELSE Stacks(vs)[n] \o vs[n + 1].stack
    BY <2>1, StacksEquation
  <2>3. Stacks(ws)[n + 1] = IF ws[n + 1].state = "gone" THEN Stacks(ws)[n]
                            ELSE Stacks(ws)[n] \o ws[n + 1].stack
    BY <2>1, StacksEquation
  <2>4. QED
    BY <1>2, <2>1, <2>2, <2>3
<1> HIDE DEF S
<1>3. m \in Nat /\ 0 \in 0 .. m
  OBVIOUS
<1>4. 0 .. m \subseteq S
  BY <1>1, <1>2, <1>3, UpTo
<1>5. QED
  BY <1>3, <1>4 DEF S

\* VMs that are gone leave nothing.
LEMMA StacksSkip ==
  ASSUME NEW vs, Len(vs) \in Nat, NEW m \in 0 .. Len(vs), NEW l \in 0 .. m,
         \A n \in l + 1 .. m : vs[n].state = "gone"
  PROVE  Stacks(vs)[m] = Stacks(vs)[l]
<1> DEFINE S == {n \in l .. m : Stacks(vs)[n] = Stacks(vs)[l]}
<1>1. l \in S
  OBVIOUS
<1>2. ASSUME NEW n \in l .. m, n # m, n \in S
      PROVE  n + 1 \in S
  <2>1. /\ n + 1 \in 0 .. Len(vs) /\ n + 1 \in l + 1 .. m /\ n + 1 \in l .. m
        /\ n + 1 # 0 /\ (n + 1) - 1 = n
    BY <1>2
  <2>2. Stacks(vs)[n + 1] = Stacks(vs)[n]
    BY <2>1, StacksEquation
  <2>3. QED
    BY <1>2, <2>1, <2>2
<1> HIDE DEF S
<1>3. m \in Nat /\ m \in l .. m
  OBVIOUS
<1>4. l .. m \subseteq S
  BY <1>1, <1>2, <1>3, UpTo
<1>5. QED
  BY <1>3, <1>4 DEF S

-----------------------------------------------------------------------------
(* A stack upon another *)

\* The top of the upper stack is the top of both.
LEMMA TopOfBoth ==
  ASSUME NEW A, NEW low \in Seq(A), NEW stk \in Seq(A), stk # <<>>
  PROVE  /\ low \o stk \in Seq(A) /\ low \o stk # <<>>
         /\ Len(low \o stk) = Len(low) + Len(stk)
         /\ Len(low) \in Nat /\ Len(stk) \in Nat \ {0}
         /\ (low \o stk)[Len(low \o stk)] = stk[Len(stk)]
         /\ \A d \in 1 .. Len(stk) : (low \o stk)[Len(low) + d] = stk[d]
<1>1. Len(low) \in Nat /\ Len(stk) \in Nat \ {0}
  BY EmptySeq, LenProperties
<1>2. /\ low \o stk \in Seq(A) /\ Len(low \o stk) = Len(low) + Len(stk)
      /\ \A i \in 1 .. Len(low) + Len(stk) :
           (low \o stk)[i] = IF i <= Len(low) THEN low[i] ELSE stk[i - Len(low)]
  BY ConcatProperties
<1>3. low \o stk # <<>>
  BY <1>1, <1>2, EmptySeq
<1>4. ASSUME NEW d \in 1 .. Len(stk) PROVE (low \o stk)[Len(low) + d] = stk[d]
  <2>1. Len(low) + d \in 1 .. Len(low) + Len(stk) /\ ~(Len(low) + d <= Len(low))
        /\ (Len(low) + d) - Len(low) = d
    BY <1>1
  <2>2. QED
    BY <1>2, <2>1
<1>5. QED
  BY <1>1, <1>2, <1>3, <1>4

\* Dropping the upper stack.
LEMMA DropUpper ==
  ASSUME NEW A, NEW low \in Seq(A), NEW stk \in Seq(A)
  PROVE  SubSeq(low \o stk, 1, Len(low)) = low
<1>1. Len(low) \in Nat
  BY LenProperties
<1>2. CASE Len(low) = 0
  <2>1. low = <<>>
    BY <1>2, EmptySeq
  <2>2. QED
    BY <1>2, <2>1, SubSeqEmpty
<1>3. CASE Len(low) # 0
  <2>1. SubSeq(low \o stk, 1, Len(low)) = SubSeq(low, 1, Len(low))
    BY <1>1, <1>3, SubSeqOfConcat1
  <2>2. QED
    BY <2>1, SubSeqFull
<1>4. QED
  BY <1>2, <1>3

\* Cutting the upper stack.
LEMMA CutUpper ==
  ASSUME NEW A, NEW low \in Seq(A), NEW stk \in Seq(A), NEW d \in 1 .. Len(stk)
  PROVE  SubSeq(low \o stk, 1, Len(low) + d) = low \o SubSeq(stk, 1, d)
<1> DEFINE both == low \o stk
           cut == SubSeq(stk, 1, d)
           n == Len(low) + d
<1>1. Len(low) \in Nat /\ Len(stk) \in Nat
  BY LenProperties
<1>2. /\ both \in Seq(A) /\ Len(both) = Len(low) + Len(stk)
      /\ \A i \in 1 .. Len(low) + Len(stk) :
           both[i] = IF i <= Len(low) THEN low[i] ELSE stk[i - Len(low)]
  BY ConcatProperties
<1>3. cut \in Seq(A) /\ Len(cut) = d /\ \A i \in 1 .. d : cut[i] = stk[i]
  <2>1. \A i \in 1 .. d : stk[i] \in A
    BY <1>1, ElementOfSeq
  <2>2. QED
    BY <1>1, <2>1, SubSeqProperties
<1>4. /\ low \o cut \in Seq(A) /\ Len(low \o cut) = n
      /\ \A i \in 1 .. n :
           (low \o cut)[i] = IF i <= Len(low) THEN low[i] ELSE cut[i - Len(low)]
  <2> HIDE DEF cut
  <2> QED
    BY <1>3, ConcatProperties
<1>5. /\ SubSeq(both, 1, n) \in Seq(A) /\ Len(SubSeq(both, 1, n)) = n
      /\ \A i \in 1 .. n : SubSeq(both, 1, n)[i] = both[i]
  <2> HIDE DEF both
  <2>1. \A i \in 1 .. n : both[i] \in A
    BY <1>1, <1>2, ElementOfSeq
  <2>2. QED
    BY <1>1, <2>1, SubSeqProperties
<1>6. ASSUME NEW i \in 1 .. n PROVE SubSeq(both, 1, n)[i] = (low \o cut)[i]
  <2>1. i \in 1 .. Len(low) + Len(stk) /\ SubSeq(both, 1, n)[i] = both[i]
    BY <1>1, <1>5
  <2>2. CASE i <= Len(low)
    BY <1>2, <1>4, <2>1, <2>2
  <2>3. CASE ~(i <= Len(low))
    <3>1. i - Len(low) \in 1 .. d
      BY <1>1, <2>3
    <3> HIDE DEF both, cut
    <3>2. QED
      BY <1>2, <1>3, <1>4, <2>1, <2>3, <3>1
  <2>4. QED
    BY <2>2, <2>3
<1> HIDE DEF both, cut, n
<1>7. SubSeq(both, 1, n) = low \o cut
  BY <1>4, <1>5, <1>6, SeqEqual
<1>8. QED
  BY <1>7 DEF both, cut, n

\* An activation that goes on is one.
LEMMA NextActivation ==
  ASSUME NEW a \in Activations
  PROVE  [a EXCEPT !.at = @ + 1] \in Activations
BY DEF Activations

\* Going on behind a call of the upper stack.
LEMMA AdvanceUpper ==
  ASSUME NEW low \in Seq(Activations), NEW stk \in Seq(Activations), stk # <<>>
  PROVE  [low \o stk EXCEPT ![Len(low) + Len(stk)].at = @ + 1] = low \o Advance(stk)
<1> DEFINE d == Len(stk)
           n == Len(low) + d
           both == low \o stk
           x == [stk[d] EXCEPT !.at = @ + 1]
<1>1. /\ both \in Seq(Activations) /\ Len(both) = n /\ both[n] = stk[d]
      /\ Len(low) \in Nat /\ d \in Nat \ {0}
  BY TopOfBoth
<1>2. \A i \in 1 .. n : both[i] = IF i <= Len(low) THEN low[i] ELSE stk[i - Len(low)]
  BY ConcatProperties
<1>3. stk[d] \in Activations
  BY LastElement
<1>4. x \in Activations
  BY <1>3, NextActivation
<1>5. Advance(stk) = [stk EXCEPT ![d] = x]
  BY DEF Advance
<1>6. [both EXCEPT ![n].at = @ + 1] = [both EXCEPT ![n] = x]
  BY <1>1
<1> HIDE DEF x, both
<1>7. n \in 1 .. Len(both) /\ d \in 1 .. Len(stk)
  BY <1>1
<1> HIDE DEF n, d
<1>8. /\ [both EXCEPT ![n] = x] \in Seq(Activations)
      /\ Len([both EXCEPT ![n] = x]) = n
      /\ \A i \in 1 .. n : [both EXCEPT ![n] = x][i] = IF i = n THEN x ELSE both[i]
  BY <1>1, <1>4, <1>7, ExceptSeq
<1>9. /\ Advance(stk) \in Seq(Activations) /\ Len(Advance(stk)) = d
      /\ \A i \in 1 .. d : Advance(stk)[i] = IF i = d THEN x ELSE stk[i]
  BY <1>4, <1>5, <1>7, ExceptSeq DEF d
<1> USE DEF n
<1>10. /\ low \o Advance(stk) \in Seq(Activations) /\ Len(low \o Advance(stk)) = n
       /\ \A i \in 1 .. n :
            (low \o Advance(stk))[i]
              = IF i <= Len(low) THEN low[i] ELSE Advance(stk)[i - Len(low)]
  BY <1>9, ConcatProperties
<1>11. ASSUME NEW i \in 1 .. n
       PROVE  [both EXCEPT ![n] = x][i] = (low \o Advance(stk))[i]
  <2>1. CASE i <= Len(low)
    <3>1. i # n
      BY <1>1, <2>1
    <3>2. QED
      BY <1>2, <1>8, <1>10, <2>1, <3>1
  <2>2. CASE ~(i <= Len(low))
    <3>1. i - Len(low) \in 1 .. d /\ (i = n <=> i - Len(low) = d)
      BY <1>1, <2>2
    <3>2. QED
      BY <1>2, <1>8, <1>9, <1>10, <2>2, <3>1
  <2>3. QED
    BY <2>1, <2>2
<1>12. [both EXCEPT ![n] = x] = low \o Advance(stk)
  BY <1>8, <1>10, <1>11, SeqEqual
<1>13. QED
  BY <1>6, <1>12 DEF both, d

\* Going on behind a call of the upper stack that is not its last.
LEMMA ContinueUpper ==
  ASSUME NEW low \in Seq(Activations), NEW stk \in Seq(Activations),
         NEW d \in 1 .. Len(stk)
  PROVE  [SubSeq(low \o stk, 1, Len(low) + d) EXCEPT ![Len(low) + d].at = @ + 1]
           = low \o Advance(SubSeq(stk, 1, d))
<1>1. SubSeq(low \o stk, 1, Len(low) + d) = low \o SubSeq(stk, 1, d)
  BY CutUpper
<1>2. Len(stk) \in Nat /\ \A i \in 1 .. d : stk[i] \in Activations
  BY LenProperties, ElementOfSeq
<1>3. SubSeq(stk, 1, d) \in Seq(Activations) /\ Len(SubSeq(stk, 1, d)) = d
  BY <1>2, SubSeqProperties
<1>4. SubSeq(stk, 1, d) # <<>>
  BY PrefixType
<1>5. QED
  BY <1>1, <1>3, <1>4, AdvanceUpper

-----------------------------------------------------------------------------
(* The invariant of the refinement *)

\* The VMs that are not gone wait each for the next one: what is between a
\* waiting VM and its task is gone, and so is what is behind the active one.
ChainOK ==
  /\ \A v \in DOMAIN vms : vms[v].state = "waiting" =>
       /\ v < vms[v].on /\ vms[vms[v].on].state # "gone"
       /\ \A w \in DOMAIN vms : v < w /\ w < vms[v].on => vms[w].state = "gone"
  /\ \A v, w \in DOMAIN vms : Active(v) /\ v < w => vms[w].state = "gone"

\* Functions that may be called inside a try of P, and what they call.
TryFuncs(P) == CHOOSE I \in SUBSET DOMAIN P.funcs : StayInside(P, I) /\ TriedIn(P, I)

GuardedCall(P, a) == P.funcs[a.func].body[a.at].guarded

\* What runs above a call in a try is one of these functions.
Tries(P, stk) ==
  \A d \in 1 .. Len(stk) - 1 : GuardedCall(P, stk[d]) =>
    \A e \in d + 1 .. Len(stk) : stk[e].func \in TryFuncs(P)

\* A VM waits outside every try, and holds a value only if its function has
\* returned.
RecordOK(P, r) ==
  /\ r.state \in {"running", "queued", "waiting"} => Tries(P, r.stack)
  /\ r.state = "waiting" => \A d \in 1 .. Len(r.stack) : ~GuardedCall(P, r.stack[d])
  /\ r.state = "idle" => r.stack = <<>>
  /\ r.state = "answered" => r.stack # <<>>
  /\ r.state = "answered" /\ r.answer = "value" =>
       /\ Len(r.stack) = 1 /\ r.stack[1].at > Len(P.funcs[r.stack[1].func].body)
       /\ "value" \in P.funcs[r.stack[1].func].ends

RecordsOK == \A v \in DOMAIN vms : RecordOK(prog, vms[v])

PhaseOK == phase = "loop" => prog.callbacks # {}

RInv == IInv /\ ChainOK /\ RecordsOK /\ PhaseOK /\ TriesStayInside(prog)

-----------------------------------------------------------------------------
(* Tries and stacks *)

\* TryFuncs has the property it is chosen for.
LEMMA TryFuncsFacts ==
  ASSUME NEW P, TriesStayInside(P)
  PROVE  StayInside(P, TryFuncs(P)) /\ TriedIn(P, TryFuncs(P))
BY Zenon DEF TriesStayInside, TryFuncs

\* A fresh stack.
LEMMA TriesFresh ==
  ASSUME NEW P, NEW a
  PROVE  Tries(P, <<a>>)
BY DEF Tries

\* A call inside the VM.
LEMMA TriesPush ==
  ASSUME NEW P, NEW A, NEW stk \in Seq(A), stk # <<>>, Tries(P, stk), NEW a \in A,
         GuardedCall(P, stk[Len(stk)]) => a.func \in TryFuncs(P),
         stk[Len(stk)].func \in TryFuncs(P) => a.func \in TryFuncs(P)
  PROVE  Tries(P, Append(stk, a))
<1> DEFINE n == Len(stk)
           new == Append(stk, a)
<1>1. n \in Nat \ {0} /\ Len(new) = n + 1 /\ new[n + 1] = a
      /\ \A i \in 1 .. n : new[i] = stk[i]
  BY LastElement, AppendProperties
<1> HIDE DEF new
<1>2. SUFFICES ASSUME NEW d \in 1 .. n, GuardedCall(P, stk[d]), NEW e \in d + 1 .. n + 1
               PROVE  new[e].func \in TryFuncs(P)
  BY <1>1 DEF Tries, new
<1>3. CASE e \in d + 1 .. n
  BY <1>1, <1>2, <1>3 DEF Tries
<1>4. CASE e = n + 1 /\ d = n
  BY <1>1, <1>2, <1>4
<1>5. CASE e = n + 1 /\ d # n
  <2>1. d \in 1 .. n - 1 /\ n \in d + 1 .. n
    BY <1>1, <1>5
  <2>2. stk[n].func \in TryFuncs(P)
    BY <1>2, <2>1 DEF Tries
  <2>3. QED
    BY <1>1, <1>5, <2>2
<1>6. QED
  BY <1>1, <1>2, <1>3, <1>4, <1>5

\* Cutting the stack.
LEMMA TriesCut ==
  ASSUME NEW P, NEW A, NEW stk \in Seq(A), Tries(P, stk), NEW n \in 1 .. Len(stk)
  PROVE  Tries(P, SubSeq(stk, 1, n))
<1> DEFINE cut == SubSeq(stk, 1, n)
<1>1. Len(stk) \in Nat /\ \A i \in 1 .. n : stk[i] \in A
  BY LenProperties, ElementOfSeq
<1>2. Len(cut) = n /\ \A i \in 1 .. n : cut[i] = stk[i]
  BY <1>1, SubSeqProperties
<1> HIDE DEF cut
<1>3. ASSUME NEW d \in 1 .. n - 1, GuardedCall(P, cut[d]), NEW e \in d + 1 .. n
      PROVE  cut[e].func \in TryFuncs(P)
  <2>1. d \in 1 .. Len(stk) - 1 /\ e \in d + 1 .. Len(stk) /\ d \in 1 .. n /\ e \in 1 .. n
    BY <1>1, <1>3
  <2>2. stk[e].func \in TryFuncs(P)
    BY <1>2, <1>3, <2>1 DEF Tries
  <2>3. QED
    BY <1>2, <2>1, <2>2
<1>4. Tries(P, cut)
  BY <1>2, <1>3 DEF Tries
<1>5. QED
  BY <1>4 DEF cut

\* Going on behind a call.
LEMMA TriesAdvance ==
  ASSUME NEW P, NEW stk \in Seq(Activations), stk # <<>>, Tries(P, stk)
  PROVE  Tries(P, Advance(stk))
<1> DEFINE n == Len(stk)
           x == [stk[n] EXCEPT !.at = @ + 1]
           new == Advance(stk)
<1>1. n \in Nat \ {0} /\ n \in 1 .. Len(stk) /\ stk[n] \in Activations
  BY LastElement
<1>2. x \in Activations /\ x.func = stk[n].func
  <2>1. x \in Activations
    BY <1>1, NextActivation
  <2>2. QED
    BY <1>1, <2>1 DEF Activations
<1>3. new = [stk EXCEPT ![n] = x]
  BY DEF Advance
<1> HIDE DEF x
<1>4. Len(new) = n /\ \A i \in 1 .. n : new[i] = IF i = n THEN x ELSE stk[i]
  BY <1>1, <1>2, <1>3, ExceptSeq
<1> HIDE DEF new
<1>5. ASSUME NEW d \in 1 .. n - 1, GuardedCall(P, new[d]), NEW e \in d + 1 .. n
      PROVE  new[e].func \in TryFuncs(P)
  <2>1. d \in 1 .. n /\ d # n /\ e \in 1 .. n
    BY <1>1
  <2>2. new[d] = stk[d] /\ new[e].func = stk[e].func
    BY <1>2, <1>4, <2>1
  <2>3. stk[e].func \in TryFuncs(P)
    BY <1>5, <2>2 DEF Tries
  <2>4. QED
    BY <2>2, <2>3
<1>6. Tries(P, new)
  BY <1>4, <1>5 DEF Tries
<1>7. QED
  BY <1>6 DEF new

-----------------------------------------------------------------------------
(* The chain of the VMs *)

\* A step of the active VM on itself keeps the chain.
LEMMA OwnStepChain ==
  ASSUME IInv, ChainOK, NEW v, OwnStep(v)
  PROVE  ChainOK'
<1>1. PICK r : NewRecord(v, r) /\ vms' = [vms EXCEPT ![v] = r]
  BY DEF OwnStep
<1>2. DOMAIN vms' = DOMAIN vms /\ \A w \in DOMAIN vms \ {v} : vms'[w] = vms[w]
  BY <1>1 DEF OwnStep
<1>3. v \in DOMAIN vms /\ vms[v].state \in {"running", "idle"} /\ vms'[v] = r /\ Active(v)
  BY <1>1 DEF OwnStep, Active
<1>4. r.state \in {"running", "answered", "idle", "gone"} /\ (r.state = "gone" => v = 1)
  BY <1>1 DEF NewRecord
<1>5. vms \in Seq(Vms) /\ DOMAIN vms = 1 .. Len(vms) /\ Len(vms) \in Nat
  BY SeqDomain DEF IInv, TypeOK
<1>6. ASSUME NEW u \in DOMAIN vms, vms'[u].state = "waiting"
      PROVE  /\ u < vms'[u].on /\ vms'[vms'[u].on].state # "gone"
             /\ \A w \in DOMAIN vms : u < w /\ w < vms'[u].on => vms'[w].state = "gone"
  <2>1. u # v /\ vms'[u] = vms[u] /\ vms[u].on \in DOMAIN vms
    BY <1>2, <1>3, <1>4, <1>6 DEF IInv, Links, StacksOK
  <2>2. /\ u < vms[u].on /\ vms[vms[u].on].state # "gone"
        /\ \A w \in DOMAIN vms : u < w /\ w < vms[u].on => vms[w].state = "gone"
    BY <1>6, <2>1 DEF ChainOK
  <2>3. vms[u].on = v => v # 1
    BY <1>5, <2>2
  <2>4. QED
    BY <1>2, <1>3, <1>4, <2>1, <2>2, <2>3
<1>7. ASSUME NEW u \in DOMAIN vms, NEW w \in DOMAIN vms, Active(u)', u < w
      PROVE  vms'[w].state = "gone"
  <2>1. u = v
    BY <1>2, <1>3, <1>7 DEF IInv, OneRuns, Active
  <2>2. w # v /\ vms[w].state = "gone"
    BY <1>3, <1>5, <1>7, <2>1 DEF ChainOK
  <2>3. QED
    BY <1>2, <2>2
<1>8. QED
  BY <1>2, <1>6, <1>7 DEF ChainOK

\* A submitted task is the new end of the chain.
LEMMA SubmitChain ==
  ASSUME IInv, ChainOK, NEW v, NEW p, NEW task, SubmitsTask(v, p, task)
  PROVE  ChainOK'
<1>1. Len(vms) \in Nat /\ DOMAIN vms = 1 .. Len(vms)
  BY SeqDomain DEF IInv, TypeOK
<1>2. /\ v \in DOMAIN vms /\ vms[v].state = "running" /\ Active(v)
      /\ task = Len(vms) + 1 /\ DOMAIN vms' = DOMAIN vms \cup {task}
      /\ \A w \in DOMAIN vms \ {v} : vms'[w] = vms[w]
      /\ vms'[v].state = "waiting" /\ vms'[v].on = task
      /\ vms'[task].state = "queued" /\ task \notin DOMAIN vms
  BY <1>1 DEF SubmitsTask, Active
<1>3. ASSUME NEW u \in DOMAIN vms', vms'[u].state = "waiting"
      PROVE  /\ u < vms'[u].on /\ vms'[vms'[u].on].state # "gone"
             /\ \A w \in DOMAIN vms' : u < w /\ w < vms'[u].on => vms'[w].state = "gone"
  <2>1. CASE u = v
    <3>1. \A w \in DOMAIN vms : v < w => vms[w].state = "gone" /\ w # v
      BY <1>1, <1>2 DEF ChainOK
    <3>2. QED
      BY <1>1, <1>2, <2>1, <3>1
  <2>2. CASE u # v
    <3>1. u \in DOMAIN vms /\ vms'[u] = vms[u] /\ vms[u].on \in DOMAIN vms
      BY <1>2, <1>3, <2>2 DEF IInv, Links, StacksOK
    <3>2. /\ u < vms[u].on /\ vms[vms[u].on].state # "gone"
          /\ \A w \in DOMAIN vms : u < w /\ w < vms[u].on => vms[w].state = "gone"
      BY <1>3, <3>1 DEF ChainOK
    <3>3. vms'[vms[u].on].state # "gone"
      BY <1>2, <3>1, <3>2
    <3>4. \A w \in DOMAIN vms' : u < w /\ w < vms[u].on => w \in DOMAIN vms \ {v}
      BY <1>1, <1>2, <3>1, <3>2
    <3>5. QED
      BY <1>2, <3>1, <3>2, <3>3, <3>4
  <2>3. QED
    BY <2>1, <2>2
<1>4. ASSUME NEW u \in DOMAIN vms', NEW w \in DOMAIN vms', Active(u)', u < w
      PROVE  vms'[w].state = "gone"
  <2>1. u = task
    BY <1>2, <1>4 DEF IInv, OneRuns, Active
  <2>2. QED
    BY <1>1, <1>2, <1>4, <2>1
<1>5. QED
  BY <1>3, <1>4 DEF ChainOK

\* The turn goes back by one VM.
LEMMA TakesAnswerChain ==
  ASSUME IInv, ChainOK, NEW v, NEW c, TakesAnswer(v, c)
  PROVE  ChainOK'
<1>1. /\ v \in DOMAIN vms /\ c \in DOMAIN vms /\ v # c
      /\ vms[v].state = "waiting" /\ vms[v].on = c /\ vms[c].state = "answered"
      /\ DOMAIN vms' = DOMAIN vms /\ NewRecord(v, vms'[v])
      /\ \A w \in DOMAIN vms \ {v, c} : vms'[w] = vms[w]
      /\ vms'[c].state = "gone"
  BY TakesAnswerFacts
<1>2. Len(vms) \in Nat /\ DOMAIN vms = 1 .. Len(vms)
  BY SeqDomain DEF IInv, TypeOK
<1>3. /\ v < c
      /\ \A w \in DOMAIN vms : v < w /\ w < c => vms[w].state = "gone"
  BY <1>1 DEF ChainOK
<1>4. \A w \in DOMAIN vms : c < w => vms[w].state = "gone"
  BY <1>1 DEF ChainOK, Active
<1>5. vms'[v].state # "waiting" /\ (vms'[v].state = "gone" => v = 1)
  BY <1>1 DEF NewRecord
<1>6. ASSUME NEW u \in DOMAIN vms, vms'[u].state = "waiting"
      PROVE  /\ u < vms'[u].on /\ vms'[vms'[u].on].state # "gone"
             /\ \A w \in DOMAIN vms : u < w /\ w < vms'[u].on => vms'[w].state = "gone"
  <2>1. u # v /\ u # c /\ vms'[u] = vms[u] /\ vms[u].on \in DOMAIN vms
    BY <1>1, <1>5, <1>6 DEF IInv, Links, StacksOK
  <2>2. /\ u < vms[u].on /\ vms[vms[u].on].state # "gone"
        /\ \A w \in DOMAIN vms : u < w /\ w < vms[u].on => vms[w].state = "gone"
    BY <1>6, <2>1 DEF ChainOK
  <2>3. u < v
    BY <1>2, <1>3, <1>4, <1>1, <1>6, <2>1
  <2>4. vms[u].on # c
    BY <1>1, <1>3, <2>2, <2>3
  <2>5. vms[u].on = v => vms'[v].state # "gone"
    BY <1>2, <1>5, <2>2
  <2>6. \A w \in DOMAIN vms : u < w /\ w < vms[u].on => w # v
    BY <1>1, <2>2
  <2>7. QED
    BY <1>1, <2>1, <2>2, <2>4, <2>5, <2>6
<1>7. ASSUME NEW u \in DOMAIN vms, NEW w \in DOMAIN vms, Active(u)', u < w
      PROVE  vms'[w].state = "gone"
  <2>1. u = v
    BY <1>1, <1>7 DEF IInv, OneRuns, Active
  <2>2. w = c \/ vms[w].state = "gone"
    BY <1>1, <1>2, <1>3, <1>4, <1>7, <2>1
  <2>3. w # v
    BY <1>2, <1>7, <2>1
  <2>4. QED
    BY <1>1, <2>2, <2>3
<1>8. QED
  BY <1>1, <1>6, <1>7 DEF ChainOK

\* A queued task that is taken runs; nothing else changes in the VMs.
LEMMA TakeFacts ==
  ASSUME IInv, NEW p \in DOMAIN pools, NEW i \in DOMAIN pools[p].workers, Take(p, i)
  PROVE  \E q \in DOMAIN vms :
           /\ vms[q].state = "queued" /\ DOMAIN vms' = DOMAIN vms
           /\ \A w \in DOMAIN vms \ {q} : vms'[w] = vms[w]
           /\ vms'[q] = [vms[q] EXCEPT !.state = "running"]
           /\ vms'[q].state = "running" /\ vms'[q].stack = vms[q].stack
           /\ Len(vms') = Len(vms)
<1> DEFINE q == Head(pools[p].queue)
<1>1. pools[p].queue \in Seq(Nat) /\ pools[p].queue # <<>>
  BY DEF Take, IInv, TypeOK, PoolType
<1>2. 1 \in DOMAIN pools[p].queue /\ q = pools[p].queue[1]
  BY <1>1, EmptySeq, LenProperties, HeadTailProperties
<1>3. q \in DOMAIN vms /\ vms[q].state = "queued"
  BY <1>2 DEF IInv, Links, QueuedOK, QueuedTask
<1>4. vms[q] \in Vms /\ vms \in Seq(Vms)
  BY <1>3, ElementOfSeq, SeqDomain DEF IInv, TypeOK
<1>5. vms' = [vms EXCEPT ![q].state = "running"]
  BY DEF Take
<1> HIDE DEF q
<1>6. [vms[q] EXCEPT !.state = "running"] \in Vms
  BY <1>4 DEF Vms
<1>7. Len(vms') = Len(vms)
  BY <1>3, <1>4, <1>5, <1>6, SeqUpdate
<1>8. QED
  BY <1>3, <1>4, <1>5, <1>7 DEF Vms

LEMMA TakeChain ==
  ASSUME IInv, ChainOK, NEW p \in DOMAIN pools, NEW i \in DOMAIN pools[p].workers,
         Take(p, i)
  PROVE  ChainOK'
<1>1. PICK q \in DOMAIN vms :
        /\ vms[q].state = "queued" /\ DOMAIN vms' = DOMAIN vms
        /\ \A w \in DOMAIN vms \ {q} : vms'[w] = vms[w]
        /\ vms'[q].state = "running"
  BY TakeFacts
<1>2. DOMAIN vms' = DOMAIN vms /\ \A w \in DOMAIN vms : vms'[w].state = "gone" <=> vms[w].state = "gone"
  BY <1>1
<1>3. \A w \in DOMAIN vms : vms'[w].state = "waiting" =>
        /\ vms[w].state = "waiting" /\ vms'[w].on = vms[w].on /\ vms[w].on \in DOMAIN vms
  BY <1>1 DEF IInv, Links, StacksOK
<1>4. \A w \in DOMAIN vms : Active(w)' => Active(w)
  BY <1>1 DEF Active
<1>5. QED
  BY <1>2, <1>3, <1>4 DEF ChainOK

-----------------------------------------------------------------------------
(* The call stack *)

\* With one active VM, the call stack ends with its stack, and what is below
\* it is of VMs that wait.
LEMMA ActiveStack ==
  ASSUME IInv, ChainOK, NEW v \in DOMAIN vms, vms[v].state # "gone",
         \A w \in DOMAIN vms : v < w => vms[w].state = "gone"
  PROVE  /\ CallStack = Stacks(vms)[v - 1] \o vms[v].stack
         /\ Stacks(vms)[v - 1] \in Seq(Activations)
         /\ vms[v].stack \in Seq(Activations)
<1>1. vms \in Seq(Vms) /\ Len(vms) \in Nat /\ DOMAIN vms = 1 .. Len(vms)
  BY SeqDomain DEF IInv, TypeOK
<1>2. \A n \in 1 .. Len(vms) : vms[n].stack \in Seq(Activations)
  <2>1. \A n \in 1 .. Len(vms) : vms[n] \in Vms
    BY <1>1, ElementOfSeq
  <2>2. QED
    BY <2>1 DEF Vms
<1>3. \A n \in 0 .. Len(vms) : Stacks(vms)[n] \in Seq(Activations)
  BY <1>1, <1>2, StacksType
<1>4. /\ v \in 0 .. Len(vms) /\ v # 0 /\ v - 1 \in 0 .. Len(vms)
      /\ Len(vms) \in 0 .. Len(vms) /\ v \in 0 .. Len(vms)
      /\ \A n \in v + 1 .. Len(vms) : n \in DOMAIN vms /\ v < n
  BY <1>1
<1>5. CallStack = Stacks(vms)[v]
  <2>1. \A n \in v + 1 .. Len(vms) : vms[n].state = "gone"
    BY <1>4
  <2>2. QED
    BY <1>1, <1>4, <2>1, StacksSkip DEF CallStack
<1>6. Stacks(vms)[v] = Stacks(vms)[v - 1] \o vms[v].stack
  BY <1>1, <1>4, StacksEquation
<1>7. QED
  BY <1>1, <1>2, <1>3, <1>4, <1>5, <1>6

\* After a step of VM v that touches no VM below it, and with nothing left
\* above it, the call stack ends with the new stack of v.
LEMMA NewStack ==
  ASSUME IInv, NEW v \in DOMAIN vms, DOMAIN vms \subseteq DOMAIN vms',
         Len(vms') \in Nat, DOMAIN vms' = 1 .. Len(vms'),
         \A w \in DOMAIN vms : w < v => /\ vms'[w].stack = vms[w].stack
                                        /\ vms'[w].state = "gone" <=> vms[w].state = "gone",
         \A w \in DOMAIN vms' : v < w => vms'[w].state = "gone"
  PROVE  CallStack' = IF vms'[v].state = "gone" THEN Stacks(vms)[v - 1]
                      ELSE Stacks(vms)[v - 1] \o vms'[v].stack
<1>1. vms \in Seq(Vms) /\ Len(vms) \in Nat /\ DOMAIN vms = 1 .. Len(vms)
  BY SeqDomain DEF IInv, TypeOK
<1>2. /\ v \in DOMAIN vms' /\ v \in 0 .. Len(vms') /\ v # 0 /\ v - 1 \in 0 .. Len(vms')
      /\ Len(vms') \in 0 .. Len(vms') /\ v - 1 \in 0 .. Len(vms) /\ v - 1 <= Len(vms')
      /\ \A n \in v + 1 .. Len(vms') : n \in DOMAIN vms' /\ v < n
      /\ \A n \in 1 .. v - 1 : n \in DOMAIN vms /\ n < v
  BY <1>1
<1>3. CallStack' = Stacks(vms')[v]
  <2>1. \A n \in v + 1 .. Len(vms') : vms'[n].state = "gone"
    BY <1>2
  <2>2. Stacks(vms')[Len(vms')] = Stacks(vms')[v]
    BY <1>2, <2>1, StacksSkip
  <2>3. QED
    BY <2>2 DEF CallStack
<1>4. Stacks(vms')[v] = IF vms'[v].state = "gone" THEN Stacks(vms')[v - 1]
                        ELSE Stacks(vms')[v - 1] \o vms'[v].stack
  BY <1>2, StacksEquation
<1>5. Stacks(vms)[v - 1] = Stacks(vms')[v - 1]
  <2>1. \A n \in 1 .. v - 1 : /\ vms[n].stack = vms'[n].stack
                              /\ vms[n].state = "gone" <=> vms'[n].state = "gone"
    BY <1>2
  <2>2. QED
    BY <1>1, <1>2, <2>1, StacksAgree
<1>6. QED
  BY <1>3, <1>4, <1>5

-----------------------------------------------------------------------------
(* Steps of the active VM on itself *)

\* Such a step changes the top of the call stack.
LEMMA OwnStepStack ==
  ASSUME RInv, NEW v, OwnStep(v)
  PROVE  /\ v \in DOMAIN vms /\ vms[v] \in Vms
         /\ CallStack = Stacks(vms)[v - 1] \o vms[v].stack
         /\ Stacks(vms)[v - 1] \in Seq(Activations)
         /\ vms[v].stack \in Seq(Activations)
         /\ CallStack' = IF vms'[v].state = "gone" THEN Stacks(vms)[v - 1]
                         ELSE Stacks(vms)[v - 1] \o vms'[v].stack
         /\ v = 1 => Stacks(vms)[v - 1] = <<>>
         /\ Failing = FALSE
         /\ Failing' = (vms'[v].state = "answered" /\ vms'[v].answer # "value")
<1>1. PICK r : NewRecord(v, r) /\ vms' = [vms EXCEPT ![v] = r]
  BY DEF OwnStep
<1>2. /\ v \in DOMAIN vms /\ vms[v].state \in {"running", "idle"} /\ Active(v)
      /\ vms[v].state # "gone"
  BY DEF OwnStep, Active
<1>3. vms \in Seq(Vms) /\ Len(vms) \in Nat /\ DOMAIN vms = 1 .. Len(vms)
      /\ vms[v] \in Vms
  BY <1>2, SeqDomain, ElementOfSeq DEF RInv, IInv, TypeOK
<1>4. \A w \in DOMAIN vms : v < w => vms[w].state = "gone"
  BY <1>2 DEF RInv, ChainOK
<1>5. /\ CallStack = Stacks(vms)[v - 1] \o vms[v].stack
      /\ Stacks(vms)[v - 1] \in Seq(Activations)
      /\ vms[v].stack \in Seq(Activations)
  BY <1>2, <1>4, ActiveStack DEF RInv
<1>6. /\ DOMAIN vms' = DOMAIN vms /\ Len(vms') = Len(vms)
      /\ \A w \in DOMAIN vms \ {v} : vms'[w] = vms[w]
  <2>1. r \in Vms
    BY <1>1 DEF NewRecord
  <2>2. QED
    BY <1>1, <1>2, <1>3, <2>1, SeqUpdate
<1>7. /\ DOMAIN vms \subseteq DOMAIN vms'
      /\ Len(vms') \in Nat /\ DOMAIN vms' = 1 .. Len(vms')
      /\ \A w \in DOMAIN vms : w < v => vms'[w] = vms[w]
      /\ \A w \in DOMAIN vms' : v < w => vms'[w].state = "gone"
  BY <1>2, <1>3, <1>4, <1>6
<1>8. CallStack' = IF vms'[v].state = "gone" THEN Stacks(vms)[v - 1]
                   ELSE Stacks(vms)[v - 1] \o vms'[v].stack
  <2>1. IInv
    BY DEF RInv
  <2>2. \A w \in DOMAIN vms : w < v => /\ vms'[w].stack = vms[w].stack
                                       /\ vms'[w].state = "gone" <=> vms[w].state = "gone"
    BY <1>7
  <2>3. QED
    BY <1>2, <1>7, <2>1, <2>2, NewStack
<1>9. v = 1 => Stacks(vms)[v - 1] = <<>>
  <2>1. 0 \in 0 .. Len(vms)
    BY <1>3
  <2>2. Stacks(vms)[0] = <<>>
    BY <1>3, <2>1, StacksEquation
  <2>3. QED
    BY <2>2
<1>10. \A w \in DOMAIN vms \ {v} : vms[w].state # "answered"
  BY <1>2 DEF RInv, IInv, OneRuns, Active
<1>11. Failing = FALSE
  BY <1>2, <1>10 DEF Failing
<1>12. Failing' = (vms'[v].state = "answered" /\ vms'[v].answer # "value")
  BY <1>2, <1>6, <1>10 DEF Failing
<1>13. QED
  BY <1>2, <1>3, <1>5, <1>8, <1>9, <1>11, <1>12

\* The records of the other VMs stay as they are.
LEMMA OwnStepRecords ==
  ASSUME RInv, NEW v, OwnStep(v), RecordOK(prog, vms'[v])
  PROVE  RecordsOK'
<1>1. DOMAIN vms' = DOMAIN vms /\ prog' = prog
      /\ \A w \in DOMAIN vms \ {v} : vms'[w] = vms[w]
  BY DEF OwnStep
<1>2. QED
  BY <1>1 DEF RInv, RecordsOK

\* A running VM runs in the one stack, too, and nothing fails there.
LEMMA RunningInline ==
  ASSUME RInv, NEW v \in DOMAIN vms, vms[v].state = "running",
         CallStack = Stacks(vms)[v - 1] \o vms[v].stack,
         Stacks(vms)[v - 1] \in Seq(Activations), Failing = FALSE
  PROVE  /\ vms[v].stack \in Seq(Activations) /\ vms[v].stack # <<>>
         /\ Inline!Runs /\ Inline!Top = Top(v)
         /\ Finished(v) => \A how \in prog.funcs[Top(v).func].ends : Inline!Ending(how)
         /\ Len(CallStack) = Len(Stacks(vms)[v - 1]) + Len(vms[v].stack)
         /\ Len(Stacks(vms)[v - 1]) \in Nat /\ Len(vms[v].stack) \in Nat \ {0}
         /\ CallStack \in Seq(Activations) /\ Len(CallStack) \in Nat \ {0}
<1> DEFINE low == Stacks(vms)[v - 1]
<1>1. vms[v].stack # <<>> /\ TypeOK
  BY DEF RInv, IInv, Links, StacksOK
<1>2. vms[v].stack \in Seq(Activations)
  BY <1>1, TopFacts DEF Vms
<1>3. /\ CallStack # <<>> /\ CallStack[Len(CallStack)] = Top(v)
      /\ Len(CallStack) = Len(low) + Len(vms[v].stack)
      /\ Len(low) \in Nat /\ Len(vms[v].stack) \in Nat \ {0}
      /\ CallStack \in Seq(Activations) /\ Len(CallStack) \in Nat \ {0}
  <2> HIDE DEF low
  <2>1. low \in Seq(Activations) /\ CallStack = low \o vms[v].stack
    BY DEF low
  <2>2. /\ CallStack # <<>> /\ CallStack[Len(CallStack)] = Top(v)
        /\ Len(CallStack) = Len(low) + Len(vms[v].stack)
        /\ Len(low) \in Nat /\ Len(vms[v].stack) \in Nat \ {0}
        /\ CallStack \in Seq(Activations)
    BY <1>1, <1>2, <2>1, TopOfBoth DEF Top
  <2>3. QED
    BY <2>2, EmptySeq
<1>4. Inline!Runs /\ Inline!Top = Top(v)
  BY <1>3 DEF Inline!Runs, Inline!Top
<1>5. ASSUME Finished(v), NEW how \in prog.funcs[Top(v).func].ends PROVE Inline!Ending(how)
  BY <1>4, <1>5 DEF Inline!Ending, Inline!Body, Finished, Body
<1>6. QED
  BY <1>1, <1>2, <1>3, <1>4, <1>5

\* The call that a running VM is about to make.
LEMMA PendingCall ==
  ASSUME RInv, NEW v \in DOMAIN vms, vms[v].stack # <<>>, ~Finished(v)
  PROVE  /\ Top(v).at <= Len(Body(Top(v).func)) /\ Callee(v) \in DOMAIN prog.funcs
         /\ GuardedCall(prog, Top(v)) => Callee(v) \in TryFuncs(prog)
         /\ Top(v).func \in TryFuncs(prog) => Callee(v) \in TryFuncs(prog)
         /\ Callee(v) \in TryFuncs(prog) => prog.funcs[Callee(v)].schedule = "single"
<1> DEFINE f == Top(v).func
           at == Top(v).at
<1>1. TypeOK /\ TriesStayInside(prog)
  BY DEF RInv, IInv
<1>2. f \in DOMAIN prog.funcs /\ at \in Nat \ {0}
  BY <1>1, TopFacts
<1>3. WellFormedFunc(prog, prog.funcs[f])
  BY <1>1, <1>2, ProgramFacts DEF WellFormedProgram
<1>4. at <= Len(Body(f)) /\ at \in DOMAIN prog.funcs[f].body
  BY <1>2, <1>3 DEF WellFormedFunc, Finished, Body
<1>5. Callee(v) = prog.funcs[f].body[at].callee
  BY DEF Callee, Body
<1>6. Callee(v) \in DOMAIN prog.funcs
  BY <1>1, CalleeFacts
<1>7. StayInside(prog, TryFuncs(prog)) /\ TriedIn(prog, TryFuncs(prog))
  BY <1>1, TryFuncsFacts
<1> HIDE DEF f, at
<1>8. prog.funcs[f].body[at].guarded => Callee(v) \in TryFuncs(prog)
  BY <1>2, <1>4, <1>5, <1>7 DEF TriedIn
<1>9. f \in TryFuncs(prog) => Callee(v) \in TryFuncs(prog)
  BY <1>4, <1>5, <1>7 DEF StayInside
<1>10. Callee(v) \in TryFuncs(prog) => prog.funcs[Callee(v)].schedule = "single"
  BY <1>7 DEF StayInside
<1>11. QED
  BY <1>4, <1>6, <1>8, <1>9, <1>10 DEF f, at, GuardedCall

\* A call inside the VM is a call.
LEMMA CallInlineInline ==
  ASSUME RInv, NEW v \in DOMAIN vms, CallInline(v)
  PROVE  Inline!Call /\ RecordOK(prog, vms'[v])
<1> DEFINE low == Stacks(vms)[v - 1]
           stk == vms[v].stack
           a == Activation(Callee(v))
<1>1. IInv /\ OwnStep(v) /\ vms[v].state = "running" /\ ~Finished(v)
  BY CallInlineStep DEF RInv, CallInline, Running
<1>2. /\ CallStack = low \o stk /\ low \in Seq(Activations) /\ Failing = FALSE
      /\ vms[v] \in Vms
      /\ CallStack' = IF vms'[v].state = "gone" THEN low ELSE low \o vms'[v].stack
      /\ Failing' = (vms'[v].state = "answered" /\ vms'[v].answer # "value")
  BY <1>1, OwnStepStack
<1>3. /\ stk \in Seq(Activations) /\ stk # <<>> /\ Inline!Runs /\ Inline!Top = Top(v)
  BY <1>1, <1>2, RunningInline
<1>4. /\ Top(v).at <= Len(Body(Top(v).func)) /\ Callee(v) \in DOMAIN prog.funcs
      /\ GuardedCall(prog, Top(v)) => Callee(v) \in TryFuncs(prog)
      /\ Top(v).func \in TryFuncs(prog) => Callee(v) \in TryFuncs(prog)
  BY <1>1, <1>3, PendingCall
<1>5. vms'[v].state = "running" /\ vms'[v].stack = Append(stk, a)
  BY <1>1, <1>2 DEF CallInline, Vms
<1>6. a \in Activations /\ a.func = Callee(v)
  BY <1>4, ActivationType DEF Activation
<1> HIDE DEF low, stk, a
<1>7. CallStack' = Append(CallStack, a) /\ Failing' = FALSE
  <2>1. CallStack' = low \o Append(stk, a) /\ Failing' = FALSE
    BY <1>2, <1>5
  <2>2. Append(CallStack, a) = low \o Append(stk, a)
    <3>1. /\ low \in Seq(Activations) /\ stk \in Seq(Activations) /\ a \in Activations
          /\ CallStack = low \o stk
      BY <1>2, <1>3, <1>6
    <3>2. low \o stk \in Seq(Activations) /\ <<a>> \in Seq(Activations)
      BY <3>1, ConcatProperties
    <3>3. Append(CallStack, a) = (low \o stk) \o <<a>> /\ Append(stk, a) = stk \o <<a>>
      BY <3>1, <3>2, AppendIsConcat
    <3>4. QED
      BY <3>1, <3>2, <3>3, ConcatAssociative
  <2>3. QED
    BY <2>1, <2>2
<1> USE DEF stk, a
<1>8. Inline!Call
  BY <1>2, <1>3, <1>4, <1>7
     DEF Inline!Call, Inline!Body, Inline!Activation, Activation, Body, Callee, CallInline
<1>9. Tries(prog, stk)
  BY <1>1 DEF RInv, RecordsOK, RecordOK
<1>10. Tries(prog, Append(stk, a))
  BY <1>3, <1>4, <1>6, <1>9, TriesPush DEF Top
<1>11. QED
  BY <1>5, <1>8, <1>10 DEF RecordOK

\* The end of an entry, and how it is told.
LEMMA EndVmFacts ==
  ASSUME RInv, NEW v \in DOMAIN vms, vms[v].state = "running", vms[v].stack # <<>>,
         NEW how \in {"value", "error", "closed"}, EndVm(vms, v, how)
  PROVE  /\ v # 1 => /\ vms'[v].state = "answered" /\ vms'[v].answer = how
                     /\ vms'[v].stack = vms[v].stack /\ phase' = phase
         /\ v = 1 => /\ vms'[v].state \in {"idle", "gone"} /\ vms'[v].stack = <<>>
                     /\ phase' = PhaseAfter(how)
         /\ how # "value" => RecordOK(prog, vms'[v])
<1>1. vms[v] \in Vms
  BY ElementOfSeq, SeqDomain DEF RInv, IInv, TypeOK
<1>2. CASE v # 1
  BY <1>1, <1>2 DEF EndVm, EndOf, Vms, RecordOK
<1>3. CASE v = 1
  BY <1>1, <1>3 DEF EndVm, EndOf, Vms, RecordOK
<1>4. QED
  BY <1>2, <1>3

\* A return is a return, or, in an isolated VM, invisible before it is received.
LEMMA ReturnInline ==
  ASSUME RInv, NEW v \in DOMAIN vms, Return(v)
  PROVE  /\ Inline!Return \/ UNCHANGED <<CallStack, Failing, phase>>
         /\ RecordOK(prog, vms'[v]) /\ PhaseOK'
<1> DEFINE low == Stacks(vms)[v - 1]
           stk == vms[v].stack
           n == Len(stk)
<1>1. IInv /\ OwnStep(v) /\ vms[v].state = "running" /\ Finished(v) /\ phase # "exited"
      /\ "value" \in prog.funcs[Top(v).func].ends /\ UNCHANGED <<prog, events>>
  BY ReturnStep DEF RInv, Return, Running
<1>2. /\ CallStack = low \o stk /\ low \in Seq(Activations) /\ Failing = FALSE
      /\ vms[v] \in Vms /\ (v = 1 => low = <<>>)
      /\ CallStack' = IF vms'[v].state = "gone" THEN low ELSE low \o vms'[v].stack
      /\ Failing' = (vms'[v].state = "answered" /\ vms'[v].answer # "value")
  BY <1>1, OwnStepStack
<1>3. /\ stk \in Seq(Activations) /\ stk # <<>> /\ Inline!Ending("value")
      /\ Len(CallStack) = Len(low) + n /\ Len(low) \in Nat /\ n \in Nat \ {0}
  BY <1>1, <1>2, RunningInline
<1>4. Tries(prog, stk)
  BY <1>1 DEF RInv, RecordsOK, RecordOK
<1>5. CASE n > 1 /\ vms' = [vms EXCEPT ![v].stack = Advance(SubSeq(@, 1, n - 1))]
           /\ UNCHANGED phase
  <2> DEFINE new == Advance(SubSeq(stk, 1, n - 1))
  <2>1. vms'[v].state = "running" /\ vms'[v].stack = new
    BY <1>1, <1>2, <1>5 DEF Vms
  <2>0. n > 1
    BY <1>5
  <2> HIDE DEF low, stk, n
  <2>2. n - 1 \in 1 .. n /\ Len(CallStack) - 1 = Len(low) + (n - 1)
        /\ Len(CallStack) > 1
    BY <1>3, <2>0
  <2>3. CallStack' = [SubSeq(CallStack, 1, Len(CallStack) - 1)
                        EXCEPT ![Len(CallStack) - 1].at = @ + 1]
    <3>1. [SubSeq(low \o stk, 1, Len(low) + (n - 1)) EXCEPT ![Len(low) + (n - 1)].at = @ + 1]
            = low \o new
      BY <1>2, <1>3, <2>2, ContinueUpper DEF n
    <3>2. CallStack' = low \o new
      BY <1>2, <2>1
    <3>3. QED
      BY <1>2, <2>2, <3>1, <3>2
  <2> USE DEF stk, n
  <2>4. Inline!Return
    BY <1>1, <1>2, <1>3, <1>5, <2>1, <2>2, <2>3 DEF Inline!Return, Inline!Continue
  <2>5. Tries(prog, SubSeq(stk, 1, n - 1)) /\ SubSeq(stk, 1, n - 1) \in Seq(Activations)
        /\ SubSeq(stk, 1, n - 1) # <<>>
    BY <1>3, <1>4, <2>2, TriesCut, PrefixType
  <2>6. Tries(prog, new)
    BY <2>5, TriesAdvance
  <2>7. QED
    BY <1>1, <1>5, <2>1, <2>4, <2>6 DEF RecordOK, PhaseOK, RInv
<1>6. CASE n = 1 /\ EndVm(vms, v, "value") /\ v # 1
  <2>1. /\ vms'[v].state = "answered" /\ vms'[v].answer = "value"
        /\ vms'[v].stack = stk /\ phase' = phase
    BY <1>1, <1>3, <1>6, EndVmFacts
  <2>2. CallStack' = CallStack /\ Failing' = Failing
    BY <1>2, <2>1
  <2>3. RecordOK(prog, vms'[v])
    BY <1>1, <1>3, <1>6, <2>1 DEF RecordOK, Finished, Top, Body
  <2>4. QED
    BY <1>1, <2>1, <2>2, <2>3 DEF PhaseOK, RInv
<1>7. CASE n = 1 /\ EndVm(vms, v, "value") /\ v = 1
  <2>1. vms'[v].state \in {"idle", "gone"} /\ vms'[v].stack = <<>>
        /\ phase' = PhaseAfter("value")
    BY <1>1, <1>3, <1>7, EndVmFacts
  <2>2. CallStack' = <<>> /\ Failing' = FALSE
    BY <1>2, <1>7, <2>1, ConcatEmptySeq
  <2>3. phase' = IF prog.callbacks # {} THEN "loop" ELSE "exited"
    BY <1>1, <2>1 DEF PhaseAfter, RInv, PhaseOK, IInv, TypeOK
  <2>4. Len(CallStack) = 1
    BY <1>2, <1>3, <1>7, EmptySeq
  <2>5. Inline!Return
    BY <1>1, <1>3, <2>2, <2>3, <2>4 DEF Inline!Return, Inline!EndEntry
  <2>6. QED
    BY <1>1, <2>1, <2>3, <2>5 DEF RecordOK, PhaseOK
<1>8. QED
  BY <1>5, <1>6, <1>7 DEF Return

\* An entry that fails drops the whole entry, if it is the program's, and
\* otherwise nothing yet.
LEMMA FailureInline ==
  ASSUME RInv, NEW v \in DOMAIN vms, vms[v].state = "running", phase # "exited",
         OwnStep(v), NEW how \in {"error", "closed"}, EndVm(vms, v, how),
         UNCHANGED <<prog, events>>
  PROVE  /\ \/ \E n \in 0 .. Len(CallStack) : Inline!Drop(n)
            \/ how = "closed" /\ Inline!EndEntry("exited")
         /\ RecordOK(prog, vms'[v]) /\ PhaseOK'
<1> DEFINE low == Stacks(vms)[v - 1]
           stk == vms[v].stack
<1>1. /\ CallStack = low \o stk /\ low \in Seq(Activations) /\ Failing = FALSE
      /\ vms[v] \in Vms /\ (v = 1 => low = <<>>)
      /\ CallStack' = IF vms'[v].state = "gone" THEN low ELSE low \o vms'[v].stack
      /\ Failing' = (vms'[v].state = "answered" /\ vms'[v].answer # "value")
  BY OwnStepStack
<1>2. /\ stk \in Seq(Activations) /\ stk # <<>>
      /\ Len(CallStack) = Len(low) + Len(stk)
      /\ Len(low) \in Nat /\ Len(stk) \in Nat \ {0} /\ CallStack \in Seq(Activations)
      /\ Len(CallStack) \in Nat \ {0}
  BY <1>1, RunningInline
<1>3. /\ v # 1 => /\ vms'[v].state = "answered" /\ vms'[v].answer = how
                  /\ vms'[v].stack = stk /\ phase' = phase
      /\ v = 1 => /\ vms'[v].state \in {"idle", "gone"} /\ vms'[v].stack = <<>>
                  /\ phase' = PhaseAfter(how)
      /\ RecordOK(prog, vms'[v])
  BY <1>2, EndVmFacts
<1> HIDE DEF low, stk
<1>4. CASE v # 1
  <2>1. CallStack' = CallStack /\ Failing' = TRUE /\ phase' = phase
    BY <1>1, <1>3, <1>4
  <2>2. Len(CallStack) \in 0 .. Len(CallStack) /\ Len(CallStack) > 0
        /\ SubSeq(CallStack, 1, Len(CallStack)) = CallStack
    BY <1>2, SubSeqFull
  <2>3. Inline!Drop(Len(CallStack))
    BY <2>1, <2>2 DEF Inline!Drop
  <2>4. QED
    BY <1>3, <2>1, <2>2, <2>3 DEF RInv, PhaseOK
<1>5. CASE v = 1
  <2>1. CallStack' = <<>> /\ Failing' = FALSE
    BY <1>1, <1>3, <1>5, ConcatEmptySeq
  <2>2. 0 \in 0 .. Len(CallStack)
    BY <1>2
  <2>3. CASE how = "error"
    <3>1. phase' = IF phase = "loop" THEN "loop" ELSE "exited"
      BY <1>3, <1>5, <2>3 DEF PhaseAfter
    <3>2. Inline!Drop(0)
      BY <2>1, <3>1 DEF Inline!Drop, Inline!EndEntry
    <3>3. QED
      BY <1>3, <2>2, <3>1, <3>2 DEF RInv, PhaseOK
  <2>4. CASE how = "closed"
    <3>1. phase' = "exited"
      BY <1>3, <1>5, <2>4 DEF PhaseAfter
    <3>2. QED
      BY <1>3, <2>1, <2>4, <3>1 DEF PhaseOK, Inline!EndEntry
  <2>5. QED
    BY <2>3, <2>4
<1>6. QED
  BY <1>4, <1>5

\* No VM waits inside a try: what is below the active VM is outside all.
LEMMA UnguardedBelow ==
  ASSUME RInv, NEW v \in DOMAIN vms, Active(v)
  PROVE  \A i \in 1 .. Len(Stacks(vms)[v - 1]) : ~GuardedCall(prog, Stacks(vms)[v - 1][i])
<1> DEFINE S == {n \in 0 .. v - 1 :
                   \A i \in 1 .. Len(Stacks(vms)[n]) : ~GuardedCall(prog, Stacks(vms)[n][i])}
<1>1. vms \in Seq(Vms) /\ Len(vms) \in Nat /\ DOMAIN vms = 1 .. Len(vms)
  BY SeqDomain DEF RInv, IInv, TypeOK
<1>2. \A n \in 1 .. Len(vms) : vms[n].stack \in Seq(Activations)
  <2>1. \A n \in 1 .. Len(vms) : vms[n] \in Vms
    BY <1>1, ElementOfSeq
  <2>2. QED
    BY <2>1 DEF Vms
<1>3. \A n \in 0 .. Len(vms) : Stacks(vms)[n] \in Seq(Activations)
  BY <1>1, <1>2, StacksType
<1>4. 0 \in S
  <2>1. 0 \in 0 .. Len(vms) /\ 0 \in 0 .. v - 1
    BY <1>1
  <2>2. Stacks(vms)[0] = <<>>
    BY <1>1, <2>1, StacksEquation
  <2>3. Len(Stacks(vms)[0]) = 0
    BY <2>2, EmptySeq
  <2>4. QED
    BY <2>1, <2>3
<1>5. ASSUME NEW n \in 0 .. v - 1, n # v - 1, n \in S
      PROVE  n + 1 \in S
  <2> DEFINE low == Stacks(vms)[n]
             w == n + 1
  <2>1. /\ w \in DOMAIN vms /\ w \in 0 .. Len(vms) /\ n \in 0 .. Len(vms) /\ w # 0
        /\ w - 1 = n /\ w # v /\ w \in 0 .. v - 1
    BY <1>1, <1>5
  <2>2. \A i \in 1 .. Len(low) : ~GuardedCall(prog, low[i])
    BY <1>5
  <2>3. Stacks(vms)[w] = IF vms[w].state = "gone" THEN low ELSE low \o vms[w].stack
    BY <1>1, <2>1, StacksEquation
  <2>4. vms[w].state \in {"waiting", "gone"}
    <3>1. ~Active(w) /\ vms[w] \in Vms
      BY <1>1, <2>1, ElementOfSeq DEF RInv, IInv, OneRuns
    <3>2. QED
      BY <3>1 DEF Active, Vms
  <2>5. CASE vms[w].state = "gone"
    BY <2>1, <2>2, <2>3, <2>5
  <2>6. CASE vms[w].state = "waiting"
    <3> DEFINE stk == vms[w].stack
    <3>1. /\ \A i \in 1 .. Len(stk) : ~GuardedCall(prog, stk[i])
          /\ low \in Seq(Activations) /\ stk \in Seq(Activations)
      BY <1>1, <1>2, <1>3, <2>1, <2>6 DEF RInv, RecordsOK, RecordOK
    <3>2. Stacks(vms)[w] = low \o stk
      BY <2>3, <2>6
    <3> HIDE DEF low, stk
    <3>3. /\ Len(low \o stk) = Len(low) + Len(stk) /\ Len(low) \in Nat /\ Len(stk) \in Nat
          /\ \A i \in 1 .. Len(low) + Len(stk) :
               (low \o stk)[i] = IF i <= Len(low) THEN low[i] ELSE stk[i - Len(low)]
      BY <3>1, ConcatProperties, LenProperties
    <3>4. ASSUME NEW i \in 1 .. Len(low) + Len(stk) PROVE ~GuardedCall(prog, (low \o stk)[i])
      <4>1. CASE i <= Len(low)
        BY <2>2, <3>3, <4>1
      <4>2. CASE ~(i <= Len(low))
        <5>1. i - Len(low) \in 1 .. Len(stk)
          BY <3>3, <4>2
        <5>2. QED
          BY <3>1, <3>3, <4>2, <5>1
      <4>3. QED
        BY <4>1, <4>2
    <3>5. QED
      BY <2>1, <3>2, <3>3, <3>4
  <2>7. QED
    BY <2>4, <2>5, <2>6
<1> HIDE DEF S
<1>6. v - 1 \in Nat /\ 0 \in 0 .. v - 1 /\ v - 1 \in 0 .. v - 1
  BY <1>1
<1>7. 0 .. v - 1 \subseteq S
  BY <1>4, <1>5, <1>6, UpTo
<1>8. QED
  BY <1>6, <1>7 DEF S

\* A handler is the last one of the one stack: none is below the VM.
LEMMA GuardedInline ==
  ASSUME RInv, NEW v \in DOMAIN vms, vms[v].state = "running",
         CallStack = Stacks(vms)[v - 1] \o vms[v].stack,
         Stacks(vms)[v - 1] \in Seq(Activations), Failing = FALSE
  PROVE  Inline!Guarded = {Len(Stacks(vms)[v - 1]) + d : d \in Guarded(vms[v].stack)}
<1> DEFINE low == Stacks(vms)[v - 1]
           stk == vms[v].stack
<1>1. /\ stk \in Seq(Activations) /\ stk # <<>>
      /\ Len(CallStack) = Len(low) + Len(stk)
      /\ Len(low) \in Nat /\ Len(stk) \in Nat \ {0} /\ CallStack \in Seq(Activations)
      /\ Len(CallStack) \in Nat \ {0}
  BY RunningInline
<1>2. \A i \in 1 .. Len(low) : ~GuardedCall(prog, low[i])
  BY UnguardedBelow DEF Active
<1>3. Inline!Guarded = {e \in 1 .. Len(CallStack) - 1 : GuardedCall(prog, CallStack[e])}
  BY DEF Inline!Guarded, Inline!Body, GuardedCall
<1>4. Guarded(stk) = {d \in 1 .. Len(stk) - 1 : GuardedCall(prog, stk[d])}
  BY DEF Guarded, Body, GuardedCall
<1>5. CallStack = low \o stk /\ low \in Seq(Activations)
  OBVIOUS
<1> HIDE DEF low, stk
<1>6. \A i \in 1 .. Len(low) + Len(stk) :
        CallStack[i] = IF i <= Len(low) THEN low[i] ELSE stk[i - Len(low)]
  BY <1>1, <1>5, ConcatProperties
<1>7. ASSUME NEW e \in Inline!Guarded
      PROVE  \E d \in Guarded(stk) : e = Len(low) + d
  <2>1. e \in 1 .. Len(CallStack) - 1 /\ GuardedCall(prog, CallStack[e])
    BY <1>3, <1>7
  <2>2. ~(e <= Len(low))
    <3>1. e \in 1 .. Len(low) + Len(stk) /\ (e <= Len(low) => e \in 1 .. Len(low))
      BY <1>1, <2>1
    <3>2. QED
      BY <1>2, <1>6, <2>1, <3>1
  <2>3. e - Len(low) \in 1 .. Len(stk) - 1 /\ e = Len(low) + (e - Len(low))
        /\ CallStack[e] = stk[e - Len(low)]
    <3>1. /\ e \in 1 .. Len(low) + Len(stk) /\ e - Len(low) \in 1 .. Len(stk) - 1
          /\ e = Len(low) + (e - Len(low))
      BY <1>1, <2>1, <2>2
    <3>2. QED
      BY <1>6, <2>2, <3>1
  <2>4. e - Len(low) \in Guarded(stk)
    BY <1>4, <2>1, <2>3
  <2>5. QED
    BY <2>3, <2>4
<1>8. ASSUME NEW d \in Guarded(stk) PROVE Len(low) + d \in Inline!Guarded
  <2>1. d \in 1 .. Len(stk) - 1 /\ GuardedCall(prog, stk[d])
    BY <1>4, <1>8
  <2>2. Len(low) + d \in 1 .. Len(CallStack) - 1 /\ Len(low) + d \in 1 .. Len(low) + Len(stk)
        /\ ~(Len(low) + d <= Len(low)) /\ (Len(low) + d) - Len(low) = d
    BY <1>1, <2>1
  <2>3. CallStack[Len(low) + d] = stk[d]
    BY <1>6, <2>2
  <2>4. QED
    BY <1>3, <2>1, <2>2, <2>3
<1>9. Inline!Guarded = {Len(low) + d : d \in Guarded(stk)}
  BY <1>7, <1>8
<1>10. QED
  BY <1>9 DEF low, stk

\* A throw finds the same handler.
LEMMA ThrowInline ==
  ASSUME RInv, NEW v \in DOMAIN vms, Throw(v)
  PROVE  Inline!Throw /\ RecordOK(prog, vms'[v]) /\ PhaseOK'
<1> DEFINE low == Stacks(vms)[v - 1]
           stk == vms[v].stack
<1>1. IInv /\ OwnStep(v) /\ vms[v].state = "running" /\ Finished(v) /\ phase # "exited"
      /\ "throw" \in prog.funcs[Top(v).func].ends /\ UNCHANGED <<prog, events>>
  BY ThrowStep DEF RInv, Throw, Running
<1>2. /\ CallStack = low \o stk /\ low \in Seq(Activations) /\ Failing = FALSE
      /\ vms[v] \in Vms
      /\ CallStack' = IF vms'[v].state = "gone" THEN low ELSE low \o vms'[v].stack
      /\ Failing' = (vms'[v].state = "answered" /\ vms'[v].answer # "value")
  BY <1>1, OwnStepStack
<1>3. /\ stk \in Seq(Activations) /\ stk # <<>> /\ Inline!Ending("throw")
      /\ Len(low) \in Nat /\ Len(stk) \in Nat \ {0}
  BY <1>1, <1>2, RunningInline
<1>4. Inline!Guarded = {Len(low) + d : d \in Guarded(stk)}
  BY <1>1, <1>2, GuardedInline
<1>5. ASSUME NEW d \in Guarded(stk), \A e \in Guarded(stk) : e <= d,
             vms' = [vms EXCEPT ![v].stack = Advance(SubSeq(@, 1, d))], UNCHANGED phase
      PROVE  Inline!Throw /\ RecordOK(prog, vms'[v]) /\ PhaseOK'
  <2> DEFINE new == Advance(SubSeq(stk, 1, d))
  <2>1. vms'[v].state = "running" /\ vms'[v].stack = new
    BY <1>1, <1>2, <1>5 DEF Vms
  <2>2. Guarded(stk) \subseteq 1 .. Len(stk)
    BY <1>3 DEF Guarded
  <2>3. Tries(prog, stk)
    BY <1>1 DEF RInv, RecordsOK, RecordOK
  <2>4. d \in 1 .. Len(stk)
    BY <1>5, <2>2
  <2>5. Tries(prog, SubSeq(stk, 1, d)) /\ SubSeq(stk, 1, d) \in Seq(Activations)
        /\ SubSeq(stk, 1, d) # <<>>
    BY <1>3, <2>3, <2>4, TriesCut, PrefixType
  <2>6. Tries(prog, new)
    BY <2>5, TriesAdvance
  <2> HIDE DEF low, stk
  <2>7. CallStack' = [SubSeq(CallStack, 1, Len(low) + d) EXCEPT ![Len(low) + d].at = @ + 1]
    <3>1. [SubSeq(low \o stk, 1, Len(low) + d) EXCEPT ![Len(low) + d].at = @ + 1] = low \o new
      BY <1>2, <1>3, <2>4, ContinueUpper
    <3>2. CallStack' = low \o new
      BY <1>2, <2>1
    <3>3. QED
      BY <1>2, <3>1, <3>2
  <2>8. Len(low) + d \in Inline!Guarded
    BY <1>4, <1>5
  <2>9. \A e \in Inline!Guarded : e <= Len(low) + d
    <3>1. \A e \in Guarded(stk) : Len(low) + e <= Len(low) + d
      BY <1>3, <1>5, <2>2
    <3>2. QED
      BY <1>4, <3>1
  <2>10. Inline!Continue(Len(low) + d)
    BY <1>1, <1>2, <1>5, <2>1, <2>7 DEF Inline!Continue
  <2>11. Inline!Throw
    BY <1>3, <2>8, <2>9, <2>10 DEF Inline!Throw
  <2>12. QED
    BY <1>1, <1>5, <2>1, <2>6, <2>11 DEF RecordOK, PhaseOK, RInv
<1>6. ASSUME Guarded(stk) = {}, EndVm(vms, v, "error")
      PROVE  Inline!Throw /\ RecordOK(prog, vms'[v]) /\ PhaseOK'
  <2>1. /\ \E n \in 0 .. Len(CallStack) : Inline!Drop(n)
        /\ RecordOK(prog, vms'[v]) /\ PhaseOK'
    BY <1>1, <1>6, FailureInline
  <2>2. Inline!Guarded = {}
    BY <1>4, <1>6
  <2>3. QED
    BY <1>3, <2>1, <2>2 DEF Inline!Throw
<1>7. QED
  BY <1>5, <1>6 DEF Throw

\* An Err and a panic are what they are in the one stack.
LEMMA ErrPanicInline ==
  ASSUME RInv, NEW v \in DOMAIN vms, Err(v) \/ Panic(v)
  PROVE  /\ Inline!Fail \/ Inline!Panic
         /\ RecordOK(prog, vms'[v]) /\ PhaseOK'
<1>1. /\ OwnStep(v) /\ vms[v].state = "running" /\ Finished(v) /\ phase # "exited"
      /\ UNCHANGED <<prog, events>>
  BY FailureStep DEF RInv, Err, Panic, Running
<1>2. /\ CallStack = Stacks(vms)[v - 1] \o vms[v].stack /\ Failing = FALSE
      /\ Stacks(vms)[v - 1] \in Seq(Activations)
  BY <1>1, OwnStepStack
<1>3. \A how \in prog.funcs[Top(v).func].ends : Inline!Ending(how)
  BY <1>1, <1>2, RunningInline
<1>4. CASE Err(v)
  <2>1. "error" \in prog.funcs[Top(v).func].ends /\ EndVm(vms, v, "error")
    BY <1>4 DEF Err
  <2>2. /\ \E n \in 0 .. Len(CallStack) : Inline!Drop(n)
        /\ RecordOK(prog, vms'[v]) /\ PhaseOK'
    BY <1>1, <2>1, FailureInline
  <2>3. QED
    BY <1>3, <2>1, <2>2 DEF Inline!Fail
<1>5. CASE Panic(v)
  <2>1. "panic" \in prog.funcs[Top(v).func].ends /\ EndVm(vms, v, "closed")
    BY <1>5 DEF Panic
  <2>2. /\ \/ \E n \in 0 .. Len(CallStack) : Inline!Drop(n)
           \/ Inline!EndEntry("exited")
        /\ RecordOK(prog, vms'[v]) /\ PhaseOK'
    BY <1>1, <2>1, FailureInline
  <2>3. QED
    BY <1>1, <1>3, <2>1, <2>2 DEF Inline!Panic
<1>6. QED
  BY <1>4, <1>5

-----------------------------------------------------------------------------
(* Scheduled calls *)

\* Submitting a task is the call of its function.
LEMMA SubmitInline ==
  ASSUME RInv, NEW v \in DOMAIN vms, Submit(v)
  PROVE  Inline!Call /\ RecordsOK'
<1> DEFINE stk == vms[v].stack
           task == Len(vms) + 1
           a == Activation(Callee(v))
<1>1. /\ vms[v].state = "running" /\ ~Finished(v) /\ stk # <<>> /\ TypeOK
      /\ prog.funcs[Callee(v)].schedule # "single" /\ UNCHANGED <<prog, phase, events>>
  BY DEF Submit, Running, RInv, IInv, Links, StacksOK
<1>2. SubmitsTask(v, PoolOf(v, Callee(v)), task)
  BY SubmitStep DEF RInv
<1>3. vms \in Seq(Vms) /\ Len(vms) \in Nat /\ DOMAIN vms = 1 .. Len(vms) /\ vms[v] \in Vms
  BY <1>1, SeqDomain, ElementOfSeq DEF TypeOK
<1>4. /\ Top(v).at <= Len(Body(Top(v).func)) /\ Callee(v) \in DOMAIN prog.funcs
      /\ ~GuardedCall(prog, Top(v)) /\ Top(v).func \notin TryFuncs(prog)
  BY <1>1, PendingCall
<1>5. a \in Activations
  BY <1>4, ActivationType
<1>6. /\ vms' = Append([vms EXCEPT ![v].state = "waiting", ![v].on = task],
                       Vm(Callee(v), "queued"))
      /\ Vm(Callee(v), "queued") \in Vms
  BY <1>4, VmType DEF Submit
<1>7. /\ \A w \in DOMAIN vms \ {v} : vms'[w] = vms[w]
      /\ vms'[v].state = "waiting" /\ vms'[v].stack = stk
      /\ DOMAIN vms' = 1 .. task /\ task \in Nat /\ Len(vms') = task
      /\ vms'[task] = Vm(Callee(v), "queued")
  <2> DEFINE r == [vms[v] EXCEPT !.state = "waiting", !.on = task]
             vs == [vms EXCEPT ![v] = r]
  <2>1. r \in Vms
    <3>1. task \in Nat /\ vms[v] \in Vms
      BY <1>3
    <3> HIDE DEF task
    <3>2. QED
      BY <3>1 DEF Vms
  <2>2. vms' = Append(vs, Vm(Callee(v), "queued"))
    BY <1>6
  <2> HIDE DEF r
  <2>3. vs \in Seq(Vms) /\ Len(vs) = Len(vms)
    BY <1>3, <2>1, SeqUpdate
  <2> HIDE DEF vs
  <2>4. Len(vms') = Len(vms) + 1 /\ vms'[Len(vms) + 1] = Vm(Callee(v), "queued")
    BY <1>6, <2>2, <2>3, AppendProperties
  <2>5. QED
    BY <1>2, <1>3, <2>4 DEF SubmitsTask
<1>8. /\ vms'[task].stack = <<a>> /\ vms'[task].state = "queued"
      /\ vms'[task].answer = "none"
  BY <1>7 DEF Vm
<1>9. /\ Active(v) /\ vms[v].state # "gone"
      /\ \A w \in DOMAIN vms : v < w => vms[w].state = "gone"
  BY <1>1 DEF RInv, ChainOK, Active
<1>10. /\ CallStack = Stacks(vms)[v - 1] \o stk
       /\ Stacks(vms)[v - 1] \in Seq(Activations)
  BY <1>9, ActiveStack DEF RInv
<1>11. \A w \in DOMAIN vms \ {v} : vms[w].state # "answered"
  BY <1>9 DEF RInv, IInv, OneRuns, Active
<1>12. Failing = FALSE
  BY <1>1, <1>11 DEF Failing
<1>13. Failing' = FALSE
  BY <1>3, <1>7, <1>8, <1>11 DEF Failing
<1>14. Inline!Runs /\ Inline!Top = Top(v) /\ CallStack \in Seq(Activations)
  BY <1>1, <1>10, <1>12, RunningInline
<1>15. CallStack' = Append(CallStack, a)
  <2>1. /\ task \in 0 .. task /\ task # 0 /\ task - 1 = Len(vms) /\ Len(vms) \in 0 .. task
        /\ Len(vms) \in 0 .. Len(vms) /\ Len(vms) <= Len(vms')
    BY <1>3, <1>7
  <2>2. CallStack' = Stacks(vms')[Len(vms)] \o <<a>>
    <3>1. Stacks(vms')[task] = Stacks(vms')[task - 1] \o vms'[task].stack
      BY <1>7, <1>8, <2>1, StacksEquation
    <3>2. CallStack' = Stacks(vms')[task]
      BY <1>7 DEF CallStack
    <3>3. QED
      BY <1>8, <2>1, <3>1, <3>2
  <2>3. \A n \in 1 .. Len(vms) : /\ vms[n].stack = vms'[n].stack
                                 /\ vms[n].state = "gone" <=> vms'[n].state = "gone"
    BY <1>1, <1>3, <1>7
  <2>4. Stacks(vms)[Len(vms)] = Stacks(vms')[Len(vms)]
    BY <1>3, <1>7, <2>1, <2>3, StacksAgree
  <2>5. CallStack' = CallStack \o <<a>>
    BY <2>2, <2>4 DEF CallStack
  <2>6. QED
    BY <1>5, <1>14, <2>5, AppendIsConcat
<1>16. Inline!Call
  BY <1>1, <1>4, <1>12, <1>13, <1>14, <1>15
     DEF Inline!Call, Inline!Body, Inline!Activation, Activation, Body, Callee
<1>17. RecordOK(prog, vms'[v])
  <2>1. Tries(prog, stk)
    BY <1>1 DEF RInv, RecordsOK, RecordOK
  <2>2. stk \in Seq(Activations) /\ Len(stk) \in Nat \ {0}
    BY <1>1, <1>3, LastElement DEF Vms
  <2>3. ASSUME NEW d \in 1 .. Len(stk), GuardedCall(prog, stk[d]) PROVE FALSE
    <3>1. CASE d = Len(stk)
      BY <1>4, <2>3, <3>1 DEF Top
    <3>2. CASE d # Len(stk)
      <4>1. d \in 1 .. Len(stk) - 1 /\ Len(stk) \in d + 1 .. Len(stk)
        BY <2>2, <3>2
      <4>2. stk[Len(stk)].func \in TryFuncs(prog)
        BY <2>1, <2>3, <4>1 DEF Tries
      <4>3. QED
        BY <1>4, <4>2 DEF Top
    <3>3. QED
      BY <3>1, <3>2
  <2>4. QED
    BY <1>7, <2>1, <2>3 DEF RecordOK
<1>18. RecordOK(prog, vms'[task])
  BY <1>8, TriesFresh DEF RecordOK
<1>19. RecordsOK'
  <2>1. \A w \in DOMAIN vms' : w = v \/ w = task \/ w \in DOMAIN vms \ {v}
    BY <1>3, <1>7
  <2>2. QED
    BY <1>1, <1>7, <1>17, <1>18, <2>1 DEF RInv, RecordsOK
<1>20. QED
  BY <1>16, <1>19

\* Receiving a value is the return of the task's function, receiving an
\* error or a hang-up is an error that goes on to the next caller.
LEMMA ReceiveInline ==
  ASSUME RInv, NEW v \in DOMAIN vms, Receive(v)
  PROVE  /\ Inline!Return \/ Inline!Propagate
         /\ RecordsOK' /\ PhaseOK'
<1> DEFINE c == vms[v].on
           low == Stacks(vms)[v - 1]
           stk == vms[v].stack
           both == low \o stk
<1>1. /\ phase # "exited" /\ UNCHANGED <<prog, events>>
      /\ IInv /\ TakesAnswer(v, c)
  BY ReceiveStep DEF Receive, RInv
<1>2. /\ c \in DOMAIN vms /\ v # c
      /\ vms[v].state = "waiting" /\ vms[c].state = "answered"
      /\ vms' \in Seq(Vms) /\ DOMAIN vms' = DOMAIN vms
      /\ \A w \in DOMAIN vms \ {v, c} : vms'[w] = vms[w]
      /\ vms'[c].state = "gone" /\ NewRecord(v, vms'[v])
  BY <1>1, TakesAnswerFacts
<1>3. vms \in Seq(Vms) /\ Len(vms) \in Nat /\ DOMAIN vms = 1 .. Len(vms) /\ vms[v] \in Vms
      /\ vms[c] \in Vms /\ stk # <<>> /\ stk \in Seq(Activations)
      /\ Len(vms') \in Nat /\ DOMAIN vms' = 1 .. Len(vms')
  <2>1. vms \in Seq(Vms) /\ vms[v] \in Vms /\ vms[c] \in Vms /\ stk # <<>>
    BY <1>1, <1>2, ElementOfSeq, SeqDomain DEF IInv, TypeOK, Links, StacksOK
  <2>2. QED
    BY <1>2, <2>1, SeqDomain DEF Vms
<1>4. /\ v < c /\ \A w \in DOMAIN vms : v < w /\ w < c => vms[w].state = "gone"
      /\ \A w \in DOMAIN vms : c < w => vms[w].state = "gone"
  BY <1>2 DEF RInv, ChainOK, Active
<1>5. /\ CallStack = Stacks(vms)[c - 1] \o vms[c].stack
      /\ Stacks(vms)[c - 1] \in Seq(Activations)
      /\ vms[c].stack \in Seq(Activations)
  BY <1>1, <1>2, <1>4, ActiveStack DEF RInv
<1>6. Stacks(vms)[c - 1] = both /\ low \in Seq(Activations)
  <2>1. /\ c - 1 \in 0 .. Len(vms) /\ v \in 0 .. c - 1 /\ v \in 0 .. Len(vms) /\ v # 0
        /\ v - 1 \in 0 .. Len(vms)
        /\ \A n \in v + 1 .. c - 1 : n \in DOMAIN vms /\ v < n /\ n < c
    BY <1>2, <1>3, <1>4
  <2>2. \A n \in v + 1 .. c - 1 : vms[n].state = "gone"
    BY <1>4, <2>1
  <2>3. Stacks(vms)[c - 1] = Stacks(vms)[v]
    BY <1>3, <2>1, <2>2, StacksSkip
  <2>4. Stacks(vms)[v] = both
    BY <1>2, <1>3, <2>1, StacksEquation
  <2>5. \A n \in 1 .. Len(vms) : vms[n].stack \in Seq(Activations)
    <3>1. \A n \in 1 .. Len(vms) : vms[n] \in Vms
      BY <1>3, ElementOfSeq
    <3>2. QED
      BY <3>1 DEF Vms
  <2>6. low \in Seq(Activations)
    BY <1>3, <2>1, <2>5, StacksType
  <2>7. QED
    BY <2>3, <2>4, <2>6
<1>7. CallStack' = IF vms'[v].state = "gone" THEN low ELSE low \o vms'[v].stack
  <2>1. \A w \in DOMAIN vms : w < v => /\ vms'[w].stack = vms[w].stack
                                       /\ vms'[w].state = "gone" <=> vms[w].state = "gone"
    BY <1>2, <1>3, <1>4
  <2>2. \A w \in DOMAIN vms' : v < w => vms'[w].state = "gone"
    BY <1>2, <1>3, <1>4
  <2>3. QED
    BY <1>1, <1>2, <1>3, <2>1, <2>2, NewStack
<1>8. \A w \in DOMAIN vms \ {c} : vms[w].state # "answered"
  BY <1>1, <1>2 DEF IInv, OneRuns, Active
<1>9. Failing = (vms[c].answer # "value")
  BY <1>2, <1>8 DEF Failing
<1>10. Failing' = (vms'[v].state = "answered" /\ vms'[v].answer # "value")
  BY <1>2, <1>8 DEF Failing
<1>11. /\ CallStack = both \o vms[c].stack /\ both \in Seq(Activations) /\ both # <<>>
       /\ vms[c].stack # <<>> /\ RecordOK(prog, vms[c])
  <2>1. vms[c].stack # <<>> /\ RecordOK(prog, vms[c])
    BY <1>2 DEF RInv, RecordsOK, RecordOK
  <2>2. both \in Seq(Activations) /\ both # <<>>
    BY <1>3, <1>6, TopOfBoth
  <2>3. QED
    BY <1>5, <1>6, <2>1, <2>2
<1>12. /\ Len(CallStack) = Len(both) + Len(vms[c].stack) /\ CallStack # <<>>
       /\ Len(both) \in Nat \ {0} /\ Len(vms[c].stack) \in Nat \ {0}
       /\ CallStack[Len(CallStack)] = vms[c].stack[Len(vms[c].stack)]
       /\ SubSeq(CallStack, 1, Len(both)) = both
       /\ Len(both) = Len(low) + Len(stk)
  <2>1. Len(both) = Len(low) + Len(stk)
    BY <1>3, <1>6, TopOfBoth
  <2> HIDE DEF both
  <2>2. /\ Len(CallStack) = Len(both) + Len(vms[c].stack) /\ CallStack # <<>>
        /\ Len(vms[c].stack) \in Nat \ {0}
        /\ CallStack[Len(CallStack)] = vms[c].stack[Len(vms[c].stack)]
    BY <1>5, <1>11, TopOfBoth
  <2>3. SubSeq(CallStack, 1, Len(both)) = both /\ Len(both) \in Nat \ {0}
    BY <1>5, <1>11, DropUpper, LastElement
  <2>4. QED
    BY <2>1, <2>2, <2>3
<1>18. /\ Len(both) \in 0 .. Len(CallStack) - 1 /\ Len(both) > 0
       /\ 0 \in 0 .. Len(CallStack) - 1
       /\ Len(vms[c].stack) = 1 => Len(CallStack) > 1 /\ Len(CallStack) - 1 = Len(both)
  <2>1. ASSUME NEW b \in Nat \ {0}, NEW t \in Nat \ {0}, NEW l, l = b + t
        PROVE  /\ b \in 0 .. l - 1 /\ b > 0 /\ 0 \in 0 .. l - 1
               /\ t = 1 => l > 1 /\ l - 1 = b
    BY <2>1
  <2> HIDE DEF both, c
  <2>2. /\ Len(both) \in Nat \ {0} /\ Len(vms[c].stack) \in Nat \ {0}
        /\ Len(CallStack) = Len(both) + Len(vms[c].stack)
    BY <1>12, Zenon
  <2>3. QED
    BY <2>1, <2>2, Zenon
<1>13. RecordOK(prog, vms'[c])
  BY <1>2 DEF RecordOK
<1>14. ASSUME RecordOK(prog, vms'[v]) PROVE RecordsOK'
  BY <1>1, <1>2, <1>13, <1>14 DEF RInv, RecordsOK
<1>15. CASE vms[c].answer = "value"
  <2>1. /\ vms' = [vms EXCEPT ![c].state = "gone", ![v].state = "running",
                              ![v].stack = Advance(@)]
        /\ phase' = phase
    BY <1>15 DEF Receive, EndVm
  <2>2. vms'[v].state = "running" /\ vms'[v].stack = Advance(stk)
    BY <1>2, <1>3, <2>1 DEF Vms
  <2>3. /\ Len(vms[c].stack) = 1 /\ vms[c].stack[1].at > Len(Body(vms[c].stack[1].func))
        /\ "value" \in prog.funcs[vms[c].stack[1].func].ends
    BY <1>2, <1>11, <1>15 DEF RecordOK, Body
  <2>4. Inline!Runs /\ Inline!Top = vms[c].stack[1]
    BY <1>9, <1>12, <1>15, <2>3 DEF Inline!Runs, Inline!Top
  <2>5. Inline!Ending("value")
    BY <2>3, <2>4 DEF Inline!Ending, Inline!Body, Body
  <2>6. Len(CallStack) > 1 /\ Len(CallStack) - 1 = Len(both)
    BY <1>18, <2>3
  <2>7. CallStack' = [both EXCEPT ![Len(both)].at = @ + 1] /\ Failing' = FALSE
    BY <1>3, <1>6, <1>7, <1>10, <1>12, <2>2, AdvanceUpper
  <2> HIDE DEF both
  <2>8. Inline!Continue(Len(CallStack) - 1)
    BY <1>1, <1>9, <1>12, <1>15, <2>1, <2>6, <2>7 DEF Inline!Continue
  <2>9. Inline!Return
    BY <2>5, <2>6, <2>8 DEF Inline!Return
  <2>10. Tries(prog, stk)
    BY <1>2 DEF RInv, RecordsOK, RecordOK
  <2>11. Tries(prog, Advance(stk))
    BY <1>3, <2>10, TriesAdvance
  <2>12. RecordOK(prog, vms'[v])
    BY <2>2, <2>11 DEF RecordOK
  <2>13. QED
    BY <1>1, <1>14, <2>1, <2>9, <2>12 DEF RInv, PhaseOK
<1>16. CASE vms[c].answer # "value"
  <2> DEFINE gone == [vms EXCEPT ![c].state = "gone"]
  <2>1. vms' = EndOf(gone, v, "error") /\ phase' = IF v = 1 THEN PhaseAfter("error") ELSE phase
    BY <1>16 DEF Receive, EndVm
  <2>2. gone[v] = vms[v] /\ v \in DOMAIN gone /\ vms[v] \in Vms
    BY <1>2, <1>3
  <2>3. v # 1 => /\ vms'[v].state = "answered" /\ vms'[v].answer = "error"
                 /\ vms'[v].stack = stk /\ phase' = phase
    <3> HIDE DEF gone
    <3> QED
      BY <2>1, <2>2 DEF EndOf, Vms
  <2>4. v = 1 => /\ vms'[v].state \in {"idle", "gone"} /\ vms'[v].stack = <<>>
                 /\ phase' = PhaseAfter("error")
    <3> HIDE DEF gone
    <3> QED
      BY <2>1, <2>2 DEF EndOf, Vms
  <2>5. RecordOK(prog, vms'[v])
    BY <1>3, <2>3, <2>4 DEF RecordOK
  <2>6. CASE v # 1
    <3>1. CallStack' = both /\ Failing' = TRUE /\ phase' = phase
      BY <1>7, <1>10, <2>3, <2>6
    <3>2. Len(both) \in 0 .. Len(CallStack) - 1 /\ Len(both) > 0
      BY <1>18
    <3> HIDE DEF both
    <3>3. Inline!Drop(Len(both))
      BY <1>1, <1>12, <3>1, <3>2 DEF Inline!Drop
    <3>4. Inline!Propagate
      BY <1>9, <1>16, <3>2, <3>3 DEF Inline!Propagate
    <3>5. QED
      BY <1>1, <1>14, <2>5, <3>1, <3>4 DEF RInv, PhaseOK
  <2>7. CASE v = 1
    <3>1. low = <<>>
      <4>1. 0 \in 0 .. Len(vms)
        BY <1>3
      <4>2. QED
        BY <1>3, <2>7, <4>1, StacksEquation
    <3>2. CallStack' = <<>> /\ Failing' = FALSE
      BY <1>6, <1>7, <1>10, <2>4, <2>7, <3>1, ConcatEmptySeq
    <3>3. phase' = IF phase = "loop" THEN "loop" ELSE "exited"
      BY <2>4, <2>7 DEF PhaseAfter
    <3>4. Inline!Drop(0)
      BY <1>1, <3>2, <3>3 DEF Inline!Drop, Inline!EndEntry
    <3>5. 0 \in 0 .. Len(CallStack) - 1
      BY <1>18
    <3>6. Inline!Propagate
      BY <1>9, <1>16, <3>4, <3>5 DEF Inline!Propagate
    <3>7. QED
      BY <1>1, <1>14, <2>5, <3>3, <3>6 DEF RInv, PhaseOK
  <2>8. QED
    BY <2>6, <2>7
<1>17. QED
  BY <1>15, <1>16

-----------------------------------------------------------------------------
(* Workers and events *)

\* A worker that takes a task changes nothing in the one stack.
LEMMA TakeInline ==
  ASSUME RInv, NEW p \in DOMAIN pools, NEW i \in DOMAIN pools[p].workers, Take(p, i)
  PROVE  UNCHANGED <<prog, CallStack, Failing, phase, events>> /\ RecordsOK'
<1>1. PICK q \in DOMAIN vms :
        /\ vms[q].state = "queued" /\ DOMAIN vms' = DOMAIN vms
        /\ \A w \in DOMAIN vms \ {q} : vms'[w] = vms[w]
        /\ vms'[q].state = "running" /\ vms'[q].stack = vms[q].stack
        /\ Len(vms') = Len(vms)
  BY TakeFacts DEF RInv
<1>2. Len(vms) \in Nat /\ DOMAIN vms = 1 .. Len(vms)
  BY SeqDomain DEF RInv, IInv, TypeOK
<1>3. CallStack' = CallStack
  <2>1. \A n \in 1 .. Len(vms) : /\ vms[n].stack = vms'[n].stack
                                 /\ vms[n].state = "gone" <=> vms'[n].state = "gone"
    BY <1>1, <1>2
  <2>2. Len(vms) \in 0 .. Len(vms) /\ Len(vms) <= Len(vms') /\ Len(vms') \in Nat
    BY <1>1, <1>2
  <2>3. Stacks(vms)[Len(vms)] = Stacks(vms')[Len(vms)]
    BY <1>2, <2>1, <2>2, StacksAgree
  <2>4. QED
    BY <1>1, <2>3 DEF CallStack
<1>4. Failing' = Failing
  <2>1. \A w \in DOMAIN vms : (vms'[w].state = "answered" /\ vms'[w].answer # "value")
                                <=> (vms[w].state = "answered" /\ vms[w].answer # "value")
    BY <1>1
  <2>2. QED
    BY <1>1, <2>1 DEF Failing
<1>5. UNCHANGED <<prog, phase, events>>
  BY DEF Take
<1>6. RecordOK(prog, vms'[q])
  BY <1>1 DEF RInv, RecordsOK, RecordOK
<1>7. QED
  BY <1>1, <1>3, <1>4, <1>5, <1>6 DEF RInv, RecordsOK

\* An event starts a callback on the empty stack.
LEMMA EventInline ==
  ASSUME RInv, Event
  PROVE  Inline!Event /\ RecordOK(prog, vms'[1]) /\ PhaseOK'
<1>1. OwnStep(1)
  BY EventStep DEF RInv
<1>2. /\ CallStack = Stacks(vms)[1 - 1] \o vms[1].stack /\ Failing = FALSE
      /\ vms[1] \in Vms /\ 1 \in DOMAIN vms /\ Stacks(vms)[1 - 1] = <<>>
      /\ CallStack' = IF vms'[1].state = "gone" THEN Stacks(vms)[1 - 1]
                      ELSE Stacks(vms)[1 - 1] \o vms'[1].stack
      /\ Failing' = (vms'[1].state = "answered" /\ vms'[1].answer # "value")
  BY <1>1, OwnStepStack
<1>3. vms[1].stack = <<>>
  BY <1>2 DEF Event, RInv, RecordsOK, RecordOK
<1>4. PICK f \in prog.callbacks :
        vms' = [vms EXCEPT ![1].state = "running", ![1].stack = <<Activation(f)>>]
  BY DEF Event
<1>5. vms'[1].state = "running" /\ vms'[1].stack = <<Activation(f)>>
  BY <1>2, <1>4 DEF Vms
<1>6. f \in DOMAIN prog.funcs
  BY ProgramFacts DEF RInv, IInv
<1>7. <<Activation(f)>> \in Seq(Activations)
  BY <1>6, ActivationType
<1>8. CallStack = <<>>
  BY <1>2, <1>3, EmptySeq, ConcatEmptySeq
<1>9. CallStack' = <<Activation(f)>> /\ Failing' = FALSE
  BY <1>2, <1>5, <1>7, ConcatEmptySeq
<1>10. Inline!Event
  BY <1>2, <1>8, <1>9 DEF Event, Inline!Event, Inline!Activation, Activation
<1>11. RecordOK(prog, vms'[1])
  BY <1>5, TriesFresh DEF RecordOK
<1>12. QED
  BY <1>10, <1>11 DEF Event, RInv, PhaseOK

\* Closing the windows ends the program in both.
LEMMA CloseInline ==
  ASSUME RInv, Close
  PROVE  Inline!Close /\ RecordOK(prog, vms'[1]) /\ PhaseOK'
<1>1. OwnStep(1)
  BY CloseStep DEF RInv
<1>2. /\ CallStack = Stacks(vms)[1 - 1] \o vms[1].stack /\ Failing = FALSE
      /\ vms[1] \in Vms /\ 1 \in DOMAIN vms /\ Stacks(vms)[1 - 1] = <<>>
      /\ CallStack' = IF vms'[1].state = "gone" THEN Stacks(vms)[1 - 1]
                      ELSE Stacks(vms)[1 - 1] \o vms'[1].stack
      /\ Failing' = (vms'[1].state = "answered" /\ vms'[1].answer # "value")
  BY <1>1, OwnStepStack
<1>3. vms[1].stack = <<>>
  BY <1>2 DEF Close, RInv, RecordsOK, RecordOK
<1>4. vms'[1].state = "gone"
  BY <1>2 DEF Close, Vms
<1>5. CallStack = <<>> /\ CallStack' = <<>> /\ Failing' = FALSE
  BY <1>2, <1>3, <1>4, EmptySeq, ConcatEmptySeq
<1>6. Inline!Close
  BY <1>2, <1>5 DEF Close, Inline!Close
<1>7. QED
  BY <1>4, <1>6 DEF Close, RecordOK, PhaseOK

-----------------------------------------------------------------------------
(* The refinement *)

\* The program starts with main on the stack.
LEMMA InitRefines ==
  ASSUME \A P \in Programs : TriesStayInside(P), Init
  PROVE  RInv /\ Inline!Init
<1>1. IInv /\ 1 \in DOMAIN prog.funcs
  BY InitIInv, ProgramFacts DEF IInv
<1>2. /\ <<Activation(1)>> \in Seq(Activations)
      /\ Vm(1, "running") \in Vms
  BY <1>1, ActivationType, VmType
<1>3. /\ vms \in Seq(Vms) /\ Len(vms) = 1 /\ DOMAIN vms = {1} /\ vms[1] = Vm(1, "running")
      /\ vms[1].state = "running" /\ vms[1].stack = <<Activation(1)>>
  BY <1>2 DEF Init, Vm
<1>4. ChainOK
  BY <1>3 DEF ChainOK
<1>5. RecordsOK
  BY <1>3, TriesFresh DEF RecordsOK, RecordOK
<1>6. RInv
  BY <1>1, <1>4, <1>5 DEF RInv, PhaseOK, Init
<1>7. CallStack = <<Activation(1)>>
  <2>1. 0 \in 0 .. Len(vms) /\ 1 \in 0 .. Len(vms) /\ Len(vms) \in Nat
    BY <1>3
  <2>2. Stacks(vms)[0] = <<>>
    BY <2>1, StacksEquation
  <2>3. vms[1].state # "gone"
    BY <1>3
  <2>4. Stacks(vms)[1] = Stacks(vms)[0] \o vms[1].stack
    <3>1. Stacks(vms)[1] = IF 1 = 0 THEN <<>>
                           ELSE IF vms[1].state = "gone" THEN Stacks(vms)[1 - 1]
                           ELSE Stacks(vms)[1 - 1] \o vms[1].stack
      BY <2>1, StacksEquation, Zenon
    <3>2. 1 # 0 /\ 1 - 1 = 0
      OBVIOUS
    <3>3. QED
      BY <2>3, <3>1, <3>2
  <2>5. Stacks(vms)[1] = <<Activation(1)>>
    BY <1>2, <1>3, <2>2, <2>4, ConcatEmptySeq
  <2>6. QED
    BY <1>3, <2>5 DEF CallStack
<1>8. Failing = FALSE
  BY <1>3 DEF Failing
<1>9. Inline!Init
  BY <1>7, <1>8 DEF Init, Inline!Init, Inline!Activation, Activation
<1>10. QED
  BY <1>6, <1>9

\* Every step keeps the invariant, and is a step of the one stack or none.
LEMMA NextRefines ==
  ASSUME RInv, [Next]_vars
  PROVE  RInv' /\ [Inline!Next]_(Inline!vars)
<1>1. IInv /\ IInv' /\ ChainOK /\ RecordsOK /\ PhaseOK /\ TriesStayInside(prog)
  BY NextIInv DEF RInv
<1>2. prog' = prog
  BY DEF Next, AnyThread, Thread, CallInline, Submit, Return, Throw, Err, Panic, Receive,
         AnyWorker, Worker, Take, Loop, Event, Close, Exited, vars
<1>3. ASSUME ChainOK', RecordsOK', PhaseOK' PROVE RInv'
  BY <1>1, <1>2, <1>3 DEF RInv
<1>4. ASSUME UNCHANGED <<prog, CallStack, Failing, phase, events>>
      PROVE  [Inline!Next]_(Inline!vars)
  BY <1>4 DEF Inline!vars
<1>5. ASSUME NEW v \in DOMAIN vms, Thread(v) PROVE RInv' /\ [Inline!Next]_(Inline!vars)
  <2>1. CASE CallInline(v)
    <3>1. OwnStep(v) /\ phase' = phase
      BY <1>1, <2>1, CallInlineStep DEF CallInline
    <3>2. Inline!Call /\ RecordOK(prog, vms'[v])
      BY <2>1, CallInlineInline
    <3>3. ChainOK' /\ RecordsOK' /\ PhaseOK'
      BY <1>1, <1>2, <3>1, <3>2, OwnStepChain, OwnStepRecords DEF PhaseOK
    <3>4. QED
      BY <1>3, <3>2, <3>3 DEF Inline!Next, Inline!Step
  <2>2. CASE Submit(v)
    <3>1. SubmitsTask(v, PoolOf(v, Callee(v)), Len(vms) + 1) /\ phase' = phase
      BY <1>1, <2>2, SubmitStep DEF Submit
    <3>2. Inline!Call /\ RecordsOK'
      BY <2>2, SubmitInline
    <3>3. ChainOK' /\ PhaseOK'
      BY <1>1, <1>2, <3>1, SubmitChain DEF PhaseOK
    <3>4. QED
      BY <1>3, <3>2, <3>3 DEF Inline!Next, Inline!Step
  <2>3. CASE Return(v)
    <3>1. OwnStep(v) /\ UNCHANGED <<prog, events>>
      BY <1>1, <2>3, ReturnStep DEF Return
    <3>2. /\ Inline!Return \/ UNCHANGED <<CallStack, Failing, phase>>
          /\ RecordOK(prog, vms'[v]) /\ PhaseOK'
      BY <2>3, ReturnInline
    <3>3. ChainOK' /\ RecordsOK'
      BY <1>1, <3>1, <3>2, OwnStepChain, OwnStepRecords
    <3>4. QED
      BY <1>3, <1>4, <3>1, <3>2, <3>3 DEF Inline!Next, Inline!Step
  <2>4. CASE Throw(v)
    <3>1. OwnStep(v)
      BY <1>1, <2>4, ThrowStep
    <3>2. Inline!Throw /\ RecordOK(prog, vms'[v]) /\ PhaseOK'
      BY <2>4, ThrowInline
    <3>3. ChainOK' /\ RecordsOK'
      BY <1>1, <3>1, <3>2, OwnStepChain, OwnStepRecords
    <3>4. QED
      BY <1>3, <3>2, <3>3 DEF Inline!Next, Inline!Step
  <2>5. CASE Err(v) \/ Panic(v)
    <3>1. OwnStep(v)
      BY <1>1, <2>5, FailureStep
    <3>2. /\ Inline!Fail \/ Inline!Panic
          /\ RecordOK(prog, vms'[v]) /\ PhaseOK'
      BY <2>5, ErrPanicInline
    <3>3. ChainOK' /\ RecordsOK'
      BY <1>1, <3>1, <3>2, OwnStepChain, OwnStepRecords
    <3>4. QED
      BY <1>3, <3>2, <3>3 DEF Inline!Next, Inline!Step
  <2>6. CASE Receive(v)
    <3>1. TakesAnswer(v, vms[v].on)
      BY <1>1, <2>6, ReceiveStep
    <3>2. (Inline!Return \/ Inline!Propagate) /\ RecordsOK' /\ PhaseOK'
      BY <2>6, ReceiveInline
    <3>3. ChainOK'
      BY <1>1, <3>1, TakesAnswerChain
    <3>4. QED
      BY <1>3, <3>2, <3>3 DEF Inline!Next, Inline!Step
  <2>7. QED
    BY <1>5, <2>1, <2>2, <2>3, <2>4, <2>5, <2>6 DEF Thread
<1>6. ASSUME NEW p \in DOMAIN pools, NEW i \in DOMAIN pools[p].workers, Worker(p, i)
      PROVE  RInv' /\ [Inline!Next]_(Inline!vars)
  <2>1. CASE Take(p, i)
    <3>1. UNCHANGED <<prog, CallStack, Failing, phase, events>> /\ RecordsOK'
      BY <2>1, TakeInline
    <3>2. ChainOK'
      BY <1>1, <2>1, TakeChain
    <3>3. QED
      BY <1>1, <1>3, <1>4, <3>1, <3>2 DEF PhaseOK
  <2>2. CASE Loop(p, i)
    <3>1. UNCHANGED <<prog, phase, events, vms>>
      BY <2>2 DEF Loop
    <3>2. CallStack' = CallStack /\ Failing' = Failing
      BY <3>1 DEF CallStack, Failing
    <3>3. ChainOK' /\ RecordsOK' /\ PhaseOK'
      BY <1>1, <3>1 DEF ChainOK, RecordsOK, PhaseOK, Active
    <3>4. QED
      BY <1>3, <1>4, <3>1, <3>2, <3>3
  <2>3. QED
    BY <1>6, <2>1, <2>2 DEF Worker
<1>7. CASE Event
  <2>1. Inline!Event /\ RecordOK(prog, vms'[1]) /\ PhaseOK'
    BY <1>7, EventInline
  <2>2. ChainOK' /\ RecordsOK'
    BY <1>1, <1>7, <2>1, EventStep, OwnStepChain, OwnStepRecords
  <2>3. QED
    BY <1>3, <2>1, <2>2 DEF Inline!Next
<1>8. CASE Close
  <2>1. Inline!Close /\ RecordOK(prog, vms'[1]) /\ PhaseOK'
    BY <1>8, CloseInline
  <2>2. ChainOK' /\ RecordsOK'
    BY <1>1, <1>8, <2>1, CloseStep, OwnStepChain, OwnStepRecords
  <2>3. QED
    BY <1>3, <2>1, <2>2 DEF Inline!Next
<1>9. CASE UNCHANGED vars
  <2>1. UNCHANGED <<prog, phase, events, vms>>
    BY <1>9 DEF vars
  <2>2. CallStack' = CallStack /\ Failing' = Failing
    BY <2>1 DEF CallStack, Failing
  <2>3. ChainOK' /\ RecordsOK' /\ PhaseOK'
    BY <1>1, <2>1 DEF ChainOK, RecordsOK, PhaseOK, Active
  <2>4. QED
    BY <1>3, <1>4, <2>1, <2>2, <2>3
<1>10. QED
  BY <1>5, <1>6, <1>7, <1>8, <1>9 DEF Next, AnyThread, AnyWorker, Exited

\* ScheduledCalls implements InlineCalls step by step, where nothing that is
\* called inside a try is scheduled: the callers, the handlers, the errors and
\* the end of the process are those of a program that makes every call in
\* place (run_scheduled, run_function_isolated).
THEOREM RunsInPlace ==
  ASSUME \A P \in Programs : TriesStayInside(P)
  PROVE  Spec => Inline!Init /\ [][Inline!Next]_(Inline!vars)
<1>1. Init => RInv /\ Inline!Init
  BY InitRefines
<1>2. RInv /\ [Next]_vars => RInv' /\ [Inline!Next]_(Inline!vars)
  BY NextRefines
<1>3. QED
  BY <1>1, <1>2, PTL DEF Spec

=============================================================================
