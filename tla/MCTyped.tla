------------------------------ MODULE MCTyped -------------------------------
(***************************************************************************)
(* The VM on the images that analyser and code generator make of the       *)
(* programs of TypedPrograms, compared with what the programs mean.        *)
(***************************************************************************)
EXTENDS IsolatedCalls, SequencesExt

T == INSTANCE TypedPrograms

CONSTANT Programs       \* the programs of this run

VARIABLE meaning        \* what the program means

MCVars == <<meaning, isolatedVars>>

Families == T!Families
Documented == T!Documented

NoImage == [funcs |-> <<>>, main |-> 0, init |-> 0]

\* A program that the analyser rejects, or the code generator fails on, does not run.
NotRun(verdict) ==
  /\ image = NoImage /\ heap = <<FrameObject(<<>>)>> /\ globals = <<>> /\ stack = <<>>
  /\ frames = <<>> /\ cur = 0 /\ pc = 0 /\ frame = 1 /\ base = 0 /\ result = Null /\ out = ""
  /\ Alone({})
  /\ status = verdict /\ meaning = [out |-> "", end |-> "", v |-> Null]

MCInit == \E o \in T!Outcomes(Programs) :
            IF o.verdict = "run" THEN StartWith(o.image, o.scheduled) /\ meaning = o.meaning
            ELSE NotRun(o.verdict)

MCNext == IsolatedNext /\ UNCHANGED meaning

MCSpec == MCInit /\ [][MCNext]_MCVars

-----------------------------------------------------------------------------

\* What the analyser accepts the code generator compiles, and no jump lands in another buffer.
AcceptedCompiles == status # "uncompiled"

\* No instruction of an accepted program meets an operand of the wrong kind.
NoTypeFault == status # "type"

\* The lowest height of the operand stack at each instruction: what an earlier jump or the
\* instruction before it leaves, and none where neither leads.
HeightsOf(code) ==
  LET Below0(h, i) ==
        LET From == {j \in 1 .. i - 1 : \/ j = i - 1 /\ Flows(code[j])
                                        \/ code[j].op \in {"JMP", "JZ"} /\ code[j].n = i}
            Left == {h[j] - Pops(code[j]) + Pushes(code[j]) : j \in From}
        IN IF Left = {} THEN 0 ELSE CHOOSE n \in Left : \A m \in Left : n <= m
  IN FoldLeftDomain(LAMBDA h, i : Append(h, Below0(h, i)), <<>>, code)

\* Every image that runs is such that no function leaves its code or takes an operand of its
\* callers, as far as the code alone can tell, and no scheduled function is given a
\* reference: this is what the theorems about the VM ask.
CodeFits ==
  /\ pc = 1 /\ Len(heap) = 1 /\ callers = <<>> /\ frames = <<>> /\ status = "run" =>
       /\ Enclosed(image)
       /\ \A f \in DOMAIN image.funcs :
            Fits(image.funcs[f].code, HeightsOf(image.funcs[f].code))
  /\ PlainArguments

Scalar(v) == v[1] \in {"int", "bool", "null"}

Endings == {"done", "type", "value", "panic", "unanswered", "overflow"}

\* A program prints what its evaluation prints, ends as that ends, and returns its value.
MeansTheSame ==
  status \in Endings =>
    /\ out = meaning.out
    /\ meaning.end = IF status = "unanswered" THEN "panic" ELSE status
    /\ status = "done" /\ Scalar(meaning.v) => result = meaning.v

\* A program of the language description is accepted, means what its evaluation says,
\* leaves nothing on the operand stack and no reference without an object.
AsDocumented ==
  /\ status \notin {"rejected", "uncompiled"}
  /\ MeansTheSame
  /\ NoDangling
  /\ status = "done" => stack = <<>>

=============================================================================
