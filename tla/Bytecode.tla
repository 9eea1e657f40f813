------------------------------ MODULE Bytecode ------------------------------
(***************************************************************************)
(* Compiled programs, as the VM gets them from the code generator, and     *)
(* what the one may ask of the other: operands that are in range, and      *)
(* instructions that find what they pop, or end, on every path to them.    *)
(*                                                                         *)
(* A program has the names, the code and the frame sizes of its functions; *)
(* an instruction is a record, a jump operand the index of its target.     *)
(***************************************************************************)
EXTENDS Integers, Sequences

CONSTANT Null     \* Value::Null

Value == Int \cup {Null}

-----------------------------------------------------------------------------
(* Well-formed bytecode: what the code generator guarantees of operands.   *)

Opcodes == {"PUSH", "LOAD_LOCAL", "STORE_LOCAL", "POP", "ADD", "PRINTLN",
            "CALL_EXTERN", "FAIL", "CALL", "RETURN", "RETURN_VOID", "JMP",
            "JZ", "TRY", "ENDTRY", "FINALLY_END", "THROW"}

WellFormedInstr(P, f, ins) ==
  /\ ins.op \in Opcodes
  /\ ins.op = "PUSH" => ins.val \in Value
  /\ ins.op \in {"LOAD_LOCAL", "STORE_LOCAL"} => ins.slot \in 1..P.nlocals[f]
  /\ ins.op = "CALL" => ins.func \in DOMAIN P.code /\ ins.nargs \in Nat
  /\ ins.op \in {"JMP", "JZ"} => ins.to \in DOMAIN P.code[f]
  /\ ins.op = "TRY" =>
       /\ ins.hasCatch \in BOOLEAN /\ ins.hasFinally \in BOOLEAN
       /\ ins.hasCatch \/ ins.hasFinally
       /\ ins.slot \in Nat
       /\ ins.hasCatch => ins.catch \in DOMAIN P.code[f]
       /\ ins.hasFinally => ins.finally \in DOMAIN P.code[f]

(***************************************************************************)
(* The last instruction is the implicit RETURN_VOID of compile_func_body:  *)
(* no other instruction can run off the end of the code.                   *)
(***************************************************************************)
WellFormedCode(P, f) ==
  /\ P.nlocals[f] \in Nat
  /\ Len(P.code[f]) \in Nat \ {0}
  /\ DOMAIN P.code[f] = 1..Len(P.code[f])
  /\ P.code[f][Len(P.code[f])].op = "RETURN_VOID"
  /\ \A i \in DOMAIN P.code[f] : WellFormedInstr(P, f, P.code[f][i])

WellFormedProgram(P) ==
  /\ P.name \in Seq(STRING) /\ P.name # <<>>
  /\ DOMAIN P.code = DOMAIN P.name
  /\ \A f \in DOMAIN P.code : WellFormedCode(P, f)

UniqueNames(P) ==
  \A f, g \in DOMAIN P.name : P.name[f] = P.name[g] => f = g

Calls(P, f, g) ==
  \E i \in DOMAIN P.code[f] : P.code[f][i].op = "CALL" /\ P.code[f][i].func = g

HasTry(P, f) == \E i \in DOMAIN P.code[f] : P.code[f][i].op = "TRY"

(***************************************************************************)
(* The relations between a function and whatever is called from it, by     *)
(* itself or by another, that relate no function with a try to itself.     *)
(***************************************************************************)
Nestings(P) ==
  {R \in SUBSET ((DOMAIN P.code) \X (DOMAIN P.code)) :
     /\ \A f, g \in DOMAIN P.code : Calls(P, f, g) => <<f, g>> \in R
     /\ \A f, g, h \in DOMAIN P.code : <<f, g>> \in R /\ <<g, h>> \in R => <<f, h>> \in R
     /\ \A f \in DOMAIN P.code : HasTry(P, f) => <<f, f>> \notin R}

\* No function is called while a try block of its own may be active.
NoTryReentered(P) == Nestings(P) # {}

\* What an instruction pops, and what it leaves at the next one.
Pops(ins) ==
  CASE ins.op \in {"POP", "STORE_LOCAL", "PRINTLN", "JZ", "RETURN", "THROW"} -> 1
    [] ins.op = "ADD" -> 2
    [] ins.op = "CALL" -> ins.nargs
    [] OTHER -> 0

Pushes(ins) ==
  IF ins.op \in {"PUSH", "LOAD_LOCAL", "CALL_EXTERN", "ADD", "CALL"} THEN 1 ELSE 0

Flows(ins) == ins.op \notin {"JMP", "RETURN", "RETURN_VOID", "THROW", "FAIL"}

(***************************************************************************)
(* h is how many operands an activation of f has at least, at each of its  *)
(* instructions: as many as that pops, and none where a handler goes.      *)
(***************************************************************************)
Fits(P, f, h) ==
  /\ h \in [DOMAIN P.code[f] -> Nat] /\ h[1] = 0
  /\ \A i \in DOMAIN P.code[f] :
       LET ins == P.code[f][i]  rest == h[i] - Pops(ins) IN
       /\ rest >= 0
       /\ Flows(ins) => h[i + 1] <= rest + Pushes(ins)
       /\ ins.op \in {"JMP", "JZ"} => h[ins.to] <= rest
       /\ ins.op = "TRY" /\ ins.hasCatch => h[ins.catch] = 0
       /\ ins.op = "TRY" /\ ins.hasFinally => h[ins.finally] = 0

Balanced(P) == \A f \in DOMAIN P.code : \E h \in [DOMAIN P.code[f] -> Nat] : Fits(P, f, h)

(***************************************************************************)
(* m is how many try blocks an activation of f has at least begun and not  *)
(* ended, at each of its instructions: one where a try ends; a handler     *)
(* goes back to what there was at its TRY.  A finally that ends takes a    *)
(* finally of its function with it, whichever it finds, so none may have   *)
(* begun before a try block that is still active there: no finally inside  *)
(* of a try block that has one.                                            *)
(***************************************************************************)
Closes(P, f, m) ==
  /\ m \in [DOMAIN P.code[f] -> Nat] /\ m[1] = 0
  /\ \A i \in DOMAIN P.code[f] :
       LET ins == P.code[f][i] IN
       /\ ins.op = "ENDTRY" => m[i] > 0 /\ m[i + 1] <= m[i] - 1
       /\ ins.op = "TRY" => m[i + 1] <= m[i] + 1
       /\ Flows(ins) /\ ins.op \notin {"TRY", "ENDTRY"} => m[i + 1] <= m[i]
       /\ ins.op \in {"JMP", "JZ"} => m[ins.to] <= m[i]
       /\ ins.op = "TRY" /\ ins.hasCatch => m[ins.catch] <= m[i]
       /\ ins.op = "TRY" /\ ins.hasFinally => m[ins.finally] <= m[i]
       /\ \A j \in DOMAIN P.code[f] :
            ins.op = "TRY" /\ ins.hasFinally /\ P.code[f][j].op = "FINALLY_END" =>
              m[j + 1] <= m[ins.finally]

TriesClose(P) ==
  \A f \in DOMAIN P.code : \E m \in [DOMAIN P.code[f] -> Nat] : Closes(P, f, m)

=============================================================================
