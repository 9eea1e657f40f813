------------------------------- MODULE DataVm -------------------------------
(***************************************************************************)
(* The data instructions of the VM, src/runtime/runtime.rs: operand stack, *)
(* heap, globals, frames, pointers, containers, closures and calls.        *)
(*                                                                         *)
(* Exceptions are the subject of VmExceptions and scheduled calls of       *)
(* ScheduledCalls; here no function throws and every call is a plain one.  *)
(* An Err of the VM ends the run: "type" when an operand has the wrong     *)
(* kind, "value" when its value is out of range; "panic" is a Rust panic,  *)
(* which takes the process down.  Integers are unbounded and there are no  *)
(* floats.                                                                 *)
(***************************************************************************)
EXTENDS Integers, Sequences, TLC

VARIABLES
  image,      \* the program: functions, the index of main and of the global initialiser
  heap,       \* objects; a reference is an index, and nothing is ever freed
  globals,    \* the values of the top-level variables
  stack,      \* operands of all functions in progress
  frames,     \* the callers: function, pc, frame object and operand height
  cur,        \* the function being executed,
  pc,         \*   its next instruction,
  frame,      \*   the heap object with its locals,
  base,       \*   and the height of the operand stack when it was entered
  status,     \* "run", "done" or what ended the run
  result,     \* what main returned
  out         \* what was printed

vars == <<image, heap, globals, stack, frames, cur, pc, frame, base, status, result, out>>

-----------------------------------------------------------------------------
(* Values, objects and images.                                             *)

Null == <<"null">>
IntVal(n) == <<"int", n>>
BoolVal(b) == <<"bool", b>>
Obj(id) == <<"obj", id>>
PtrVal(id, slot) == <<"ptr", id, slot>>

\* A frame is an object whose fields are the locals; fn is the function of a closure.
Object(kind, fields, pairs, str, fn) ==
  [kind |-> kind, fields |-> fields, pairs |-> pairs, str |-> str, fn |-> fn]

Struct(fields) == Object("Struct", fields, <<>>, "", 0)
FrameObject(locals) == Object("Frame", locals, <<>>, "", 0)
ListObject(fields) == Object("List", fields, <<>>, "", 0)
MapObject(pairs) == Object("Map", <<>>, pairs, "", 0)
StrObject(s) == Object("Str", <<>>, <<>>, s, 0)
ClosureObject(fn, captures) == Object("Closure", captures, <<>>, "", fn)

Plain == {"POP", "DEREF", "DEREF_STORE", "RETURN", "RETURN_VOID", "+", "-", "*", "/", "%", "NEG",
          "==", "!=", "<", "<=", ">", ">=", "&&", "||", "NOT", "CONCAT", "PRINT", "PRINTLN",
          "INDEX", "INDEX_STORE"}
Counted == {"LOAD_LOCAL", "STORE_LOCAL", "GLOAD", "GSTORE", "LOAD_FIELD", "STORE_FIELD",
            "ADDR_LOCAL", "ADDR_FIELD", "NEW_STRUCT", "NEW_LIST", "NEW_MAP", "CALL_CLOSURE"}

Instr ==
  [op : {"PUSH"}, v : {Null} \cup ({"int"} \X Int) \cup ({"bool"} \X BOOLEAN)
                      \cup ({"str"} \X STRING)]
  \cup [op : Plain] \cup [op : Counted, n : Nat] \cup [op : {"JMP", "JZ"}, n : Nat]
  \cup [op : {"CALL", "NEW_CLOSURE"}, fn : Nat, n : Nat]
  \cup [op : {"METHOD", "CALL_EXTERN"}, name : STRING, n : Nat]

Image == [funcs : Seq([nlocals : Nat, code : Seq(Instr)]), main : Nat, init : Nat]

-----------------------------------------------------------------------------
(* Conversions and comparisons.                                            *)

Truthy(v) ==
  CASE v[1] = "bool" -> v[2]
    [] v[1] = "int" -> v[2] # 0
    [] v[1] = "null" -> FALSE
    [] OTHER -> TRUE

IsObj(v) == v[1] = "obj"
IsInt(v) == v[1] = "int"
IsA(v, kind) == IsObj(v) /\ heap[v[2]].kind = kind

\* Strings are compared by content, other objects by identity.
ValuesEqual(a, b) ==
  IF IsA(a, "Str") /\ IsA(b, "Str") THEN heap[a[2]].str = heap[b[2]].str
  ELSE a[1] = b[1] /\ a[1] # "ptr" /\ a = b

\* to_string_bytes.  The code descends without limit into containers; here a container within
\* a container within a container is not spelled out.
Text0(v) ==
  CASE v[1] = "int" -> ToString(v[2])
    [] v[1] = "bool" -> IF v[2] THEN "true" ELSE "false"
    [] v[1] = "null" -> "null"
    [] v[1] = "ptr" -> "&" \o ToString(v[2]) \o "#" \o ToString(v[3])
    [] IsObj(v) -> IF IsA(v, "Str") THEN heap[v[2]].str ELSE "<object>"

Spelled(v, Inner(_)) ==
  LET o == heap[v[2]]
      Sep(i) == IF i = 1 THEN "" ELSE ", "
      Elems[i \in 0 .. Len(o.fields)] ==
        IF i = 0 THEN "" ELSE Elems[i - 1] \o Sep(i) \o Inner(o.fields[i])
      Entries[i \in 0 .. Len(o.pairs)] ==
        IF i = 0 THEN ""
        ELSE Entries[i - 1] \o Sep(i) \o Inner(o.pairs[i][1]) \o ": " \o Inner(o.pairs[i][2])
  IN CASE IsA(v, "List") -> "[" \o Elems[Len(o.fields)] \o "]"
       [] IsA(v, "Map") -> "{" \o Entries[Len(o.pairs)] \o "}"
       [] OTHER -> Text0(v)

Text1(v) == IF IsObj(v) THEN Spelled(v, Text0) ELSE Text0(v)
Text(v) == IF IsObj(v) THEN Spelled(v, Text1) ELSE Text0(v)

\* cmp: what a comparison gives, as the set of possible results; none when it is an error.
\* Only equality is modelled for the order of strings.
Ordered(op, x, y) ==
  CASE op = "==" -> x = y
    [] op = "!=" -> x # y
    [] op = "<" -> x < y
    [] op = "<=" -> x <= y
    [] op = ">" -> x > y
    [] op = ">=" -> x >= y

AsNumber(b) == IF b THEN 1 ELSE 0

Compared(op, a, b) ==
  LET same == op \in {"==", "<=", ">="}
  IN IF IsInt(a) /\ IsInt(b) THEN {Ordered(op, a[2], b[2])}
     ELSE IF a[1] = "bool" /\ b[1] = "bool" THEN {Ordered(op, AsNumber(a[2]), AsNumber(b[2]))}
     ELSE IF a = Null /\ b = Null THEN {same}
     ELSE IF ~(IsObj(a) /\ IsObj(b)) THEN {}
     ELSE IF IsA(a, "Str") /\ IsA(b, "Str")
     THEN IF ValuesEqual(a, b) THEN {same} ELSE IF op = "==" THEN {FALSE}
          ELSE IF op = "!=" THEN {TRUE} ELSE BOOLEAN
     ELSE {ValuesEqual(a, b) /\ same}

\* i64 division truncates; Rust panics on a zero divisor, except where % is checked.
Quotient(x, y) ==
  LET Abs(n) == IF n < 0 THEN 0 - n ELSE n
      q == Abs(x) \div Abs(y)
  IN IF (x < 0) = (y < 0) THEN q ELSE 0 - q

Arith(op, x, y) ==
  CASE op = "+" -> x + y
    [] op = "-" -> x - y
    [] op = "*" -> x * y
    [] op = "/" -> Quotient(x, y)
    [] op = "%" -> x - y * Quotient(x, y)

-----------------------------------------------------------------------------
(* The machine.                                                            *)

Code == image.funcs[cur].code
At(ops) == status = "run" /\ pc \in DOMAIN Code /\ Code[pc].op \in ops
I == Code[pc]

\* Mutant: operands are counted from the top.
OperandFromTop(n, i) ==
  LET j == Len(stack) + 1 - i IN IF j \in DOMAIN stack THEN stack[j] ELSE Null

\* The i-th of the n topmost operands; an empty stack yields null.
Operand(n, i) ==
  LET j == Len(stack) - n + i IN IF j \in DOMAIN stack THEN stack[j] ELSE Null
Operands(n) == [i \in 1 .. n |-> Operand(n, i)]
Below(n) == SubSeq(stack, 1, Len(stack) - n)

\* The instruction takes n operands and leaves the values vs.
Step(n, vs) ==
  /\ stack' = Below(n) \o vs
  /\ pc' = pc + 1
  /\ UNCHANGED <<image, frames, cur, frame, base, status, result>>

Pure(n, v) == Step(n, <<v>>) /\ UNCHANGED <<heap, globals, out>>

Fail(kind) ==
  /\ status' = kind
  /\ UNCHANGED <<image, heap, globals, stack, frames, cur, pc, frame, base, result, out>>

\* Mutant: the reference is taken from the heap that has the object already.
AllocateLate(n, object) ==
  /\ heap' = Append(heap, object)
  /\ Step(n, <<Obj(Len(heap') + 1)>>)
  /\ UNCHANGED <<globals, out>>

\* Replaces n operands by a reference to a new object.
Allocate(n, object) ==
  /\ heap' = Append(heap, object)
  /\ Step(n, <<Obj(Len(heap) + 1)>>)
  /\ UNCHANGED <<globals, out>>

Slot(id, i) == IF i \in DOMAIN heap[id].fields THEN heap[id].fields[i] ELSE Null

\* A store into a slot that the object does not have is lost.
StoreSlot(id, i, v) ==
  heap' = IF i \in DOMAIN heap[id].fields THEN [heap EXCEPT ![id].fields[i] = v] ELSE heap

Push ==
  /\ At({"PUSH"})
  /\ IF I.v[1] = "str" THEN Allocate(0, StrObject(I.v[2])) ELSE Pure(0, I.v)

Pop == At({"POP"}) /\ Step(1, <<>>) /\ UNCHANGED <<heap, globals, out>>

\* Locals are numbered from 0.
LoadLocal == At({"LOAD_LOCAL"}) /\ Pure(0, Slot(frame, I.n + 1))

StoreLocal ==
  /\ At({"STORE_LOCAL"})
  /\ StoreSlot(frame, I.n + 1, Operand(1, 1))
  /\ Step(1, <<>>)
  /\ UNCHANGED <<globals, out>>

LoadGlobal ==
  At({"GLOAD"}) /\ Pure(0, IF I.n \in DOMAIN globals THEN globals[I.n] ELSE Null)

\* The globals grow to hold the slot.
StoreGlobal ==
  /\ At({"GSTORE"})
  /\ globals' = [i \in 1 .. IF I.n > Len(globals) THEN I.n ELSE Len(globals) |->
                   IF i = I.n THEN Operand(1, 1)
                   ELSE IF i \in DOMAIN globals THEN globals[i] ELSE Null]
  /\ Step(1, <<>>)
  /\ UNCHANGED <<heap, out>>

LoadField ==
  /\ At({"LOAD_FIELD"})
  /\ LET o == Operand(1, 1) IN IF IsObj(o) THEN Pure(1, Slot(o[2], I.n)) ELSE Fail("type")

StoreField ==
  /\ At({"STORE_FIELD"})
  /\ LET o == Operand(2, 1)
     IN IF ~IsObj(o) THEN Fail("type")
        ELSE StoreSlot(o[2], I.n, Operand(2, 2)) /\ Step(2, <<>>) /\ UNCHANGED <<globals, out>>

AddrLocal == At({"ADDR_LOCAL"}) /\ Pure(0, PtrVal(frame, I.n + 1))

AddrField ==
  /\ At({"ADDR_FIELD"})
  /\ LET o == Operand(1, 1) IN IF IsObj(o) THEN Pure(1, PtrVal(o[2], I.n)) ELSE Fail("type")

DerefLoad ==
  /\ At({"DEREF"})
  /\ LET p == Operand(1, 1) IN IF p[1] = "ptr" THEN Pure(1, Slot(p[2], p[3])) ELSE Fail("type")

DerefStore ==
  /\ At({"DEREF_STORE"})
  /\ LET p == Operand(2, 1)
     IN IF p[1] # "ptr" THEN Fail("type")
        ELSE StoreSlot(p[2], p[3], Operand(2, 2)) /\ Step(2, <<>>) /\ UNCHANGED <<globals, out>>

NewStruct == At({"NEW_STRUCT"}) /\ Allocate(I.n, Struct(Operands(I.n)))

NewList == At({"NEW_LIST"}) /\ Allocate(I.n, ListObject(Operands(I.n)))

NewMap ==
  /\ At({"NEW_MAP"})
  /\ LET kv == Operands(2 * I.n)
     IN Allocate(2 * I.n, MapObject([i \in 1 .. I.n |-> <<kv[2 * i - 1], kv[2 * i]>>]))

NewClosure == At({"NEW_CLOSURE"}) /\ Allocate(I.n, ClosureObject(I.fn, Operands(I.n)))

Arithmetic ==
  /\ At({"+", "-", "*", "/", "%"})
  /\ LET a == Operand(2, 1)
         b == Operand(2, 2)
     IN IF ~(IsInt(a) /\ IsInt(b)) THEN Fail("type")
        ELSE IF b[2] = 0 /\ I.op = "/" THEN Fail("panic")
        ELSE IF b[2] = 0 /\ I.op = "%" THEN Fail("value")
        ELSE Pure(2, IntVal(Arith(I.op, a[2], b[2])))

Negate ==
  /\ At({"NEG"})
  /\ LET a == Operand(1, 1) IN IF IsInt(a) THEN Pure(1, IntVal(0 - a[2])) ELSE Fail("type")

Compare ==
  /\ At({"==", "!=", "<", "<=", ">", ">="})
  /\ LET outcomes == Compared(I.op, Operand(2, 1), Operand(2, 2))
     IN IF outcomes = {} THEN Fail("type") ELSE \E b \in outcomes : Pure(2, BoolVal(b))

\* Both operands have been evaluated.
Logic ==
  \/ /\ At({"&&"})
     /\ Pure(2, BoolVal(Truthy(Operand(2, 1)) /\ Truthy(Operand(2, 2))))
  \/ /\ At({"||"})
     /\ Pure(2, BoolVal(Truthy(Operand(2, 1)) \/ Truthy(Operand(2, 2))))
  \/ At({"NOT"}) /\ Pure(1, BoolVal(~Truthy(Operand(1, 1))))

Concat == At({"CONCAT"}) /\ Allocate(2, StrObject(Text(Operand(2, 1)) \o Text(Operand(2, 2))))

PrintOut ==
  /\ At({"PRINT", "PRINTLN"})
  /\ out' = out \o Text(Operand(1, 1)) \o (IF I.op = "PRINTLN" THEN ";" ELSE "")
  /\ Step(1, <<>>)
  /\ UNCHANGED <<heap, globals>>

Jump ==
  /\ At({"JMP"})
  /\ pc' = I.n
  /\ UNCHANGED <<image, heap, globals, stack, frames, cur, frame, base, status, result, out>>

JumpZero ==
  /\ At({"JZ"})
  /\ stack' = Below(1)
  /\ pc' = IF Truthy(Operand(1, 1)) THEN pc + 1 ELSE I.n
  /\ UNCHANGED <<image, heap, globals, frames, cur, frame, base, status, result, out>>

-----------------------------------------------------------------------------
(* Calls.                                                                  *)

\* Locals of a new frame: what the caller seeds, cut or filled up to nlocals.
Locals(f, seed) ==
  [i \in 1 .. image.funcs[f].nlocals |-> IF i \in DOMAIN seed THEN seed[i] ELSE Null]

Enter(f, seed, n) ==
  /\ frames' = Append(frames, [cur |-> cur, pc |-> pc + 1, frame |-> frame, base |-> base])
  /\ heap' = Append(heap, FrameObject(Locals(f, seed)))
  /\ frame' = Len(heap) + 1
  /\ cur' = f
  /\ pc' = 1
  /\ stack' = Below(n)
  /\ base' = Len(stack')
  /\ UNCHANGED <<image, globals, status, result, out>>

CallFunc ==
  /\ At({"CALL"})
  /\ IF I.fn \in DOMAIN image.funcs THEN Enter(I.fn, Operands(I.n), I.n) ELSE Fail("panic")

\* The locals begin with the captures, then the arguments.
CallClosure ==
  /\ At({"CALL_CLOSURE"})
  /\ LET c == Operand(I.n + 1, 1)
     IN IF ~IsA(c, "Closure") THEN Fail("type")
        ELSE IF heap[c[2]].fn \notin DOMAIN image.funcs THEN Fail("panic")
        ELSE Enter(heap[c[2]].fn, heap[c[2]].fields \o Operands(I.n), I.n + 1)

\* Starts f without a caller.
Begin(f) ==
  /\ heap' = Append(heap, FrameObject(Locals(f, <<>>)))
  /\ frame' = Len(heap) + 1
  /\ cur' = f
  /\ pc' = 1

\* The value goes to the caller.  Without one, main begins if this was the initialiser of the
\* globals, and else the program is done; the operand stack is kept in either case.
Return ==
  /\ At({"RETURN", "RETURN_VOID"})
  /\ LET n == IF I.op = "RETURN" THEN 1 ELSE 0
         v == IF I.op = "RETURN" THEN Operand(1, 1) ELSE Null
         caller == frames[Len(frames)]
     IN IF frames # <<>>
        THEN /\ stack' = Append(Below(n), v)
             /\ frames' = SubSeq(frames, 1, Len(frames) - 1)
             /\ cur' = caller.cur
             /\ pc' = caller.pc
             /\ frame' = caller.frame
             /\ base' = caller.base
             /\ UNCHANGED <<image, heap, globals, status, result, out>>
        ELSE /\ stack' = Below(n)
             /\ base' = Len(stack')
             /\ IF cur = image.init
                THEN /\ Begin(image.main)
                     /\ UNCHANGED <<image, globals, frames, status, result, out>>
                ELSE /\ status' = "done"
                     /\ result' = v
                     /\ UNCHANGED <<image, heap, globals, frames, cur, pc, frame, out>>

-----------------------------------------------------------------------------
(* Containers, strings and builtins.                                       *)

\* The index of a map's entry with this key; 0 when there is none.
EntryAt(id, key) ==
  LET at == {i \in DOMAIN heap[id].pairs : ValuesEqual(heap[id].pairs[i][1], key)}
  IN IF at = {} THEN 0 ELSE CHOOSE i \in at : \A j \in at : i <= j

EntryValue(id, key) == IF EntryAt(id, key) = 0 THEN Null ELSE heap[id].pairs[EntryAt(id, key)][2]

SetEntry(id, key, v) ==
  heap' = IF EntryAt(id, key) = 0
          THEN [heap EXCEPT ![id].pairs = Append(@, <<key, v>>)]
          ELSE [heap EXCEPT ![id].pairs[EntryAt(id, key)][2] = v]

\* Positions in a list are numbered from 0.
InList(id, i) == IsInt(i) /\ i[2] + 1 \in DOMAIN heap[id].fields

Index ==
  /\ At({"INDEX"})
  /\ LET c == Operand(2, 1)
         i == Operand(2, 2)
     IN IF IsA(c, "List")
        THEN IF InList(c[2], i) THEN Pure(2, Slot(c[2], i[2] + 1))
             ELSE Fail(IF IsInt(i) THEN "value" ELSE "type")
        ELSE IF IsA(c, "Map") THEN Pure(2, EntryValue(c[2], i))
        ELSE Fail("type")

\* Leaves a null.
IndexStore ==
  /\ At({"INDEX_STORE"})
  /\ LET c == Operand(3, 1)
         i == Operand(3, 2)
         v == Operand(3, 3)
         Leave == Step(3, <<Null>>) /\ UNCHANGED <<globals, out>>
     IN IF IsA(c, "List")
        THEN IF InList(c[2], i) THEN StoreSlot(c[2], i[2] + 1, v) /\ Leave
             ELSE Fail(IF IsInt(i) THEN "value" ELSE "type")
        ELSE IF IsA(c, "Map") THEN SetEntry(c[2], i, v) /\ Leave
        ELSE Fail("type")

\* get and set of a list do nothing outside of it, pop of an empty one gives null.
ListMethod(id, args) ==
  LET n == Len(heap[id].fields)
      Gives(v) == heap' = heap /\ Step(I.n + 1, <<v>>) /\ UNCHANGED <<globals, out>>
      Changed(fields, v) == /\ heap' = [heap EXCEPT ![id].fields = fields]
                            /\ Step(I.n + 1, <<v>>)
                            /\ UNCHANGED <<globals, out>>
      fields == heap[id].fields
  IN CASE I.name = "len" -> Gives(IntVal(n))
       [] I.name = "push" -> IF Len(args) # 1 THEN Fail("type")
                             ELSE Changed(Append(fields, args[1]), Null)
       [] I.name = "pop" -> IF n = 0 THEN Gives(Null)
                            ELSE Changed(SubSeq(fields, 1, n - 1), fields[n])
       [] I.name = "get" -> IF Len(args) = 0 THEN Fail("type")
                            ELSE IF ~IsInt(args[1]) THEN Fail("type")
                            ELSE Gives(Slot(id, args[1][2] + 1))
       [] I.name = "set" -> IF Len(args) # 2 THEN Fail("type")
                            ELSE IF ~IsInt(args[1]) THEN Fail("type")
                            ELSE IF ~InList(id, args[1]) THEN Gives(Null)
                            ELSE Changed([fields EXCEPT ![args[1][2] + 1] = args[2]], Null)
       [] OTHER -> Fail("type")

MapMethod(id, args) ==
  LET Gives(v) == heap' = heap /\ Step(I.n + 1, <<v>>) /\ UNCHANGED <<globals, out>>
      pairs == heap[id].pairs
      at == EntryAt(id, args[1])
      arity == CASE I.name = "set" -> 2 [] I.name \in {"get", "has", "remove"} -> 1
                 [] OTHER -> Len(args)
  IN IF Len(args) # arity THEN Fail("type")
     ELSE
     CASE I.name = "len" -> Gives(IntVal(Len(pairs)))
       [] I.name = "set" -> /\ SetEntry(id, args[1], args[2])
                            /\ Step(I.n + 1, <<Null>>)
                            /\ UNCHANGED <<globals, out>>
       [] I.name = "get" -> Gives(EntryValue(id, args[1]))
       [] I.name = "has" -> Gives(BoolVal(at # 0))
       [] I.name = "remove" ->
            /\ heap' = [heap EXCEPT ![id].pairs =
                          [i \in 1 .. Len(pairs) - (IF at = 0 THEN 0 ELSE 1) |->
                             pairs[IF at = 0 \/ i < at THEN i ELSE i + 1]]]
            /\ Step(I.n + 1, <<BoolVal(at # 0)>>)
            /\ UNCHANGED <<globals, out>>
       [] I.name = "keys" -> Allocate(I.n + 1, ListObject([i \in DOMAIN pairs |-> pairs[i][1]]))
       [] OTHER -> Fail("type")

\* The length of a string, which TLC knows and the logic leaves open.
Length(s) == IF Len(s) \in Nat THEN Len(s) ELSE 0

\* substr clamps its bounds, but not the first one to the length, which panics.
StrMethod(s, args) ==
  LET Bound(i, default) == IF IsInt(args[i]) THEN args[i][2] ELSE default
      from == Bound(1, 0)
      upto == Bound(2, Length(s))
      start == IF from < 0 THEN 0 ELSE from
      wanted == IF upto < from THEN from ELSE upto
      end == IF wanted < Length(s) THEN wanted ELSE Length(s)
  IN CASE I.name = "len" -> Pure(I.n + 1, IntVal(Length(s)))
       [] I.name = "substr" -> IF Len(args) < 2 THEN Fail("type")
                               ELSE IF start > end THEN Fail("panic")
                               ELSE Allocate(I.n + 1, StrObject(SubSeq(s, start + 1, end)))
       [] OTHER -> Fail("type")

\* Methods that rewrite or read a text, and builtins that format one, are left out.
Rewriting == {"trim", "to_upper", "to_lower", "to_int", "to_float", "printf", "fmt", "rgb"}

\* A receiver that is no container is taken as its text.
CallMethod ==
  /\ At({"METHOD"}) /\ I.name \notin Rewriting
  /\ LET recv == Operand(I.n + 1, 1)
         args == Operands(I.n)
     IN IF IsA(recv, "List") THEN ListMethod(recv[2], args)
        ELSE IF IsA(recv, "Map") THEN MapMethod(recv[2], args)
        ELSE StrMethod(Text(recv), args)

\* What the host answers: the terminal's size, handles and what the user types are fixed.
HostNumber(name) ==
  CASE name = "terminal_cols" -> 80 [] name = "terminal_rows" -> 24 [] OTHER -> 0
Answer == "k"

\* A prompt is printed before the answer is read.
Prompt(name) == IF name \in {"ask", "readLine"} /\ I.n > 0 THEN Text(Operand(I.n, 1)) ELSE ""

CallExtern ==
  /\ At({"CALL_EXTERN"}) /\ I.name \notin Rewriting
  /\ CASE I.name \in {"key", "ask", "readLine"} ->
            /\ heap' = Append(heap, StrObject(Answer))
            /\ Step(I.n, <<Obj(Len(heap) + 1)>>)
            /\ out' = out \o Prompt(I.name)
            /\ UNCHANGED globals
       [] I.name = "args" -> Allocate(I.n, ListObject(<<>>))
       [] I.name \in {"terminal_cols", "terminal_rows", "window", "thread_id"} ->
            Pure(I.n, IntVal(HostNumber(I.name)))
       [] I.name = "key_available" -> Pure(I.n, BoolVal(TRUE))
       [] OTHER -> Pure(I.n, Null)

-----------------------------------------------------------------------------

\* A program starts with the initialiser of its globals, if it has one.
Start(im) ==
  LET f == IF im.init # 0 THEN im.init ELSE im.main
  IN /\ image = im
     /\ heap = <<FrameObject([i \in 1 .. im.funcs[f].nlocals |-> Null])>>
     /\ globals = <<>> /\ stack = <<>> /\ frames = <<>>
     /\ cur = f /\ pc = 1 /\ frame = 1 /\ base = 0
     /\ status = "run" /\ result = Null /\ out = ""

Init == \E im \in Image :
          /\ im.main \in DOMAIN im.funcs
          /\ im.init \in DOMAIN im.funcs \cup {0}
          /\ Start(im)

Data == \/ Push \/ Pop \/ LoadLocal \/ StoreLocal \/ LoadGlobal \/ StoreGlobal
        \/ LoadField \/ StoreField \/ AddrLocal \/ AddrField \/ DerefLoad \/ DerefStore
        \/ NewStruct \/ NewList \/ NewMap \/ NewClosure
        \/ Arithmetic \/ Negate \/ Compare \/ Logic \/ Concat \/ PrintOut

Control == Jump \/ JumpZero \/ CallFunc \/ CallClosure \/ Return

Library == Index \/ IndexStore \/ CallMethod \/ CallExtern

Next == Data \/ Control \/ Library

Spec == Init /\ [][Next]_vars

-----------------------------------------------------------------------------
(* Properties.                                                             *)

\* A value refers to an object that exists.
Valid(v, h) == v[1] \in {"obj", "ptr"} => v[2] \in DOMAIN h

\* Every reference in the operands, the globals, the frames and the objects themselves leads
\* to an object of the heap: the VM indexes its heap without a check, so a dangling
\* one would be a panic or another object.
NoDangling ==
  /\ frame \in DOMAIN heap
  /\ \A i \in DOMAIN frames : frames[i].frame \in DOMAIN heap
  /\ \A i \in DOMAIN stack : Valid(stack[i], heap)
  /\ \A i \in DOMAIN globals : Valid(globals[i], heap)
  /\ \A o \in DOMAIN heap :
       /\ \A i \in DOMAIN heap[o].fields : Valid(heap[o].fields[i], heap)
       /\ \A i \in DOMAIN heap[o].pairs :
            Valid(heap[o].pairs[i][1], heap) /\ Valid(heap[o].pairs[i][2], heap)

\* Below what a function had on the stack when it was entered lie the operands of its
\* callers: it never takes from them.
CallersOperands ==
  status = "run" =>
    /\ Len(stack) >= base
    /\ \A i \in DOMAIN frames : frames[i].base <= base

\* The code is well-formed, every slot that the code of a function names is one of its
\* locals, and every jump stays in the code: the VM checks neither, a missing local reads
\* as null and a store to it is lost.
InsideFunction ==
  status = "run" =>
    /\ image \in Image
    /\ pc \in DOMAIN Code
    /\ I.op \in {"LOAD_LOCAL", "STORE_LOCAL", "ADDR_LOCAL"} => I.n < image.funcs[cur].nlocals
    /\ I.op \in {"JMP", "JZ"} => I.n \in DOMAIN Code

-----------------------------------------------------------------------------
(* What the code generator guarantees of its images.                       *)

\* What an instruction takes from the stack, and what it leaves at the next one.
Pops(i) ==
  CASE i.op \in {"POP", "DEREF", "STORE_LOCAL", "GSTORE", "LOAD_FIELD", "ADDR_FIELD", "NEG",
                 "NOT", "PRINT", "PRINTLN", "JZ", "RETURN"} -> 1
    [] i.op \in {"DEREF_STORE", "STORE_FIELD", "CONCAT", "INDEX", "+", "-", "*", "/", "%",
                 "==", "!=", "<", "<=", ">", ">=", "&&", "||"} -> 2
    [] i.op = "INDEX_STORE" -> 3
    [] i.op \in {"NEW_STRUCT", "NEW_LIST", "NEW_CLOSURE", "CALL", "CALL_EXTERN"} -> i.n
    [] i.op \in {"CALL_CLOSURE", "METHOD"} -> i.n + 1
    [] i.op = "NEW_MAP" -> 2 * i.n
    [] OTHER -> 0

Pushes(i) ==
  IF i.op \in {"POP", "STORE_LOCAL", "GSTORE", "STORE_FIELD", "DEREF_STORE", "PRINT", "PRINTLN",
               "JMP", "JZ", "RETURN", "RETURN_VOID"} THEN 0 ELSE 1

Flows(i) == i.op \notin {"JMP", "RETURN", "RETURN_VOID"}

\* Slots are locals, jumps stay in the code, and its end is not run over.
Enclosed(im) ==
  \A f \in DOMAIN im.funcs :
    LET code == im.funcs[f].code IN
    /\ Len(code) > 0 /\ ~Flows(code[Len(code)])
    /\ \A i \in DOMAIN code :
         /\ code[i].op \in {"LOAD_LOCAL", "STORE_LOCAL", "ADDR_LOCAL"} =>
              code[i].n < im.funcs[f].nlocals
         /\ code[i].op \in {"JMP", "JZ"} => code[i].n \in DOMAIN code

\* h is how many operands of its own a function has at least, at each instruction.
Fits(code, h) ==
  /\ h \in [DOMAIN code -> Nat] /\ h[1] = 0
  /\ \A i \in DOMAIN code :
       LET rest == h[i] - Pops(code[i]) IN
       /\ rest >= 0
       /\ Flows(code[i]) => h[i + 1] <= rest + Pushes(code[i])
       /\ code[i].op \in {"JMP", "JZ"} => h[code[i].n] <= rest

Balanced(im) ==
  \A f \in DOMAIN im.funcs :
    \E h \in [DOMAIN im.funcs[f].code -> Nat] : Fits(im.funcs[f].code, h)
=============================================================================
