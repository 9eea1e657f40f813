------------------------------ MODULE Callbacks ------------------------------
(***************************************************************************)
(* The second entry of the VM (runtime/gui.rs): while an activation is in  *)
(* the middle of the builtin `event_loop`, the window system runs handlers *)
(* on the SAME VM.  run_callback puts the registers of that activation     *)
(* aside, enters the handler as run() enters main, and puts them back,     *)
(* however the handler has ended.  Registers are what `suspended` holds;   *)
(* the handler stack and try_counter are not among them: a callback finds  *)
(* the handlers of the program that waits, and leaves it its own.          *)
(*                                                                         *)
(* One call of event_loop waits at a time (docs.md 5.7: it blocks until all  *)
(* windows are closed).  Windows, painting and the window table are left   *)
(* out: a key and a click are the two kinds of events that find a handler. *)
(***************************************************************************)
EXTENDS VmExceptions

VARIABLES
  registered,   \* on_key and on_click of the window: <<>> or <<[func, seed]>>
  suspended     \* <<>>, or <<registers>> of the activation in event_loop

guiVars == <<vars, registered, suspended>>

\* Payload::Key and Payload::Click, and how the outside remembers them.
Payload == [key |-> <<1>>, click |-> <<2, 3>>]
Told    == [key |-> 1, click |-> 2]

-----------------------------------------------------------------------------
(* The two builtins in the bytecode. *)

IsBuiltin(ins, lib) == ins.op = "CALL_EXTERN" /\ "lib" \in DOMAIN ins /\ ins.lib = lib

\* What the code generator guarantees of their operands.
WellFormedLibs(P) ==
  \A f \in DOMAIN P.code : \A i \in DOMAIN P.code[f] :
    LET ins == P.code[f][i] IN
    ins.op = "CALL_EXTERN" /\ "lib" \in DOMAIN ins =>
      \/ IsBuiltin(ins, "on") /\ ins.kind \in DOMAIN Payload
           /\ ins.func \in DOMAIN P.code /\ ins.nargs \in Nat
      \/ IsBuiltin(ins, "event_loop")

ASSUME CallbacksAssumption == \A P \in Programs : WellFormedLibs(P)

\* f handles events, f waits for them, an instruction of f may fail.
HandlesEvents(P, f) ==
  \E g \in DOMAIN P.code : \E i \in DOMAIN P.code[g] :
    IsBuiltin(P.code[g][i], "on") /\ P.code[g][i].func = f

EntersLoop(P, f) == \E i \in DOMAIN P.code[f] : IsBuiltin(P.code[f][i], "event_loop")

MayFail(P, f) == \E i \in DOMAIN P.code[f] : P.code[f][i].op \in {"ADD", "FAIL"}

(***************************************************************************)
(* R relates a function to whatever runs on top of it, C is what may run   *)
(* in a callback, W what may wait for one.  No function with a try is in   *)
(* both, and no instruction of a callback fails under a try block of it:   *)
(* the VM finds handlers by function, and after an error removes none.     *)
(***************************************************************************)
Apart(P, R, C, W) ==
  /\ R \in Nestings(P)
  /\ \A f \in DOMAIN P.code : (HandlesEvents(P, f) => f \in C) /\ (EntersLoop(P, f) => f \in W)
  /\ \A f, g \in DOMAIN P.code : <<f, g>> \in R => (f \in C => g \in C) /\ (g \in W => f \in W)
  /\ \A f \in C \cap W : ~HasTry(P, f)
  /\ \A f \in C : MayFail(P, f) =>
       \A g \in C : g = f \/ <<g, f>> \in R => ~HasTry(P, g)

CallbacksApart(P) ==
  \E R \in Nestings(P), C, W \in SUBSET DOMAIN P.code : Apart(P, R, C, W)

-----------------------------------------------------------------------------
(* Actions *)

InBuiltin == Fetch("CALL_EXTERN") /\ "lib" \in DOMAIN Ins

GuiInit ==
  /\ Init
  /\ registered = [k \in DOMAIN Payload |-> <<>>]
  /\ suspended = <<>>

\* on_key, on_click: the window keeps the function and what it has captured.
Register ==
  /\ InBuiltin /\ Ins.lib = "on"
  /\ registered' = [registered EXCEPT ![Ins.kind] =
       <<[func |-> Ins.func,
          seed |-> [i \in 1..Ins.nargs |-> FromTop(Ins.nargs + 1 - i)]]>>]
  /\ stack' = Append(Popped(Ins.nargs), Null)
  /\ Straight /\ UNCHANGED <<locals, env, suspended>>

InLoop == InBuiltin /\ Ins.lib = "event_loop"

Registers == [fn |-> fn, pc |-> pc, locals |-> locals, stack |-> stack, base |-> base,
              frames |-> frames, pending |-> pending, waiting |-> handlers]

\* Mutant: the handlers are put aside too, and do not come back.
SuspendWithoutHandlers(f, args) ==
  /\ suspended' = <<Registers>>
  /\ fn' = f /\ pc' = 1 /\ locals' = FreshLocals(f, args)
  /\ stack' = <<>> /\ base' = 0 /\ frames' = <<>> /\ pending' = NoPending
  /\ handlers' = {}

\* Enter f with no caller; its frame begins with what it captured and the payload.
Suspend(f, args) ==
  /\ suspended' = <<Registers>>
  /\ fn' = f /\ pc' = 1 /\ locals' = FreshLocals(f, args)
  /\ stack' = <<>> /\ base' = 0 /\ frames' = <<>> /\ pending' = NoPending
  /\ UNCHANGED handlers

\* fire_key, fire_click: events of a kind without a handler are lost.
Event ==
  /\ InLoop /\ suspended = <<>> /\ Len(asked) < MaxAnswers
  /\ \E k \in DOMAIN registered :
       /\ registered[k] # <<>>
       /\ Suspend(registered[k][1].func, registered[k][1].seed \o Payload[k])
       /\ asked' = Append(asked, Told[k])
  /\ UNCHANGED <<prog, out, tryCounter, ending, registered>>

\* Mutant: what a finally has to complete is not put back.
RestoreWithoutPending(s) ==
  /\ fn' = s.fn /\ pc' = s.pc /\ locals' = s.locals /\ stack' = s.stack
  /\ base' = s.base /\ frames' = s.frames /\ pending' = NoPending
  /\ suspended' = <<>>
  /\ status' = "running" /\ result' = Null
  /\ UNCHANGED <<handlers, tryCounter, env, registered>>

\* What run_callback has put aside comes back; handlers and try_counter stay.
Restore(s) ==
  /\ fn' = s.fn /\ pc' = s.pc /\ locals' = s.locals /\ stack' = s.stack
  /\ base' = s.base /\ frames' = s.frames /\ pending' = s.pending
  /\ suspended' = <<>>
  /\ status' = "running" /\ result' = Null
  /\ UNCHANGED <<handlers, tryCounter, env, registered>>

\* Mutant: an error of the callback is returned from run_callback at once.
CallbackReturned ==
  /\ suspended # <<>> /\ status \in {"done", "uncaught"}
  /\ Restore(suspended[1])

\* The callback has ended: its value is dropped, its error is printed.
CallbackDone ==
  /\ suspended # <<>> /\ status # "running"
  /\ Restore(suspended[1])

\* All windows are closed and event_loop returns.
Close ==
  /\ InLoop /\ suspended = <<>>
  /\ asked' = Append(asked, 0)
  /\ stack' = Append(stack, Null)
  /\ Straight /\ UNCHANGED <<locals, prog, out, registered, suspended>>

\* Any other instruction, of the program or of a callback.
Execute == Next /\ ~InBuiltin /\ UNCHANGED <<registered, suspended>>

GuiNext == Execute \/ Register \/ Event \/ CallbackDone \/ Close

\* The VM's thread goes on; nobody has to press a key or to close a window.
GuiSpec == /\ GuiInit /\ [][GuiNext]_guiVars
           /\ WF_guiVars(Execute \/ Register \/ CallbackDone)

-----------------------------------------------------------------------------
(* Properties *)

\* A program that waits in event_loop finds, when it goes on, every handler
\* it had when it began to wait: a callback removes none of them, although it
\* runs on the same handler stack ("the VM's suspended state is saved before
\* the call and restored after", gui.rs:137).
WaitersHandlersKept ==
  [][suspended # <<>> => suspended[1].waiting \subseteq handlers']_guiVars

\* Every run ends, or waits for events in event_loop: no exception is raised
\* again and again, and every callback gives the VM back.
EndsOrWaits ==
  \/ <>(status # "running" /\ suspended = <<>>)
  \/ []<>(InLoop /\ suspended = <<>>)

=============================================================================
