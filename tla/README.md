# A verification model of the Pointerses toolchain

Pointerses is a small compiled language: a Rust front end (lexer, parser,
semantic analyser), a bytecode generator, a virtual machine that is also
embedded in native executables, and host tools around it (watchdog, compile
daemon, dependency cache, packaging). This directory holds TLA+ models of the
parts whose behaviour is decided by control flow, by interleaving, by failure or
by the agreement of two passes, the TLC configurations that check them, and TLAPS
proofs of the invariants that matter most.

Source paths below are relative to the repository root.

## 1. Inventory

| component | files | state | operations |
|---|---|---|---|
| VM control core | `runtime/runtime.rs` `Vm::execute`, `raise`, `return_value`, `call_func` | pc, frame, operand stack, saved frames, handler stack, pending return/throw, `try_counter` | one per opcode |
| VM heap and values | `runtime.rs` `HeapObj`, containers, `materialize` | heap vector, globals, strings, lists, maps, pointers | allocate, read, write, copy across VMs |
| Scheduled calls | `runtime.rs` `TaskPool`, `run_scheduled`, `run_function_isolated` | one pool map per VM, a FIFO queue and worker threads per pool, one channel per call | submit, take, run, answer, receive |
| GUI | `runtime/gui.rs` | window table, callbacks, the suspended VM | register, dispatch, `run_callback`, close |
| Lexer, parser | `src/lexer/`, `src/parser/` | position in input | scan, parse, look ahead |
| Imports | `src/compiler.rs` | visited files, the merged program | parse, merge |
| Semantic analyser | `src/semantic/analyzer.rs`, `types.rs` | block scopes, tables of declarations, proofs | check each declaration, statement, expression |
| Pointer and region checker | `src/semantic/pointer.rs`, `region.rs` | live pointer lists, proofs | `prove`, `release`, region order |
| Code generator | `src/codegen/bytecode.rs` | code buffer, flat scope, loop stack, function table | one per statement and expression |
| Bytecode format | `runtime.rs` `encode_program`, `decode_program` | none (a codec) | encode, decode |
| Project, YAML, dependencies | `src/project/` | on-disk git cache | load, parse, clone, check out, mangle |
| Stand-alone scheduler | `src/concurrency/schedule.rs` | queue, two counters, workers | spawn, pop, pending, join |
| Watchdog | `src/watchdog.rs` | restart count | supervise |
| Compile daemon | `src/daemon/` | path -> bytecode cache | GET, PUT, spawn, time out |
| Packaging | `src/packaging.rs`, `src/bin/pssl.rs`, `pssp.rs` | none | pack, unpack |
| Native and LLVM back ends | `src/codegen/native.rs`, `llvm*.rs` | none | emit text, call external tools |
| Command line, bootstrap | `src/cli.rs`, `src/bin/`, `src/bootstrap/` | none | wire the above together |

How they interact. The command line runs lexer, parser, imports, dependency
cache, analyser and code generator in one thread and passes the encoded program to
the VM (directly, through the daemon's cache, or in a child process under the
watchdog). The code generator's output is a contract with the VM: jump offsets,
handler targets, local slots, and which statement leaves how many operands. The VM
calls outside code by `OP_CALL_EXTERN`; one of those builtins is `event_loop`,
which calls back into the *same* VM (`run_callback`) while the VM is in the
middle of an instruction. A call of an `@Auto` or `@Manual` function moves to
another thread and another VM, with a heap of its own, and blocks the caller on a
channel. Processes meet in two places only: the daemon's cache and the directory
of cloned dependencies.

Which behaviours are hard:

* **Abrupt completion.** `throw`, `return`, `break` and `continue` out of any
  nesting of try bodies, catches and finallys, across calls. The VM keeps one
  handler stack and one operand stack for all activations; handlers are tagged
  with a function index, not with an activation.
* **Re-entry.** A callback enters a VM that is suspended in `event_loop`, and
  its `Err` is printed and forgotten.
* **Threads.** A pool shared by nested blocking calls is a classic deadlock; a
  panic ends a worker thread; the caller must get an answer in every case; and a
  reference means nothing in another VM's heap.
* **Agreement of two passes.** The analyser has block scopes, the code
  generator one flat scope per function, and each works out the types and the
  owners of short names on its own.
* **Look-ahead and layout.** Line ends are tokens, every parse function decides where
  it skips them, and `name[` may begin an index or a list of types.
* **Restart and caching.** Watchdog restarts, interrupted clones, a cache that
  outlives the source it was made from.

What makes each component correct, in short: the VM runs a program as the
structured semantics of `docs.md` 5.4 says, and never mixes up activations; a
callback is a call from outside; a scheduled call is a call, whatever thread runs
it; the parser finds what was written; what the analyser accepts compiles, and
the VM does with it what the program means; the pointer checker accepts only paths
that stay in bounds and in region; every file of a program is merged once; the
watchdog restarts exactly after failures and at most as often as configured; the
daemon and the dependency cache never hand out something that is not what was asked for.

`PROJECT.json` lists every component with its status and every hazard with the
line where it bites.

## 2. The modules

### The VM and its exceptions

* `Bytecode` - compiled programs, as the code generator hands them over and the VM takes
  them: instructions, and the conditions `WellFormedProgram`, `Balanced` (instructions find
  their operands) and `TriesClose` (what is ended was begun).
* `VmExceptions` - the control core. One action per opcode. The state is the
  VM's: `fn`, `pc`, `locals` (the fields of the frame object), `stack`,
  `frames`, `handlers`, `tryCounter`, `pending`; what the program does to the
  outside is `out` (what it printed), `asked` (what externs answered), `status`
  and `result`. `base` and the field `act` of a handler are ghosts that name
  the activation; no guard reads them. The Vec of handlers is modelled as a
  set ordered by `(try_id, kind)`: OP_TRY is its only push and pushes in that
  order with a fresh id, and everything else is a `retain`. Opcodes that only
  compute are represented by `PUSH`, `ADD` (which may return `Err`) and `FAIL` (which
  always does); `DataVm` has them. When the program ends with an error the VM is
  dropped, so the model leaves its other variables as they were.
* `Callbacks` - `VmExceptions` with its second entry: `on_key` and `on_click`
  register a handler, an event while the VM is in `event_loop` suspends the
  registers, enters the handler as `run()` enters `main`, and restores the registers when
  it ends, is uncaught or fails. What `Suspended` does not hold (the handler stack, the
  counter) stays as the callback leaves it. `CallbacksApart` is what the theorems ask of
  programs; the like of it for `VmExceptions` is at the end of that module.
* `TrySyntax`, `TryCompiler` - syntax trees, and the code generator for statements and
  calls, as a function from a tree to bytecode, with the flat scope, the patching of jumps
  and the layout of try/catch/finally. It is what makes the programs that
  TLC runs programs the toolchain can really produce.
* `Generator` - the same part of the code generator as a machine, which can be proved
  about: it emits one instruction at a time, with targets that it does not know yet, and
  patches them when they are reached. The calls of `compile_stmt` and `compile_expr` in
  progress are the tasks of `todo`, with the positions that they will patch; `loop_stack` is the
  tasks "step" among them. `code`, `names`, `next` are `self.cur.code`, `scope.vars`, `scope.next`;
  `heights` and `tries` are ghosts: the operands and the open tries at each instruction.
* `ExceptionSemantics` - what `docs.md` 5.4 promises, as a big-step semantics of
  the same syntax: lexical scopes, an exception goes to the nearest enclosing
  catch, a finally runs exactly once on every way out and its own abrupt end
  wins, a callback is a call whose result nobody uses. It is a reference, not a model
  of code.
* `StructuredRun` - the abstract specification: a program prints and asks step by
  step, always on the way to one of the outcomes that the reference
  semantics allows, and ends in one.
* `MCVmExceptions`, `MCCallbacks` - the families of source programs, and the
  refinement `AsPromised`: `Callbacks` implements `StructuredRun`.
* `MCGenerated` - the generator in front of the VM: it compiles a program step by step, and
  then the VM runs.
* `VmExceptions_proofs`, `Callbacks_proofs`, `Generator_proofs` - the theorems.

Jumps are by instruction index instead of byte distance: `CodeBuilder::patch`
and the VM's decoding are inverse to each other for every distance that fits an
`i32`, so the index is what both mean.

### From the syntax tree to the VM

* `Ast` - the syntax tree of `parser/ast.rs`.
* `Pointers` - layouts of structures and the walk along a pointer's path with its
  bounds, region and aliasing checks.
* `Analyzer` - the tables of declarations, the type of every expression, block
  scopes, name resolution in modules, and the annotations the code generator gets.
* `ExprCompiler` - the code generator for everything but exceptions: expressions,
  closures (compiled in the middle of their function, into another buffer), loops, the
  initialiser of the globals, its own `static_type` and `leaves_value`.
* `DataVm` - the data instructions: heap, globals, frames as heap objects, pointers
  as (object, slot), containers, strings, closures, calls, library functions.
* `IsolatedCalls` - `DataVm` with scheduled calls: a VM with a heap of its own per
  call, its arguments as they are, its result copied back object by object, a step per call
  of `materialize` and per return from one (`Deliver`, `CopyPart`, `CopyScalar`,
  `CopyObject`). Since one VM runs at a time (`OneRuns` of `ScheduledCalls`), the others are
  a stack. `PlainArguments` says that no scheduled function is given a reference.
* `Evaluation` - what a program means: a direct evaluation of the tree that knows
  nothing of slots, heaps or scheduling. A reference, from the language description.
* `TypedPrograms`, `MCTyped` - the families of programs; each goes through imports,
  analyser and code generator, and then the VM runs beside the meaning.
* `DataVm_proofs` - the theorems: no reference dangles, whatever the image; code that is
  enclosed and balanced (`Enclosed`, `Balanced` in `DataVm`) keeps to itself; and the same
  of the VMs of `IsolatedCalls`, which run functions in other VMs.

### From the text to the syntax tree

* `Lexer` - `tokenize` as a function of the text, with the lines of the tokens.
* `Parser` - every parse function, as an operator from tokens and a position to a
  node and a position; position 0 is an error.
* `Spelling` - how a tree is written, after `docs.md` 5.2 to 5.6, with parentheses only
  where the precedences ask for them, and three layouts. The reference.
* `MCFrontEnd` - programs and their neighbours, and text -> tokens -> tree in steps.

### Scheduled calls

* `ScheduledCalls` - VMs, pools and worker threads. A VM is its call stack of
  (function, position) pairs; what happens inside one is the subject of the
  modules above. A function makes its calls in order, each scheduled or
  not and inside a try or not, and ends with a value, an exception, an `Err`
  or a panic. `Submit` is `run_scheduled` up to `rx.recv()`, `Receive` is the
  rest; `Take` and `Loop` are the worker's loop; `Event` and `Close` are what
  the window system does while main is in `event_loop`.
* `InlineCalls` - the abstract specification: the same calls on one stack
  without threads.
* `CallRefinement` - the refinement `Implements`: the stacks of the waiting VMs, one upon
  the other, are the stack of `InlineCalls`.
* `MCScheduledCalls` - the programs.
* `ScheduledCalls_proofs`, `CallRefinement_proofs` - the theorems.

### Running a program: command line, daemon, watchdog

* `HostRun` - what `pss` does with a file. Each run is a process (`pc`, `child`,
  `image`, `restarts`, `status`) from the command line to its exit status: it
  refuses its arguments, reads a package, asks the daemon, compiles, warms the
  daemon's cache, executes, or becomes the supervisor of a child that does all
  this again. A supervisor only waits while its child runs, so one `pc` stands
  for both and `child` says which of them it is. The daemon is `daemon`, `cache`
  and `inFlight`, the PUTs that its threads have not handled; it may end at any
  moment. A file is its version number, `source`, and may be edited at any
  moment. `since` and `attempt` are ghosts: what was on disk when the process
  began, and what the program's last attempt really was before `as u8`.
  Timeouts are the choice between `Hit` and `Miss`, which is always open.
* `Supervision` - the abstract specification, from `docs.md` section 9: attempts,
  restarts up to a budget, and an outcome that is that of the last attempt.
* `MCHostRun` - command lines and values for the runs, and `Fresh`.
* `HostRun_proofs` - the theorems.

### What a build is made of

* `Builds` - several processes that compile: each merges the files its imports reach
  (`merge_imports` as an explicit stack of calls), then takes one dependency after the
  other to the cache they share. A clone is begun, finished and checked out in separate
  steps; git may fail at each, another builder may look at the directory between any
  two, and a kill leaves it as it is. `by` and `spoilt` of a clone are ghosts.
* `MCBuilds` - import graphs and dependencies.
* `Builds_proofs` - the theorems.

What composes what: `Callbacks` extends `VmExceptions`; `MCGenerated` puts `Generator` in
front of `VmExceptions`, and both speak of `Bytecode`; `CallRefinement`
puts `ScheduledCalls` beside `InlineCalls`; `IsolatedCalls` extends
`DataVm` and takes its atomicity from `ScheduledCalls`; `MCTyped` puts `TypedPrograms`
(imports, `Analyzer` with `Pointers`, `ExprCompiler`) in front of `IsolatedCalls`;
`MCFrontEnd` puts `Lexer` in front of `Parser`, whose trees are those of `Ast`.

## 3. The runs

Passing runs.

| run | question | programs and bounds |
|---|---|---|
| `vm_structured` | do throw, catch, return, finally and callbacks behave as promised? | 588 programs: throws and catches across three functions, in loops and inside interrupted sums; every body x catch x finally x way out, called under another finally. 264 programs that wait in `event_loop`, in a try, a catch, a finally, a sum, one and two calls deep, with eleven handlers. At most 3 answers and events |
| `vm_any` | can any program break the VM's own invariants or make it spin? | nests of tries with break, continue, recursion, a runtime error in a try; at most 2 answers "true". The code generator compiles about 250 of them step by step - every shape of the called function under one main, every shape of main over one function, for loops and handlers of events - and refuses three sources |
| `typed_programs` | do analyser, code generator and VM agree with what a program means? | 4,500 programs in six families: expressions of two operators over numbers, strings and a global; pairs of statements in a loop; pairs of statements on a structure, a list, a map and pointers; triples of pointer uses; closures and functions as values in imported modules; scheduled functions with results of every kind |
| `front_end` | does the parser find what was written, and nothing else? | some 10,000 programs in three layouts, and 11,000 token sequences that differ from a program in one token |
| `pool_calls` | is a scheduled call a call? | every pair of the schedules single, auto, manual 1 (also from size 0) and 2, in main and in callbacks; tasks and callbacks that panic, on pools that keep a live worker; 2 callbacks |
| `host_run` | are supervised programs restarted as promised, and do they run what is on disk? | two runs of one file, which is a source or a package; four command lines for the one, a plain one for the other; each with or without a watchdog of one restart; three versions, the second of which does not compile |
| `builds` | what is a build made of, and when does it fail? | every import graph of three files with up to two imports each, and a missing file; three builds of one dependency each, or two of up to two, over five dependencies of three keys |

What they show.

* `vm_structured`: `AsPromised` compares complete runs, output and result, with the
  reference semantics; `OwnHandlers` and `CallerHandlersKept` say that an activation
  uses and removes only handlers of its own, and `WaitersHandlersKept` that a callback
  leaves those of the program that waits (none is true of recursion inside a try, see
  below, and they are therefore checked on programs without it); `EndsOrWaits`: every
  callback comes to an end. The assumptions of `MCVmExceptions` and `MCCallbacks` say that
  these programs satisfy what the theorems ask, and that those of `broken_promises` do not.
* `vm_any`: the invariants hold of every program, also of those that the VM runs
  wrongly: handlers belong to live activations, are nested like the call stack, jump into
  their own function's code, and no activation pops an operand of its caller.
  `Termination`: no exception is caught by its own handler for ever, and the code
  generator comes to an end. `GeneratedFits` and `GeneratedCloses` say that what it makes is
  what the theorems about the VM ask of bytecode, and `MakesTheProgram` that it is what
  `TryCompiler` defines, instruction by instruction.
* `typed_programs`: `AcceptedCompiles`, `NoTypeFault`, `InsideFunction` and
  `CallersOperands` are what the analyser and the code generator owe the VM, which checks
  hardly anything; `MeansTheSame` compares output, end and value with the evaluation;
  `NoDangling` that no reference outlives or leaves its heap; `CodeFits` that the images
  satisfy what the theorems of `DataVm_proofs` ask.
* `front_end`: `TokensBack` and `RoundTrip` say that what was written is found, with its
  lines; `Faithful` that of whatever text is accepted no token was lost.
* `pool_calls`: `Served` is the absence of the nested-pool deadlock, and `OneRuns`
  says that the program is sequential in spite of its threads, which is why no lock
  protects what VMs share.
* `builds`: `MergedOnce` and `FailsForFiles` are about files; `FetchedOnce` and
  `NothingElseMisleads` about the cache. The latter is a complete list: a dependency
  that is recorded as resolved is there, at the revision asked for, unless its clone is
  not finished, has failed since, was cut short or found no such revision, or the
  directory was made for another dependency of the same key. All four happen.

Bounds and why they suffice. A group of handlers interacts with at most the
group around it and the groups of its caller, so two levels of nesting in each
of two activations, plus a recursive call, contain every pair of group
operations. Loops run at most `MaxAnswers` times more than their first test:
one repetition shows what a stale handler does to the next round. Three events are
one callback, one that finds what it left, and one more. Passes disagree in pairs of
forms (a form inside another, a statement behind another), so the families are
products of two; three where a pointer, a store and a read are needed. With pools,
a deadlock needs a caller that holds a worker while its task is queued in the
same pool: pools of size 1 and two nested levels are enough to have it, and
the proof covers the rest. Runs meet only in the daemon, and what a run can do to
another there is to leave it a version: a second run that compiles and warms is
enough, and three versions are what an old snapshot, a broken and a repaired file
need. One restart shows the bound from both sides, and the proof covers all
budgets. Builders meet in one directory at a time: one that clones, one that finds
it, one that comes later. `Int` values stand for data that no property tells
apart; their width matters nowhere here because the programs do not overflow.

Violation runs, one per component, for disagreements between the code and what its
documentation or comments say of it (details and quotes in `PROJECT.json`,
"findings"). TLC stops at the first; every program of a family breaks its property on
its own.

| run | what happens |
|---|---|
| `broken_promises` | `break` leaves a try by a bare jump: its finally is skipped and its handlers stay; FINALLY_END after a normal exit pops the enclosing finally, of the same function or of a caller; a `return` that an exception replaced comes back at the next finally; a `return` in a finally, after a completed catch, runs the finally twice; a throw in a recursive function runs an older activation's handler; functions of one short name in two modules share handlers; operands of an interrupted expression reach the caller; a nested catch of the same name captures the outer variable; a callback that calls the waiting function takes its handlers away; a callback that fails leaves its handlers to the next |
| `broken_calls` | an exception does not cross a scheduled call to the caller's catch; after as many panics as a pool has workers, the next call never returns |
| `broken_host` | a run after an edit gets the bytecode that the daemon got before it; a supervised program whose main returns 256 is a success |
| `documented` | the value of a block expression is lost; closure parameters without types are rejected; a short name of two modules is taken for the other's, for types and for schedules; `xs[i] = v` leaves an operand; the globals of an imported file are dropped; in an `@Auto` function a pointer argument dangles and every global is null; a result that contains itself is copied for ever |
| `shown` | five pieces of source that the description shows are rejected or read as something else |

Disagreements without a run. The comment on `spawn_supervised` says that
it preserves the program's arguments, but the child is started as `pss run`,
which refuses those that begin with a dash: `pss <file> -x` works without a
watchdog and uses up its restarts with one. `docs.md` section 7 promises a fixed pool of N
threads for `@Manual(fixed=N)`, but every isolated VM makes its own pools, whose
threads never end, so nested scheduled calls have N threads per level and call.
`docs.md` section 8 says that the modules of a dependency are merged into the program;
the code only records where it was cloned.

## 4. Fairness and deadlock

`VmExceptions` is one thread: weak fairness of `Next` says that the VM goes on
executing. `Callbacks` adds weak fairness of `Register` and `CallbackDone`, which are
code of the same thread; `Event` and `Close` are not fair: nobody has to press a key or
close a window. `ScheduledCalls` assumes weak fairness of "some VM thread can step"
and of "some worker can step". The operating system is fair to each thread; by
`OneRuns` at most one VM can step, and by `Served` an idle worker exists, so the
weaker assumption gives the same runs. `HostRun` assumes weak fairness of each run's
process: the operating system schedules it, its waits have timeouts, and the
program it executes is taken to end (a supervisor waits for ever for one that does not, and
rightly so). The daemon is not fair at all: no run depends on it. `Builds` assumes
weak fairness of each builder's steps: its git ends, having no terminal to ask on; a kill
need not happen.

Deadlock checking is on in `vm_structured`, `vm_any`, `pool_calls` and
`broken_promises`. It is off in the runs of `HostRun` and `Builds`, which stop when all
processes are done, in those of `MCTyped` and `MCFrontEnd`, which stop when a program
has ended, and in `broken_calls`, where a program does stop inside `recv()` and
`Implements` says what must not happen.

## 5. What is proved

All theorems hold for every value of the constants that satisfies the named
assumptions. Where a theorem asks more of programs than a module's `ASSUME` does, the
condition is a definition of its own, and TLC checks it of the programs it runs
(in the last column) and, where something is broken, that the broken ones fail it.

| condition | says | is needed because | checked |
|---|---|---|---|
| `UniqueNames` | no two functions share a short name | handlers name their function by the last one of its short name | `CompiledCodeFits`, `CallbackProgramsFit` |
| `NoTryReentered` | no function with a try calls itself, directly or not | a handler is tagged with a function, not with an activation | `StructuredProgramsNest` |
| `TriesClose` | on every static path a function has begun the try blocks it ends, and no try with a finally is inside another that has one | ENDTRY and FINALLY_END take the topmost group, whoever's it is; `break` out of a try is what violates it | `StructuredTriesClose`; proved: `GeneratedForTheVM` |
| `CallbacksApart` | no function with a try runs both in callbacks and in what waits for them, and no callback fails inside a try of its own | the two run on one handler stack | `CallbackProgramsFit`, `BrokenCallbacksDoNotFit` |
| `Balanced` | every instruction finds its operands, on every static path | the VM never compares the operand stack with the height at entry | `CompiledCodeFits`, `CodeFits`; proved: `GeneratedForTheVM` |
| `Enclosed` | slots and jumps are the function's own, its end is not run over | the VM checks neither | `CodeFits` |
| `PlainArguments` | no scheduled function is given a reference | arguments are moved into the other VM as they are, where an index leads to another object or none; `documented` has such calls | `CodeFits` |
| `TriesStayInside` | nothing that is called inside a try is scheduled | an exception does not cross `recv()` | `TriesAreInside` |
| `ReturnsFit` | main returns no value but zero whose low byte is zero | `as u8` | `broken_host` drops it |

`Generator_proofs`, from `SourcesAssumption` (sources are syntax trees), for every program:
`GenInvAlways`, the inductive invariant; `GeneratedFitsAlways` (`GeneratedFits`): what is compiled
is well-formed and balanced; `GeneratedClosesAlways` (`GeneratedCloses`): a function with no
finally inside of another closes its tries; and `GeneratedForTheVM`, the two in the words
of `VmExceptions`. Together with `StackFloorProved` this says of any program of these
statements whose functions have distinct names that, however it is nested and whatever is
thrown, no activation pops an operand of its caller. What a recursive compiler makes of every tree would need an induction over trees,
which the provers cannot do; what a machine makes needs an invariant. It is about the tasks:
each begins with as many operands and open tries as the one in front of it leaves (`Lined`),
and knows of the positions that it will patch that they are jumps, or a TRY, of at least as
many open tries as there will be at the target (`TaskOK`). A jump that is not patched yet
goes to the first instruction, where nothing can be wrong, so `CodeOK` holds of the code at
every moment. A lemma per way to go on (an instruction and its successor, a plan of one,
two or three tasks, a patch) serves all the statements.

`VmExceptions_proofs`, from `ProgramsAssumption` (every program is well-formed
bytecode: operands in range, the last instruction of a function is RETURN_VOID)
and `UniqueNames`: `TypeCorrect`, `HandlersAreLive`, `TargetsAreInCode`,
`GroupsStayGroups`, `HandlersAreNested`. The first alone is not inductive: that `pc`
stays inside the code of the current function when an exception is raised needs the target of
the handler to be in that function's code, which needs the handler to
belong to a live activation of it, which needs removal by `try_id` to remove
only inner groups, which is the nesting. So the inductive invariant is
the conjunction, and the proof has a lemma per kind of step: straight-line,
call, return (three ways out), raise (two kinds of handler, any activation),
try, end of try, end of finally. On it rest

* `OwnHandlersProved`, with `NoTryReentered`: the invariant adds that the functions of the
  call stack are related, caller to callee, by a transitive relation in which no function
  with a try is related to itself, so that a handler of the current function can only be
  the current activation's;
* `StackFloorProved`, with `Balanced`: each activation has at least as many
  operands above its `base` as its code needs at this instruction, a waiting one as it needs
  at the instruction behind the call, and a handler's target asks for none. It is an
  inequality because an exception leaves operands behind;
* `CallerHandlersKeptProved`, an action property, with `NoTryReentered` and `TriesClose`: an
  activation owns at least as many live groups as its code has tries open at this
  instruction, so that the topmost group at an ENDTRY is its own.

`Callbacks_proofs`, with `UniqueNames`, `TriesClose` and `CallbacksApart`:
`CallbacksTypeCorrect`, `CallbacksOwnHandlers`, `CallbacksKeepWaiters`,
`CallbacksKeepCallers`. With callbacks the handler stack may hold handlers that belong to
no live activation, left by callbacks that failed, and under them those of the program that
waits. The proof uses the theorems of the VM twice: an instance whose handlers are those
of the current activation stack (`Own`), and one that is the suspended program
(`Waiter`). A step of `Callbacks` is a step of the first and leaves the second as it is,
because what a step finds by function or on top is never a stranger's; that is what
`CallbacksApart` is for. Entering a callback is `Init` of the first instance, and the
end of one gives the second back.

`DataVm_proofs`: `References_never_dangle`, from nothing, for every image in the
sense of `Image`, whatever its code does. `NoDangling` is not inductive, since a step
that reads a slot has to find a value there; `IInv` says with one set, `Values(n)`, what
can be a value when the heap has `n` objects, and the heap of a VM only grows.
`StaysInside` (`InsideFunction`) with `Enclosed`, and `OperandsAreOwn` (`CallersOperands`)
with `Balanced` too: the invariant is that of `StackFloorProved`, without exceptions and with closures
and the globals' initialiser.

For `IsolatedCalls`, in the same module: `IsolatedReferences` (`NoDangling`) with `PlainArguments`,
`IsolatedStaysInside` (`InsideFunction`) with `Enclosed` too, `IsolatedOperandsAreOwn`
(`CallersOperands`) with `Balanced` too, for any number of VMs that wait for each other. The
invariants are those of `DataVm` for the VM that runs, the same for every VM that
waits, which has executed its call but for the value, and for `materialize`: each call of it
under way has a value of the heap that is copied from, and parts that are values of the heap
that is copied to. That heap only grows, so parts that were copied stay values; and the
copy of an object is an object because `materialize` has exactly as many parts as the
original when it makes one. Without `PlainArguments` the first frame of the other VM would
hold indices of the wrong heap, and none of this would hold.

`ScheduledCalls_proofs`, from `SchedulingAssumption`: `TypeCorrect` and
`OneVmRuns` for all programs. `SurvivorsAreFree`, for all programs too: where a task is
queued, every worker of the pool that no panic has killed is free. So `Served` holds of
every behaviour in which a pool that is used again has kept a worker
(`TasksAreServedBySurvivors`), and always if no function panics (`TasksAreServed`). The
argument: only the newest VM is ever queued; every busy
worker that is not about to become free runs a VM that waits; each pool belongs
to one VM, which waits for one task at a time; so a pool never holds two
unfinished tasks, and one worker is enough. This is also why
one pool map per VM is right, and the model's mutant with one map for all VMs deadlocks.

`CallRefinement_proofs`, with `TriesStayInside`: `RunsInPlace`, that every step of VMs,
pools and workers is a step of `InlineCalls` or a stutter - the safety part of
`Implements`, also where tasks panic. The invariant adds to `OneRuns` that the VMs form a chain,
each waiting for the next, that a guarded call is only found within the part
of a stack that belongs to one VM, and which of them has failed; `Stacks` is a recursive
function whose equations are proved first, by the least counterexample.

`HostRun_proofs`, from `HostAssumption`, for any number of runs, any command lines
and any budgets: `TypeCorrect`; `FreshBytecode`, by the invariant that a version on disk never
goes back (`Begun`) and that whoever is at the daemon may be there (`AtDaemon`);
and `SupervisionSafe`, that every step is a step of `Supervision` or a stutter,
with `ReturnsFit`. Its invariant says
who runs the program (`Roles`: with a watchdog only a child does, and no child has
children), what a status means (`Statuses`) and how far the count has got
(`Budgets`); a lemma per kind of exit then names the abstract step.

`Builds_proofs`, from `BuildsAssumption`, for any import graph and any number of builds,
dependencies and revisions: `TypeCorrect`; `FetchedOnceProved`; `FailsForFilesProved`;
`MergedOnceProved`; `NothingElseMisleadsProved`. `MergedOnce` is about a finished build; its
invariant is that of a depth-first search with an explicit stack: what has been visited is
in one of the disjoint pieces that the calls hold, and every import of a visited file is visited
or still before a call on the stack, so that at the end what is merged is closed under
imports; reachability is the least closed set, and needs no induction.
`FetchedOnce` rests on `Owner`, that only the maker of a directory is in the middle of a clone
there, and `NothingElseMisleads` on who made each clone and how far they have got.

Only model-checked:

* `AsPromised` and `MeansTheSame`: the reference semantics are recursive over syntax trees;
* `AcceptedCompiles`, `NoTypeFault`, `TokensBack`, `RoundTrip`, `Faithful`: they speak of
  `Analyzer`, `ExprCompiler`, `Lexer` and `Parser`, recursive operators over data, which the
  prover can neither load nor induct over. For the same reason that the code of
  `ExprCompiler` satisfies the conditions above (`CodeFits`) is checked of the programs that
  run, and `MakesTheProgram`, that the proved machine makes the code of `TryCompiler`;
* `Termination`, `EndsOrWaits`, `EveryBuildEnds` and the fairness part of `Implements` (of both
  refinements): liveness.


## 6. Plan

Written, in this order: `TryCompiler`, `VmExceptions`, its proofs;
`ScheduledCalls`, its proofs; `HostRun`, its proofs; `Ast`, `Pointers`, `Analyzer`,
`ExprCompiler`, `DataVm`, `Evaluation`, the proof about `DataVm`; `Lexer`, `Parser`,
`Spelling`; `Callbacks`; `Builds`; `IsolatedCalls`; then proofs: `Builds`, the handlers and
operands of `VmExceptions` and `DataVm`, `CallRefinement`, `Callbacks`, `IsolatedCalls`, `Generator`.
What is left, most important first:

1. `ExprCompiler` as a machine like `Generator`, for the proof of `CodeFits`.
2. The handler invariants without `UniqueNames` where they still hold; the Vec of
   handlers refines the set of `VmExceptions`.
3. `TaskScheduler`: `schedule.rs` with its two counters; when does `join` return?
4. Generic functions and trait objects in `Analyzer` and `ExprCompiler`.
5. Pure algorithms: the YAML subset, the program codec, the package container.


## 7. Not modelled

Text generation for C, LLVM and Zig, window drawing, platform calls and FFI
layouts: they are I/O without state of their own. The YAML subset, the program codec and
the package container: pure functions, planned. `schedule.rs`: no other code uses it.

Left out inside modelled parts: floats and the order of strings; overflow of `i64`
arithmetic and of the 32-bit `try_counter` (the former panics or wraps depending on the
build profile and touches no control state, the latter needs 2^32 tries in one VM);
generics and traits in analyser and code generator; columns of tokens, and lines inside
`${}` and `\u{}`; the bounds of a structure's type parameters, which the parser drops; an
`event_loop` inside a callback; an import whose root is not a file (`pss -c`), which is not
marked as visited; how a dependency's specification is taken apart.
