---------------------------- MODULE Builds_proofs ----------------------------
(***************************************************************************)
(* Proofs about Builds, for every import graph, every number of builders   *)
(* and every set of dependencies: the safety properties that builds.cfg    *)
(* checks on small ones.                                                   *)
(*                                                                         *)
(* Two invariants carry them.  Who is in the middle of a clone owns its    *)
(* directory (Owner), so builders that meet there never undo each other's  *)
(* steps.  And merge_imports is a depth-first search: what is still to be  *)
(* visited is behind `next` of a file that is on the stack (Opened).       *)
(***************************************************************************)
EXTENDS Builds, SequenceTheorems, TLAPS

Busy(b) == at[b] \in {"fetching", "checking"}

\* Who clones or checks out does so in a directory of its own making.
Owner(b) ==
  Busy(b) => /\ HasDep(b) /\ Dir(b) # <<>>
             /\ Dir(b)[1].by = b /\ Dir(b)[1].url = Dep(b).url
             /\ at[b] = "fetching" => Dir(b)[1].head = None

\* The calls of merge_imports, while it runs.
Calls(b) ==
  /\ at[b] = "merging" => stack[b] # <<>>
  /\ \A d \in 1..Len(stack[b]) : stack[b][d].next # 0

TypeInv == TypeOK /\ \A b \in Builders : Owner(b) /\ Calls(b)

-----------------------------------------------------------------------------
(* Files: of builder b that is at w, s its calls, v what it has visited and  *)
(* p its program                                                             *)

Imports(f, g) == \E i \in DOMAIN ImportsOf(f) : ImportsOf(f)[i] = g

\* What was visited is of the program and can be parsed.
Visited(b, w, v) ==
  /\ v \subseteq Reached(given.root[b]) /\ v \cap given.broken = {}
  /\ w \notin {"begin", "failed"} => given.root[b] \in v

\* What is still to be visited is an import of a file that is being merged.
Opened(s, v) ==
  \A f \in v : \A i \in DOMAIN ImportsOf(f) :
    \/ ImportsOf(f)[i] \in v
    \/ \E d \in 1..Len(s) : s[d].file = f /\ i >= s[d].next

\* A piece of the program: one file and files it has pulled in, none twice.
Piece(f, p) ==
  /\ p # <<>> /\ p[1] = f /\ Once(p)
  /\ \A i \in 2..Len(p) : \E j \in 1 .. i - 1 : Imports(p[j], p[i])

ElementsOf(p) == {p[i] : i \in 1..Len(p)}

\* The calls of merge_imports hold pieces that have no file in common.
Pieces(s, v) ==
  /\ \A d \in 1..Len(s) : Piece(s[d].file, s[d].decls)
  /\ \A d \in 1 .. Len(s) - 1 : Imports(s[d].file, s[d + 1].file)
  /\ \A d, e \in 1..Len(s) : d # e => ElementsOf(s[d].decls) \cap ElementsOf(s[e].decls) = {}
  /\ \A f \in v : \E d \in 1..Len(s) : f \in ElementsOf(s[d].decls)
  /\ \A d \in 1..Len(s) : ElementsOf(s[d].decls) \subseteq v

\* The program is made of what the calls held, when the last of them ends.
Stage(w, s, v, p) ==
  /\ w = "begin" => v = {}
  /\ w \in {"begin", "merging", "failed"} => p = <<>>
  /\ w = "merging" => Pieces(s, v)
  /\ w \in {"resolving", "cloning", "fetching", "checking", "built"} => p # <<>>
  /\ p # <<>> => s = <<>> /\ Piece(p[1], p) /\ v = ElementsOf(p)

\* A build fails for a file that it needs.
Fails(b, w) ==
  /\ w = "failed" => Reached(given.root[b]) \cap given.broken # {}
  /\ w = "built" => Reached(given.root[b]) \cap given.broken = {}

FileState(b, w, s, v, p) ==
  Visited(b, w, v) /\ Opened(s, v) /\ Stage(w, s, v, p) /\ Fails(b, w)

FilesInv ==
  TypeInv /\ \A b \in Builders : FileState(b, at[b], stack[b], visited[b], program[b])

-----------------------------------------------------------------------------
(* The cache *)

\* Clone c is what builder e makes of one of its dependencies of key k.
MadeFor(e, k, c) ==
  \E j \in 1..Len(Deps(e)) :
    /\ Deps(e)[j].key = k /\ c.url = Deps(e)[j].url
    /\ c.spoilt \/ c.head = Asked(Deps(e)[j])

Made ==
  \A k \in Keys : cache[k] # <<>> =>
    LET c == cache[k][1] IN
    (Busy(c.by) /\ Dep(c.by).key = k) \/ MadeFor(c.by, k, c)

\* Another builder than b may have removed the directory.
TakenAway(b, k) ==
  \E e \in Builders \ {b} :
    \/ at[e] = "killed"
    \/ \E j \in 1..Len(found[e]) : Deps(e)[j].key = k /\ found[e][j] = "unresolved"

Lost ==
  \A b \in Builders : \A i \in 1..Len(found[b]) :
    found[b][i] = "resolved" =>
      LET k == Deps(b)[i].key IN
      cache[k] = <<>> \/ (at[b] = "fetching" /\ Dep(b).key = k) => TakenAway(b, k)

\* What was recorded was recorded of a dependency.
Recorded == \A b \in Builders : Len(found[b]) <= Len(Deps(b))

CacheInv == TypeInv /\ Made /\ Lost /\ Recorded

-----------------------------------------------------------------------------
(* Facts about the constants and the variables *)

\* What a builder is given fits its type.
LEMMA GivenFacts ==
  ASSUME TypeOK, NEW b \in Builders
  PROVE  /\ given.root[b] \in Files /\ Deps(b) \in Seq(Dependency)
         /\ Len(Deps(b)) \in Nat
         /\ \A f \in Files : ImportsOf(f) \in Seq(Files)
         /\ \A f \in Files : DOMAIN ImportsOf(f) = 1..Len(ImportsOf(f))
         /\ \A f \in Files : Len(ImportsOf(f)) \in Nat
<1>1. /\ given.root \in [Builders -> Files] /\ given.deps \in [Builders -> Seq(Dependency)]
      /\ given.imports \in [Files -> Seq(Files)]
  BY DEF TypeOK, Surrounding
<1>2. Deps(b) \in Seq(Dependency) /\ \A f \in Files : ImportsOf(f) \in Seq(Files)
  BY <1>1 DEF Deps, ImportsOf
<1>3. QED
  BY <1>1, <1>2, LenProperties

\* The dependency at hand is one of the builder's.
LEMMA DepFacts ==
  ASSUME TypeOK, NEW b \in Builders, HasDep(b)
  PROVE  /\ Len(found[b]) \in Nat /\ Len(found[b]) + 1 \in 1..Len(Deps(b))
         /\ Dep(b) \in Dependency /\ Dep(b).key \in Keys
<1>1. found[b] \in Seq({"resolved", "unresolved"})
  BY DEF TypeOK
<1>2. Len(found[b]) \in Nat /\ Len(Deps(b)) \in Nat /\ Deps(b) \in Seq(Dependency)
  BY <1>1, LenProperties, GivenFacts
<1>3. Len(found[b]) + 1 \in 1..Len(Deps(b))
  BY <1>2 DEF HasDep
<1>4. Dep(b) \in Dependency
  BY <1>2, <1>3, ElementOfSeq DEF Dep
<1>5. QED
  BY <1>2, <1>3, <1>4 DEF Dependency

\* The directories of the cache: absent, or with a clone.
Dirs == {<<>>} \cup {<<c>> : c \in Clones}

LEMMA CacheType ==
  ASSUME TypeOK
  PROVE  cache \in [Keys -> Dirs]
BY DEF TypeOK, Dirs

\* A directory that is there holds a clone.
LEMMA DirFacts ==
  ASSUME TypeOK, NEW k \in Keys, cache[k] # <<>>
  PROVE  cache[k][1] \in Clones /\ cache[k] = <<cache[k][1]>>
<1>1. cache[k] \in Dirs
  BY CacheType
<1>2. PICK c \in Clones : cache[k] = <<c>>
  BY <1>1 DEF Dirs
<1>3. QED
  BY <1>2

\* The running call of merge_imports.
LEMMA TopFacts ==
  ASSUME TypeInv, NEW b \in Builders, at[b] = "merging"
  PROVE  /\ stack[b] \in Seq(Frames) /\ Len(stack[b]) \in Nat \ {0}
         /\ Top(b) \in Frames /\ Top(b).file \in Files /\ Top(b).next \in Nat
         /\ Top(b).decls \in Seq(Files)
<1>1. stack[b] \in Seq(Frames) /\ stack[b] # <<>>
  BY DEF TypeInv, TypeOK, Calls
<1>2. Len(stack[b]) \in Nat \ {0}
  BY <1>1, LenProperties, EmptySeq
<1>3. Top(b) \in Frames
  BY <1>1, <1>2, ElementOfSeq DEF Top
<1>4. QED
  BY <1>1, <1>2, <1>3 DEF Frames

\* The calls below the running one.
LEMMA CallerFacts ==
  ASSUME TypeInv, NEW b \in Builders, at[b] = "merging"
  PROVE  /\ Caller(b) \in Seq(Frames) /\ Len(Caller(b)) = Len(stack[b]) - 1
         /\ Len(Caller(b)) \in Nat
         /\ \A d \in 1 .. Len(stack[b]) - 1 : Caller(b)[d] = stack[b][d]
<1>1. stack[b] \in Seq(Frames) /\ Len(stack[b]) \in Nat \ {0}
  BY TopFacts
<1>2. \A d \in 1 .. Len(stack[b]) - 1 : stack[b][d] \in Frames
  BY <1>1, ElementOfSeq
<1>3. Len(stack[b]) - 1 \in Int /\ 1 <= Len(stack[b])
  BY <1>1
<1>4. QED
  BY <1>1, <1>2, <1>3, SubSeqProperties DEF Caller

\* The running call, gone on to its next import.
LEMMA AtNextFacts ==
  ASSUME TypeInv, NEW b \in Builders, at[b] = "merging"
  PROVE  /\ AtNext(b) \in Seq(Frames) /\ Len(AtNext(b)) = Len(stack[b])
         /\ AtNext(b) # <<>>
         /\ \A d \in 1 .. Len(stack[b]) - 1 : AtNext(b)[d] = stack[b][d]
         /\ AtNext(b)[Len(stack[b])] = [Top(b) EXCEPT !.next = @ + 1]
<1> DEFINE x == [Top(b) EXCEPT !.next = @ + 1]
<1>1. x \in Frames
  BY TopFacts DEF Frames
<1>2. /\ Caller(b) \in Seq(Frames) /\ Len(Caller(b)) = Len(stack[b]) - 1
      /\ Len(stack[b]) \in Nat \ {0}
      /\ \A d \in 1 .. Len(stack[b]) - 1 : Caller(b)[d] = stack[b][d]
  BY CallerFacts, TopFacts
<1>3. AtNext(b) = Append(Caller(b), x)
  BY DEF AtNext
<1> HIDE DEF x
<1>4. /\ AtNext(b) \in Seq(Frames) /\ AtNext(b) # <<>>
      /\ Len(AtNext(b)) = Len(Caller(b)) + 1
      /\ \A d \in 1..Len(Caller(b)) : AtNext(b)[d] = Caller(b)[d]
      /\ AtNext(b)[Len(Caller(b)) + 1] = x
  BY <1>1, <1>2, <1>3, AppendProperties
<1>5. QED
  BY <1>2, <1>4 DEF x

\* The next import of the running call is a file, one of its imports.
LEMMA NextImportFacts ==
  ASSUME TypeInv, NEW b \in Builders, HasImport(b)
  PROVE  /\ Top(b).next \in DOMAIN ImportsOf(Top(b).file)
         /\ NextImport(b) \in Files
<1>1. /\ stack[b] \in Seq(Frames) /\ Len(stack[b]) \in Nat \ {0}
      /\ Top(b).file \in Files /\ Top(b).next \in Nat
  BY TopFacts DEF HasImport
<1>2. Top(b).next # 0
  BY <1>1 DEF TypeInv, Calls, Top
<1>3. /\ ImportsOf(Top(b).file) \in Seq(Files)
      /\ DOMAIN ImportsOf(Top(b).file) = 1..Len(ImportsOf(Top(b).file))
      /\ Len(ImportsOf(Top(b).file)) \in Nat
  BY <1>1, GivenFacts DEF TypeInv
<1>4. Top(b).next \in DOMAIN ImportsOf(Top(b).file)
  BY <1>1, <1>2, <1>3 DEF HasImport
<1>5. QED
  BY <1>3, <1>4, ElementOfSeq DEF NextImport

-----------------------------------------------------------------------------
(* Types, and who owns a directory *)

\* A step of builder b changes no other builder's state.
Alone(b) ==
  /\ given' = given
  /\ \A e \in Builders \ {b} :
       /\ at'[e] = at[e] /\ found'[e] = found[e] /\ stack'[e] = stack[e]
       /\ visited'[e] = visited[e] /\ program'[e] = program[e]

\* It changes at most the directory it is about, and that one only if it is
\* not there or its own.
OwnDir(b) ==
  \/ cache' = cache
  \/ HasDep(b) /\ (Dir(b) = <<>> \/ Busy(b)) /\ \E dir \in Dirs : Sets(b, dir)

\* Nobody else loses the directory he works in.
LEMMA OthersOwn ==
  ASSUME TypeInv, NEW b \in Builders, Alone(b), OwnDir(b), NEW e \in Builders \ {b}
  PROVE  /\ Owner(e)' /\ Calls(e)'
         /\ Busy(e)' => (HasDep(e) /\ Dir(e) # <<>>)'
<1>1. /\ given' = given /\ at'[e] = at[e] /\ found'[e] = found[e]
      /\ stack'[e] = stack[e]
  BY DEF Alone
<1>2. /\ Busy(e)' = Busy(e) /\ HasDep(e)' = HasDep(e) /\ Dep(e)' = Dep(e)
  BY <1>1 DEF Busy, HasDep, Resolving, Dep, Deps
<1>3. Busy(e) => Dir(e)' = Dir(e)
  <2>1. SUFFICES ASSUME Busy(e) PROVE Dir(e)' = Dir(e)
    OBVIOUS
  <2>2. CASE cache' = cache
    BY <1>2, <2>2 DEF Dir
  <2>3. CASE HasDep(b) /\ (Dir(b) = <<>> \/ Busy(b)) /\ \E dir \in Dirs : Sets(b, dir)
    <3>1. PICK dir \in Dirs : cache' = [cache EXCEPT ![Dep(b).key] = dir]
      BY <2>3 DEF Sets
    <3>2. Dir(e) # <<>> /\ Dir(e)[1].by = e /\ (Busy(b) => Dir(b)[1].by = b)
      BY <2>1 DEF TypeInv, Owner
    <3>3. Dep(e).key # Dep(b).key
      BY <2>3, <3>2 DEF Dir
    <3>4. QED
      BY <1>2, <3>1, <3>3 DEF Dir
  <2>4. QED
    BY <2>2, <2>3 DEF OwnDir
<1>4. Owner(e) /\ Calls(e)
  BY DEF TypeInv
<1>5. Calls(e)'
  BY <1>1, <1>4 DEF Calls
<1>6. Owner(e)'
  BY <1>1, <1>2, <1>3, <1>4 DEF Owner
<1>7. QED
  BY <1>5, <1>6 DEF Owner

\* Every variable has its type, whoever owns what.
Typed ==
  /\ given \in Surrounding
  /\ at \in [Builders -> Places \cup Ended]
  /\ stack \in [Builders -> Seq(Frames)]
  /\ visited \in [Builders -> SUBSET Files]
  /\ program \in [Builders -> Seq(Files)]
  /\ found \in [Builders -> Seq({"resolved", "unresolved"})]
  /\ cache \in [Keys -> Dirs]

\* TypeInv is that, and what each builder owns and calls.
LEMMA TypeParts ==
  /\ TypeInv <=> (Typed /\ \A b \in Builders : Owner(b) /\ Calls(b))
  /\ TypeInv' <=> (Typed' /\ \A b \in Builders : Owner(b)' /\ Calls(b)')
BY DEF TypeInv, TypeOK, Typed, Dirs, Owner, Busy

\* What a step of builder b has to keep.
LEMMA StepKeepsTypes ==
  ASSUME TypeInv, NEW b \in Builders, Alone(b), OwnDir(b), Typed', Owner(b)', Calls(b)'
  PROVE  TypeInv'
<1>1. \A e \in Builders \ {b} : Owner(e)' /\ Calls(e)'
  BY OthersOwn
<1>2. QED
  BY <1>1, TypeParts

\* A step of merge_imports: the directories and what was found stay.
MergeStep(b) ==
  /\ at[b] \in {"begin", "merging"}
  /\ \E w \in {"begin", "merging", "failed", "resolving"} : at' = [at EXCEPT ![b] = w]
  /\ \E s \in Seq(Frames) :
       /\ stack' = [stack EXCEPT ![b] = s]
       /\ at'[b] = "merging" => s # <<>>
       /\ \A d \in 1..Len(s) : s[d].next # 0
  /\ \E v \in SUBSET Files : visited' = [visited EXCEPT ![b] = v]
  /\ \E p \in Seq(Files) : program' = [program EXCEPT ![b] = p]
  /\ UNCHANGED <<given, found, cache>>

\* Such a step keeps the types and who owns what.
LEMMA MergeStepKeeps ==
  ASSUME TypeInv, NEW b \in Builders, MergeStep(b)
  PROVE  TypeInv' /\ Alone(b)
<1>1. Typed
  BY TypeParts
<1>2. Typed' /\ Alone(b)
  <2>1. at' \in [Builders -> Places \cup Ended]
    BY <1>1 DEF MergeStep, Typed, Places, Ended
  <2>2. stack' \in [Builders -> Seq(Frames)]
    BY <1>1 DEF MergeStep, Typed
  <2>3. visited' \in [Builders -> SUBSET Files]
    BY <1>1 DEF MergeStep, Typed
  <2>4. program' \in [Builders -> Seq(Files)]
    BY <1>1 DEF MergeStep, Typed
  <2>5. QED
    BY <1>1, <2>1, <2>2, <2>3, <2>4 DEF MergeStep, Typed, Alone
<1>3. OwnDir(b)
  BY DEF OwnDir, MergeStep
<1>4. Owner(b)' /\ Calls(b)'
  BY <1>1 DEF MergeStep, Typed, Owner, Busy, Calls
<1>5. QED
  BY <1>2, <1>3, <1>4, StepKeepsTypes

\* A frame for a file is a frame, alone or on a stack of calls.
LEMMA FrameType ==
  ASSUME NEW f \in Files
  PROVE  Frame(f) \in Frames /\ Frame(f).next = 1 /\ <<Frame(f)>> \in Seq(Frames)
<1>1. <<f>> \in Seq(Files)
  OBVIOUS
<1>2. Frame(f) \in Frames
  BY <1>1 DEF Frame, Frames
<1>3. QED
  BY <1>2 DEF Frame

\* Begin, and a file that cannot be imported, are such steps.
LEMMA BeginStep ==
  ASSUME TypeInv, NEW b \in Builders, Begin(b) \/ CannotImport(b)
  PROVE  MergeStep(b)
<1>1. /\ stack[b] \in Seq(Frames) /\ visited[b] \in SUBSET Files /\ program[b] \in Seq(Files)
      /\ stack = [stack EXCEPT ![b] = stack[b]]
      /\ visited = [visited EXCEPT ![b] = visited[b]]
      /\ program = [program EXCEPT ![b] = program[b]]
      /\ \A d \in 1..Len(stack[b]) : stack[b][d].next # 0
      /\ at \in [Builders -> Places \cup Ended] /\ given.root[b] \in Files
  BY GivenFacts DEF TypeInv, TypeOK, Calls
<1>2. CASE CannotImport(b)
  <2>1. at[b] = "merging" /\ at' = [at EXCEPT ![b] = "failed"]
        /\ stack' = stack /\ visited' = visited /\ program' = program
        /\ UNCHANGED <<given, found, cache>>
    BY <1>2 DEF CannotImport, HasImport, Goes, merging
  <2>2. QED
    BY <1>1, <2>1 DEF MergeStep
<1>3. CASE Begin(b) /\ given.root[b] \in given.broken
  <2>1. /\ at[b] = "begin" /\ at' = [at EXCEPT ![b] = "failed"]
        /\ stack' = stack /\ visited' = visited /\ program' = program
        /\ UNCHANGED <<given, found, cache>>
    BY <1>3 DEF Begin, Goes
  <2>2. QED
    BY <1>1, <2>1 DEF MergeStep
<1>4. CASE Begin(b) /\ given.root[b] \notin given.broken
  <2>1. /\ at[b] = "begin" /\ at' = [at EXCEPT ![b] = "merging"]
        /\ stack' = [stack EXCEPT ![b] = <<Frame(given.root[b])>>]
        /\ visited' = [visited EXCEPT ![b] = {given.root[b]}] /\ program' = program
        /\ UNCHANGED <<given, found, cache>>
    BY <1>4 DEF Begin, Goes, VisitRoot
  <2>2. /\ <<Frame(given.root[b])>> \in Seq(Frames) /\ <<Frame(given.root[b])>> # <<>>
        /\ \A d \in 1..Len(<<Frame(given.root[b])>>) : <<Frame(given.root[b])>>[d].next # 0
    BY <1>1, FrameType
  <2>3. QED
    BY <1>1, <2>1, <2>2 DEF MergeStep
<1>5. QED
  BY <1>2, <1>3, <1>4

\* So are the steps of its loop.
LEMMA LoopStep ==
  ASSUME TypeInv, NEW b \in Builders, Skip(b) \/ Import(b)
  PROVE  MergeStep(b)
<1>1. /\ at[b] = "merging" /\ at \in [Builders -> Places \cup Ended]
      /\ visited[b] \in SUBSET Files /\ program[b] \in Seq(Files)
      /\ visited = [visited EXCEPT ![b] = visited[b]]
      /\ program = [program EXCEPT ![b] = program[b]]
      /\ at = [at EXCEPT ![b] = at[b]]
      /\ \A d \in 1..Len(stack[b]) : stack[b][d].next # 0
  BY DEF TypeInv, TypeOK, Calls, Skip, Import, HasImport
<1>2. NextImport(b) \in Files
  BY NextImportFacts DEF Skip, Import
<1>3. /\ AtNext(b) \in Seq(Frames) /\ AtNext(b) # <<>>
      /\ Len(AtNext(b)) \in Nat
      /\ \A d \in 1..Len(AtNext(b)) : AtNext(b)[d].next # 0
  <2>1. /\ AtNext(b) \in Seq(Frames) /\ AtNext(b) # <<>>
        /\ Len(AtNext(b)) = Len(stack[b]) /\ Len(stack[b]) \in Nat \ {0}
        /\ \A d \in 1 .. Len(stack[b]) - 1 : AtNext(b)[d] = stack[b][d]
        /\ AtNext(b)[Len(stack[b])] = [Top(b) EXCEPT !.next = @ + 1]
        /\ Top(b) \in Frames
    BY <1>1, AtNextFacts, TopFacts
  <2>2. AtNext(b)[Len(stack[b])].next # 0
    BY <2>1 DEF Frames
  <2>3. \A d \in 1..Len(AtNext(b)) : d = Len(stack[b]) \/ d \in 1 .. Len(stack[b]) - 1
    BY <2>1
  <2>4. \A d \in 1 .. Len(stack[b]) - 1 : stack[b][d].next # 0
    BY <1>1, <2>1
  <2>5. QED
    BY <2>1, <2>2, <2>3, <2>4
<1>4. CASE Skip(b)
  BY <1>1, <1>3, <1>4 DEF MergeStep, Skip
<1>5. CASE Import(b)
  <2> DEFINE s == Append(AtNext(b), Frame(NextImport(b)))
  <2>1. /\ s \in Seq(Frames) /\ s # <<>> /\ Len(s) = Len(AtNext(b)) + 1
        /\ \A d \in 1..Len(AtNext(b)) : s[d] = AtNext(b)[d]
        /\ s[Len(AtNext(b)) + 1] = Frame(NextImport(b))
    BY <1>2, <1>3, FrameType, AppendProperties
  <2>2. \A d \in 1..Len(s) : s[d].next # 0
    BY <1>2, <1>3, <2>1, FrameType
  <2>3. visited[b] \cup {NextImport(b)} \in SUBSET Files
    BY <1>1, <1>2
  <2>4. /\ stack' = [stack EXCEPT ![b] = s]
        /\ visited' = [visited EXCEPT ![b] = visited[b] \cup {NextImport(b)}]
        /\ UNCHANGED <<given, at, program, found, cache>>
    BY <1>5 DEF Import
  <2> HIDE DEF s
  <2>5. QED
    BY <1>1, <2>1, <2>2, <2>3, <2>4 DEF MergeStep
<1>6. QED
  BY <1>4, <1>5

\* A sequence of which one element was replaced.
LEMMA ReplaceElement ==
  ASSUME NEW S, NEW s \in Seq(S), NEW n \in 1..Len(s), NEW x \in S
  PROVE  LET t == [s EXCEPT ![n] = x] IN
         /\ t \in Seq(S) /\ Len(t) = Len(s) /\ t[n] = x
         /\ \A d \in 1..Len(s) : d # n => t[d] = s[d]
BY ExceptSeq

\* What the importer holds when an imported file has been merged.
LEMMA MergedCaller ==
  ASSUME TypeInv, NEW b \in Builders, at[b] = "merging", Caller(b) # <<>>,
         NEW s, s = [Caller(b) EXCEPT ![Len(Caller(b))].decls = @ \o Top(b).decls]
  PROVE  LET n == Len(stack[b]) - 1 IN
         /\ n \in Nat \ {0} /\ s \in Seq(Frames) /\ s # <<>> /\ Len(s) = n
         /\ \A d \in 1 .. n - 1 : s[d] = stack[b][d]
         /\ s[n] = [stack[b][n] EXCEPT !.decls = @ \o Top(b).decls]
<1> DEFINE n == Len(stack[b]) - 1
           x == [stack[b][n] EXCEPT !.decls = @ \o Top(b).decls]
<1>1. /\ Caller(b) \in Seq(Frames) /\ Len(Caller(b)) = n
      /\ \A d \in 1..n : Caller(b)[d] = stack[b][d]
      /\ Top(b).decls \in Seq(Files)
  BY CallerFacts, TopFacts
<1>2. n \in Nat \ {0}
  BY <1>1, EmptySeq
<1>3. stack[b][n] \in Frames /\ stack[b][n] = Caller(b)[n]
  BY <1>1, <1>2, ElementOfSeq
<1>4. stack[b][n].decls \o Top(b).decls \in Seq(Files)
  BY <1>1, <1>3, ConcatProperties DEF Frames
<1>5. x \in Frames
  BY <1>3, <1>4 DEF Frames
<1>6. s = [Caller(b) EXCEPT ![n] = x]
  BY <1>1, <1>3
<1> HIDE DEF x
<1>7. /\ s \in Seq(Frames) /\ Len(s) = n /\ s[n] = x
      /\ \A d \in 1..n : d # n => s[d] = Caller(b)[d]
  <2>1. n \in 1..Len(Caller(b))
    BY <1>1, <1>2
  <2>2. Caller(b) \in Seq(Frames) /\ x \in Frames /\ s = [Caller(b) EXCEPT ![n] = x]
    BY <1>1, <1>5, <1>6
  <2>3. /\ s \in Seq(Frames) /\ Len(s) = Len(Caller(b)) /\ s[n] = x
        /\ \A d \in 1..Len(Caller(b)) : d # n => s[d] = Caller(b)[d]
    <3> DEFINE c == Caller(b)
    <3>1. c \in Seq(Frames) /\ n \in 1..Len(c) /\ x \in Frames /\ s = [c EXCEPT ![n] = x]
      BY <2>1, <2>2
    <3> HIDE DEF c, n
    <3>2. /\ s \in Seq(Frames) /\ Len(s) = Len(c) /\ s[n] = x
          /\ \A d \in 1..Len(c) : d # n => s[d] = c[d]
      BY ONLY <3>1, ReplaceElement
    <3>3. QED
      BY <3>2 DEF c
  <2>4. QED
    BY <1>1, <2>3
<1>8. s # <<>>
  BY <1>2, <1>7
<1>9. /\ \A d \in 1 .. n - 1 : s[d] = stack[b][d]
      /\ s[n] = [stack[b][n] EXCEPT !.decls = @ \o Top(b).decls]
  BY <1>1, <1>2, <1>7 DEF x
<1>10. QED
  BY <1>2, <1>7, <1>8, <1>9

\* So is the end of a file.
LEMMA MergeIsStep ==
  ASSUME TypeInv, NEW b \in Builders, Merge(b)
  PROVE  MergeStep(b)
<1>1. /\ at[b] = "merging" /\ at \in [Builders -> Places \cup Ended]
      /\ visited[b] \in SUBSET Files /\ program[b] \in Seq(Files)
      /\ visited = [visited EXCEPT ![b] = visited[b]]
      /\ program = [program EXCEPT ![b] = program[b]]
      /\ at = [at EXCEPT ![b] = at[b]]
      /\ \A d \in 1..Len(stack[b]) : stack[b][d].next # 0
      /\ visited' = visited /\ UNCHANGED <<given, found, cache>>
  BY DEF TypeInv, TypeOK, Calls, Merge
<1>2. Top(b).decls \in Seq(Files) /\ stack[b] \in Seq(Frames) /\ Len(stack[b]) \in Nat \ {0}
  BY <1>1, TopFacts
<1>3. CASE Caller(b) = <<>>
  <2>1. /\ program' = [program EXCEPT ![b] = Top(b).decls]
        /\ stack' = [stack EXCEPT ![b] = <<>>] /\ at' = [at EXCEPT ![b] = "resolving"]
    BY <1>3 DEF Merge, Goes
  <2>2. <<>> \in Seq(Frames) /\ Len(<<>>) = 0
    BY EmptySeq
  <2>3. at'[b] # "merging" /\ \A d \in 1..Len(<<>>) : <<>>[d].next # 0
    BY <1>1, <2>1, <2>2
  <2>4. QED
    BY <1>1, <1>2, <2>1, <2>2, <2>3 DEF MergeStep
<1>4. CASE Caller(b) # <<>>
  <2> DEFINE s == [Caller(b) EXCEPT ![Len(Caller(b))].decls = @ \o Top(b).decls]
             n == Len(stack[b]) - 1
  <2>1. stack' = [stack EXCEPT ![b] = s] /\ program' = program /\ at' = at
    BY <1>4 DEF Merge
  <2>2. /\ n \in Nat \ {0} /\ s \in Seq(Frames) /\ s # <<>> /\ Len(s) = n
        /\ \A d \in 1 .. n - 1 : s[d] = stack[b][d]
        /\ s[n] = [stack[b][n] EXCEPT !.decls = @ \o Top(b).decls]
    BY <1>1, <1>4, MergedCaller
  <2>3. stack[b][n] \in Frames
    BY <1>2, <2>2, ElementOfSeq
  <2>4. s[n].next = stack[b][n].next
    BY <2>2, <2>3 DEF Frames
  <2> HIDE DEF s
  <2>5. \A d \in 1..Len(s) : s[d].next # 0
    <3>1. \A d \in 1..n : stack[b][d].next # 0
      BY <1>1, <1>2
    <3>2. \A d \in 1..n : d = n \/ d \in 1 .. n - 1
      BY <2>2
    <3>3. QED
      BY <2>2, <2>4, <3>1, <3>2
  <2>6. QED
    BY <1>1, <2>1, <2>2, <2>5 DEF MergeStep
<1>5. QED
  BY <1>3, <1>4

\* A step of resolve_dep, or the end of a build: the files stay.
ResolveStep(b) ==
  /\ \E w \in (Places \cup Ended) \ {"merging"} : at' = [at EXCEPT ![b] = w]
  /\ \E f \in Seq({"resolved", "unresolved"}) : found' = [found EXCEPT ![b] = f]
  /\ UNCHANGED <<given, stack, visited, program>>
  /\ OwnDir(b)

\* Such a step keeps the types and who owns what.
LEMMA ResolveStepKeeps ==
  ASSUME TypeInv, NEW b \in Builders, ResolveStep(b), Owner(b)'
  PROVE  TypeInv' /\ Alone(b)
<1>1. Typed /\ Calls(b)
  BY TypeParts
<1>2. cache' \in [Keys -> Dirs]
  <2>1. CASE cache' = cache
    BY <1>1, <2>1 DEF Typed
  <2>2. CASE \E dir \in Dirs : Sets(b, dir)
    BY <1>1, <2>2 DEF Typed, Sets
  <2>3. QED
    BY <2>1, <2>2 DEF ResolveStep, OwnDir
<1>3. at' \in [Builders -> Places \cup Ended]
  BY <1>1 DEF ResolveStep, Typed
<1>4. found' \in [Builders -> Seq({"resolved", "unresolved"})]
  BY <1>1 DEF ResolveStep, Typed
<1>5. Typed'
  BY <1>1, <1>2, <1>3, <1>4 DEF ResolveStep, Typed
<1>6. Alone(b)
  BY <1>1 DEF ResolveStep, Typed, Alone
<1>7. Calls(b)'
  BY <1>1 DEF ResolveStep, Typed, Calls
<1>8. OwnDir(b)
  BY DEF ResolveStep
<1>9. QED
  BY <1>5, <1>6, <1>7, <1>8, StepKeepsTypes

\* What is recorded is recorded in order.
LEMMA RecordFacts ==
  ASSUME TypeInv, NEW b \in Builders, NEW what \in {"resolved", "unresolved"}
  PROVE  /\ found[b] \in Seq({"resolved", "unresolved"}) /\ Len(found[b]) \in Nat
         /\ Append(found[b], what) \in Seq({"resolved", "unresolved"})
         /\ Len(Append(found[b], what)) = Len(found[b]) + 1
         /\ \A j \in 1..Len(found[b]) : Append(found[b], what)[j] = found[b][j]
         /\ Append(found[b], what)[Len(found[b]) + 1] = what
<1>1. found[b] \in Seq({"resolved", "unresolved"})
  BY DEF TypeInv, TypeOK
<1>2. QED
  BY <1>1, AppendProperties, LenProperties

\* A clone of the dependency at hand is a clone.
LEMMA CloneFacts ==
  ASSUME TypeInv, NEW b \in Builders, HasDep(b),
         NEW h \in Revisions \cup {Default, None}
  PROVE  /\ Clone(b, h) \in Dirs /\ Clone(b, h) # <<>>
         /\ Clone(b, h)[1].url = Dep(b).url /\ Clone(b, h)[1].head = h
         /\ Clone(b, h)[1].by = b /\ Clone(b, h)[1].spoilt = FALSE
<1>1. Dep(b) \in Dependency
  BY DepFacts DEF TypeInv
<1>2. Dep(b).url \in Urls
  BY <1>1 DEF Dependency
<1>3. QED
  BY <1>2 DEF Clone, Dirs, Clones

\* So is one that was cut short: its URL and its maker are what they were.
LEMMA SpoilFacts ==
  ASSUME TypeInv, NEW b \in Builders, HasDep(b), Dir(b) # <<>>
  PROVE  LET c == [Dir(b)[1] EXCEPT !.spoilt = TRUE] IN
         /\ <<c>> \in Dirs /\ <<c>> # <<>>
         /\ c.url = Dir(b)[1].url /\ c.by = Dir(b)[1].by
         /\ c.head = Dir(b)[1].head /\ c.spoilt = TRUE
<1>1. Dir(b)[1] \in Clones
  BY DepFacts, DirFacts DEF Dir, TypeInv
<1>2. QED
  BY <1>1 DEF Dirs, Clones

\* What a step sets its directory to is what it finds there afterwards.
LEMMA SetsFacts ==
  ASSUME TypeInv, NEW b \in Builders, HasDep(b), NEW dir, Sets(b, dir)
  PROVE  /\ cache'[Dep(b).key] = dir
         /\ \A k \in Keys : k # Dep(b).key => cache'[k] = cache[k]
<1>1. Dep(b).key \in Keys /\ cache \in [Keys -> Dirs]
  BY DepFacts, CacheType DEF TypeInv
<1>2. QED
  BY <1>1 DEF Sets

\* The directory stays, and the builder does not work in it.
LEMMA KeepsStep ==
  ASSUME TypeInv, NEW b \in Builders,
         Cached(b) \/ NotCached(b) \/ CloneRefused(b) \/ Built(b)
  PROVE  ResolveStep(b) /\ Owner(b)'
<1>1. /\ cache' = cache /\ UNCHANGED <<given, stack, visited, program>>
      /\ \E w \in {"resolving", "cloning", "built"} : at' = [at EXCEPT ![b] = w]
      /\ \/ found' = found
         \/ \E what \in {"resolved", "unresolved"} :
              found' = [found EXCEPT ![b] = Append(found[b], what)]
  BY DEF Cached, NotCached, CloneRefused, Built, Keeps, Records, At, Goes, merging
<1>2. at \in [Builders -> Places \cup Ended] /\ found = [found EXCEPT ![b] = found[b]]
  BY DEF TypeInv, TypeOK
<1>3. \E f \in Seq({"resolved", "unresolved"}) : found' = [found EXCEPT ![b] = f]
  BY <1>1, <1>2, RecordFacts
<1>4. ResolveStep(b)
  BY <1>1, <1>3 DEF ResolveStep, OwnDir, Places, Ended
<1>5. Owner(b)'
  BY <1>1, <1>2 DEF Owner, Busy
<1>6. QED
  BY <1>4, <1>5

\* The builder begins a clone, finishes it, checks a revision out or stops
\* in the middle: it leaves the directory to be its own, or none at all.
LEMMA ClonesStep ==
  ASSUME TypeInv, NEW b \in Builders, HasDep(b), NEW dir \in Dirs, Sets(b, dir),
         Dir(b) = <<>> \/ Busy(b),
         NEW w \in {"fetching", "checking", "resolving", "killed"},
         at' = [at EXCEPT ![b] = w],
         NEW f \in Seq({"resolved", "unresolved"}),
         found' = [found EXCEPT ![b] = f],
         UNCHANGED <<given, stack, visited, program>>,
         w \in {"fetching", "checking"} =>
           /\ f = found[b] /\ dir # <<>> /\ dir[1].by = b /\ dir[1].url = Dep(b).url
           /\ w = "fetching" => dir[1].head = None
  PROVE  ResolveStep(b) /\ Owner(b)'
<1>1. /\ at \in [Builders -> Places \cup Ended]
      /\ found \in [Builders -> Seq({"resolved", "unresolved"})]
  BY DEF TypeInv, TypeOK
<1>2. ResolveStep(b)
  <2>1. OwnDir(b)
    BY DEF OwnDir
  <2>2. QED
    BY <2>1 DEF ResolveStep, Places, Ended
<1>3. Owner(b)'
  <2>1. SUFFICES ASSUME w \in {"fetching", "checking"} PROVE Owner(b)'
    BY <1>1 DEF Owner, Busy
  <2>2. found'[b] = found[b] /\ at'[b] = w
    BY <1>1, <2>1
  <2>3. Dep(b)' = Dep(b) /\ HasDep(b)'
    BY <2>1, <2>2 DEF Dep, Deps, HasDep, Resolving
  <2>4. Dir(b)' = dir
    BY <2>3, SetsFacts DEF Dir
  <2>5. QED
    BY <2>1, <2>2, <2>3, <2>4 DEF Owner
<1>4. QED
  BY <1>2, <1>3

\* A clone that begins, fails or is finished.
LEMMA CloningSteps ==
  ASSUME TypeInv, NEW b \in Builders, CloneBegins(b) \/ CloneFails(b) \/ Cloned(b)
  PROVE  ResolveStep(b) /\ Owner(b)'
<1>1. HasDep(b) /\ at \in [Builders -> Places \cup Ended]
  BY DEF CloneBegins, CloneFails, Cloned, TypeInv, TypeOK
<1>2. /\ found[b] \in Seq({"resolved", "unresolved"}) /\ found = [found EXCEPT ![b] = found[b]]
      /\ \A what \in {"resolved", "unresolved"} :
           Append(found[b], what) \in Seq({"resolved", "unresolved"})
  BY RecordFacts DEF TypeInv, TypeOK
<1>3. \A h \in {None, Default} :
        /\ Clone(b, h) \in Dirs /\ Clone(b, h) # <<>>
        /\ Clone(b, h)[1].by = b /\ Clone(b, h)[1].url = Dep(b).url
        /\ Clone(b, h)[1].head = h
  <2> TAKE h \in {None, Default}
  <2>1. h \in Revisions \cup {Default, None}
    OBVIOUS
  <2>2. QED
    BY <1>1, <2>1, CloneFacts
<1>4. CASE CloneBegins(b)
  <2>1. /\ Dir(b) = <<>> /\ Sets(b, Clone(b, None)) /\ at' = [at EXCEPT ![b] = "fetching"]
        /\ found' = [found EXCEPT ![b] = found[b]]
        /\ UNCHANGED <<given, stack, visited, program>>
    BY <1>2, <1>4 DEF CloneBegins, At, Goes, merging
  <2>2. QED
    BY <1>1, <1>2, <1>3, <2>1, ClonesStep
<1>5. CASE CloneFails(b)
  <2>1. /\ at[b] \in {"cloning", "fetching"} /\ at' = [at EXCEPT ![b] = "resolving"]
        /\ found' = [found EXCEPT ![b] = Append(found[b], "unresolved")]
        /\ UNCHANGED <<given, stack, visited, program>>
    BY <1>5 DEF CloneFails, Records, Goes, merging
  <2>2. CASE at[b] = "fetching"
    <3>1. Sets(b, <<>>) /\ <<>> \in Dirs /\ Busy(b)
      BY <1>5, <2>2 DEF CloneFails, Dirs, Busy
    <3>2. QED
      BY <1>1, <1>2, <2>1, <3>1, ClonesStep
  <2>3. CASE at[b] = "cloning"
    <3>1. cache' = cache
      BY <1>5, <2>3 DEF CloneFails, Keeps
    <3>2. ResolveStep(b)
      BY <1>2, <2>1, <3>1 DEF ResolveStep, OwnDir, Places
    <3>3. Owner(b)'
      BY <1>1, <2>1 DEF Owner, Busy
    <3>4. QED
      BY <3>2, <3>3
  <2>4. QED
    BY <2>1, <2>2, <2>3
<1>6. CASE Cloned(b)
  <2>1. /\ Busy(b) /\ Sets(b, Clone(b, Default))
        /\ UNCHANGED <<given, stack, visited, program>>
    BY <1>6 DEF Cloned, Busy, Records, At, merging
  <2>2. \/ /\ at' = [at EXCEPT ![b] = "resolving"]
           /\ found' = [found EXCEPT ![b] = Append(found[b], "resolved")]
        \/ /\ at' = [at EXCEPT ![b] = "checking"]
           /\ found' = [found EXCEPT ![b] = found[b]]
    BY <1>2, <1>6 DEF Cloned, Records, At, Goes
  <2>3. CASE at' = [at EXCEPT ![b] = "resolving"]
    BY <1>1, <1>2, <1>3, <2>1, <2>2, <2>3, ClonesStep
  <2>4. CASE at' = [at EXCEPT ![b] = "checking"] /\ found' = [found EXCEPT ![b] = found[b]]
    BY <1>1, <1>2, <1>3, <2>1, <2>4, ClonesStep
  <2>5. QED
    BY <2>2, <2>3, <2>4
<1>7. QED
  BY <1>4, <1>5, <1>6

\* A checkout, whatever it ends with.
LEMMA CheckoutSteps ==
  ASSUME TypeInv, NEW b \in Builders, CheckedOut(b) \/ NoSuchRevision(b) \/ NoCheckout(b)
  PROVE  ResolveStep(b) /\ Owner(b)'
<1>1. /\ HasDep(b) /\ Busy(b) /\ at' = [at EXCEPT ![b] = "resolving"]
      /\ \E what \in {"resolved", "unresolved"} :
           found' = [found EXCEPT ![b] = Append(found[b], what)]
      /\ UNCHANGED <<given, stack, visited, program>>
  BY DEF CheckedOut, NoSuchRevision, NoCheckout, Busy, Records, Goes, merging
<1>2. \A what \in {"resolved", "unresolved"} :
        Append(found[b], what) \in Seq({"resolved", "unresolved"})
  BY RecordFacts
<1>3. \E dir \in Dirs : Sets(b, dir)
  <2>1. CASE CheckedOut(b)
    <3>1. Dep(b).rev \in Revisions
      <4>1. given.has \in [Urls -> SUBSET Revisions] /\ Dep(b) \in Dependency
        BY <1>1, DepFacts DEF TypeInv, TypeOK, Surrounding
      <4>2. QED
        BY <2>1, <4>1 DEF CheckedOut, Dependency
    <3>2. QED
      BY <1>1, <2>1, <3>1, CloneFacts DEF CheckedOut
  <2>2. CASE Spoils(b)
    <3>1. Dir(b) # <<>>
      BY <1>1 DEF TypeInv, Owner
    <3>2. QED
      BY <1>1, <2>2, <3>1, SpoilFacts DEF Spoils
  <2>3. QED
    BY <2>1, <2>2 DEF NoSuchRevision, NoCheckout
<1>4. QED
  BY <1>1, <1>2, <1>3, ClonesStep

\* A process that is killed.
LEMMA KillStep ==
  ASSUME TypeInv, NEW b \in Builders, Kill(b)
  PROVE  ResolveStep(b) /\ Owner(b)'
<1>1. /\ at' = [at EXCEPT ![b] = "killed"] /\ UNCHANGED <<given, stack, visited, program>>
      /\ found' = [found EXCEPT ![b] = found[b]]
      /\ found[b] \in Seq({"resolved", "unresolved"})
      /\ at \in [Builders -> Places \cup Ended]
  BY RecordFacts DEF Kill, At, Goes, merging, TypeInv, TypeOK
<1>2. CASE cache' = cache
  <2>1. ResolveStep(b)
    BY <1>1, <1>2 DEF ResolveStep, OwnDir, Ended
  <2>2. Owner(b)'
    BY <1>1 DEF Owner, Busy
  <2>3. QED
    BY <2>1, <2>2
<1>3. CASE Busy(b) /\ (Spoils(b) \/ Sets(b, <<>>))
  <2>1. HasDep(b) /\ Dir(b) # <<>>
    BY <1>3 DEF TypeInv, Owner
  <2>2. \E dir \in Dirs : Sets(b, dir)
    BY <1>3, <2>1, SpoilFacts DEF Spoils, Dirs
  <2>3. QED
    BY <1>1, <1>3, <2>1, <2>2, ClonesStep
<1>4. QED
  BY <1>2, <1>3 DEF Kill, Keeps, Busy

\* The steps of a builder.
LEMMA ResolveSteps ==
  ASSUME TypeInv, NEW b \in Builders, Resolve(b) \/ Kill(b)
  PROVE  ResolveStep(b) /\ TypeInv' /\ Alone(b)
<1>1. ResolveStep(b) /\ Owner(b)'
  BY KeepsStep, CloningSteps, CheckoutSteps, KillStep DEF Resolve
<1>2. QED
  BY <1>1, ResolveStepKeeps

LEMMA MergeSteps ==
  ASSUME TypeInv, NEW b \in Builders,
         Begin(b) \/ Skip(b) \/ Import(b) \/ CannotImport(b) \/ Merge(b)
  PROVE  MergeStep(b) /\ TypeInv' /\ Alone(b)
<1>1. MergeStep(b)
  BY BeginStep, LoopStep, MergeIsStep
<1>2. QED
  BY <1>1, MergeStepKeeps

-----------------------------------------------------------------------------
(* Types, in every behaviour *)

LEMMA InitTypes ==
  ASSUME Init
  PROVE  TypeInv
<1>1. given \in Surrounding
  BY BuildsAssumption DEF Init
<1>2. <<>> \in Seq(Frames) /\ <<>> \in Seq(Files) /\ <<>> \in Seq({"resolved", "unresolved"})
      /\ Len(<<>>) = 0
  BY EmptySeq
<1>3. Typed
  BY <1>1, <1>2 DEF Init, Typed, Places, Dirs
<1>4. \A b \in Builders : Owner(b) /\ Calls(b)
  BY <1>2 DEF Init, Owner, Busy, Calls
<1>5. QED
  BY <1>3, <1>4, TypeParts

LEMMA StutterTypes ==
  ASSUME TypeInv, UNCHANGED vars
  PROVE  TypeInv'
<1>1. Typed'
  BY TypeParts DEF vars, Typed
<1>2. \A b \in Builders : Owner(b)' /\ Calls(b)'
  BY DEF vars, TypeInv, Owner, Calls, Busy, HasDep, Resolving, Dep, Deps, Dir
<1>3. QED
  BY <1>1, <1>2, TypeParts

LEMMA NextTypes ==
  ASSUME TypeInv, [Next]_vars
  PROVE  TypeInv'
BY StutterTypes, ResolveSteps, MergeSteps DEF Next, Step

\* Every variable has its type in every state of every behaviour, and a
\* builder that clones or checks out owns its directory: nobody takes it away.
THEOREM TypeCorrect == Spec => []TypeOK
<1>1. Init => TypeInv
  BY InitTypes
<1>2. TypeInv /\ [Next]_vars => TypeInv'
  BY NextTypes
<1>3. TypeInv => TypeOK
  BY DEF TypeInv
<1>4. QED
  BY <1>1, <1>2, <1>3, PTL DEF Spec

\* A step of builder b that takes a finished clone away, or puts another in
\* its place, would be one in a directory that b does not own.
LEMMA StepKeepsClones ==
  ASSUME TypeInv, NEW b \in Builders, Resolve(b) \/ Kill(b),
         NEW k \in Keys, cache[k] # <<>>, cache[k][1].head # None
  PROVE  cache'[k] # <<>> /\ cache'[k][1].by = cache[k][1].by
<1>1. CASE ~(HasDep(b) /\ k = Dep(b).key)
  <2>1. cache' = cache \/ (HasDep(b) /\ \E dir \in Dirs : Sets(b, dir))
    BY ResolveSteps DEF ResolveStep, OwnDir
  <2>2. cache'[k] = cache[k]
    BY <1>1, <2>1, SetsFacts
  <2>3. QED
    BY <2>2
<1>2. CASE HasDep(b) /\ k = Dep(b).key
  <2>1. Dir(b) = cache[k] /\ at[b] # "fetching"
    BY <1>2 DEF Dir, TypeInv, Owner, Busy
  <2>2. CASE CheckedOut(b)
    <3>1. Dep(b).rev \in Revisions \cup {Default, None}
      <4>1. given.has \in [Urls -> SUBSET Revisions] /\ Dep(b) \in Dependency
        BY <1>2, DepFacts DEF TypeInv, TypeOK, Surrounding
      <4>2. QED
        BY <2>2, <4>1 DEF CheckedOut, Dependency
    <3>2. Clone(b, Dep(b).rev) # <<>> /\ Clone(b, Dep(b).rev)[1].by = b
      BY <1>2, <3>1, CloneFacts
    <3>3. Dir(b)[1].by = b
      BY <2>2 DEF CheckedOut, TypeInv, Owner, Busy
    <3>4. cache'[k] = Clone(b, Dep(b).rev)
      BY <1>2, <2>2, SetsFacts DEF CheckedOut
    <3>5. QED
      BY <2>1, <3>2, <3>3, <3>4
  <2>3. CASE Spoils(b)
    <3> DEFINE c == [Dir(b)[1] EXCEPT !.spoilt = TRUE]
    <3>1. cache'[k] = <<c>>
      BY <1>2, <2>3, SetsFacts DEF Spoils
    <3>2. c.by = Dir(b)[1].by
      BY <1>2, <2>1, SpoilFacts
    <3> HIDE DEF c
    <3>3. QED
      BY <2>1, <3>1, <3>2
  <2>4. CASE cache' = cache
    BY <2>4
  <2>5. QED
    BY <2>1, <2>2, <2>3, <2>4 DEF Resolve, Kill, Cached, NotCached, CloneBegins,
         CloneRefused, CloneFails, Cloned, NoSuchRevision, NoCheckout, Built, Keeps
<1>3. QED
  BY <1>1, <1>2

\* What was cloned stays: no build, failed or killed, takes a finished clone
\* away, and none is put in its place (deps.rs:9).
THEOREM FetchedOnceProved == Spec => FetchedOnce
<1> DEFINE Keep == \A k \in Keys : cache[k] # <<>> /\ cache[k][1].head # None =>
                     cache'[k] # <<>> /\ cache'[k][1].by = cache[k][1].by
<1>1. TypeInv /\ [Next]_vars => [Keep]_vars
  <2>1. SUFFICES ASSUME TypeInv, NEW b \in Builders, Step(b) \/ Kill(b) PROVE Keep
    BY DEF Next
  <2>2. CASE Resolve(b) \/ Kill(b)
    BY <2>1, <2>2, StepKeepsClones
  <2>3. CASE ~(Resolve(b) \/ Kill(b))
    <3>1. cache' = cache
      BY <2>1, <2>3, MergeSteps DEF Step, MergeStep
    <3>2. QED
      BY <3>1
  <2>4. QED
    BY <2>2, <2>3
<1>2. Init => TypeInv
  BY InitTypes
<1>3. TypeInv /\ [Next]_vars => TypeInv'
  BY NextTypes
<1>4. QED
  BY <1>1, <1>2, <1>3, PTL DEF Spec, FetchedOnce

-----------------------------------------------------------------------------
(* Files, in every behaviour *)

\* A file reaches itself, and what a file imports that it reaches and that can
\* be parsed.
LEMMA ReachedClosed ==
  ASSUME TypeOK, NEW f \in Files
  PROVE  /\ f \in Reached(f)
         /\ \A g \in Reached(f) \ given.broken, h \in Files : Imports(g, h) => h \in Reached(f)
<1>1. \A g \in Files : DOMAIN ImportsOf(g) = 1..Len(ImportsOf(g))
  BY DEF TypeOK, Surrounding, ImportsOf
<1>2. f \in Reached(f)
  BY DEF Reached
<1>3. ASSUME NEW g \in Reached(f) \ given.broken, NEW h \in Files, Imports(g, h)
      PROVE  h \in Reached(f)
  <2>1. g \in Files
    BY <1>3 DEF Reached
  <2>2. PICK i \in 1..Len(ImportsOf(g)) : ImportsOf(g)[i] = h
    BY <1>1, <1>3, <2>1 DEF Imports
  <2>3. QED
    BY <1>3, <2>1, <2>2 DEF Reached
<1>4. QED
  BY <1>2, <1>3

\* It reaches no more than a set that holds all of that.
LEMMA ReachedLeast ==
  ASSUME TypeOK, NEW f \in Files, NEW S \in SUBSET Files, f \in S,
         \A g \in S \ given.broken : \A i \in DOMAIN ImportsOf(g) : ImportsOf(g)[i] \in S
  PROVE  Reached(f) \subseteq S
<1>1. \A g \in Files : DOMAIN ImportsOf(g) = 1..Len(ImportsOf(g))
  BY DEF TypeOK, Surrounding, ImportsOf
<1>2. QED
  BY <1>1 DEF Reached

\* Builders that have no call and nothing visited, and the initial states.
LEMMA InitFiles ==
  ASSUME Init
  PROVE  FilesInv
<1>1. TypeInv
  BY InitTypes
<1>2. ASSUME NEW b \in Builders
      PROVE  FileState(b, at[b], stack[b], visited[b], program[b])
  <2>1. at[b] = "begin" /\ stack[b] = <<>> /\ visited[b] = {} /\ program[b] = <<>>
    BY DEF Init
  <2>2. QED
    BY <2>1 DEF FileState, Visited, Opened, Stage, Fails
<1>3. QED
  BY <1>1, <1>2 DEF FilesInv

\* What is given stays, so the invariant may be shown of the new values.
LEMMA FilesSame ==
  ASSUME TypeInv', given' = given,
         \A e \in Builders : FileState(e, at'[e], stack'[e], visited'[e], program'[e])
  PROVE  FilesInv'
<1>1. SUFFICES ASSUME NEW e \in Builders
               PROVE  FileState(e, at[e], stack[e], visited[e], program[e])'
  BY DEF FilesInv
<1>2. FileState(e, at'[e], stack'[e], visited'[e], program'[e])
  OBVIOUS
<1>3. Visited(e, at[e], visited[e])' /\ Fails(e, at[e])'
  BY <1>2 DEF FileState, Visited, Fails, Reached, ImportsOf
<1>4. Opened(stack[e], visited[e])'
  BY <1>2 DEF FileState, Opened, ImportsOf
<1>5. Stage(at[e], stack[e], visited[e], program[e])'
  <2>1. Stage(at'[e], stack'[e], visited'[e], program'[e])
    BY <1>2 DEF FileState
  <2>2. program'[e] # <<>> => Piece(program[e][1], program[e])'
    <3>1. SUFFICES ASSUME program'[e] # <<>>, Piece(program'[e][1], program'[e])
                   PROVE  Piece(program[e][1], program[e])'
      BY <2>1 DEF Stage
    <3>2. QED
      BY <3>1 DEF Piece, Imports, ImportsOf
  <2>3. at'[e] = "merging" => Pieces(stack[e], visited[e])'
    <3>1. SUFFICES ASSUME Pieces(stack'[e], visited'[e])
                   PROVE  Pieces(stack[e], visited[e])'
      BY <2>1 DEF Stage
    <3>2. \A d \in 1..Len(stack'[e]) : Piece(stack[e][d].file, stack[e][d].decls)'
      <4> TAKE d \in 1..Len(stack'[e])
      <4>1. Piece(stack'[e][d].file, stack'[e][d].decls)
        BY <3>1 DEF Pieces
      <4>2. QED
        BY <4>1 DEF Piece, Imports, ImportsOf
    <3>3. \A d \in 1 .. Len(stack'[e]) - 1 : Imports(stack[e][d].file, stack[e][d + 1].file)'
      BY <3>1 DEF Pieces, Imports, ImportsOf
    <3>4. QED
      BY <3>1, <3>2, <3>3 DEF Pieces
  <2>4. QED
    BY <2>1, <2>2, <2>3 DEF Stage
<1>6. QED
  BY <1>3, <1>4, <1>5 DEF FileState

\* What a step of builder b has to keep.
LEMMA StepKeepsFiles ==
  ASSUME FilesInv, NEW b \in Builders, Alone(b), TypeInv',
         FileState(b, at'[b], stack'[b], visited'[b], program'[b])
  PROVE  FilesInv'
<1>1. \A e \in Builders \ {b} :
         FileState(e, at'[e], stack'[e], visited'[e], program'[e])
  BY DEF Alone, FilesInv
<1>2. QED
  BY <1>1, FilesSame DEF Alone

\* When the last call has returned, everything the root reaches was visited.
LEMMA AllVisited ==
  ASSUME FilesInv, NEW b \in Builders, program[b] # <<>>
  PROVE  /\ visited[b] = Reached(given.root[b]) /\ visited[b] \cap given.broken = {}
         /\ visited[b] = ElementsOf(program[b]) /\ Piece(program[b][1], program[b])
<1>1. /\ Visited(b, at[b], visited[b]) /\ Opened(stack[b], visited[b])
      /\ Stage(at[b], stack[b], visited[b], program[b])
  BY DEF FilesInv, FileState
<1>2. /\ stack[b] = <<>> /\ at[b] \notin {"begin", "failed"}
      /\ visited[b] = ElementsOf(program[b]) /\ Piece(program[b][1], program[b])
  BY <1>1 DEF Stage
<1>3. /\ given.root[b] \in visited[b] /\ visited[b] \subseteq Reached(given.root[b])
      /\ visited[b] \cap given.broken = {}
  BY <1>1, <1>2 DEF Visited
<1>4. \A f \in visited[b] : \A i \in DOMAIN ImportsOf(f) : ImportsOf(f)[i] \in visited[b]
  BY <1>1, <1>2, EmptySeq DEF Opened
<1>5. given.root[b] \in Files /\ visited[b] \in SUBSET Files /\ TypeOK
  BY GivenFacts DEF FilesInv, TypeInv, TypeOK
<1>6. Reached(given.root[b]) \subseteq visited[b]
  BY <1>3, <1>4, <1>5, ReachedLeast
<1>7. QED
  BY <1>2, <1>3, <1>6

\* Resolving dependencies, and being killed, changes no file.
LEMMA ResolveFiles ==
  ASSUME FilesInv, NEW b \in Builders, Resolve(b) \/ Kill(b)
  PROVE  FilesInv'
<1> DEFINE R == {"resolving", "cloning", "fetching", "checking"}
<1>1. /\ stack' = stack /\ visited' = visited /\ program' = program
      /\ TypeInv' /\ Alone(b)
  BY ResolveSteps DEF FilesInv, ResolveStep
<1>2. \/ at[b] \in R /\ at'[b] \in R \cup {"built"}
      \/ at[b] \in R \cup {"merging"} /\ at'[b] = "killed"
  <2>1. at \in [Builders -> Places \cup Ended]
    BY DEF FilesInv, TypeInv, TypeOK
  <2>2. QED
    BY <2>1 DEF Resolve, Kill, Cached, NotCached, CloneBegins, CloneRefused, CloneFails,
         Cloned, CheckedOut, NoSuchRevision, NoCheckout, Built, Records, At, Goes,
         HasDep, Resolving, Ended, Places
<1>3. FileState(b, at[b], stack[b], visited[b], program[b])
  BY DEF FilesInv
<1>4. Fails(b, at'[b])
  <2>1. CASE at'[b] = "built"
    <3>1. program[b] # <<>>
      BY <1>2, <1>3, <2>1 DEF FileState, Stage
    <3>2. QED
      BY <2>1, <3>1, AllVisited DEF Fails
  <2>2. QED
    BY <1>2, <2>1 DEF Fails
<1>5. Visited(b, at'[b], visited[b])
  BY <1>2, <1>3 DEF FileState, Visited
<1>6. Stage(at'[b], stack[b], visited[b], program[b])
  BY <1>2, <1>3 DEF FileState, Stage
<1>7. FileState(b, at'[b], stack'[b], visited'[b], program'[b])
  BY <1>1, <1>3, <1>4, <1>5, <1>6 DEF FileState
<1>8. QED
  BY <1>1, <1>7, StepKeepsFiles

\* A call of merge_imports that begins holds the piece that is its file.
LEMMA FramePiece ==
  ASSUME NEW f
  PROVE  /\ Piece(f, <<f>>) /\ ElementsOf(<<f>>) = {f}
         /\ Frame(f).file = f /\ Frame(f).decls = <<f>>
BY DEF Piece, Once, ElementsOf, Frame

\* The root is visited before its imports.
LEMMA BeginFiles ==
  ASSUME FilesInv, NEW b \in Builders, Begin(b)
  PROVE  FilesInv'
<1> DEFINE r == given.root[b]
<1>1. TypeInv' /\ Alone(b) /\ TypeInv
  BY MergeSteps DEF FilesInv
<1>2. /\ at \in [Builders -> Places \cup Ended] /\ at[b] = "begin"
      /\ stack \in [Builders -> Seq(Frames)] /\ visited \in [Builders -> SUBSET Files]
      /\ TypeOK /\ r \in Files
  BY <1>1, GivenFacts DEF TypeInv, TypeOK, Begin
<1>3. r \in Reached(r)
  BY <1>2, ReachedClosed
<1>4. /\ FileState(b, at[b], stack[b], visited[b], program[b])
      /\ visited[b] = {} /\ program[b] = <<>> /\ program' = program
  BY <1>2 DEF FilesInv, FileState, Stage, Begin
<1>5. CASE r \in given.broken
  <2>1. at'[b] = "failed" /\ stack' = stack /\ visited' = visited
    BY <1>2, <1>5 DEF Begin, Goes
  <2>2. FileState(b, "failed", stack[b], visited[b], program[b])
    BY <1>3, <1>4, <1>5 DEF FileState, Visited, Stage, Fails, Opened
  <2>3. QED
    BY <1>1, <1>4, <2>1, <2>2, StepKeepsFiles
<1>6. CASE r \notin given.broken
  <2> DEFINE s == <<Frame(r)>>
  <2>1. at'[b] = "merging" /\ stack'[b] = s /\ visited'[b] = {r}
    BY <1>2, <1>6 DEF Begin, Goes, VisitRoot
  <2>2. Len(s) = 1 /\ s[1] = Frame(r) /\ Frame(r).next = 1
    BY <1>2, FrameType
  <2>3. Pieces(s, {r})
    <3>1. \A d \in 1..Len(s) : d = 1
      BY <2>2
    <3>2. Piece(s[1].file, s[1].decls) /\ ElementsOf(s[1].decls) = {r}
      BY <2>2, FramePiece
    <3>3. QED
      BY <2>2, <3>1, <3>2 DEF Pieces
  <2>4. Opened(s, {r})
    <3>1. \A i \in DOMAIN ImportsOf(r) : i >= 1
      BY <1>1, <1>2, GivenFacts DEF TypeInv
    <3> HIDE DEF s
    <3>2. Frame(r).file = r
      BY FramePiece
    <3>3. 1 \in 1..Len(s) /\ s[1].file = r /\ s[1].next = 1
      BY <2>2, <3>2
    <3>4. QED
      BY <3>1, <3>3 DEF Opened
  <2>5. Visited(b, "merging", {r})
    BY <1>3, <1>6 DEF Visited
  <2> HIDE DEF s
  <2>6. FileState(b, "merging", s, {r}, <<>>)
    BY <2>3, <2>4, <2>5 DEF FileState, Stage, Fails
  <2>7. QED
    BY <1>1, <1>4, <2>1, <2>6, StepKeepsFiles
<1>7. QED
  BY <1>5, <1>6

\* A piece has its own file among its elements.
LEMMA PieceHead ==
  ASSUME NEW f, NEW p \in Seq(Files), Piece(f, p)
  PROVE  f \in ElementsOf(p)
<1>1. Len(p) \in Nat \ {0}
  BY LenProperties, EmptySeq DEF Piece
<1>2. QED
  BY <1>1 DEF Piece, ElementsOf

\* While imports are merged: the file of the running call was visited.
LEMMA MergingFacts ==
  ASSUME FilesInv, NEW b \in Builders, at[b] = "merging"
  PROVE  /\ Pieces(stack[b], visited[b]) /\ Opened(stack[b], visited[b])
         /\ visited[b] \subseteq Reached(given.root[b]) /\ visited[b] \cap given.broken = {}
         /\ given.root[b] \in visited[b] /\ program[b] = <<>>
         /\ Top(b).file \in visited[b] /\ given.root[b] \in Files /\ TypeInv /\ TypeOK
<1>1. FileState(b, at[b], stack[b], visited[b], program[b]) /\ TypeInv
  BY DEF FilesInv
<1>2. /\ Pieces(stack[b], visited[b]) /\ Opened(stack[b], visited[b])
      /\ visited[b] \subseteq Reached(given.root[b]) /\ visited[b] \cap given.broken = {}
      /\ given.root[b] \in visited[b] /\ program[b] = <<>>
  BY <1>1 DEF FileState, Visited, Stage
<1>3. Len(stack[b]) \in Nat \ {0} /\ Top(b).decls \in Seq(Files)
  BY <1>1, TopFacts
<1>4. Piece(Top(b).file, Top(b).decls) /\ ElementsOf(Top(b).decls) \subseteq visited[b]
  BY <1>2, <1>3 DEF Pieces, Top
<1>5. QED
  BY <1>1, <1>2, <1>3, <1>4, PieceHead, GivenFacts DEF TypeInv

\* The next import is imported by the file of the running call, and the root
\* reaches it.
LEMMA NextReached ==
  ASSUME FilesInv, NEW b \in Builders, HasImport(b)
  PROVE  /\ Imports(Top(b).file, NextImport(b)) /\ NextImport(b) \in Files
         /\ NextImport(b) \in Reached(given.root[b])
<1>1. at[b] = "merging" /\ TypeInv
  BY DEF HasImport, FilesInv
<1>2. Imports(Top(b).file, NextImport(b)) /\ NextImport(b) \in Files
  BY <1>1, NextImportFacts DEF Imports, NextImport
<1>3. Top(b).file \in Reached(given.root[b]) \ given.broken
  BY <1>1, MergingFacts
<1>4. QED
  BY <1>1, <1>2, <1>3, MergingFacts, ReachedClosed

\* A file that cannot be imported is one that the root reaches.
LEMMA CannotImportFiles ==
  ASSUME FilesInv, NEW b \in Builders, CannotImport(b)
  PROVE  FilesInv'
<1>1. TypeInv' /\ Alone(b) /\ at \in [Builders -> Places \cup Ended]
  BY MergeSteps DEF FilesInv, TypeInv, TypeOK
<1>2. /\ HasImport(b) /\ at[b] = "merging" /\ NextImport(b) \in given.broken
      /\ at'[b] = "failed" /\ stack' = stack /\ visited' = visited /\ program' = program
  BY <1>1 DEF CannotImport, HasImport, Goes, merging
<1>3. NextImport(b) \in Reached(given.root[b])
  BY <1>2, NextReached
<1>4. FileState(b, at[b], stack[b], visited[b], program[b]) /\ program[b] = <<>>
  BY <1>2, MergingFacts DEF FilesInv
<1>5. FileState(b, "failed", stack[b], visited[b], program[b])
  BY <1>2, <1>3, <1>4 DEF FileState, Visited, Stage, Fails
<1>6. QED
  BY <1>1, <1>2, <1>5, StepKeepsFiles

\* The calls, when the running one has gone on to its next import.
LEMMA AtNextPieces ==
  ASSUME FilesInv, NEW b \in Builders, HasImport(b)
  PROVE  LET a == AtNext(b) IN
         /\ Len(a) = Len(stack[b]) /\ Len(a) \in Nat \ {0} /\ a \in Seq(Frames)
         /\ \A d \in 1..Len(a) : a[d].file = stack[b][d].file /\ a[d].decls = stack[b][d].decls
         /\ \A d \in 1 .. Len(a) - 1 : a[d].next = stack[b][d].next
         /\ a[Len(a)].next = Top(b).next + 1
<1> DEFINE a == AtNext(b)
           n == Len(stack[b])
<1>1. at[b] = "merging" /\ TypeInv
  BY DEF HasImport, FilesInv
<1>2. /\ a \in Seq(Frames) /\ Len(a) = n /\ \A d \in 1 .. n - 1 : a[d] = stack[b][d]
      /\ a[n] = [Top(b) EXCEPT !.next = @ + 1]
      /\ n \in Nat \ {0} /\ Top(b) \in Frames /\ Top(b) = stack[b][n]
  BY <1>1, AtNextFacts, TopFacts DEF Top
<1>3. a[n].file = Top(b).file /\ a[n].decls = Top(b).decls /\ a[n].next = Top(b).next + 1
  BY <1>2 DEF Frames
<1> HIDE DEF a
<1>4. \A d \in 1..n : d = n \/ d \in 1 .. n - 1
  BY <1>2
<1>5. QED
  BY <1>2, <1>3, <1>4 DEF a

\* What that leaves to be visited is the rest, and the import that was next.
LEMMA AtNextOpened ==
  ASSUME FilesInv, NEW b \in Builders, HasImport(b), NEW v, visited[b] \subseteq v,
         NextImport(b) \in v, NEW f \in visited[b], NEW i \in DOMAIN ImportsOf(f)
  PROVE  \/ ImportsOf(f)[i] \in v
         \/ \E d \in 1..Len(stack[b]) : AtNext(b)[d].file = f /\ i >= AtNext(b)[d].next
<1> DEFINE a == AtNext(b)
           n == Len(stack[b])
<1>1. /\ Len(a) = n /\ n \in Nat \ {0}
      /\ \A d \in 1..n : a[d].file = stack[b][d].file
      /\ \A d \in 1 .. n - 1 : a[d].next = stack[b][d].next
      /\ a[n].next = Top(b).next + 1
  BY AtNextPieces
<1>2. at[b] = "merging" /\ TypeInv /\ Top(b) = stack[b][n]
  BY DEF HasImport, FilesInv, Top
<1>3. Top(b).next \in Nat /\ f \in Files /\ i \in Nat
  <2>1. f \in Files /\ TypeOK
    BY <1>2 DEF TypeInv, TypeOK
  <2>2. i \in Nat
    BY <2>1, GivenFacts
  <2>3. QED
    BY <1>2, <2>1, <2>2, TopFacts
<1>4. CASE ImportsOf(f)[i] \in visited[b]
  BY <1>4
<1>5. ASSUME NEW d \in 1..n, stack[b][d].file = f, i >= stack[b][d].next
      PROVE  ImportsOf(f)[i] \in v \/ \E e \in 1..n : a[e].file = f /\ i >= a[e].next
  <2>1. CASE d = n /\ i = Top(b).next
    BY <1>2, <1>5, <2>1 DEF NextImport
  <2>2. CASE d = n /\ i # Top(b).next
    <3>1. i >= a[n].next
      BY <1>1, <1>2, <1>3, <1>5, <2>2
    <3>2. QED
      BY <1>1, <1>5, <2>2, <3>1
  <2>3. CASE d # n
    <3>1. d \in 1 .. n - 1
      BY <1>1, <2>3
    <3>2. QED
      BY <1>1, <1>5, <3>1
  <2>4. QED
    BY <2>1, <2>2, <2>3
<1>6. Opened(stack[b], visited[b])
  BY <1>2, MergingFacts
<1>7. QED
  BY <1>4, <1>5, <1>6 DEF Opened

\* Pieces are about the files and declarations of the calls only.
LEMMA SamePieces ==
  ASSUME NEW s, NEW a, NEW v, Len(s) \in Nat, Len(a) = Len(s), Pieces(s, v),
         \A d \in 1..Len(s) : a[d].file = s[d].file /\ a[d].decls = s[d].decls
  PROVE  Pieces(a, v)
<1>1. \A d \in 1..Len(a) : Piece(a[d].file, a[d].decls)
  BY DEF Pieces
<1>2. \A d \in 1 .. Len(a) - 1 : Imports(a[d].file, a[d + 1].file)
  <2> TAKE d \in 1 .. Len(a) - 1
  <2>1. d \in 1..Len(s) /\ d + 1 \in 1..Len(s) /\ d \in 1 .. Len(s) - 1
    OBVIOUS
  <2>2. a[d].file = s[d].file /\ a[d + 1].file = s[d + 1].file
    BY <2>1
  <2>3. QED
    BY <2>1, <2>2 DEF Pieces
<1>3. \A d, e \in 1..Len(a) : d # e => ElementsOf(a[d].decls) \cap ElementsOf(a[e].decls) = {}
  BY DEF Pieces
<1>4. \A f \in v : \E d \in 1..Len(a) : f \in ElementsOf(a[d].decls)
  BY DEF Pieces
<1>5. \A d \in 1..Len(a) : ElementsOf(a[d].decls) \subseteq v
  BY DEF Pieces
<1>6. QED
  BY <1>1, <1>2, <1>3, <1>4, <1>5 DEF Pieces

\* An import that was visited already is passed over.
LEMMA SkipFiles ==
  ASSUME FilesInv, NEW b \in Builders, Skip(b)
  PROVE  FilesInv'
<1> DEFINE a == AtNext(b)
<1>1. TypeInv' /\ Alone(b) /\ TypeInv
  BY MergeSteps DEF FilesInv
<1>2. /\ HasImport(b) /\ at[b] = "merging" /\ NextImport(b) \in visited[b]
      /\ stack'[b] = a /\ at' = at /\ visited' = visited /\ program' = program
  BY <1>1 DEF Skip, HasImport, TypeInv, TypeOK
<1>3. /\ Pieces(stack[b], visited[b]) /\ FileState(b, at[b], stack[b], visited[b], program[b])
      /\ program[b] = <<>>
  BY <1>2, MergingFacts DEF FilesInv
<1>4. /\ Len(a) = Len(stack[b]) /\ Len(a) \in Nat \ {0}
      /\ \A d \in 1..Len(a) : a[d].file = stack[b][d].file /\ a[d].decls = stack[b][d].decls
  BY <1>2, AtNextPieces
<1>5. Opened(a, visited[b])
  BY <1>2, <1>4, AtNextOpened DEF Opened
<1> HIDE DEF a
<1>6. Pieces(a, visited[b])
  BY <1>3, <1>4, SamePieces
<1>7. FileState(b, at[b], a, visited[b], program[b])
  BY <1>2, <1>3, <1>5, <1>6 DEF FileState, Stage
<1>8. QED
  BY <1>1, <1>2, <1>7, StepKeepsFiles

\* A new call holds a piece of its own, which its importer has imported.
LEMMA PushPiece ==
  ASSUME NEW s \in Seq(Frames), s # <<>>, NEW v, Pieces(s, v),
         NEW f \in Files, f \notin v, Imports(s[Len(s)].file, f)
  PROVE  Pieces(Append(s, Frame(f)), v \cup {f})
<1> DEFINE n == Len(s)
           t == Append(s, Frame(f))
<1>1. /\ n \in Nat \ {0} /\ Len(t) = n + 1 /\ t[n + 1] = Frame(f)
      /\ \A d \in 1..n : t[d] = s[d]
  <2>1. Frame(f) \in Frames
    BY FrameType
  <2>2. QED
    BY <2>1, AppendProperties, LenProperties, EmptySeq
<1>2. /\ Piece(f, <<f>>) /\ ElementsOf(t[n + 1].decls) = {f}
      /\ t[n + 1].file = f /\ t[n + 1].decls = <<f>>
  BY <1>1, FramePiece
<1> HIDE DEF t
<1>3. \A d \in 1 .. n + 1 : d = n + 1 \/ d \in 1..n
  BY <1>1
<1>4. \A d \in 1 .. n + 1 : Piece(t[d].file, t[d].decls)
  BY <1>1, <1>2, <1>3 DEF Pieces
<1>5. \A d \in 1..n : Imports(t[d].file, t[d + 1].file)
  <2> TAKE d \in 1..n
  <2>1. CASE d = n
    BY <1>1, <1>2, <2>1
  <2>2. CASE d # n
    <3>1. d \in 1 .. n - 1 /\ d + 1 \in 1..n
      BY <1>1, <2>2
    <3>2. t[d] = s[d] /\ t[d + 1] = s[d + 1]
      BY <1>1, <3>1
    <3>3. QED
      BY <3>1, <3>2 DEF Pieces
  <2>3. QED
    BY <2>1, <2>2
<1>6. \A d \in 1..n : ElementsOf(t[d].decls) \subseteq v
  BY <1>1 DEF Pieces
<1>7. \A d, e \in 1 .. n + 1 : d # e => ElementsOf(t[d].decls) \cap ElementsOf(t[e].decls) = {}
  <2> SUFFICES ASSUME NEW d \in 1 .. n + 1, NEW e \in 1 .. n + 1, d # e
               PROVE  ElementsOf(t[d].decls) \cap ElementsOf(t[e].decls) = {}
    OBVIOUS
  <2>1. CASE d \in 1..n /\ e \in 1..n
    BY <1>1, <2>1 DEF Pieces
  <2>2. CASE d = n + 1 /\ e \in 1..n
    BY <1>2, <1>6, <2>2
  <2>3. CASE e = n + 1 /\ d \in 1..n
    BY <1>2, <1>6, <2>3
  <2>4. QED
    BY <1>3, <2>1, <2>2, <2>3
<1>8. \A g \in v \cup {f} : \E d \in 1 .. n + 1 : g \in ElementsOf(t[d].decls)
  <2> TAKE g \in v \cup {f}
  <2>1. CASE g = f
    BY <1>1, <1>2, <2>1
  <2>2. CASE g \in v
    <3>1. PICK d \in 1..n : g \in ElementsOf(s[d].decls)
      BY <2>2 DEF Pieces
    <3>2. d \in 1 .. n + 1 /\ t[d] = s[d]
      BY <1>1, <3>1
    <3>3. QED
      BY <3>1, <3>2
  <2>3. QED
    BY <2>1, <2>2
<1>9. \A d \in 1 .. n + 1 : ElementsOf(t[d].decls) \subseteq v \cup {f}
  BY <1>2, <1>3, <1>6
<1>10. Pieces(t, v \cup {f})
  <2>1. Len(t) = n + 1 /\ Len(t) - 1 = n
    BY <1>1
  <2> HIDE DEF n
  <2>2. QED
    BY <1>4, <1>5, <1>7, <1>8, <1>9, <2>1 DEF Pieces
<1>11. QED
  BY <1>10 DEF t

\* A file is visited when its merge begins; its imports are then open.
LEMMA ImportFiles ==
  ASSUME FilesInv, NEW b \in Builders, Import(b)
  PROVE  FilesInv'
<1> DEFINE a == AtNext(b)
           n == Len(stack[b])
           f == NextImport(b)
           s == Append(a, Frame(f))
           v == visited[b] \cup {f}
<1>1. TypeInv' /\ Alone(b) /\ TypeInv
  BY MergeSteps DEF FilesInv
<1>2. /\ HasImport(b) /\ at[b] = "merging" /\ f \notin visited[b] /\ f \notin given.broken
      /\ stack'[b] = s /\ at' = at /\ visited'[b] = v /\ program' = program
  BY <1>1 DEF Import, HasImport, TypeInv, TypeOK
<1>3. /\ Pieces(stack[b], visited[b]) /\ Opened(stack[b], visited[b])
      /\ FileState(b, at[b], stack[b], visited[b], program[b])
      /\ program[b] = <<>> /\ visited[b] \in SUBSET Files
  BY <1>1, <1>2, MergingFacts DEF FilesInv, TypeInv, TypeOK
<1>4. /\ Len(a) = n /\ n \in Nat \ {0} /\ a \in Seq(Frames)
      /\ \A d \in 1..n : a[d].file = stack[b][d].file /\ a[d].decls = stack[b][d].decls
  BY <1>2, AtNextPieces
<1>5. Imports(Top(b).file, f) /\ f \in Files /\ f \in Reached(given.root[b])
  BY <1>2, NextReached
<1>6. Pieces(s, v)
  <2>1. Pieces(a, visited[b]) /\ a # <<>>
    BY <1>2, <1>3, <1>4, SamePieces, AtNextFacts DEF FilesInv
  <2>2. Imports(a[Len(a)].file, f)
    BY <1>4, <1>5 DEF Top
  <2> HIDE DEF a, f
  <2>3. QED
    BY <1>2, <1>4, <1>5, <2>1, <2>2, PushPiece
<1>7. Opened(s, v)
  <2>1. /\ Len(s) = n + 1 /\ \A d \in 1..n : s[d] = a[d]
        /\ s[n + 1] = Frame(f)
    <3>1. Frame(f) \in Frames
      BY <1>5, FrameType
    <3> HIDE DEF f, a
    <3>2. QED
      BY <1>4, <3>1, AppendProperties
  <2>2. s[n + 1].file = f /\ s[n + 1].next = 1
    BY <1>5, <2>1, FramePiece, FrameType
  <2>3. ASSUME NEW g \in visited[b], NEW i \in DOMAIN ImportsOf(g)
        PROVE  ImportsOf(g)[i] \in v \/ \E d \in 1..Len(s) : s[d].file = g /\ i >= s[d].next
    <3>1. \/ ImportsOf(g)[i] \in v
          \/ \E d \in 1..n : a[d].file = g /\ i >= a[d].next
      BY <1>2, <2>3, AtNextOpened
    <3> HIDE DEF a, s, v, f, n
    <3>2. QED
      BY <1>4, <2>1, <3>1
  <2>4. ASSUME NEW i \in DOMAIN ImportsOf(f)
        PROVE  \E d \in 1..Len(s) : s[d].file = f /\ i >= s[d].next
    <3>1. i \in Nat /\ i >= 1
      BY <1>1, <1>5, <2>4, GivenFacts DEF TypeInv
    <3> HIDE DEF a, s, v, f
    <3>2. n + 1 \in 1..Len(s)
      BY <1>4, <2>1
    <3>3. QED
      BY <2>2, <3>1, <3>2
  <2> HIDE DEF s
  <2>5. QED
    BY <2>3, <2>4 DEF Opened
<1>8. Visited(b, at[b], v)
  BY <1>2, <1>3, <1>5 DEF FileState, Visited
<1> HIDE DEF s, v
<1>9. FileState(b, at[b], s, v, program[b])
  BY <1>2, <1>3, <1>6, <1>7, <1>8 DEF FileState, Stage
<1>10. QED
  BY <1>1, <1>2, <1>9, StepKeepsFiles

\* Two pieces make one, if the second's file is imported by the first's and
\* they have no file in common.
LEMMA JoinPieces ==
  ASSUME NEW f, NEW g, NEW c \in Seq(Files), NEW t \in Seq(Files), Piece(f, c), Piece(g, t),
         Imports(f, g), ElementsOf(c) \cap ElementsOf(t) = {}
  PROVE  /\ Piece(f, c \o t) /\ c \o t \in Seq(Files)
         /\ ElementsOf(c \o t) = ElementsOf(c) \cup ElementsOf(t)
<1> DEFINE j == c \o t
           n == Len(c)
           m == Len(t)
<1>1. /\ j \in Seq(Files) /\ Len(j) = n + m /\ n \in Nat \ {0} /\ m \in Nat \ {0}
      /\ \A i \in 1..n : j[i] = c[i]
      /\ \A i \in 1..m : j[n + i] = t[i]
  <2>1. n \in Nat \ {0} /\ m \in Nat \ {0}
    BY LenProperties, EmptySeq DEF Piece
  <2>2. /\ j \in Seq(Files) /\ Len(j) = n + m
        /\ \A i \in 1 .. n + m : j[i] = IF i <= n THEN c[i] ELSE t[i - n]
    BY ConcatProperties
  <2> HIDE DEF j, n, m
  <2>3. \A i \in 1..m : n + i \in 1 .. n + m /\ ~(n + i <= n) /\ (n + i) - n = i
    BY <2>1
  <2>4. QED
    BY <2>1, <2>2, <2>3
<1> HIDE DEF j
<1>2. \A i \in 1 .. n + m : i \in 1..n \/ \E k \in 1..m : i = n + k
  <2> TAKE i \in 1 .. n + m
  <2>1. CASE i > n
    <3>1. i - n \in 1..m /\ i = n + (i - n)
      BY <1>1, <2>1
    <3>2. QED
      BY <3>1
  <2>2. QED
    BY <1>1, <2>1
<1>3. ElementsOf(j) = ElementsOf(c) \cup ElementsOf(t)
  <2>1. ASSUME NEW i \in 1 .. n + m PROVE j[i] \in ElementsOf(c) \cup ElementsOf(t)
    <3>1. CASE i \in 1..n
      BY <1>1, <3>1 DEF ElementsOf
    <3>2. ASSUME NEW k \in 1..m, i = n + k PROVE j[i] \in ElementsOf(t)
      <4>1. j[i] = t[k]
        BY <1>1, <3>2
      <4>2. QED
        BY <4>1 DEF ElementsOf
    <3>3. QED
      BY <1>2, <3>1, <3>2
  <2>2. ASSUME NEW i \in 1..n PROVE c[i] \in ElementsOf(j)
    <3>1. i \in 1 .. n + m /\ j[i] = c[i]
      BY <1>1
    <3>2. QED
      BY <1>1, <3>1 DEF ElementsOf
  <2>3. ASSUME NEW i \in 1..m PROVE t[i] \in ElementsOf(j)
    <3>1. n + i \in 1 .. n + m /\ j[n + i] = t[i]
      BY <1>1
    <3>2. QED
      BY <1>1, <3>1 DEF ElementsOf
  <2>4. \A x \in ElementsOf(j) : x \in ElementsOf(c) \cup ElementsOf(t)
    BY <1>1, <2>1 DEF ElementsOf
  <2>5. \A x \in ElementsOf(c) : x \in ElementsOf(j)
    BY <2>2 DEF ElementsOf
  <2>6. \A x \in ElementsOf(t) : x \in ElementsOf(j)
    BY <2>3 DEF ElementsOf
  <2>7. QED
    BY <2>4, <2>5, <2>6
<1>4. Once(j)
  <2>1. SUFFICES ASSUME NEW i \in 1 .. n + m, NEW k \in 1 .. n + m, j[i] = j[k]
                 PROVE  i = k
    BY <1>1 DEF Once
  <2>2. CASE i \in 1..n /\ k \in 1..n
    BY <1>1, <2>1, <2>2 DEF Piece, Once
  <2>3. ASSUME NEW x \in 1..n, NEW y \in 1..m PROVE j[x] # j[n + y]
    BY <1>1 DEF ElementsOf
  <2>4. ASSUME NEW x \in 1..m, NEW y \in 1..m, i = n + x, k = n + y PROVE i = k
    BY <1>1, <2>1, <2>4 DEF Piece, Once
  <2>5. QED
    BY <1>2, <2>1, <2>2, <2>3, <2>4
<1>5. \A i \in 2 .. n + m : \E k \in 1 .. i - 1 : Imports(j[k], j[i])
  <2> TAKE i \in 2 .. n + m
  <2>1. CASE i \in 1..n
    <3>1. i \in 2..n
      BY <2>1
    <3>2. PICK k \in 1 .. i - 1 : Imports(c[k], c[i])
      BY <3>1 DEF Piece
    <3>3. j[k] = c[k] /\ j[i] = c[i]
      BY <1>1, <3>1, <3>2
    <3>4. QED
      BY <3>2, <3>3
  <2>2. CASE i = n + 1
    <3>1. j[1] = f /\ j[i] = g
      <4>1. j[1] = c[1] /\ j[n + 1] = t[1]
        BY <1>1
      <4>2. QED
        BY <2>2, <4>1 DEF Piece
    <3>2. 1 \in 1 .. i - 1
      BY <1>1, <2>2
    <3>3. QED
      BY <3>1, <3>2
  <2>3. ASSUME NEW x \in 2..m, i = n + x PROVE \E k \in 1 .. i - 1 : Imports(j[k], j[i])
    <3>1. PICK k \in 1 .. x - 1 : Imports(t[k], t[x])
      BY DEF Piece
    <3>2. j[n + k] = t[k] /\ j[i] = t[x] /\ n + k \in 1 .. i - 1
      BY <1>1, <2>3, <3>1
    <3>3. QED
      BY <3>1, <3>2
  <2>4. i \in 1..n \/ i = n + 1 \/ \E x \in 2..m : i = n + x
    <3>1. CASE i > n + 1
      <4>1. i - n \in 2..m /\ i = n + (i - n)
        BY <1>1, <3>1
      <4>2. QED
        BY <4>1
    <3>2. QED
      BY <1>1, <3>1
  <2>5. QED
    BY <2>1, <2>2, <2>3, <2>4
<1>6. Piece(f, j)
  <2>1. j # <<>> /\ j[1] = f
    <3>1. j[1] = c[1] /\ Len(j) # 0
      BY <1>1
    <3>2. QED
      BY <1>1, <3>1, EmptySeq DEF Piece
  <2>2. QED
    BY <1>1, <1>4, <1>5, <2>1 DEF Piece
<1>7. QED
  BY <1>1, <1>3, <1>6 DEF j

\* A merged file's piece goes to its importer.
LEMMA PopPiece ==
  ASSUME NEW s \in Seq(Frames), NEW n \in Nat \ {0}, Len(s) = n + 1, NEW v, Pieces(s, v),
         NEW m \in Seq(Frames), Len(m) = n, \A d \in 1 .. n - 1 : m[d] = s[d],
         m[n].file = s[n].file, m[n].decls = s[n].decls \o s[n + 1].decls
  PROVE  Pieces(m, v)
<1>1. /\ n \in 1..Len(s) /\ n + 1 \in 1..Len(s) /\ n \in 1 .. Len(s) - 1
      /\ \A d \in 1..n : d = n \/ d \in 1 .. n - 1
      /\ \A d \in 1 .. n + 1 : d = n \/ d = n + 1 \/ d \in 1 .. n - 1
      /\ \A d \in 1 .. n - 1 : d \in 1..Len(s) /\ d # n /\ d # n + 1
  OBVIOUS
<1>2. \A d \in 1..Len(s) : s[d].decls \in Seq(Files)
  <2>1. \A d \in 1..Len(s) : s[d] \in Frames
    BY ElementOfSeq
  <2>2. QED
    BY <2>1 DEF Frames
<1>3. /\ Piece(s[n].file, s[n].decls) /\ Piece(s[n + 1].file, s[n + 1].decls)
      /\ Imports(s[n].file, s[n + 1].file)
      /\ ElementsOf(s[n].decls) \cap ElementsOf(s[n + 1].decls) = {}
  BY <1>1 DEF Pieces
<1>4. /\ Piece(m[n].file, m[n].decls)
      /\ ElementsOf(m[n].decls) = ElementsOf(s[n].decls) \cup ElementsOf(s[n + 1].decls)
  BY <1>1, <1>2, <1>3, JoinPieces
<1>5. \A d \in 1..n : Piece(m[d].file, m[d].decls)
  BY <1>1, <1>4 DEF Pieces
<1>6. \A d \in 1 .. n - 1 : Imports(m[d].file, m[d + 1].file)
  <2> TAKE d \in 1 .. n - 1
  <2>1. d \in 1 .. Len(s) - 1 /\ m[d] = s[d] /\ m[d + 1].file = s[d + 1].file
    <3>1. d + 1 = n \/ d + 1 \in 1 .. n - 1
      OBVIOUS
    <3>2. QED
      BY <3>1
  <2>2. QED
    BY <2>1 DEF Pieces
<1>7. \A d \in 1 .. n - 1 : /\ ElementsOf(m[d].decls) \cap ElementsOf(m[n].decls) = {}
                            /\ ElementsOf(m[n].decls) \cap ElementsOf(m[d].decls) = {}
  <2> TAKE d \in 1 .. n - 1
  <2>1. m[d] = s[d] /\ d \in 1..Len(s) /\ d # n /\ d # n + 1
    BY <1>1
  <2>2. /\ ElementsOf(s[d].decls) \cap ElementsOf(s[n].decls) = {}
        /\ ElementsOf(s[d].decls) \cap ElementsOf(s[n + 1].decls) = {}
    BY <1>1, <2>1 DEF Pieces
  <2>3. QED
    BY <1>4, <2>1, <2>2
<1>8. \A d, e \in 1..n : d # e => ElementsOf(m[d].decls) \cap ElementsOf(m[e].decls) = {}
  <2> SUFFICES ASSUME NEW d \in 1..n, NEW e \in 1..n, d # e
               PROVE  ElementsOf(m[d].decls) \cap ElementsOf(m[e].decls) = {}
    OBVIOUS
  <2>1. CASE d \in 1 .. n - 1 /\ e \in 1 .. n - 1
    <3>1. m[d] = s[d] /\ m[e] = s[e] /\ d \in 1..Len(s) /\ e \in 1..Len(s)
      BY <1>1, <2>1
    <3>2. QED
      BY <3>1 DEF Pieces
  <2>2. QED
    BY <1>1, <1>7, <2>1
<1>9. \A f \in v : \E d \in 1..n : f \in ElementsOf(m[d].decls)
  <2> TAKE f \in v
  <2>1. PICK d \in 1 .. n + 1 : f \in ElementsOf(s[d].decls)
    BY DEF Pieces
  <2>2. CASE d \in 1 .. n - 1
    BY <2>1, <2>2
  <2>3. CASE d = n \/ d = n + 1
    <3>1. f \in ElementsOf(m[n].decls)
      BY <1>4, <2>1, <2>3
    <3>2. n \in 1..n
      OBVIOUS
    <3>3. QED
      BY <3>1, <3>2
  <2>4. QED
    BY <1>1, <2>2, <2>3
<1>10. \A d \in 1..n : ElementsOf(m[d].decls) \subseteq v
  <2>1. \A d \in 1 .. n - 1 : ElementsOf(m[d].decls) \subseteq v
    BY <1>1 DEF Pieces
  <2>2. ElementsOf(m[n].decls) \subseteq v
    BY <1>1, <1>4 DEF Pieces
  <2>3. QED
    BY <1>1, <2>1, <2>2
<1>11. QED
  BY <1>5, <1>6, <1>8, <1>9, <1>10 DEF Pieces

\* A file whose loop has ended leaves nothing of its own to be visited.
LEMMA PopOpened ==
  ASSUME FilesInv, NEW b \in Builders, at[b] = "merging", ~HasImport(b),
         NEW f \in visited[b], NEW i \in DOMAIN ImportsOf(f)
  PROVE  \/ ImportsOf(f)[i] \in visited[b]
         \/ \E d \in 1 .. Len(stack[b]) - 1 : stack[b][d].file = f /\ i >= stack[b][d].next
<1> DEFINE n == Len(stack[b])
<1>1. TypeInv /\ TypeOK /\ Opened(stack[b], visited[b])
  BY MergingFacts
<1>2. n \in Nat \ {0} /\ Top(b).next \in Nat /\ Top(b).file \in Files /\ Top(b) = stack[b][n]
  BY <1>1, TopFacts DEF Top
<1>3. f \in Files
  BY <1>1 DEF TypeOK
<1>4. i \in 1..Len(ImportsOf(f)) /\ Len(ImportsOf(f)) \in Nat
  BY <1>1, <1>3, GivenFacts
<1>5. ~(Top(b).file = f /\ i >= Top(b).next)
  BY <1>2, <1>4 DEF HasImport
<1>6. \A d \in 1..n : d = n \/ d \in 1 .. n - 1
  BY <1>2
<1>7. QED
  BY <1>1, <1>2, <1>5, <1>6 DEF Opened

\* The end of a file: its piece goes to its importer, or is the program.
LEMMA MergeFiles ==
  ASSUME FilesInv, NEW b \in Builders, Merge(b)
  PROVE  FilesInv'
<1> DEFINE n == Len(stack[b]) - 1
<1>1. TypeInv' /\ Alone(b) /\ TypeInv
  BY MergeSteps DEF FilesInv
<1>2. /\ at[b] = "merging" /\ ~HasImport(b) /\ visited' = visited
      /\ at \in [Builders -> Places \cup Ended]
      /\ stack \in [Builders -> Seq(Frames)] /\ program \in [Builders -> Seq(Files)]
  BY <1>1 DEF Merge, TypeInv, TypeOK
<1>3. /\ Pieces(stack[b], visited[b]) /\ program[b] = <<>>
      /\ FileState(b, at[b], stack[b], visited[b], program[b])
  BY <1>2, MergingFacts DEF FilesInv
<1>4. /\ stack[b] \in Seq(Frames) /\ Len(stack[b]) = n + 1 /\ n \in Nat
      /\ Top(b) = stack[b][n + 1] /\ Len(Caller(b)) = n /\ Caller(b) \in Seq(Frames)
      /\ Top(b).decls \in Seq(Files)
  BY <1>1, <1>2, TopFacts, CallerFacts DEF Top
<1>5. \A f \in visited[b] : \A i \in DOMAIN ImportsOf(f) :
        \/ ImportsOf(f)[i] \in visited[b]
        \/ \E d \in 1..n : stack[b][d].file = f /\ i >= stack[b][d].next
  BY <1>2, PopOpened
<1>6. CASE Caller(b) = <<>>
  <2> DEFINE p == Top(b).decls
  <2>1. stack'[b] = <<>> /\ program'[b] = p /\ at'[b] = "resolving"
    BY <1>2, <1>6 DEF Merge, Goes
  <2>2. n = 0 /\ Len(stack[b]) = 1 /\ Top(b) = stack[b][1]
    BY <1>4, <1>6, EmptySeq
  <2>3. Piece(Top(b).file, p)
    BY <1>3, <2>2 DEF Pieces
  <2>4. p # <<>> /\ Piece(p[1], p)
    BY <2>3 DEF Piece
  <2>5. visited[b] = ElementsOf(p)
    <3>1. \A d \in 1..Len(stack[b]) : stack[b][d].decls = p
      BY <2>2
    <3>2. 1 \in 1..Len(stack[b])
      BY <2>2
    <3> HIDE DEF p
    <3>3. \A f \in visited[b] : f \in ElementsOf(p)
      BY <1>3, <3>1 DEF Pieces
    <3>4. ElementsOf(p) \subseteq visited[b]
      BY <1>3, <3>1, <3>2 DEF Pieces
    <3>5. QED
      BY <3>3, <3>4
  <2>6. Opened(<<>>, visited[b])
    BY <1>5, <2>2 DEF Opened
  <2>7. Visited(b, "resolving", visited[b])
    BY <1>2, <1>3 DEF FileState, Visited
  <2> HIDE DEF p
  <2>8. FileState(b, "resolving", <<>>, visited[b], p)
    BY <2>4, <2>5, <2>6, <2>7 DEF FileState, Stage, Fails
  <2>9. QED
    BY <1>1, <1>2, <2>1, <2>8, StepKeepsFiles
<1>7. CASE Caller(b) # <<>>
  <2> DEFINE m == [Caller(b) EXCEPT ![Len(Caller(b))].decls = @ \o Top(b).decls]
  <2>1. stack'[b] = m /\ program' = program /\ at' = at
    BY <1>2, <1>7 DEF Merge
  <2>2. /\ n \in Nat \ {0} /\ m \in Seq(Frames) /\ Len(m) = n
        /\ \A d \in 1 .. n - 1 : m[d] = stack[b][d]
        /\ m[n] = [stack[b][n] EXCEPT !.decls = @ \o Top(b).decls]
    BY <1>1, <1>2, <1>7, MergedCaller
  <2> HIDE DEF m
  <2>3. stack[b][n] \in Frames
    <3>1. Len(stack[b]) = n + 1 /\ n \in Nat \ {0}
      BY <1>4, <2>2
    <3> HIDE DEF n
    <3>2. n \in 1..Len(stack[b])
      BY <3>1
    <3>3. QED
      BY <1>4, <3>2, ElementOfSeq
  <2>4. /\ m[n].file = stack[b][n].file /\ m[n].next = stack[b][n].next
        /\ m[n].decls = stack[b][n].decls \o stack[b][n + 1].decls
    BY <1>4, <2>2, <2>3 DEF Frames
  <2>5. Pieces(m, visited[b])
    <3>1. Len(stack[b]) = n + 1 /\ stack[b] \in Seq(Frames) /\ n \in Nat \ {0}
      BY <1>4, <2>2
    <3> HIDE DEF n
    <3>2. QED
      BY <1>3, <2>2, <2>4, <3>1, PopPiece
  <2>6. Opened(m, visited[b])
    <3>1. \A d \in 1..n : m[d].file = stack[b][d].file /\ m[d].next = stack[b][d].next
      <4>1. \A d \in 1..n : d = n \/ d \in 1 .. n - 1
        BY <2>2
      <4>2. QED
        BY <2>2, <2>4, <4>1
    <3> HIDE DEF n
    <3>2. QED
      BY <1>5, <2>2, <3>1 DEF Opened
  <2>7. FileState(b, at[b], m, visited[b], program[b])
    BY <1>2, <1>3, <2>5, <2>6 DEF FileState, Stage
  <2>8. QED
    BY <1>1, <1>2, <2>1, <2>7, StepKeepsFiles
<1>8. QED
  BY <1>6, <1>7

LEMMA NextFiles ==
  ASSUME FilesInv, [Next]_vars
  PROVE  FilesInv'
<1>1. CASE UNCHANGED vars
  <2>1. TypeInv' /\ given' = given
    BY <1>1, StutterTypes DEF FilesInv, vars
  <2>2. \A e \in Builders : FileState(e, at'[e], stack'[e], visited'[e], program'[e])
    BY <1>1 DEF FilesInv, vars
  <2>3. QED
    BY <2>1, <2>2, FilesSame
<1>2. CASE Next
  BY <1>2, BeginFiles, SkipFiles, ImportFiles, CannotImportFiles, MergeFiles, ResolveFiles
     DEF Next, Step
<1>3. QED
  BY <1>1, <1>2

\* A build fails only for a file it needs, and one that does not fail has them
\* all: neither a dependency nor another build makes it fail (deps.rs:10).
THEOREM FailsForFilesProved == Spec => []FailsForFiles
<1>1. Init => FilesInv
  BY InitFiles
<1>2. FilesInv /\ [Next]_vars => FilesInv'
  BY NextFiles
<1>3. FilesInv => FailsForFiles
  BY DEF FilesInv, FileState, Fails, FailsForFiles
<1>4. QED
  BY <1>1, <1>2, <1>3, PTL DEF Spec

\* A program has every file that its root reaches, each once, and none before
\* a file that imports it (compiler.rs:117).
THEOREM MergedOnceProved == Spec => []MergedOnce
<1>1. Init => FilesInv
  BY InitFiles
<1>2. FilesInv /\ [Next]_vars => FilesInv'
  BY NextFiles
<1>3. FilesInv => MergedOnce
  <2>1. SUFFICES ASSUME FilesInv, NEW b \in Builders, program[b] # <<>>
        PROVE  /\ Once(program[b])
               /\ {program[b][i] : i \in 1..Len(program[b])} = Reached(given.root[b])
               /\ \A i \in 2..Len(program[b]) : \E j \in 1..i - 1 :
                    \E k \in 1..Len(ImportsOf(program[b][j])) :
                      ImportsOf(program[b][j])[k] = program[b][i]
    BY DEF MergedOnce
  <2>2. Piece(program[b][1], program[b]) /\ ElementsOf(program[b]) = Reached(given.root[b])
    BY <2>1, AllVisited
  <2>3. program[b] \in Seq(Files) /\ TypeOK /\ Len(program[b]) \in Nat
    BY <2>1, LenProperties DEF FilesInv, TypeInv, TypeOK
  <2>4. ASSUME NEW i \in 2..Len(program[b])
        PROVE  \E j \in 1..i - 1 : \E k \in 1..Len(ImportsOf(program[b][j])) :
                 ImportsOf(program[b][j])[k] = program[b][i]
    <3>1. PICK j \in 1 .. i - 1 : Imports(program[b][j], program[b][i])
      BY <2>2 DEF Piece
    <3>2. program[b][j] \in Files
      BY <2>3, ElementOfSeq
    <3>3. DOMAIN ImportsOf(program[b][j]) = 1..Len(ImportsOf(program[b][j]))
      BY <2>1, <2>3, <3>2, GivenFacts
    <3>4. QED
      BY <3>1, <3>3 DEF Imports
  <2>5. QED
    BY <2>2, <2>4 DEF Piece, ElementsOf
<1>4. QED
  BY <1>1, <1>2, <1>3, PTL DEF Spec

-----------------------------------------------------------------------------
(* The cache, in every behaviour *)

\* What a step of resolve_dep records, and that a process is killed once.
LEMMA FoundGrows ==
  ASSUME TypeInv, NEW b \in Builders, Resolve(b) \/ Kill(b)
  PROVE  /\ at[b] # "killed" /\ at \in [Builders -> Places \cup Ended]
         /\ \/ found' = found
            \/ /\ HasDep(b) /\ at'[b] = "resolving"
               /\ \E what \in {"resolved", "unresolved"} :
                    found' = [found EXCEPT ![b] = Append(found[b], what)]
<1>1. at \in [Builders -> Places \cup Ended]
  BY DEF TypeInv, TypeOK
<1>2. at[b] # "killed"
  BY DEF Resolve, Kill, Cached, NotCached, CloneBegins, CloneRefused, CloneFails,
     Cloned, CheckedOut, NoSuchRevision, NoCheckout, Built, HasDep, Resolving, Ended
<1>3. CASE Kill(b) \/ NotCached(b) \/ CloneBegins(b) \/ Built(b)
  BY <1>1, <1>2, <1>3 DEF Kill, NotCached, CloneBegins, Built, At
<1>4. CASE \/ Cached(b) \/ CloneRefused(b) \/ CloneFails(b)
           \/ CheckedOut(b) \/ NoSuchRevision(b) \/ NoCheckout(b)
  BY <1>1, <1>2, <1>4 DEF Cached, CloneRefused, CloneFails, CheckedOut, NoSuchRevision,
     NoCheckout, Records, Goes
<1>5. CASE Cloned(b)
  BY <1>1, <1>2, <1>5 DEF Cloned, Records, At, Goes
<1>6. QED
  BY <1>3, <1>4, <1>5 DEF Resolve

\* What was recorded stays recorded.
LEMMA FoundStays ==
  ASSUME TypeInv, NEW b \in Builders, Resolve(b) \/ Kill(b), NEW e \in Builders,
         NEW j \in 1..Len(found[e])
  PROVE  j \in 1..Len(found'[e]) /\ found'[e][j] = found[e][j]
<1>1. found \in [Builders -> Seq({"resolved", "unresolved"})]
  BY DEF TypeInv, TypeOK
<1>2. CASE found' = found
  BY <1>2
<1>3. ASSUME NEW what \in {"resolved", "unresolved"},
             found' = [found EXCEPT ![b] = Append(found[b], what)]
      PROVE  j \in 1..Len(found'[e]) /\ found'[e][j] = found[e][j]
  <2>1. CASE e # b
    BY <1>1, <1>3, <2>1
  <2>2. CASE e = b
    <3>1. found'[b] = Append(found[b], what)
      BY <1>1, <1>3
    <3>2. QED
      BY <2>2, <3>1, RecordFacts
  <2>3. QED
    BY <2>1, <2>2
<1>4. QED
  BY <1>2, <1>3, FoundGrows

\* So does the trace of who has taken a directory away.
LEMMA TakenStays ==
  ASSUME TypeInv, NEW b \in Builders, Resolve(b) \/ Kill(b), NEW a \in Builders, NEW k,
         TakenAway(a, k)
  PROVE  TakenAway(a, k)'
<1>1. Alone(b) /\ at[b] # "killed" /\ given' = given
  BY ResolveSteps, FoundGrows DEF Alone
<1>2. PICK e \in Builders \ {a} :
        \/ at[e] = "killed"
        \/ \E j \in 1..Len(found[e]) : Deps(e)[j].key = k /\ found[e][j] = "unresolved"
  BY DEF TakenAway
<1>3. CASE at[e] = "killed"
  <2>1. at'[e] = "killed"
    BY <1>1, <1>3 DEF Alone
  <2>2. QED
    BY <2>1 DEF TakenAway
<1>4. ASSUME NEW j \in 1..Len(found[e]), Deps(e)[j].key = k, found[e][j] = "unresolved"
      PROVE  TakenAway(a, k)'
  <2>1. j \in 1..Len(found'[e]) /\ found'[e][j] = "unresolved"
    BY <1>4, FoundStays
  <2>2. QED
    BY <1>1, <1>4, <2>1 DEF TakenAway, Deps
<1>5. QED
  BY <1>2, <1>3, <1>4

\* A directory goes away only while its owner clones into it, and leaves a trace.
LEMMA GoesAway ==
  ASSUME TypeInv, NEW b \in Builders, Resolve(b) \/ Kill(b),
         NEW k \in Keys, cache[k] # <<>>, cache'[k] = <<>>
  PROVE  /\ at[b] = "fetching" /\ HasDep(b) /\ Dep(b).key = k
         /\ \/ at'[b] = "killed"
            \/ found' = [found EXCEPT ![b] = Append(found[b], "unresolved")]
<1>1. cache' # cache
  OBVIOUS
<1>2. HasDep(b) /\ Dep(b).key = k /\ Sets(b, <<>>)
  <2>1. HasDep(b) /\ \E dir \in Dirs : Sets(b, dir)
    BY <1>1, ResolveSteps DEF ResolveStep, OwnDir
  <2>2. PICK dir \in Dirs : Sets(b, dir)
    BY <2>1
  <2>3. Dep(b).key = k /\ dir = <<>>
    BY <2>1, <2>2, SetsFacts
  <2>4. QED
    BY <2>1, <2>2, <2>3
<1>3. at \in [Builders -> Places \cup Ended] /\ Dir(b) # <<>>
  BY <1>2 DEF TypeInv, TypeOK, Dir
<1>4. ASSUME NEW dir, dir # <<>>, Sets(b, dir) PROVE FALSE
  BY <1>2, <1>4, SetsFacts
<1>5. CASE CloneFails(b)
  BY <1>1, <1>2, <1>5 DEF CloneFails, Records, Keeps
<1>6. CASE Kill(b)
  <2>1. ~Spoils(b)
    BY <1>4 DEF Spoils
  <2>2. QED
    BY <1>1, <1>2, <1>3, <1>6, <2>1 DEF Kill, Keeps, At, Goes
<1>7. CASE ~Kill(b) /\ ~CloneFails(b)
  <2>1. /\ ~Sets(b, Clone(b, None)) /\ ~Sets(b, Clone(b, Default))
        /\ ~Sets(b, Clone(b, Dep(b).rev)) /\ ~Spoils(b)
    BY <1>4 DEF Clone, Spoils
  <2>2. QED
    BY <1>1, <1>7, <2>1 DEF Resolve, Cached, NotCached, CloneBegins, CloneRefused,
       Cloned, CheckedOut, NoSuchRevision, NoCheckout, Built, Keeps
<1>8. QED
  BY <1>5, <1>6, <1>7

\* What is recorded as resolved is there at that moment.
LEMMA NewlyResolved ==
  ASSUME TypeInv, NEW b \in Builders, Resolve(b) \/ Kill(b),
         NEW a \in Builders, NEW j \in 1..Len(found'[a]), j \notin 1..Len(found[a]),
         found'[a][j] = "resolved"
  PROVE  /\ a = b /\ j = Len(found[b]) + 1 /\ HasDep(b)
         /\ cache'[Dep(b).key] # <<>> /\ at'[b] = "resolving"
<1>1. /\ found \in [Builders -> Seq({"resolved", "unresolved"})]
      /\ at \in [Builders -> Places \cup Ended]
  BY DEF TypeInv, TypeOK
<1>2. PICK what \in {"resolved", "unresolved"} :
        /\ found' = [found EXCEPT ![b] = Append(found[b], what)]
        /\ HasDep(b) /\ at'[b] = "resolving"
  BY FoundGrows
<1>3. a = b
  BY <1>1, <1>2
<1>4. /\ Len(found[b]) \in Nat /\ found'[b] = Append(found[b], what)
      /\ Len(found'[b]) = Len(found[b]) + 1 /\ found'[b][Len(found[b]) + 1] = what
  BY <1>1, <1>2, RecordFacts
<1>5. j = Len(found[b]) + 1 /\ what = "resolved"
  BY <1>3, <1>4
<1>6. found' # [found EXCEPT ![b] = Append(@, "unresolved")] /\ found' # found
  <2>1. found'[b][Len(found[b]) + 1] # "unresolved"
    BY <1>4, <1>5
  <2>2. Append(found[b], "unresolved")[Len(found[b]) + 1] = "unresolved"
    BY RecordFacts
  <2>3. Len(found'[b]) # Len(found[b])
    BY <1>4
  <2>4. QED
    BY <1>1, <2>1, <2>2, <2>3
<1>7. cache'[Dep(b).key] # <<>>
  <2>1. \A dir : dir # <<>> /\ Sets(b, dir) => cache'[Dep(b).key] # <<>>
    BY <1>2, SetsFacts
  <2>2. Sets(b, Clone(b, Default)) \/ Sets(b, Clone(b, Dep(b).rev)) \/ Spoils(b)
        => cache'[Dep(b).key] # <<>>
    BY <2>1 DEF Clone, Spoils
  <2>3. CASE Cached(b)
    BY <2>3 DEF Cached, Keeps, Dir
  <2>4. CASE Cloned(b) \/ CheckedOut(b) \/ NoCheckout(b)
    BY <2>2, <2>4 DEF Cloned, CheckedOut, NoCheckout
  <2>5. QED
    BY <1>6, <2>3, <2>4 DEF Resolve, Kill, At, NotCached, CloneBegins,
       CloneRefused, CloneFails, NoSuchRevision, Built, Records
<1>8. QED
  BY <1>2, <1>3, <1>5, <1>7

\* There is one record for each dependency at most.
LEMMA RecordedStays ==
  ASSUME TypeInv, Recorded, NEW b \in Builders, Resolve(b) \/ Kill(b)
  PROVE  Recorded'
<1>1. SUFFICES ASSUME NEW a \in Builders PROVE Len(found'[a]) <= Len(Deps(a))
  BY ResolveSteps DEF Recorded, Alone, Deps
<1>2. found \in [Builders -> Seq({"resolved", "unresolved"})]
  BY DEF TypeInv, TypeOK
<1>3. CASE found'[a] = found[a]
  BY <1>3 DEF Recorded
<1>4. ASSUME HasDep(b), NEW what \in {"resolved", "unresolved"},
             found' = [found EXCEPT ![b] = Append(found[b], what)]
      PROVE  Len(found'[a]) <= Len(Deps(a))
  <2>1. CASE a # b
    BY <1>2, <1>3, <1>4, <2>1
  <2>2. CASE a = b
    <3>1. Len(found'[b]) = Len(found[b]) + 1
      BY <1>2, <1>4, RecordFacts
    <3>2. QED
      BY <1>4, <2>2, <3>1, DepFacts DEF TypeInv
  <2>3. QED
    BY <2>1, <2>2
<1>5. QED
  BY <1>3, <1>4, FoundGrows

\* The trace of whoever has taken a directory away is not lost.
LEMMA LostStays ==
  ASSUME TypeInv, Recorded, Lost, NEW b \in Builders, Resolve(b) \/ Kill(b)
  PROVE  Lost'
<1>1. Alone(b) /\ given' = given /\ ResolveStep(b) /\ TypeInv'
  BY ResolveSteps DEF Alone
<1>2. SUFFICES ASSUME NEW a \in Builders, NEW i \in 1..Len(found'[a]),
                      found'[a][i] = "resolved", NEW k, k = Deps(a)[i].key,
                      cache'[k] = <<>> \/ (at'[a] = "fetching" /\ Dep(a)'.key = k)
               PROVE  TakenAway(a, k)'
  BY <1>1 DEF Lost, Deps
<1>3. i \in 1..Len(found[a])
  <2>1. SUFFICES ASSUME i \notin 1..Len(found[a]) PROVE FALSE
    OBVIOUS
  <2>2. /\ a = b /\ i = Len(found[b]) + 1 /\ HasDep(b)
        /\ cache'[Dep(b).key] # <<>> /\ at'[b] = "resolving"
    BY <1>2, <2>1, NewlyResolved
  <2>3. k = Dep(b).key
    BY <1>2, <2>2 DEF Dep
  <2>4. QED
    BY <1>2, <2>2, <2>3
<1>4. found[a][i] = "resolved"
  BY <1>2, <1>3, FoundStays
<1>5. k \in Keys
  <2>1. Deps(a) \in Seq(Dependency) /\ Len(found[a]) \in Nat
        /\ Len(Deps(a)) \in Nat /\ Len(found[a]) <= Len(Deps(a))
    BY GivenFacts, RecordFacts DEF TypeInv, Recorded
  <2>2. i \in 1..Len(Deps(a))
    BY <1>3, <2>1
  <2>3. Deps(a)[i] \in Dependency
    BY <2>1, <2>2, ElementOfSeq
  <2>4. QED
    BY <1>2, <2>3 DEF Dependency
<1>6. CASE cache[k] = <<>> \/ (at[a] = "fetching" /\ Dep(a).key = k)
  <2>1. TakenAway(a, k)
    BY <1>2, <1>3, <1>4, <1>6 DEF Lost
  <2>2. QED
    BY <2>1, TakenStays
<1>7. CASE cache[k] # <<>> /\ ~(at[a] = "fetching" /\ Dep(a).key = k)
  <2>1. CASE cache'[k] = <<>>
    <3>1. /\ at[b] = "fetching" /\ HasDep(b) /\ Dep(b).key = k
          /\ \/ at'[b] = "killed"
             \/ found' = [found EXCEPT ![b] = Append(found[b], "unresolved")]
      BY <1>5, <1>7, <2>1, GoesAway
    <3>2. b \in Builders \ {a}
      BY <1>7, <3>1
    <3>3. CASE at'[b] = "killed"
      BY <3>2, <3>3 DEF TakenAway
    <3>4. CASE found' = [found EXCEPT ![b] = Append(found[b], "unresolved")]
      <4> DEFINE j == Len(found[b]) + 1
      <4>1. found'[b] = Append(found[b], "unresolved")
        BY <3>4 DEF TypeInv, TypeOK
      <4>2. j \in 1..Len(found'[b]) /\ found'[b][j] = "unresolved"
        BY <4>1, RecordFacts
      <4>3. Deps(b)[j].key = k
        BY <3>1 DEF Dep
      <4> HIDE DEF j
      <4>4. QED
        BY <1>1, <3>2, <4>2, <4>3 DEF TakenAway, Deps
    <3>5. QED
      BY <3>1, <3>3, <3>4
  <2>2. CASE at'[a] = "fetching" /\ Dep(a)'.key = k
    <3>1. a = b
      <4>1. SUFFICES ASSUME a # b PROVE FALSE
        OBVIOUS
      <4>2. at'[a] = at[a] /\ Dep(a)' = Dep(a)
        BY <1>1, <4>1 DEF Alone, Dep, Deps
      <4>3. QED
        BY <1>7, <2>2, <4>2
    <3>2. CloneBegins(b)
      <4>1. at \in [Builders -> Places \cup Ended]
        BY DEF TypeInv, TypeOK
      <4>2. QED
        BY <2>2, <3>1, <4>1 DEF Resolve, Kill, Cached, NotCached, CloneRefused, CloneFails,
           Cloned, CheckedOut, NoSuchRevision, NoCheckout, Built, Records, At, Goes
    <3>3. Dir(b) = <<>> /\ Dep(b)' = Dep(b)
      BY <1>1, <3>2 DEF CloneBegins, At, Dep, Deps
    <3>4. QED
      BY <1>7, <2>2, <3>1, <3>3 DEF Dir
  <2>3. QED
    BY <1>2, <2>1, <2>2
<1>8. QED
  BY <1>6, <1>7

\* What a builder that works in a directory may leave in it.
Leaves(b, dir) ==
  dir # <<>> =>
    /\ dir[1].by = b /\ dir[1].url = Dep(b).url
    /\ \/ at'[b] \in {"fetching", "checking"} /\ found'[b] = found[b]
       \/ dir[1].spoilt \/ dir[1].head = Asked(Dep(b))

\* It sets its directory to that, whatever it does.
LEMMA WhatIsLeft ==
  ASSUME TypeInv, NEW b \in Builders, Resolve(b) \/ Kill(b)
  PROVE  \/ cache' = cache /\ ~Busy(b)
         \/ HasDep(b) /\ \E dir : Sets(b, dir) /\ Leaves(b, dir)
<1>1. /\ at \in [Builders -> Places \cup Ended]
      /\ found \in [Builders -> Seq({"resolved", "unresolved"})]
  BY DEF TypeInv, TypeOK
<1>2. CASE Cached(b) \/ NotCached(b) \/ CloneRefused(b)
  BY <1>2 DEF Cached, NotCached, CloneRefused, Keeps, Busy
<1>3. CASE Built(b)
  <2>1. ~Busy(b)
    BY <1>3 DEF Built, TypeInv, Owner
  <2>2. QED
    BY <1>3, <2>1 DEF Built, Keeps
<1>4. ASSUME HasDep(b), Dir(b) # <<>>, Spoils(b), Busy(b)
      PROVE  HasDep(b) /\ \E dir : Sets(b, dir) /\ Leaves(b, dir)
  <2> DEFINE c == [Dir(b)[1] EXCEPT !.spoilt = TRUE]
  <2>1. Sets(b, <<c>>)
    BY <1>4 DEF Spoils
  <2>2. c.url = Dir(b)[1].url /\ c.by = Dir(b)[1].by /\ c.spoilt = TRUE
    BY <1>4, SpoilFacts
  <2>3. Dir(b)[1].by = b /\ Dir(b)[1].url = Dep(b).url
    BY <1>4 DEF TypeInv, Owner
  <2> HIDE DEF c
  <2>4. Leaves(b, <<c>>)
    BY <2>2, <2>3 DEF Leaves
  <2>5. QED
    BY <1>4, <2>1, <2>4
<1>5. CASE NoSuchRevision(b) \/ NoCheckout(b)
  <2>1. HasDep(b) /\ Busy(b) /\ Spoils(b)
    BY <1>5 DEF NoSuchRevision, NoCheckout, Busy
  <2>2. Dir(b) # <<>>
    BY <2>1 DEF TypeInv, Owner
  <2>3. QED
    BY <1>4, <2>1, <2>2
<1>6. Leaves(b, <<>>)
  BY DEF Leaves
<1>7. CASE Kill(b)
  <2>1. CASE Spoils(b) /\ Busy(b)
    <3>1. HasDep(b) /\ Dir(b) # <<>>
      BY <2>1 DEF TypeInv, Owner
    <3>2. QED
      BY <1>4, <2>1, <3>1
  <2>2. CASE Sets(b, <<>>) /\ Busy(b)
    <3>1. HasDep(b)
      BY <2>2 DEF TypeInv, Owner
    <3>2. QED
      BY <1>6, <2>2, <3>1
  <2>3. QED
    BY <1>7, <2>1, <2>2 DEF Kill, Keeps, Busy
<1>8. CASE CloneFails(b)
  <2>1. CASE at[b] = "fetching"
    BY <1>6, <1>8, <2>1 DEF CloneFails
  <2>2. CASE at[b] # "fetching"
    BY <1>8, <2>2 DEF CloneFails, Keeps, Busy
  <2>3. QED
    BY <2>1, <2>2
<1>9. ASSUME HasDep(b), NEW h \in Revisions \cup {Default, None}, Sets(b, Clone(b, h)),
             \/ at'[b] \in {"fetching", "checking"} /\ found'[b] = found[b]
             \/ h = Asked(Dep(b))
      PROVE  HasDep(b) /\ \E dir : Sets(b, dir) /\ Leaves(b, dir)
  <2>1. /\ Clone(b, h)[1].url = Dep(b).url /\ Clone(b, h)[1].by = b
        /\ Clone(b, h)[1].head = h
    BY <1>9, CloneFacts
  <2>2. Leaves(b, Clone(b, h))
    BY <1>9, <2>1 DEF Leaves
  <2>3. QED
    BY <1>9, <2>2
<1>10. CASE CloneBegins(b)
  <2>1. at'[b] = "fetching" /\ found'[b] = found[b]
    BY <1>1, <1>10 DEF CloneBegins, At, Goes
  <2>2. HasDep(b) /\ Sets(b, Clone(b, None)) /\ None \in Revisions \cup {Default, None}
    BY <1>10 DEF CloneBegins
  <2>3. QED
    BY <1>9, <2>1, <2>2
<1>11. CASE Cloned(b)
  <2>1. HasDep(b) /\ Sets(b, Clone(b, Default)) /\ Default \in Revisions \cup {Default, None}
    BY <1>11 DEF Cloned
  <2>2. CASE Dep(b).rev = None
    <3>1. Default = Asked(Dep(b))
      BY <2>2 DEF Asked
    <3>2. QED
      BY <1>9, <2>1, <3>1
  <2>3. CASE Dep(b).rev # None
    <3>1. at'[b] = "checking" /\ found'[b] = found[b]
      BY <1>1, <1>11, <2>3 DEF Cloned, At, Goes
    <3>2. QED
      BY <1>9, <2>1, <3>1
  <2>4. QED
    BY <2>2, <2>3
<1>12. CASE CheckedOut(b)
  <2>1. HasDep(b) /\ Sets(b, Clone(b, Dep(b).rev)) /\ Dep(b).rev \in given.has[Dep(b).url]
    BY <1>12 DEF CheckedOut
  <2>2. Dep(b).rev \in Revisions
    <3>1. given.has \in [Urls -> SUBSET Revisions] /\ Dep(b) \in Dependency
      BY <2>1, DepFacts DEF TypeInv, TypeOK, Surrounding
    <3>2. QED
      BY <2>1, <3>1 DEF Dependency
  <2>3. Dep(b).rev \in Revisions \cup {Default, None} /\ Dep(b).rev = Asked(Dep(b))
    BY <2>2, BuildsAssumption DEF Asked
  <2>4. QED
    BY <1>9, <2>1, <2>3
<1>13. QED
  BY <1>2, <1>3, <1>5, <1>7, <1>8, <1>10, <1>11, <1>12 DEF Resolve

\* Every clone is what somebody has made of a dependency, or is making.
LEMMA MadeStays ==
  ASSUME TypeInv, Made, NEW b \in Builders, Resolve(b) \/ Kill(b)
  PROVE  Made'
<1>1. Alone(b) /\ given' = given /\ TypeInv'
  BY ResolveSteps DEF Alone
<1>2. SUFFICES ASSUME NEW k \in Keys, cache'[k] # <<>>, NEW c, c = cache'[k][1]
               PROVE  (Busy(c.by) /\ Dep(c.by).key = k)' \/ MadeFor(c.by, k, c)
  BY <1>1 DEF Made, MadeFor, Deps, Asked
<1>3. \A e \in Builders \ {b} : Busy(e)' = Busy(e) /\ Dep(e)' = Dep(e)
  BY <1>1 DEF Alone, Busy, Dep, Deps
<1>4. CASE cache'[k] = cache[k] /\ ~(Busy(b) /\ Dep(b).key = k)
  <2>1. cache[k] # <<>> /\ c = cache[k][1]
    BY <1>2, <1>4
  <2>2. c.by \in Builders
    <3>1. c \in Clones
      BY <2>1, DirFacts DEF TypeInv
    <3>2. QED
      BY <3>1 DEF Clones
  <2>3. (Busy(c.by) /\ Dep(c.by).key = k) \/ MadeFor(c.by, k, c)
    BY <2>1 DEF Made
  <2>4. CASE Busy(c.by) /\ Dep(c.by).key = k
    <3>1. c.by \in Builders \ {b}
      BY <1>4, <2>2, <2>4
    <3>2. QED
      BY <1>3, <2>4, <3>1
  <2>5. QED
    BY <2>3, <2>4
<1>5. ASSUME HasDep(b), Dep(b).key = k, NEW dir, Sets(b, dir), Leaves(b, dir)
      PROVE  (Busy(c.by) /\ Dep(c.by).key = k)' \/ MadeFor(c.by, k, c)
  <2>1. cache'[k] = dir
    BY <1>5, SetsFacts
  <2>2. /\ c = dir[1] /\ c.by = b /\ c.url = Dep(b).url
        /\ \/ at'[b] \in {"fetching", "checking"} /\ found'[b] = found[b]
           \/ c.spoilt \/ c.head = Asked(Dep(b))
    BY <1>2, <1>5, <2>1 DEF Leaves
  <2>3. CASE at'[b] \in {"fetching", "checking"} /\ found'[b] = found[b]
    <3>1. Dep(b)' = Dep(b) /\ Busy(b)'
      BY <1>1, <2>3 DEF Dep, Deps, Busy
    <3>2. QED
      BY <1>5, <2>2, <3>1
  <2>4. CASE c.spoilt \/ c.head = Asked(Dep(b))
    <3> DEFINE j == Len(found[b]) + 1
    <3>1. j \in 1..Len(Deps(b)) /\ Dep(b) = Deps(b)[j]
      BY <1>5, DepFacts DEF Dep, TypeInv
    <3> HIDE DEF j
    <3>2. MadeFor(b, k, c)
      BY <1>5, <2>2, <2>4, <3>1 DEF MadeFor
    <3>3. QED
      BY <2>2, <3>2
  <2>5. QED
    BY <2>2, <2>3, <2>4
<1>6. CASE cache' = cache /\ ~Busy(b)
  BY <1>4, <1>6
<1>7. ASSUME HasDep(b), NEW dir, Sets(b, dir), Leaves(b, dir), Dep(b).key # k
      PROVE  (Busy(c.by) /\ Dep(c.by).key = k)' \/ MadeFor(c.by, k, c)
  <2>1. cache'[k] = cache[k]
    BY <1>7, SetsFacts
  <2>2. QED
    BY <1>4, <1>7, <2>1
<1>8. QED
  BY <1>5, <1>6, <1>7, WhatIsLeft

\* The steps of merge_imports leave the cache, and who works in it.
LEMMA MergeKeepsCache ==
  ASSUME CacheInv, NEW b \in Builders, MergeStep(b), TypeInv', Alone(b)
  PROVE  CacheInv'
<1>1. /\ given' = given /\ cache' = cache /\ found' = found
      /\ at[b] \in {"begin", "merging"} /\ at \in [Builders -> Places \cup Ended]
      /\ \E w \in {"begin", "merging", "failed", "resolving"} : at' = [at EXCEPT ![b] = w]
  BY DEF MergeStep, CacheInv, TypeInv, TypeOK
<1>2. \A e \in Builders : /\ Busy(e)' = Busy(e) /\ Dep(e)' = Dep(e) /\ Deps(e)' = Deps(e)
                          /\ (at'[e] = "fetching" <=> at[e] = "fetching")
                          /\ (at[e] = "killed" => at'[e] = "killed")
  BY <1>1 DEF Busy, Dep, Deps
<1>3. Recorded'
  BY <1>1, <1>2 DEF CacheInv, Recorded
<1>4. Made'
  <2>1. SUFFICES ASSUME NEW k \in Keys, cache[k] # <<>>, NEW c, c = cache[k][1]
                 PROVE  (Busy(c.by) /\ Dep(c.by).key = k)' \/ MadeFor(c.by, k, c)
    BY <1>1 DEF Made, MadeFor, Deps, Asked
  <2>2. c.by \in Builders
    <3>1. c \in Clones
      BY <2>1, DirFacts DEF CacheInv, TypeInv
    <3>2. QED
      BY <3>1 DEF Clones
  <2>3. QED
    BY <1>2, <2>1, <2>2 DEF CacheInv, Made
<1>5. Lost'
  <2>1. ASSUME NEW a \in Builders, NEW k, TakenAway(a, k) PROVE TakenAway(a, k)'
    BY <1>1, <1>2, <2>1 DEF TakenAway, Deps
  <2>2. SUFFICES ASSUME NEW a \in Builders, NEW i \in 1..Len(found[a]),
                        found[a][i] = "resolved", NEW k, k = Deps(a)[i].key,
                        cache[k] = <<>> \/ (at'[a] = "fetching" /\ Dep(a)'.key = k)
                 PROVE  TakenAway(a, k)'
    BY <1>1 DEF Lost, Deps
  <2>3. TakenAway(a, k)
    BY <1>2, <2>2 DEF CacheInv, Lost
  <2>4. QED
    BY <2>1, <2>3
<1>6. QED
  BY <1>3, <1>4, <1>5 DEF CacheInv

LEMMA InitCache ==
  ASSUME Init
  PROVE  CacheInv
<1>1. TypeInv
  BY InitTypes
<1>2. (\A b \in Builders : found[b] = <<>>) /\ (\A k \in Keys : cache[k] = <<>>)
  BY DEF Init
<1>3. Made /\ Lost
  BY <1>2, EmptySeq DEF Made, Lost
<1>4. Recorded
  BY <1>1, <1>2, GivenFacts, EmptySeq DEF Recorded, TypeInv
<1>5. QED
  BY <1>1, <1>3, <1>4 DEF CacheInv

LEMMA NextCache ==
  ASSUME CacheInv, [Next]_vars
  PROVE  CacheInv'
<1>1. CASE UNCHANGED vars
  <2>1. TypeInv'
    BY <1>1, StutterTypes DEF CacheInv
  <2>2. Made'
    <3>1. given' = given /\ at' = at /\ found' = found /\ cache' = cache
      BY <1>1 DEF vars
    <3>2. SUFFICES ASSUME NEW k \in Keys, cache[k] # <<>>, NEW c, c = cache[k][1]
                   PROVE  (Busy(c.by) /\ Dep(c.by).key = k)' \/ MadeFor(c.by, k, c)
      BY <3>1 DEF Made, MadeFor, Deps, Asked
    <3>3. (Busy(c.by) /\ Dep(c.by).key = k) \/ MadeFor(c.by, k, c)
      BY <3>2 DEF CacheInv, Made
    <3>4. QED
      BY <3>1, <3>3 DEF Busy, Dep, Deps
  <2>3. Lost'
    BY <1>1 DEF CacheInv, vars, Lost, TakenAway, Dep, Deps
  <2>4. Recorded'
    BY <1>1 DEF CacheInv, vars, Recorded, Deps
  <2>5. QED
    BY <2>1, <2>2, <2>3, <2>4 DEF CacheInv
<1>2. ASSUME NEW b \in Builders, Resolve(b) \/ Kill(b) PROVE CacheInv'
  BY <1>2, ResolveSteps, MadeStays, LostStays, RecordedStays DEF CacheInv
<1>3. ASSUME NEW b \in Builders,
             Begin(b) \/ Skip(b) \/ Import(b) \/ CannotImport(b) \/ Merge(b)
      PROVE  CacheInv'
  BY <1>3, MergeSteps, MergeKeepsCache DEF CacheInv
<1>4. QED
  BY <1>1, <1>2, <1>3 DEF Next, Step

\* A dependency that was recorded as resolved is in the cache, at the revision
\* that was asked for (deps.rs:9), or one of the four things has happened that
\* NothingElseMisleads names: there is no fifth.
THEOREM NothingElseMisleadsProved == Spec => []NothingElseMisleads
<1>1. Init => CacheInv
  BY InitCache
<1>2. CacheInv /\ [Next]_vars => CacheInv'
  BY NextCache
<1>3. CacheInv => NothingElseMisleads
  <2> SUFFICES ASSUME CacheInv, NEW b \in Builders, NEW i \in 1..Len(found[b]),
                      found[b][i] = "resolved"
      PROVE
        LET d == Deps(b)[i]  c == cache[d.key] IN
        IF c = <<>> THEN \E e \in Builders \ {b} : at[e] = "killed" \/
                           \E j \in 1..Len(found[e]) :
                             Deps(e)[j].key = d.key /\ found[e][j] = "unresolved"
        ELSE \/ c[1].url = d.url /\ c[1].head = Asked(d)
             \/ c[1].spoilt
             \/ at[c[1].by] \in {"fetching", "checking"} /\ Dep(c[1].by).key = d.key
             \/ \E i2 \in 1..Len(Deps(c[1].by)) :
                  LET d2 == Deps(c[1].by)[i2] IN d2 # d /\ d2.key = d.key
    BY DEF NothingElseMisleads
  <2> DEFINE d == Deps(b)[i]
             c == cache[d.key]
  <2>1. found[b][i] = "resolved"
    OBVIOUS
  <2>2. d.key \in Keys
    <3>1. /\ Deps(b) \in Seq(Dependency) /\ Len(found[b]) \in Nat
          /\ Len(Deps(b)) \in Nat /\ Len(found[b]) <= Len(Deps(b))
      BY <2>1, GivenFacts, RecordFacts DEF CacheInv, TypeInv, Recorded
    <3>2. i \in 1..Len(Deps(b))
      BY <2>1, <3>1
    <3>3. d \in Dependency
      BY <2>1, <3>1, <3>2, ElementOfSeq
    <3>4. QED
      BY <3>3 DEF Dependency
  <2>3. CASE c = <<>>
    <3>1. TakenAway(b, d.key)
      BY <2>1, <2>3 DEF CacheInv, Lost
    <3>2. QED
      BY <2>3, <3>1 DEF TakenAway
  <2>4. CASE c # <<>>
    <3>1. (Busy(c[1].by) /\ Dep(c[1].by).key = d.key) \/ MadeFor(c[1].by, d.key, c[1])
      BY <2>1, <2>2, <2>4 DEF CacheInv, Made
    <3>2. CASE Busy(c[1].by) /\ Dep(c[1].by).key = d.key
      BY <2>4, <3>2 DEF Busy
    <3>3. CASE MadeFor(c[1].by, d.key, c[1])
      BY <2>4, <3>3 DEF MadeFor
    <3>4. QED
      BY <3>1, <3>2, <3>3
  <2>5. QED
    BY <2>3, <2>4
<1>4. QED
  BY <1>1, <1>2, <1>3, PTL DEF Spec

=============================================================================
