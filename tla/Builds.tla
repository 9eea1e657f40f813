------------------------------- MODULE Builds -------------------------------
(***************************************************************************)
(* What a build is made of (compiler.rs, project/): the files that imports *)
(* reach, merged into one program, and the git dependencies of the project *)
(* file, cloned into a cache directory that all builds of a user share.    *)
(*                                                                         *)
(* A builder is one call of compile_source in a process of its own: it     *)
(* merges imports, which other builders do not see, then takes one         *)
(* dependency after the other to the cache, step by step with the others.  *)
(* `git` and the network are the environment: a clone or a checkout may    *)
(* fail, and a process may be killed in the middle of either.              *)
(*                                                                         *)
(* A file is a name; its declarations are its name.  An import that cannot *)
(* be resolved, read, scanned or parsed ends the build alike (`broken`).   *)
(***************************************************************************)
EXTENDS Integers, Sequences

CONSTANTS
  Files, Builders, Urls, Revisions,
  Keys,        \* directories of the cache: cache_key(name, revision)
  Default,     \* the revision a clone checks out by itself
  None,        \* no revision, no builder
  Surroundings \* a set of [imports, broken, root, deps, has]

VARIABLES
  given,       \* what is on disk and behind the URLs (never changes)
  at,          \* where each builder is
  stack,       \* its calls of merge_imports, the last is the running one
  visited,     \* files it has begun to merge
  program,     \* the declarations it has merged, in order
  found,       \* dependencies it is done with: what was recorded of each
  cache        \* the directories: <<>> or <<clone>>

vars == <<given, at, stack, visited, program, found, cache>>

Dependency == [key : Keys, url : Urls, rev : Revisions \cup {None}]

Surrounding == [imports : [Files -> Seq(Files)], broken : SUBSET Files,
                root : [Builders -> Files], deps : [Builders -> Seq(Dependency)],
                has : [Urls -> SUBSET Revisions]]

ASSUME BuildsAssumption ==
  /\ Surroundings \subseteq Surrounding
  /\ None \notin Revisions \cup {Default} /\ Default \notin Revisions
  /\ None \notin Builders

Init ==
  /\ given \in Surroundings
  /\ at = [b \in Builders |-> "begin"]
  /\ stack = [b \in Builders |-> <<>>]
  /\ visited = [b \in Builders |-> {}]
  /\ program = [b \in Builders |-> <<>>]
  /\ found = [b \in Builders |-> <<>>]
  /\ cache = [k \in Keys |-> <<>>]

Goes(b, where) == at' = [at EXCEPT ![b] = where]

-----------------------------------------------------------------------------
(* parse_with_imports, merge_imports *)

\* A call of merge_imports: the file, its next import, the program so far.
Frame(f) == [file |-> f, next |-> 1, decls |-> <<f>>]

Top(b) == stack[b][Len(stack[b])]

Caller(b) == SubSeq(stack[b], 1, Len(stack[b]) - 1)

ImportsOf(f) == given.imports[f]

HasImport(b) == at[b] = "merging" /\ Top(b).next <= Len(ImportsOf(Top(b).file))

NextImport(b) == ImportsOf(Top(b).file)[Top(b).next]

AtNext(b) == Append(Caller(b), [Top(b) EXCEPT !.next = @ + 1])

merging == <<stack, visited, program>>

\* Mutant: the file that is compiled does not count as visited.
VisitRootLate(f) == {}

\* parse_with_imports: the root is visited before its imports.
VisitRoot(f) == {f}

Begin(b) ==
  /\ at[b] = "begin"
  /\ IF given.root[b] \in given.broken
       THEN Goes(b, "failed") /\ UNCHANGED <<stack, visited>>
       ELSE /\ Goes(b, "merging")
            /\ stack' = [stack EXCEPT ![b] = <<Frame(given.root[b])>>]
            /\ visited' = [visited EXCEPT ![b] = VisitRoot(given.root[b])]
  /\ UNCHANGED <<given, program, found, cache>>

\* Mutant: the loop over the imports does not go on.
SkipAgain(b) ==
  /\ HasImport(b) /\ NextImport(b) \in visited[b]
  /\ UNCHANGED vars

\* `continue`: diamond and cyclic imports collapse to one copy.
Skip(b) ==
  /\ HasImport(b) /\ NextImport(b) \in visited[b]
  /\ stack' = [stack EXCEPT ![b] = AtNext(b)]
  /\ UNCHANGED <<given, at, visited, program, found, cache>>

Import(b) ==
  /\ HasImport(b) /\ NextImport(b) \notin visited[b]
  /\ NextImport(b) \notin given.broken
  /\ visited' = [visited EXCEPT ![b] = @ \cup {NextImport(b)}]
  /\ stack' = [stack EXCEPT ![b] = Append(AtNext(b), Frame(NextImport(b)))]
  /\ UNCHANGED <<given, at, program, found, cache>>

CannotImport(b) ==
  /\ HasImport(b) /\ NextImport(b) \notin visited[b]
  /\ NextImport(b) \in given.broken
  /\ Goes(b, "failed")
  /\ UNCHANGED <<given, merging, found, cache>>

\* Behind its last import a file's program is appended to its importer's.
Merge(b) ==
  /\ at[b] = "merging" /\ ~HasImport(b)
  /\ IF Caller(b) = <<>>
       THEN /\ program' = [program EXCEPT ![b] = Top(b).decls]
            /\ stack' = [stack EXCEPT ![b] = <<>>]
            /\ Goes(b, "resolving")
       ELSE /\ stack' = [stack EXCEPT ![b] =
                 [Caller(b) EXCEPT ![Len(Caller(b))].decls = @ \o Top(b).decls]]
            /\ UNCHANGED <<program, at>>
  /\ UNCHANGED <<given, visited, found, cache>>

-----------------------------------------------------------------------------
(* load_for and resolve_dep *)

Deps(b) == given.deps[b]

Resolving(b) == at[b] \in {"resolving", "cloning", "fetching", "checking"}

\* The dependency at hand.
HasDep(b) == Resolving(b) /\ Len(found[b]) < Len(Deps(b))

Dep(b) == Deps(b)[Len(found[b]) + 1]

Dir(b) == cache[Dep(b).key]

\* `by` and `spoilt` are ghosts: who cloned it, and whether that was cut short.
Clone(b, head) ==
  <<[url |-> Dep(b).url, head |-> head, by |-> b, spoilt |-> FALSE]>>

Records(b, what) ==
  /\ found' = [found EXCEPT ![b] = Append(@, what)]
  /\ Goes(b, "resolving")
  /\ UNCHANGED <<given, merging>>

At(b, where) ==
  /\ Goes(b, where)
  /\ UNCHANGED <<given, merging, found>>

Sets(b, dir) == cache' = [cache EXCEPT ![Dep(b).key] = dir]

Keeps == UNCHANGED cache

\* A .git directory is taken for a finished clone.
Cached(b) ==
  /\ HasDep(b) /\ at[b] = "resolving" /\ Dir(b) # <<>>
  /\ Records(b, "resolved") /\ Keeps

NotCached(b) ==
  /\ HasDep(b) /\ at[b] = "resolving" /\ Dir(b) = <<>>
  /\ At(b, "cloning") /\ Keeps

\* git makes the directory, unless another has made it meanwhile.
CloneBegins(b) ==
  /\ HasDep(b) /\ at[b] = "cloning" /\ Dir(b) = <<>>
  /\ Sets(b, Clone(b, None)) /\ At(b, "fetching")

\* Mutant: whatever a failed clone has left is removed.
CloneRefusedClears(b) ==
  /\ HasDep(b) /\ at[b] = "cloning" /\ Dir(b) # <<>>
  /\ Records(b, "unresolved") /\ Sets(b, <<>>)

CloneRefused(b) ==
  /\ HasDep(b) /\ at[b] = "cloning" /\ Dir(b) # <<>>
  /\ Records(b, "unresolved") /\ Keeps

\* No git, no network or no such repository; git removes what it began.
CloneFails(b) ==
  /\ HasDep(b) /\ at[b] \in {"cloning", "fetching"}
  /\ Records(b, "unresolved")
  /\ IF at[b] = "fetching" THEN Sets(b, <<>>) ELSE Keeps

\* Mutant: the pin is forgotten.
ClonedAtDefault(b) ==
  /\ HasDep(b) /\ at[b] = "fetching"
  /\ Sets(b, Clone(b, Default)) /\ Records(b, "resolved")

Cloned(b) ==
  /\ HasDep(b) /\ at[b] = "fetching"
  /\ Sets(b, Clone(b, Default))
  /\ IF Dep(b).rev = None THEN Records(b, "resolved") ELSE At(b, "checking")

CheckedOut(b) ==
  /\ HasDep(b) /\ at[b] = "checking" /\ Dep(b).rev \in given.has[Dep(b).url]
  /\ Sets(b, Clone(b, Dep(b).rev)) /\ Records(b, "resolved")

Spoils(b) == Sets(b, <<[Dir(b)[1] EXCEPT !.spoilt = TRUE]>>)

\* Mutant: the Err ends the build.
NoSuchRevisionFails(b) ==
  /\ HasDep(b) /\ at[b] = "checking" /\ Dep(b).rev \notin given.has[Dep(b).url]
  /\ Spoils(b) /\ At(b, "failed")

\* resolve_dep returns an Err, which load_for drops; the clone stays.
NoSuchRevision(b) ==
  /\ HasDep(b) /\ at[b] = "checking" /\ Dep(b).rev \notin given.has[Dep(b).url]
  /\ Spoils(b) /\ Records(b, "unresolved")

\* git cannot be started for the checkout: passed over (`if let Ok`).
NoCheckout(b) ==
  /\ HasDep(b) /\ at[b] = "checking"
  /\ Spoils(b) /\ Records(b, "resolved")

\* compile_source goes on with what it has merged, whatever was resolved.
Built(b) ==
  /\ Resolving(b) /\ ~HasDep(b)
  /\ At(b, "built") /\ Keeps

-----------------------------------------------------------------------------
(* Processes *)

Ended == {"built", "failed", "killed"}

\* The process is killed.  What its git has begun stays as it is (a crash),
\* or git takes the clone away in time (an interrupt from the terminal).
Kill(b) ==
  /\ at[b] \notin Ended \cup {"begin"}
  /\ \/ at[b] \in {"fetching", "checking"} /\ Spoils(b)
     \/ at[b] = "fetching" /\ Sets(b, <<>>)
     \/ at[b] \notin {"fetching", "checking"} /\ Keeps
  /\ At(b, "killed")

Resolve(b) ==
  \/ Cached(b) \/ NotCached(b) \/ CloneBegins(b) \/ CloneRefused(b)
  \/ CloneFails(b) \/ Cloned(b) \/ CheckedOut(b) \/ NoSuchRevision(b)
  \/ NoCheckout(b) \/ Built(b)

Step(b) ==
  \/ Begin(b) \/ Skip(b) \/ Import(b) \/ CannotImport(b) \/ Merge(b)
  \/ Resolve(b)

Next == \E b \in Builders : Step(b) \/ Kill(b)

\* Every process is scheduled, and its git ends (it has no terminal to ask).
Spec == Init /\ [][Next]_vars /\ \A b \in Builders : WF_vars(Step(b))

-----------------------------------------------------------------------------
(* Properties *)

Places == {"begin", "merging", "resolving", "cloning", "fetching", "checking"}

Frames == [file : Files, next : Nat, decls : Seq(Files)]

Clones == [url : Urls, head : Revisions \cup {Default, None}, by : Builders,
           spoilt : BOOLEAN]

\* Every variable has its type; a builder in the middle of a clone owns a
\* directory of the cache.
TypeOK ==
  /\ given \in Surrounding
  /\ at \in [Builders -> Places \cup Ended]
  /\ stack \in [Builders -> Seq(Frames)]
  /\ visited \in [Builders -> SUBSET Files]
  /\ program \in [Builders -> Seq(Files)]
  /\ found \in [Builders -> Seq({"resolved", "unresolved"})]
  /\ cache \in [Keys -> {<<>>} \cup {<<c>> : c \in Clones}]
  /\ \A b \in Builders :
       at[b] \in {"fetching", "checking"} => HasDep(b) /\ Dir(b) # <<>>

Once(s) == \A i, j \in 1..Len(s) : s[i] = s[j] => i = j

\* The files that f reaches through imports that can be parsed.
Reached(f) ==
  {g \in Files : \A S \in SUBSET Files :
     f \in S /\ (\A h \in S \ given.broken : \A i \in 1..Len(ImportsOf(h)) :
                   ImportsOf(h)[i] \in S)
     => g \in S}

\* A program has every file that its root reaches, each once, and none before
\* a file that imports it ("already merged (diamond imports collapse to one
\* copy)", compiler.rs:117): a declaration merged twice would be an error, or,
\* for a function, another one.
MergedOnce ==
  \A b \in Builders : at[b] \in Ended /\ program[b] # <<>> =>
    /\ Once(program[b])
    /\ {program[b][i] : i \in 1..Len(program[b])} = Reached(given.root[b])
    /\ \A i \in 2..Len(program[b]) : \E j \in 1..i - 1 :
         \E k \in 1..Len(ImportsOf(program[b][j])) :
           ImportsOf(program[b][j])[k] = program[b][i]

\* A build fails only for a file it needs: neither a dependency nor another
\* build makes it fail ("recorded as unresolved rather than failing the whole
\* build", deps.rs:10).
FailsForFiles ==
  \A b \in Builders :
    /\ at[b] = "failed" => Reached(given.root[b]) \cap given.broken # {}
    /\ at[b] = "built" => Reached(given.root[b]) \cap given.broken = {}

\* What was cloned stays: the same dependency is fetched at most once
\* (deps.rs:9), and no build takes away what another has been told is there.
FetchedOnce ==
  [][\A k \in Keys : cache[k] # <<>> /\ cache[k][1].head # None =>
       cache'[k] # <<>> /\ cache'[k][1].by = cache[k][1].by]_vars

Asked(d) == IF d.rev = None THEN Default ELSE d.rev

\* A dependency that was recorded as resolved is there, at the revision that
\* was asked for ("keyed by name + revision", deps.rs:9) - or one of four things
\* has happened: its clone is not finished; its clone has failed since; its
\* clone or checkout was cut short or found no such revision; its directory
\* was made for another dependency of the same key.
NothingElseMisleads ==
  \A b \in Builders : \A i \in 1..Len(found[b]) :
    LET d == Deps(b)[i]  c == cache[d.key] IN
    found[b][i] = "resolved" =>
      IF c = <<>> THEN \E e \in Builders \ {b} : at[e] = "killed" \/
                         \E j \in 1..Len(found[e]) :
                           Deps(e)[j].key = d.key /\ found[e][j] = "unresolved"
      ELSE \/ c[1].url = d.url /\ c[1].head = Asked(d)
           \/ c[1].spoilt
           \/ at[c[1].by] \in {"fetching", "checking"} /\ Dep(c[1].by).key = d.key
           \/ \E i2 \in 1..Len(Deps(c[1].by)) :
                LET d2 == Deps(c[1].by)[i2] IN d2 # d /\ d2.key = d.key

\* Every build that is not killed ends: also with imports in circles, and
\* without git or network.
EveryBuildEnds == \A b \in Builders : <>(at[b] \in Ended)

=============================================================================
