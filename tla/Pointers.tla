------------------------------ MODULE Pointers ------------------------------
(***************************************************************************)
(* Layouts of structures and the legality proof of pointers into their     *)
(* fields: src/semantic/types.rs, region.rs and pointer.rs, with the       *)
(* callers in analyzer.rs.  A layout gives every field an offset; a        *)
(* pointer &x.f.g is proved by walking the fields of its path.             *)
(***************************************************************************)
EXTENDS Ast, FiniteSets

Word == 8

-----------------------------------------------------------------------------
(* Layouts.  L maps the names of the structures known so far to theirs.    *)

Sized(t, L) == t[1] = "named" => t[2] \in DOMAIN L

\* Handles of strings, containers, closures and pointers take a word.
TypeSize(t, L) ==
  CASE t = TBool -> 1
    [] t = TVoid -> 0
    [] t[1] = "named" -> L[t[2]].size
    [] OTHER -> Word

TypeAlign(t, L) ==
  CASE t \in {TBool, TVoid} -> 1
    [] t[1] = "named" -> L[t[2]].align
    [] OTHER -> Word

AlignUp(n, align) == ((n + align - 1) \div align) * align

\* Fields lie in declared order, each aligned; the size is a multiple of the largest alignment.
BuildLayout(fields, L) ==
  LET Offset[i \in 1 .. Len(fields)] ==
        AlignUp(IF i = 1 THEN 0 ELSE Offset[i - 1] + TypeSize(fields[i - 1].ty, L),
                TypeAlign(fields[i].ty, L))
      aligns == {1} \cup {TypeAlign(fields[i].ty, L) : i \in DOMAIN fields}
      align == CHOOSE a \in aligns : \A b \in aligns : b <= a
      last == Len(fields)
      end == IF last = 0 THEN 0 ELSE Offset[last] + TypeSize(fields[last].ty, L)
  IN [fields |-> [i \in DOMAIN fields |->
                    [name |-> fields[i].name, ty |-> fields[i].ty, offset |-> Offset[i]]],
      size |-> AlignUp(end, align), align |-> align]

\* Structures are laid out in rounds, each time those whose fields have a size.
Layouts(structs) ==
  LET Ready(L) == {i \in DOMAIN structs :
                     \A j \in DOMAIN structs[i].fields : Sized(structs[i].fields[j].ty, L)}
      Names(S) == UNION {DeclNames(structs[i].mod, structs[i].name) : i \in S}
      Round[r \in 0 .. Len(structs)] ==
        IF r = 0 THEN [n \in {} |-> BuildLayout(<<>>, <<>>)]
        ELSE [n \in Names(Ready(Round[r - 1])) |->
                BuildLayout(structs[NameTable(structs)[n]].fields, Round[r - 1])]
  IN Round[Len(structs)]

AllLaidOut(structs, L) ==
  \A i \in DOMAIN structs : DeclNames(structs[i].mod, structs[i].name) \subseteq DOMAIN L

-----------------------------------------------------------------------------
(* Regions.                                                                *)

Outlives(r, s) ==
  \/ r = "Heap"
  \/ r = "Scoped" /\ s \in {"Stack", "Scoped"}
  \/ r = "Stack" /\ s = "Stack"

PointeeRegion(t) == IF t[1] = "named" \/ t = TStr THEN "Heap" ELSE "Stack"

\* The region of every pointer made by &.
CurrentRegion == "Scoped"

-----------------------------------------------------------------------------
(* The proof.                                                              *)

\* The fields that lead from an identifier to an expression; <<>> for the identifier itself.
RECURSIVE IsPath(_), Steps(_)
IsPath(e) == e.k = "id" \/ (e.k = "field" /\ IsPath(e.e))
Steps(e) == IF e.k = "field" THEN Append(Steps(e.e), e.name) ELSE <<>>

NoField == [ty |-> NoType, offset |-> 0, inside |-> FALSE]

\* One step on the way: into a structure, or at the first step through a pointer to one.
Descend(at, step, first, L) ==
  LET t == IF at.ty[1] = "ptr" /\ first THEN at.ty[3] ELSE at.ty
      fields == L[t[2]].fields
      found == {i \in DOMAIN fields : fields[i].name = step}
      f == fields[CHOOSE i \in found : TRUE]
      offset == at.offset + f.offset
  IN IF t[1] # "named" THEN NoField
     ELSE IF t[2] \notin DOMAIN L THEN NoField
     ELSE IF found = {} THEN NoField
     ELSE [ty |-> f.ty, offset |-> offset,
           inside |-> at.inside /\ (at.ty[1] = "named" => offset <= L[t[2]].size)]

\* The path is walked from the type given as its root; the end must lie inside the target, and
\* the region of the pointer must outlive the target's.
Walk(root, steps, L) ==
  LET At[i \in 0 .. Len(steps)] ==
        IF i = 0 THEN [ty |-> root, offset |-> 0, inside |-> TRUE]
        ELSE Descend(At[i - 1], steps[i], i = 1, L)
  IN At[Len(steps)]

Proved(root, steps, L, pointer, pointee) ==
  LET end == Walk(root, steps, L)
  IN /\ end.inside
     /\ end.offset <= TypeSize(end.ty, L)
     /\ Outlives(pointer, pointee)

\* prove_pointer: what has no path is not checked, nor is a pointer to a variable; the root
\* that the analyser gives is the type of the whole expression.
Legal(e, t, L) ==
  IsPath(e) /\ e.k = "field" => Proved(t, Steps(e), L, CurrentRegion, PointeeRegion(t))

-----------------------------------------------------------------------------
(* Aliasing.  live_mutable holds the paths of all mutable pointers into    *)
(* fields, without their roots, and nothing is ever taken from it.         *)

RECURSIVE MutablePaths(_)
MutablePaths(node) ==
  LET sub == SubNodes(node)
      Below[i \in 0 .. Len(sub)] == IF i = 0 THEN <<>> ELSE Below[i - 1] \o MutablePaths(sub[i])
      own == IF node.k = "unary" /\ node.op = "&mut" /\ node.e.k = "field" /\ IsPath(node.e)
             THEN <<Steps(node.e)>> ELSE <<>>
  IN Below[Len(sub)] \o own

NoAliases(bodies) ==
  LET paths == MutablePaths(Block(bodies))
  IN \A i, j \in DOMAIN paths : i # j => paths[i] # paths[j]
=============================================================================
