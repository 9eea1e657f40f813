------------------------------ MODULE MCBuilds ------------------------------
(***************************************************************************)
(* Model checking of Builds: one builder on the import graphs of three     *)
(* files and a missing one, and builders whose dependencies meet in the    *)
(* cache.                                                                  *)
(***************************************************************************)
EXTENDS Builds

Sources == {"main", "lib", "util"}

MCFiles     == Sources \cup {"gone"}
MCBuilders  == {"first", "second", "third"}
MCUrls      == {"here", "fork"}
MCRevisions == {"v1", "v2", "v3"}
MCKeys      == {"pinned", "other", "free"}

Has == [here |-> {"v1", "v2"}, fork |-> {"v1"}]

\* A builder whose file is missing has nothing to do.
Only(n) == [b \in MCBuilders |-> IF b \in n THEN "main" ELSE "gone"]

\* No import, one, or two, the same one twice included.
UpTo2 == {<<>>} \cup {<<f>> : f \in Sources} \cup {<<f, g>> : f, g \in Sources}

Graphs ==
  {[imports |-> [main |-> m, lib |-> l, util |-> u, gone |-> <<>>],
    broken |-> {"gone"}, root |-> Only({"first"}),
    deps |-> [b \in MCBuilders |-> <<>>], has |-> Has] :
     m \in UpTo2, u \in UpTo2, l \in UpTo2 \cup {<<"util", "gone">>}}

\* One pin; the same name and revision elsewhere; another revision whose name
\* gives the same key; a revision that is not there; no revision.
Deps1 ==
  { [key |-> "pinned", url |-> "here", rev |-> "v1"],
    [key |-> "pinned", url |-> "fork", rev |-> "v1"],
    [key |-> "pinned", url |-> "here", rev |-> "v2"],
    [key |-> "other",  url |-> "here", rev |-> "v3"],
    [key |-> "free",   url |-> "fork", rev |-> None] }

Shared(n, d) ==
  [imports |-> [f \in MCFiles |-> <<>>], broken |-> {"gone"}, root |-> Only(n),
   deps |-> d, has |-> Has]

Together ==
  {Shared(MCBuilders, [first |-> <<d>>, second |-> <<e>>, third |-> <<d>>]) :
     d, e \in Deps1}
  \cup
  {Shared({"first", "second"}, [first |-> <<d, e>>, second |-> <<e>>, third |-> <<>>]) :
     d, e \in Deps1}

MCSurroundings == Graphs \cup Together

=============================================================================
