------------------------- MODULE MCEnvironmentPaths --------------------------
(* Small instances of EnvironmentPaths for TLC. *)
EXTENDS EnvironmentPaths, TLC

Raw(from, parts) == [from |-> from, parts |-> parts]
MCHome == <<"h">>
MCParent == <<"h", "c">>

\* The directories that are there, as nodes that no launch makes.
Root == <<"/", 0>>
H == <<"/h", 0>>
S == <<"/s", 0>>
A == <<"/h/a", 0>>
C == <<"/h/c", 0>>
MCFound == {Root, H, S, A, C}

\* Two environments: siblings below a directory that may be missing; one
\* below home and one below a second name; nested; and spellings Normalize
\* rewrites or refuses, one of them too long.
MCRequests ==
  { << Raw("home", <<"a", "p">>), Raw("home", <<"", "a", ".", "q">>) >>,
    << Raw("home", <<"a">>), Raw("root", <<"s", "q">>) >>,
    << Raw("root", <<"s", "a", "p">>), Raw("config", <<"p">>) >>,
    << Raw("home", <<"a">>), Raw("root", <<"h", "a", "p">>) >>,
    << Raw("home", <<"a", "..", "p">>), Raw("home", <<"q">>) >>,
    << Raw("home", <<"q">>), Raw("config", <<"p", "q">>) >>,
    << Raw("user", <<"a">>), Raw("home", <<"q">>) >> }

\* A tree: what "s" is in the root directory, what "a" is in the home
\* directory, and the nodes whose kind is not the usual one.
Tree(s, a, special) ==
  [child |-> (<<Root, "h">> :> H) @@ (<<H, "c">> :> C) @@ (<<Root, "s">> :> s)
               @@ (<<H, "a">> :> a),
   kind |-> special @@ [n \in MCFound |-> IF n = A THEN "private" ELSE "ancestor"]]
None == <<>>
MCTrees ==
  { Tree(Absent, Absent, None),
    Tree(S, A, None),
    Tree(H, Absent, None), Tree(C, Absent, None), Tree(A, A, None),  \* bind mounts
    Tree(S, Absent, S :> "unsafe"),
    Tree(Absent, A, A :> "ancestor"),
    Tree(Absent, A, A :> "other") }

Interchangeable == Permutations(Launches)
=============================================================================
