--------------------------- MODULE EnvironmentPaths ---------------------------
(***************************************************************************)
(* The environment-root policy of browser/environment_paths.cc: lexical    *)
(* resolution, the nonmutating audit of every configured root and the      *)
(* preparation of the selected one, as launches run them concurrently on   *)
(* one directory tree.  Each openat and mkdirat is a step.  Directories    *)
(* are nodes; two names of one node are a bind mount.                      *)
(*                                                                         *)
(* A std::map lists its entries in the order of their keys, so an          *)
(* environment is the number of its entry.  A path is the sequence of its  *)
(* components.                                                             *)
(***************************************************************************)
EXTENDS Naturals, Sequences, SequencesExt

CONSTANTS
  Launches,
  Count,         \* how many environments a configuration lists
  Names,         \* path components
  Home, Parent,  \* the home directory, the configuration file's directory
  MaxDepth,      \* the depth PATH_MAX leaves
  Requests,      \* configured directories: sequences of Count raw directories
  Found,         \* the directories that are there when launches begin
  Trees,         \* what they are and how they hang together
  Top,           \* the root directory
  Absent

ASSUME PathAssumption ==
  /\ Count \in Nat \ {0} /\ MaxDepth \in Nat
  /\ Top \in Found /\ Absent \notin Found

VARIABLES
  child,       \* child[<<n, c>>]: what component c names in directory n
  kind,        \* kind[n]: what a launch finds when it inspects n
  asked,       \* the configured directories of each launch
  chosen,      \* the environment it selected
  step,
  walked,      \* the environment whose root it walks to
  current,     \* the directory it holds open
  depth,       \* how many components led there
  traces,      \* the nodes the audit met: <<environment, node, remainder>>
  prepared     \* the directory PrepareEnvironmentRoot returned

treeVars == <<child, kind>>
goal == <<asked, chosen>>
vars == <<treeVars, goal, step, walked, current, depth, traces, prepared>>

Environments == 1 .. Count
Steps == {"idle", "audit", "create", "mkdir", "reopen", "done", "refused",
          "error", "dead"}
\* A launch makes at most one directory at each depth.
Made == Launches \X (1 .. MaxDepth)
Nodes == Found \cup Made
\* CheckDirectory's verdicts.  A private directory belongs to this user and
\* grants nobody else anything; an ancestor can at least not be replaced by
\* others.  "other" is what O_DIRECTORY | O_NOFOLLOW does not open.
Kinds == {"private", "ancestor", "unsafe", "other"}
Safe(n, final) == kind[n] \in (IF final THEN {"private"} ELSE {"private", "ancestor"})

\* The given trees hang together without the launches' directories.
ASSUME TreeAssumption ==
  /\ Found \cap Made = {} /\ Absent \notin Made
  /\ \A t \in Trees :
       /\ DOMAIN t.child \subseteq Found \X Names
       /\ \A x \in DOMAIN t.child : t.child[x] \in Found \cup {Absent}
       /\ t.kind \in [Found -> Kinds]

-----------------------------------------------------------------------------
(* ResolveEnvironmentPaths *)

Expanded(raw) ==
  CASE raw.from = "root"   -> raw.parts
    [] raw.from = "home"   -> Home \o raw.parts
    [] raw.from = "config" -> Parent \o raw.parts
    [] raw.from = "user"   -> <<>>                  \* only ~/ is supported

\* Normalize drops empty and "." components and refuses "..".
Normalize(raw) == SelectSeq(Expanded(raw), LAMBDA c : c \notin {"", "."})

\* Slip: the length of a path is not limited.
NormalizableAnyLength(raw) ==
  /\ raw.from # "user"
  /\ \A i \in DOMAIN raw.parts : raw.parts[i] # ".."
  /\ Normalize(raw) # <<>>

Normalizable(raw) ==
  /\ raw.from # "user"
  /\ \A i \in DOMAIN raw.parts : raw.parts[i] # ".."
  /\ Len(Normalize(raw)) \in 1 .. MaxDepth

\* Names are the components of the paths that pass.
ASSUME RequestAssumption ==
  \A request \in Requests, e \in Environments :
    Normalizable(request[e]) => Normalize(request[e]) \in Seq(Names)

Overlap(a, b) == IsPrefix(a, b) \/ IsPrefix(b, a)

Resolvable(request) ==
  /\ \A e \in Environments : Normalizable(request[e])
  /\ \A e, f \in Environments :
       e # f => ~Overlap(Normalize(request[e]), Normalize(request[f]))

Path(l, e) == Normalize(asked[l][e])
Walked(l) == Path(l, walked[l])
Final(l) == depth[l] = Len(Walked(l))
\* What the next component names, if one is left.
Named(l) ==
  IF Final(l) THEN Absent ELSE child[<<current[l], Walked(l)[depth[l] + 1]>>]
Remainder(l) == SubSeq(Walked(l), depth[l] + 1, Len(Walked(l)))

Goto(l, s) == step' = [step EXCEPT ![l] = s]
At(l, s) == step[l] = s
\* Walk begins at the filesystem root and holds one directory open at a time.
WalkTo(l, e) ==
  /\ walked' = [walked EXCEPT ![l] = e]
  /\ current' = [current EXCEPT ![l] = Top]
  /\ depth' = [depth EXCEPT ![l] = 0]
Descend(l, n) ==
  /\ current' = [current EXCEPT ![l] = n]
  /\ depth' = [depth EXCEPT ![l] = @ + 1]
  /\ UNCHANGED walked
Stay == UNCHANGED <<walked, current, depth>>

Init ==
  /\ \E t \in Trees :
       /\ child = [x \in Nodes \X Names |->
                     IF x \in DOMAIN t.child THEN t.child[x] ELSE Absent]
       /\ kind = [n \in Nodes |-> IF n \in Found THEN t.kind[n] ELSE "private"]
  /\ asked \in [Launches -> Requests]
  /\ chosen \in [Launches -> Environments]
  /\ step = [l \in Launches |-> "idle"]
  /\ walked = [l \in Launches |-> 1]
  /\ current = [l \in Launches |-> Top]
  /\ depth = [l \in Launches |-> 0]
  /\ traces = [l \in Launches |-> {}]
  /\ prepared = [l \in Launches |-> Absent]

Start(l) ==
  /\ At(l, "idle")
  /\ Goto(l, IF Resolvable(asked[l]) THEN "audit" ELSE "refused")
  /\ UNCHANGED <<treeVars, goal, walked, current, depth, traces, prepared>>

-----------------------------------------------------------------------------
(* AuditEnvironmentPaths *)

\* Slip: only the roots themselves are compared.
AliasedRoots(T, e) ==
  \E t, u \in T : t[1] = e /\ u[1] # e /\ t[2] = u[2] /\ t[3] = <<>> /\ u[3] = <<>>

\* Two environments share a directory and what remains of their paths there
\* is equal or nested: a bind mount joins them.
Aliased(T, e) ==
  \E t, u \in T : t[1] = e /\ u[1] # e /\ t[2] = u[2] /\ Overlap(t[3], u[3])

\* Slip: the audit stops once it has inspected the selected root.
AuditEndsAtSelected(l) == walked[l] = chosen[l]

\* Every configured root is inspected, in the order of the map.
AuditEnds(l) == walked[l] = Count

\* One round of Walk's loop without create: inspect the open directory, note
\* it, and open the next component.  A missing component ends the walk well.
AuditOpen(l) ==
  LET noted == traces[l] \cup {<<walked[l], current[l], Remainder(l)>>}
  IN /\ At(l, "audit")
     /\ \/ /\ ~Safe(current[l], Final(l))
           /\ Goto(l, "refused")
           /\ Stay /\ UNCHANGED traces
        \/ /\ Safe(current[l], Final(l)) /\ Named(l) = Absent
           /\ \/ /\ Aliased(noted, walked[l])
                 /\ Goto(l, "refused")
                 /\ Stay /\ UNCHANGED traces
              \/ /\ ~Aliased(noted, walked[l]) /\ ~AuditEnds(l)
                 /\ WalkTo(l, walked[l] + 1)
                 /\ traces' = [traces EXCEPT ![l] = noted]
                 /\ UNCHANGED step
              \/ /\ ~Aliased(noted, walked[l]) /\ AuditEnds(l)
                 /\ WalkTo(l, chosen[l])
                 /\ traces' = [traces EXCEPT ![l] = {}]
                 /\ Goto(l, "create")
        \/ /\ Safe(current[l], Final(l)) /\ Named(l) # Absent /\ kind[Named(l)] # "other"
           /\ traces' = [traces EXCEPT ![l] = noted]
           /\ Descend(l, Named(l))
           /\ UNCHANGED step
        \/ /\ Safe(current[l], Final(l)) /\ Named(l) # Absent /\ kind[Named(l)] = "other"
           /\ Goto(l, "refused")
           /\ Stay /\ UNCHANGED traces
        \/ /\ Goto(l, "error")                       \* a system call fails
           /\ Stay /\ UNCHANGED traces
     /\ UNCHANGED <<treeVars, goal, prepared>>

-----------------------------------------------------------------------------
(* PrepareEnvironmentRoot: the walk that creates *)

\* One round of Walk's loop with create, up to its first openat.
CreateOpen(l) ==
  /\ At(l, "create")
  /\ \/ /\ ~Safe(current[l], Final(l))
        /\ Goto(l, "refused")
        /\ Stay /\ UNCHANGED prepared
     \/ /\ Safe(current[l], Final(l)) /\ Final(l)
        /\ prepared' = [prepared EXCEPT ![l] = current[l]]
        /\ Goto(l, "done")
        /\ Stay
     \/ /\ Safe(current[l], Final(l)) /\ ~Final(l) /\ Named(l) = Absent
        /\ Goto(l, "mkdir")
        /\ Stay /\ UNCHANGED prepared
     \/ /\ Safe(current[l], Final(l)) /\ Named(l) # Absent
        /\ kind[Named(l)] # "other"
        /\ Descend(l, Named(l))
        /\ UNCHANGED <<step, prepared>>
     \/ /\ Safe(current[l], Final(l)) /\ Named(l) # Absent
        /\ kind[Named(l)] = "other"
        /\ Goto(l, "refused")
        /\ Stay /\ UNCHANGED prepared
     \/ /\ Goto(l, "error")
        /\ Stay /\ UNCHANGED prepared
  /\ UNCHANGED <<treeVars, goal, traces>>

Link(l, n) == child' = [child EXCEPT ![<<current[l], Walked(l)[depth[l] + 1]>>] = n]

\* Slip: the directory another launch has just made is taken for a failure.
MkdirExclusive(l) ==
  /\ At(l, "mkdir")
  /\ \/ Named(l) = Absent /\ Link(l, <<l, depth[l] + 1>>) /\ Goto(l, "reopen")
     \/ Named(l) # Absent /\ UNCHANGED child /\ Goto(l, "refused")
  /\ UNCHANGED <<kind, goal, walked, current, depth, traces, prepared>>

\* Slip: a rename into place takes the name over from another launch.
MkdirReplacing(l) ==
  /\ At(l, "mkdir")
  /\ Link(l, <<l, depth[l] + 1>>)
  /\ Goto(l, "reopen")
  /\ UNCHANGED <<kind, goal, walked, current, depth, traces, prepared>>

\* mkdirat; "EEXIST is expected when two launches prepare the same root."
Mkdir(l) ==
  /\ At(l, "mkdir")
  /\ \/ Named(l) = Absent /\ Link(l, <<l, depth[l] + 1>>) /\ Goto(l, "reopen")
     \/ Named(l) # Absent /\ UNCHANGED child /\ Goto(l, "reopen")
     \/ UNCHANGED child /\ Goto(l, "error")
  /\ UNCHANGED <<kind, goal, walked, current, depth, traces, prepared>>

Reopen(l) ==
  /\ At(l, "reopen")
  /\ \/ Named(l) # Absent /\ kind[Named(l)] # "other" /\ Descend(l, Named(l))
        /\ Goto(l, "create")
     \/ Named(l) # Absent /\ kind[Named(l)] = "other" /\ Stay /\ Goto(l, "refused")
     \/ Stay /\ Goto(l, "error")
  /\ UNCHANGED <<treeVars, goal, traces, prepared>>

\* A launch may die at any step; what it made stays.
Exit(l) ==
  /\ step[l] \notin {"idle", "refused", "error", "dead"}
  /\ Goto(l, "dead")
  /\ WalkTo(l, 1)
  /\ traces' = [traces EXCEPT ![l] = {}]
  /\ UNCHANGED <<treeVars, goal, prepared>>

Next ==
  \E l \in Launches :
    Start(l) \/ AuditOpen(l) \/ CreateOpen(l) \/ Mkdir(l) \/ Reopen(l) \/ Exit(l)

Spec == Init /\ [][Next]_vars

-----------------------------------------------------------------------------
(* Properties *)

TypeOK ==
  /\ child \in [Nodes \X Names -> Nodes \cup {Absent}]
  /\ kind \in [Nodes -> Kinds]
  /\ step \in [Launches -> Steps]
  /\ walked \in [Launches -> Environments]
  /\ current \in [Launches -> Nodes]
  /\ depth \in [Launches -> 0 .. MaxDepth]
  /\ \A l \in Launches : \A t \in traces[l] : t[1] \in Environments /\ t[2] \in Nodes
  /\ prepared \in [Launches -> Nodes \cup {Absent}]

\* What the first i components of a path lead to.
Route(tree, path) ==
  LET node[i \in 0 .. Len(path)] ==
        IF i = 0 THEN Top
        ELSE IF node[i - 1] = Absent THEN Absent ELSE tree[<<node[i - 1], path[i]>>]
  IN node
Leads(path) == Route(child, path)
Along(path) == {Leads(path)[i] : i \in 0 .. Len(path)}

\* Environments are kept apart: when two launches of one configuration hold
\* the roots of two environments, neither root lies on the way to the other,
\* also through bind mounts and although neither audit was a snapshot.
RootsKeptApart ==
  \A l, m \in Launches :
    (prepared[l] # Absent /\ prepared[m] # Absent /\ asked[l] = asked[m]
       /\ chosen[l] # chosen[m])
    => prepared[l] \notin Along(Path(m, chosen[m]))

\* "Validate the directory actually opened": the directory a launch holds is
\* the one the configured path still leads to, private, below ancestors that
\* others cannot replace; launches that prepare the same root hold the same.
PreparedIsWherePathLeads ==
  \A l \in Launches : prepared[l] # Absent =>
    LET path == Path(l, chosen[l])
    IN /\ prepared[l] = Leads(path)[Len(path)]
       /\ \A i \in 0 .. Len(path) : Safe(Leads(path)[i], i = Len(path))

\* "Creates only missing components of the selected root", after "inspecting
\* all existing path components before any mutation": whatever a launch made
\* lies on the way to its selected root, and no configured path of it meets
\* an unsafe directory, or a bind mount that joins two of its environments.
MadeOnlyForAuditedSelection ==
  \A l \in Launches : \A n \in Made :
    (n[1] = l /\ \E x \in DOMAIN child : child[x] = n) =>
      /\ n \in Along(Path(l, chosen[l]))
      /\ \A e \in Environments : \A i \in 0 .. Len(Path(l, e)) :
           Leads(Path(l, e))[i] = Absent \/ Safe(Leads(Path(l, e))[i], i = Len(Path(l, e)))
      /\ \A e, f \in Environments : e # f =>
           Leads(Path(l, e))[Len(Path(l, e))] \notin Along(Path(l, f)) \ {Absent}

\* A launch is refused only for what it would have been refused for alone: a
\* tree that was unsafe before, or a request that names overlapping roots.
\* Launches never get in each other's way.
SoundRequest(l) ==
  /\ Resolvable(asked[l])
  /\ \A e \in Environments : \A i \in 0 .. Len(Path(l, e)) :
       LET n == Leads(Path(l, e))[i]
       IN n \in Found => Safe(n, i = Len(Path(l, e)))
  /\ \A e, f \in Environments : \A i \in 0 .. Len(Path(l, e)), j \in 0 .. Len(Path(l, f)) :
       (e # f /\ Leads(Path(l, e))[i] = Leads(Path(l, f))[j] /\ Leads(Path(l, e))[i] \in Found)
       => ~Overlap(SubSeq(Path(l, e), i + 1, Len(Path(l, e))),
                   SubSeq(Path(l, f), j + 1, Len(Path(l, f))))
LaunchesTolerateEachOther ==
  \A l \in Launches : SoundRequest(l) => ~At(l, "refused")
=============================================================================
