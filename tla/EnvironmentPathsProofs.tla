----------------------- MODULE EnvironmentPathsProofs ------------------------
(***************************************************************************)
(* Proofs about EnvironmentPaths for any number of launches, environments  *)
(* and components, any requests and any trees they begin with: every       *)
(* invariant its run checks.                                               *)
(*                                                                         *)
(* A path is followed one component at a time, so what it leads to is      *)
(* proved step by step (Stepwise).  Three facts about the tree carry the   *)
(* rest: launches only add to it (Grows); what they add hangs below what   *)
(* was found, and each directory they make has one name (Tree); and so two *)
(* paths that meet in a made directory parted from one found directory and *)
(* went on by the same components (Joined).  Whether a request is sound is *)
(* therefore decided by the found directories, and no launch changes it    *)
(* for another (SoundStays): the audit need not be a snapshot.             *)
(*                                                                         *)
(* The inductive invariant PInv says of each launch that it is where its   *)
(* path leads (Walking), that what it inspected still is as it found it    *)
(* (Traced), that what it made lies on its way and no deeper than it is    *)
(* (Fresh), that what it returned is its root (Prepared), and that it      *)
(* creates only for a sound request and is refused only for another        *)
(* (Audited).                                                              *)
(***************************************************************************)
EXTENDS EnvironmentPaths, WellFoundedInduction, TLAPS

-----------------------------------------------------------------------------
(* Steps from 0 to n.                                                      *)

LEMMA Least ==
  ASSUME NEW T \in SUBSET Nat, T # {}
  PROVE  \E m \in T : \A k \in T : m <= k
<1> DEFINE R == OpToRel(<, Nat)
<1>1. R = {ss \in Nat \X Nat : ss[1] < ss[2]}
  BY DEF OpToRel
<1>2. IsWellFoundedOn(R, Nat)
  BY NatLessThanWellFounded
<1> HIDE DEF R
<1>3. PICK m \in T : \A k \in T : ~(<<k, m>> \in R)
  BY <1>2, WFMin
<1>4. ASSUME NEW k \in T PROVE m <= k
  <2>1. <<k, m>> \notin R /\ m \in Nat /\ k \in Nat
    BY <1>3
  <2> QED BY <1>1, <2>1
<1> QED BY <1>4

LEMMA Stepwise ==
  ASSUME NEW n \in Nat, NEW S, 0 \in S, \A i \in 1 .. n : i - 1 \in S => i \in S
  PROVE  \A i \in 0 .. n : i \in S
<1> DEFINE T == (0 .. n) \ S
<1>1. ASSUME T # {} PROVE FALSE
  <2>1. T \in SUBSET Nat
    OBVIOUS
  <2> HIDE DEF T
  <2>2. PICK m \in T : \A k \in T : m <= k
    BY <1>1, <2>1, Least
  <2>3. m # 0 /\ m \in 1 .. n /\ m \notin S
    BY DEF T
  <2>4. m - 1 \in 0 .. n /\ ~(m <= m - 1)
    BY <2>3
  <2>5. m - 1 \in S
    BY <2>2, <2>4 DEF T
  <2> QED BY <2>3, <2>5
<1> QED BY <1>1

-----------------------------------------------------------------------------
(* Following a path.                                                       *)

Onto(t, p, i, n) == IF n = Absent THEN Absent ELSE t[<<n, p[i]>>]
Follows(t, p, f, n) ==
  f = [i \in 0 .. n |-> IF i = 0 THEN Top ELSE Onto(t, p, i, f[i - 1])]

LEMMA SomeRoute ==
  ASSUME NEW t, NEW p, NEW n \in Nat PROVE \E f : Follows(t, p, f, n)
<1> DEFINE S == {i \in 0 .. n : \E f : Follows(t, p, f, i)}
<1>1. 0 \in S
  <2>1. Follows(t, p, [i \in 0 .. 0 |-> Top], 0)
    BY DEF Follows
  <2> QED BY <2>1
<1>2. ASSUME NEW m \in 1 .. n, m - 1 \in S PROVE m \in S
  <2>1. PICK f : Follows(t, p, f, m - 1)
    BY <1>2
  <2> DEFINE g == [i \in 0 .. m |-> IF i = m THEN Onto(t, p, m, f[m - 1]) ELSE f[i]]
  <2>2. \A i \in 0 .. (m - 1) :
           f[i] = IF i = 0 THEN Top ELSE Onto(t, p, i, f[i - 1])
    BY <2>1 DEF Follows
  <2>3. /\ \A i \in 0 .. (m - 1) : g[i] = f[i]
        /\ g[m] = Onto(t, p, m, f[m - 1])
        /\ g = [i \in 0 .. m |-> g[i]]
    OBVIOUS
  <2> HIDE DEF g
  <2>4. ASSUME NEW i \in 0 .. m
        PROVE  g[i] = IF i = 0 THEN Top ELSE Onto(t, p, i, g[i - 1])
    <3>1. CASE i = m
      BY <2>2, <2>3, <3>1
    <3>2. CASE i # m
      <4>1. i \in 0 .. (m - 1) /\ (i # 0 => i - 1 \in 0 .. (m - 1))
        BY <3>2
      <4> QED BY <2>2, <2>3, <4>1
    <3> QED BY <3>1, <3>2
  <2>5. Follows(t, p, g, m)
    BY <2>3, <2>4 DEF Follows
  <2> QED BY <2>5
<1> HIDE DEF S
<1>3. n \in S
  BY <1>1, <1>2, Stepwise
<1> QED BY <1>3 DEF S

LEMMA RouteSteps ==
  ASSUME NEW t, NEW p, Len(p) \in Nat
  PROVE  /\ Route(t, p)[0] = Top
         /\ \A i \in 1 .. Len(p) : Route(t, p)[i] = Onto(t, p, i, Route(t, p)[i - 1])
<1>1. \E f : Follows(t, p, f, Len(p))
  BY SomeRoute
<1>2. Route(t, p) = CHOOSE f : Follows(t, p, f, Len(p))
  BY DEF Route, Follows, Onto
<1>3. Follows(t, p, Route(t, p), Len(p))
  BY <1>1, <1>2
<1> QED BY <1>3 DEF Follows

-----------------------------------------------------------------------------
(* Trees.                                                                  *)

Tree(t) ==
  /\ t \in [Nodes \X Names -> Nodes \cup {Absent}]
  /\ \A n \in Made, c \in Names : t[<<n, c>>] \in Made \cup {Absent}
  /\ \A x, y \in Nodes \X Names : t[x] = t[y] /\ t[x] \in Made => x = y

\* Launches add what they make, and nothing else happens to the tree.
Grows(t, u) ==
  /\ Tree(t) /\ Tree(u)
  /\ \A x \in Nodes \X Names : u[x] = t[x] \/ (t[x] = Absent /\ u[x] \in Made)

LEMMA Distinct ==
  /\ Found \cap Made = {} /\ Absent \notin Nodes /\ Top \in Found
  /\ Nodes = Found \cup Made
BY PathAssumption, TreeAssumption DEF Nodes

LEMMA RouteType ==
  ASSUME NEW t, Tree(t), NEW p \in Seq(Names)
  PROVE  \A i \in 0 .. Len(p) : Route(t, p)[i] \in Nodes \cup {Absent}
<1> DEFINE S == {i \in 0 .. Len(p) : Route(t, p)[i] \in Nodes \cup {Absent}}
<1>1. 0 \in S
  BY RouteSteps, Distinct
<1>2. ASSUME NEW i \in 1 .. Len(p), i - 1 \in S PROVE i \in S
  <2>1. Route(t, p)[i] = Onto(t, p, i, Route(t, p)[i - 1]) /\ p[i] \in Names
    BY RouteSteps
  <2> QED BY <1>2, <2>1 DEF Onto, Tree
<1> HIDE DEF S
<1>3. Len(p) \in Nat
  OBVIOUS
<1>4. \A i \in 0 .. Len(p) : i \in S
  BY <1>1, <1>2, <1>3, Stepwise
<1> QED BY <1>4 DEF S

\* A path goes on to lead where it led; what it newly leads to is made.
LEMMA RouteGrows ==
  ASSUME NEW t, NEW u, Grows(t, u), NEW p \in Seq(Names)
  PROVE  \A i \in 0 .. Len(p) :
            \/ Route(u, p)[i] = Route(t, p)[i]
            \/ Route(t, p)[i] = Absent /\ Route(u, p)[i] \in Made
<1> DEFINE S == {i \in 0 .. Len(p) :
                   \/ Route(u, p)[i] = Route(t, p)[i]
                   \/ Route(t, p)[i] = Absent /\ Route(u, p)[i] \in Made}
<1>1. 0 \in S
  BY RouteSteps
<1>2. ASSUME NEW i \in 1 .. Len(p), i - 1 \in S PROVE i \in S
  <2>1. /\ Route(t, p)[i] = Onto(t, p, i, Route(t, p)[i - 1])
        /\ Route(u, p)[i] = Onto(u, p, i, Route(u, p)[i - 1])
        /\ p[i] \in Names /\ i - 1 \in 0 .. Len(p)
    BY RouteSteps
  <2>2. Route(t, p)[i - 1] \in Nodes \cup {Absent} /\ Absent \notin Made
    BY <2>1, RouteType, Distinct DEF Grows
  <2>3. CASE Route(u, p)[i - 1] = Route(t, p)[i - 1]
    BY <2>1, <2>2, <2>3 DEF Onto, Grows
  <2>4. CASE Route(t, p)[i - 1] = Absent /\ Route(u, p)[i - 1] \in Made
    BY <2>1, <2>2, <2>4 DEF Onto, Grows, Tree
  <2> QED BY <1>2, <2>3, <2>4
<1> HIDE DEF S
<1>3. Len(p) \in Nat
  OBVIOUS
<1>4. \A i \in 0 .. Len(p) : i \in S
  BY <1>1, <1>2, <1>3, Stepwise
<1> QED BY <1>4 DEF S

\* At a and b the paths p and q lead to one found directory, from which the
\* same components took them to i and j.
Parted(t, p, q, i, j, a, b) ==
  /\ i - a = j - b
  /\ Route(t, p)[a] = Route(t, q)[b] /\ Route(t, p)[a] \in Found
  /\ \A k \in 1 .. (i - a) : p[a + k] = q[b + k]

\* Two paths that meet came together, by the same components, from a directory
\* that was found.
LEMMA Joined ==
  ASSUME NEW t, Tree(t), NEW p \in Seq(Names), NEW q \in Seq(Names),
         NEW i \in 0 .. Len(p), NEW j \in 0 .. Len(q),
         Route(t, p)[i] = Route(t, q)[j], Route(t, p)[i] # Absent
  PROVE  \E a \in 0 .. i, b \in 0 .. j : Parted(t, p, q, i, j, a, b)
<1> DEFINE S == {m \in 0 .. Len(p) : \A n \in 0 .. Len(q) :
                   Route(t, p)[m] = Route(t, q)[n] /\ Route(t, p)[m] # Absent
                   => \E a \in 0 .. m, b \in 0 .. n : Parted(t, p, q, m, n, a, b)}
<1>1. ASSUME NEW m \in 0 .. Len(p), NEW n \in 0 .. Len(q),
             Route(t, p)[m] = Route(t, q)[n], Route(t, p)[m] \in Found
      PROVE  \E a \in 0 .. m, b \in 0 .. n : Parted(t, p, q, m, n, a, b)
  <2>1. m \in 0 .. m /\ n \in 0 .. n /\ Parted(t, p, q, m, n, m, n)
    BY <1>1 DEF Parted
  <2> QED BY <2>1
<1>2. 0 \in S
  BY <1>1, RouteSteps, Distinct
<1>3. ASSUME NEW m \in 1 .. Len(p), m - 1 \in S PROVE m \in S
  <2> SUFFICES ASSUME NEW n \in 0 .. Len(q), Route(t, p)[m] = Route(t, q)[n],
                      Route(t, p)[m] # Absent
               PROVE  \E a \in 0 .. m, b \in 0 .. n : Parted(t, p, q, m, n, a, b)
    OBVIOUS
  <2>1. CASE Route(t, p)[m] \in Found
    BY <1>1, <2>1
  <2>2. CASE Route(t, p)[m] \notin Found
    <3>1. Route(t, p)[m] \in Made /\ Route(t, q)[n] \in Made
      BY <2>2, RouteType, Distinct
    <3>2. n # 0 /\ n \in 1 .. Len(q)
      BY <3>1, RouteSteps, Distinct
    <3>3. /\ Route(t, p)[m] = Onto(t, p, m, Route(t, p)[m - 1])
          /\ Route(t, q)[n] = Onto(t, q, n, Route(t, q)[n - 1])
          /\ p[m] \in Names /\ q[n] \in Names
      BY <3>2, RouteSteps
    <3>4. /\ Route(t, p)[m - 1] # Absent /\ Route(t, q)[n - 1] # Absent
          /\ Route(t, p)[m - 1] \in Nodes /\ Route(t, q)[n - 1] \in Nodes
      <4>1. m - 1 \in 0 .. Len(p) /\ n - 1 \in 0 .. Len(q)
        BY <3>2
      <4> QED BY <3>1, <3>3, <4>1, RouteType, Distinct DEF Onto
    <3>5. Route(t, p)[m - 1] = Route(t, q)[n - 1] /\ p[m] = q[n]
      BY <3>1, <3>3, <3>4 DEF Onto, Tree
    <3>6. PICK a \in 0 .. (m - 1), b \in 0 .. (n - 1) : Parted(t, p, q, m - 1, n - 1, a, b)
      <4>1. n - 1 \in 0 .. Len(q)
        BY <3>2
      <4>2. \A k \in 0 .. Len(q) :
               Route(t, p)[m - 1] = Route(t, q)[k] /\ Route(t, p)[m - 1] # Absent
               => \E a \in 0 .. (m - 1), b \in 0 .. k : Parted(t, p, q, m - 1, k, a, b)
        BY <1>3
      <4> QED BY <3>4, <3>5, <4>1, <4>2
    <3>7. m - a = n - b /\ a \in 0 .. m /\ b \in 0 .. n
      BY <3>2, <3>6 DEF Parted
    <3>8. ASSUME NEW k \in 1 .. (m - a) PROVE p[a + k] = q[b + k]
      <4>1. CASE k = m - a
        <5>1. a + k = m /\ b + k = n
          BY <3>2, <3>7, <4>1
        <5> QED BY <3>5, <5>1
      <4>2. CASE k # m - a
        BY <3>6, <4>2 DEF Parted
      <4> QED BY <4>1, <4>2
    <3> QED BY <3>6, <3>7, <3>8 DEF Parted
  <2> QED BY <2>1, <2>2
<1> HIDE DEF S
<1>4. Len(p) \in Nat
  OBVIOUS
<1>5. i \in S
  BY <1>2, <1>3, <1>4, Stepwise
<1> QED BY <1>5 DEF S

-----------------------------------------------------------------------------
(* What remains of a path.                                                 *)

Rest(p, i) == SubSeq(p, i + 1, Len(p))

LEMMA RestParts ==
  ASSUME NEW p \in Seq(Names), NEW i \in 0 .. Len(p)
  PROVE  /\ Rest(p, i) \in Seq(Names) /\ Len(Rest(p, i)) = Len(p) - i
         /\ \A k \in 1 .. (Len(p) - i) : Rest(p, i)[k] = p[i + k]
  BY DEF Rest

LEMMA OverlapMeans ==
  ASSUME NEW a \in Seq(Names), NEW b \in Seq(Names)
  PROVE  Overlap(a, b) <=> \A k \in 1 .. Len(a) : k \in 1 .. Len(b) => a[k] = b[k]
<1>1. ASSUME NEW s \in Seq(Names), NEW t \in Seq(Names)
      PROVE  IsPrefix(s, t) <=> Len(s) <= Len(t) /\ \A k \in 1 .. Len(s) : s[k] = t[k]
  BY DEF IsPrefix
<1>2. Len(a) \in Nat /\ Len(b) \in Nat
  OBVIOUS
<1>3. CASE Len(a) <= Len(b)
  <2>1. Overlap(a, b) => \A k \in 1 .. Len(a) : k \in 1 .. Len(b) => a[k] = b[k]
    BY <1>1 DEF Overlap
  <2>2. ASSUME \A k \in 1 .. Len(a) : k \in 1 .. Len(b) => a[k] = b[k]
        PROVE  Overlap(a, b)
    BY <1>1, <1>2, <1>3, <2>2 DEF Overlap
  <2> QED BY <2>1, <2>2
<1>4. CASE Len(b) <= Len(a)
  <2>1. Overlap(a, b) => \A k \in 1 .. Len(a) : k \in 1 .. Len(b) => a[k] = b[k]
    BY <1>1 DEF Overlap
  <2>2. ASSUME \A k \in 1 .. Len(a) : k \in 1 .. Len(b) => a[k] = b[k]
        PROVE  Overlap(a, b)
    BY <1>1, <1>2, <1>4, <2>2 DEF Overlap
  <2> QED BY <2>1, <2>2
<1> QED BY <1>2, <1>3, <1>4

LEMMA OverlapSymmetric ==
  ASSUME NEW a \in Seq(Names), NEW b \in Seq(Names), Overlap(a, b) PROVE Overlap(b, a)
  BY OverlapMeans

LEMMA RestsOverlap ==
  ASSUME NEW p \in Seq(Names), NEW q \in Seq(Names),
         NEW i \in 0 .. Len(p), NEW j \in 0 .. Len(q)
  PROVE  Overlap(Rest(p, i), Rest(q, j)) <=>
           \A k \in 1 .. (Len(p) - i) : k \in 1 .. (Len(q) - j) => p[i + k] = q[j + k]
<1> DEFINE r == Rest(p, i)
           s == Rest(q, j)
<1>1. /\ r \in Seq(Names) /\ Len(r) = Len(p) - i
      /\ \A k \in 1 .. (Len(p) - i) : r[k] = p[i + k]
      /\ s \in Seq(Names) /\ Len(s) = Len(q) - j
      /\ \A k \in 1 .. (Len(q) - j) : s[k] = q[j + k]
  BY RestParts
<1> HIDE DEF r, s
<1>2. Overlap(r, s) <=> \A k \in 1 .. Len(r) : k \in 1 .. Len(s) => r[k] = s[k]
  BY <1>1, OverlapMeans
<1>3. Overlap(r, s) <=>
        \A k \in 1 .. (Len(p) - i) : k \in 1 .. (Len(q) - j) => p[i + k] = q[j + k]
  BY <1>1, <1>2
<1> QED BY <1>3 DEF r, s

\* What remains overlaps already where the paths came together.
LEMMA OverlapBack ==
  ASSUME NEW p \in Seq(Names), NEW q \in Seq(Names),
         NEW i \in 0 .. Len(p), NEW j \in 0 .. Len(q), NEW a \in 0 .. i, NEW b \in 0 .. j,
         i - a = j - b, \A k \in 1 .. (i - a) : p[a + k] = q[b + k],
         Overlap(Rest(p, i), Rest(q, j))
  PROVE  Overlap(Rest(p, a), Rest(q, b))
<1>1. /\ a \in 0 .. Len(p) /\ b \in 0 .. Len(q)
      /\ Len(p) \in Nat /\ Len(q) \in Nat
  OBVIOUS
<1>2. ASSUME NEW k \in 1 .. (Len(p) - a), k \in 1 .. (Len(q) - b)
      PROVE  p[a + k] = q[b + k]
  <2>1. CASE k <= i - a
    BY <2>1
  <2>2. CASE k > i - a
    <3>1. PICK m \in Int : m = k - (i - a)
      BY <1>1
    <3>2. /\ m \in 1 .. (Len(p) - i) /\ m \in 1 .. (Len(q) - j)
          /\ i + m = a + k /\ j + m = b + k
      BY <1>1, <1>2, <2>2, <3>1
    <3>3. p[i + m] = q[j + m]
      BY <3>2, RestsOverlap
    <3> QED BY <3>2, <3>3
  <2> QED BY <1>1, <2>1, <2>2
<1>3. \A k \in 1 .. (Len(p) - a) : k \in 1 .. (Len(q) - b) => p[a + k] = q[b + k]
  BY <1>2
<1> QED BY <1>1, <1>3, RestsOverlap

Clash(t, p, q) ==
  \E i \in 0 .. Len(p), j \in 0 .. Len(q) :
    /\ Route(t, p)[i] = Route(t, q)[j] /\ Route(t, p)[i] \in Found
    /\ Overlap(Rest(p, i), Rest(q, j))

\* If two paths meet and go on together, they do so from a found directory.
LEMMA MeetingIsClash ==
  ASSUME NEW t, Tree(t), NEW p \in Seq(Names), NEW q \in Seq(Names),
         NEW i \in 0 .. Len(p), NEW j \in 0 .. Len(q),
         Route(t, p)[i] = Route(t, q)[j], Route(t, p)[i] # Absent,
         Overlap(Rest(p, i), Rest(q, j))
  PROVE  Clash(t, p, q)
<1>1. PICK a \in 0 .. i, b \in 0 .. j : Parted(t, p, q, i, j, a, b)
  BY Joined
<1>2. Overlap(Rest(p, a), Rest(q, b))
  BY <1>1, OverlapBack DEF Parted
<1>3. a \in 0 .. Len(p) /\ b \in 0 .. Len(q)
  OBVIOUS
<1> QED BY <1>1, <1>2, <1>3 DEF Clash, Parted

\* The end of a path that another passes through clashes with it.
LEMMA EndIsClash ==
  ASSUME NEW t, Tree(t), NEW p \in Seq(Names), NEW q \in Seq(Names),
         NEW j \in 0 .. Len(q), Route(t, p)[Len(p)] = Route(t, q)[j],
         Route(t, p)[Len(p)] # Absent
  PROVE  Clash(t, p, q)
<1>1. Len(p) \in 0 .. Len(p) /\ 1 .. (Len(p) - Len(p)) = {}
  OBVIOUS
<1>2. Overlap(Rest(p, Len(p)), Rest(q, j))
  BY <1>1, RestsOverlap
<1> QED BY <1>1, <1>2, MeetingIsClash

\* Found directories stay where they are, so growth makes and ends no clash.
LEMMA FoundStays ==
  ASSUME NEW t, NEW u, Grows(t, u), NEW p \in Seq(Names), NEW i \in 0 .. Len(p),
         Route(t, p)[i] \in Found \/ Route(u, p)[i] \in Found
  PROVE  Route(u, p)[i] = Route(t, p)[i]
  BY RouteGrows, Distinct

LEMMA ClashStays ==
  ASSUME NEW t, NEW u, Grows(t, u), NEW p \in Seq(Names), NEW q \in Seq(Names)
  PROVE  Clash(t, p, q) <=> Clash(u, p, q)
  BY FoundStays DEF Clash

-----------------------------------------------------------------------------
(* The inductive invariant.                                                *)

\* Every directory a launch makes is private.
Types ==
  /\ TypeOK /\ Tree(child)
  /\ asked \in [Launches -> Requests] /\ chosen \in [Launches -> Environments]
  /\ traces = [l \in Launches |-> traces[l]]
  /\ \A n \in Made : kind[n] = "private"

Walks(l) == step[l] \in {"audit", "create", "mkdir", "reopen"}

\* The open directory is where the path leads, below safe ancestors.
Walking(l) ==
  Walks(l) =>
    /\ Resolvable(asked[l])
    /\ depth[l] \in 0 .. Len(Walked(l))
    /\ current[l] = Leads(Walked(l))[depth[l]]
    /\ \A i \in 0 .. Len(Walked(l)) : i < depth[l] =>
         Leads(Walked(l))[i] # Absent /\ Safe(Leads(Walked(l))[i], FALSE)
    /\ ~At(l, "audit") => walked[l] = chosen[l]
    /\ step[l] \in {"mkdir", "reopen"} => ~Final(l) /\ Safe(current[l], FALSE)

Trace(l, e, i) == <<e, Leads(Path(l, e))[i], Rest(Path(l, e), i)>>
Inspected(l, e, i) ==
  Safe(Leads(Path(l, e))[i], i = Len(Path(l, e))) /\ Trace(l, e, i) \in traces[l]

\* The traces are where the paths lead, and whatever found directory a path
\* led through when it was audited it still leads through.
Traced(l) ==
  At(l, "audit") =>
    /\ \A t \in traces[l] : \E e \in Environments : \E i \in 0 .. Len(Path(l, e)) :
         t = Trace(l, e, i)
    /\ \A i \in 0 .. Len(Walked(l)) : i < depth[l] => Inspected(l, walked[l], i)
    /\ \A e \in Environments : e < walked[l] =>
         \A i \in 0 .. Len(Path(l, e)) :
           Leads(Path(l, e))[i] \in Found => Inspected(l, e, i)
    /\ \A e, f \in Environments : e < walked[l] /\ f < walked[l] /\ e # f =>
         ~Clash(child, Path(l, e), Path(l, f))

Linked(n) == \E x \in DOMAIN child : child[x] = n

\* A launch makes directories after its audit, on its way and no deeper.
Fresh(l) ==
  \A n \in Made : n[1] = l /\ Linked(n) =>
    /\ step[l] \notin {"idle", "audit"}
    /\ step[l] \in {"create", "mkdir"} => n[2] <= depth[l]
    /\ step[l] = "reopen" => n[2] <= depth[l] + 1
    /\ SoundRequest(l)
    /\ n \in Along(Path(l, chosen[l]))

Prepared(l) ==
  prepared[l] # Absent =>
    /\ step[l] \in {"done", "dead"}
    /\ SoundRequest(l)
    /\ prepared[l] = Leads(Path(l, chosen[l]))[Len(Path(l, chosen[l]))]
    /\ \A i \in 0 .. Len(Path(l, chosen[l])) :
         /\ Leads(Path(l, chosen[l]))[i] # Absent
         /\ Safe(Leads(Path(l, chosen[l]))[i], i = Len(Path(l, chosen[l])))

Audited(l) ==
  /\ step[l] \in {"create", "mkdir", "reopen", "done"} => SoundRequest(l)
  /\ step[l] = "refused" => ~SoundRequest(l)
  /\ step[l] = "idle" =>
       walked[l] = 1 /\ current[l] = Top /\ depth[l] = 0 /\ traces[l] = {}

Kept(l) == Walking(l) /\ Traced(l) /\ Fresh(l) /\ Prepared(l) /\ Audited(l)
PInv == Types /\ \A l \in Launches : Kept(l)

-----------------------------------------------------------------------------
(* Paths and soundness.                                                    *)

LEMMA PathTypes ==
  ASSUME NEW l \in Launches, asked \in [Launches -> Requests], Resolvable(asked[l])
  PROVE  \A e \in Environments :
           Path(l, e) \in Seq(Names) /\ Len(Path(l, e)) \in 1 .. MaxDepth
  BY RequestAssumption DEF Path, Resolvable, Normalizable

LEMMA SoundMeans ==
  ASSUME NEW l \in Launches
  PROVE  SoundRequest(l) <=>
           /\ Resolvable(asked[l])
           /\ \A e \in Environments : \A i \in 0 .. Len(Path(l, e)) :
                Route(child, Path(l, e))[i] \in Found =>
                  Safe(Route(child, Path(l, e))[i], i = Len(Path(l, e)))
           /\ \A e, f \in Environments : e # f => ~Clash(child, Path(l, e), Path(l, f))
<1>1. ASSUME NEW e \in Environments, NEW f \in Environments
      PROVE  Clash(child, Path(l, e), Path(l, f)) <=>
               ~ \A i \in 0 .. Len(Path(l, e)), j \in 0 .. Len(Path(l, f)) :
                   (Leads(Path(l, e))[i] = Leads(Path(l, f))[j]
                      /\ Leads(Path(l, e))[i] \in Found)
                   => ~Overlap(SubSeq(Path(l, e), i + 1, Len(Path(l, e))),
                               SubSeq(Path(l, f), j + 1, Len(Path(l, f))))
  BY DEF Clash, Leads, Rest
<1> QED BY <1>1 DEF SoundRequest, Leads

\* What the steps of launches do to what they share.
Evolves == Grows(child, child') /\ UNCHANGED <<kind, asked, chosen>>

LEMMA Ways ==
  ASSUME NEW l \in Launches, Types, Evolves
  PROVE  /\ \A e \in Environments : Path(l, e)' = Path(l, e)
         /\ Resolvable(asked[l])' <=> Resolvable(asked[l])
         /\ \A n, final : Safe(n, final)' <=> Safe(n, final)
  BY DEF Evolves, Path, Safe

\* Soundness is decided by the found directories: no launch changes it.
LEMMA SoundStays ==
  ASSUME NEW l \in Launches, Types, Evolves
  PROVE  SoundRequest(l)' <=> SoundRequest(l)
<1>1. SoundRequest(l) <=>
           /\ Resolvable(asked[l])
           /\ \A e \in Environments : \A i \in 0 .. Len(Path(l, e)) :
                Route(child, Path(l, e))[i] \in Found =>
                  Safe(Route(child, Path(l, e))[i], i = Len(Path(l, e)))
           /\ \A e, f \in Environments : e # f => ~Clash(child, Path(l, e), Path(l, f))
  BY SoundMeans
<1>2. SoundRequest(l)' <=>
           /\ Resolvable(asked[l])
           /\ \A e \in Environments : \A i \in 0 .. Len(Path(l, e)) :
                Route(child', Path(l, e))[i] \in Found =>
                  Safe(Route(child', Path(l, e))[i], i = Len(Path(l, e)))
           /\ \A e, f \in Environments : e # f => ~Clash(child', Path(l, e), Path(l, f))
  <2>1. ASSUME NEW e \in Environments, NEW f \in Environments
        PROVE  Clash(child', Path(l, e), Path(l, f)) <=>
                 ~ \A i \in 0 .. Len(Path(l, e)), j \in 0 .. Len(Path(l, f)) :
                     (Route(child', Path(l, e))[i] = Route(child', Path(l, f))[j]
                        /\ Route(child', Path(l, e))[i] \in Found)
                     => ~Overlap(SubSeq(Path(l, e), i + 1, Len(Path(l, e))),
                                 SubSeq(Path(l, f), j + 1, Len(Path(l, f))))
    BY DEF Clash, Rest
  <2> QED BY <2>1 DEF SoundRequest, Leads, Evolves, Path, Safe
<1>3. ASSUME Resolvable(asked[l]), NEW e \in Environments, NEW f \in Environments
      PROVE  /\ Clash(child', Path(l, e), Path(l, f)) <=> Clash(child, Path(l, e), Path(l, f))
             /\ \A i \in 0 .. Len(Path(l, e)) :
                  Route(child, Path(l, e))[i] \in Found \/ Route(child', Path(l, e))[i] \in Found
                  => Route(child', Path(l, e))[i] = Route(child, Path(l, e))[i]
  <2>1. Path(l, e) \in Seq(Names) /\ Path(l, f) \in Seq(Names) /\ Grows(child, child')
    BY <1>3, PathTypes DEF Types, Evolves
  <2> QED BY <2>1, ClashStays, FoundStays
<1> QED BY <1>1, <1>2, <1>3

\* Where a path leads to a directory, it goes on to lead there.
LEMMA LeadsStay ==
  ASSUME NEW l \in Launches, Types, Evolves, Resolvable(asked[l]),
         NEW e \in Environments, NEW i \in 0 .. Len(Path(l, e))
  PROVE  /\ Leads(Path(l, e))[i] \in Nodes \cup {Absent}
         /\ Leads(Path(l, e))[i] # Absent
              => Route(child', Path(l, e))[i] = Leads(Path(l, e))[i]
         /\ Route(child', Path(l, e))[i] \in Found
              => Route(child', Path(l, e))[i] = Leads(Path(l, e))[i]
<1>1. Path(l, e) \in Seq(Names) /\ Grows(child, child') /\ Tree(child)
  BY PathTypes DEF Types, Evolves
<1> QED BY <1>1, RouteType, RouteGrows, FoundStays DEF Leads

-----------------------------------------------------------------------------
(* A launch keeps its invariant while others step.                         *)

\* What a launch has of its own.
own(l) == <<step[l], walked[l], current[l], depth[l], traces[l], prepared[l]>>

LEMMA BystanderWalks ==
  ASSUME NEW l \in Launches, Types, Evolves, UNCHANGED own(l), Walking(l)
  PROVE  Walking(l)'
<1> SUFFICES ASSUME Walks(l)
             PROVE  Walking(l)'
  BY DEF Walking, Walks, own
<1>1. /\ Resolvable(asked[l]) /\ walked[l] \in Environments
      /\ depth[l] \in 0 .. Len(Walked(l)) /\ current[l] \in Nodes /\ current[l] # Absent
      /\ current[l] = Leads(Walked(l))[depth[l]]
  BY Distinct DEF Walking, Types, TypeOK
<1>2. Walked(l)' = Walked(l) /\ Leads(Walked(l))' = Route(child', Walked(l))
  BY DEF Walked, Path, Evolves, Leads, own
<1>3. ASSUME NEW i \in 0 .. Len(Walked(l)), Leads(Walked(l))[i] # Absent
      PROVE  Route(child', Walked(l))[i] = Leads(Walked(l))[i]
  BY <1>1, <1>3, LeadsStay DEF Walked
<1>4. Resolvable(asked[l])' /\ \A n, final : Safe(n, final)' <=> Safe(n, final)
  BY <1>1, Ways
<1> QED BY <1>1, <1>2, <1>3, <1>4 DEF Walking, Walks, At, Final, own, Evolves

\* A path of the launch, before and after.
LEMMA SamePath ==
  ASSUME NEW l \in Launches, Types, Evolves, NEW e \in Environments
  PROVE  Path(l, e)' = Path(l, e) /\ Leads(Path(l, e))' = Route(child', Path(l, e))
  BY DEF Path, Evolves, Leads

LEMMA BystanderTraces ==
  ASSUME NEW l \in Launches, Types, Evolves, UNCHANGED own(l), Walking(l), Traced(l)
  PROVE  Traced(l)'
<1> SUFFICES ASSUME At(l, "audit") PROVE Traced(l)'
  BY DEF Traced, At, own
<1>1. Resolvable(asked[l]) /\ walked[l] \in Environments
  BY DEF Walking, Walks, At, Types, TypeOK
<1>2. /\ Walked(l)' = Walked(l)
      /\ \A t \in traces[l] : t[2] \in Nodes /\ t[2] # Absent
  BY Distinct DEF Walked, Path, Evolves, own, Types, TypeOK
<1>3. ASSUME NEW e \in Environments, NEW i \in 0 .. Len(Path(l, e)),
             Leads(Path(l, e))[i] # Absent
      PROVE  Trace(l, e, i)' = Trace(l, e, i)
  BY <1>1, <1>3, LeadsStay, SamePath DEF Trace
<1>4. ASSUME NEW e \in Environments, NEW i \in 0 .. Len(Path(l, e)), Inspected(l, e, i)
      PROVE  Inspected(l, e, i)'
  <2>1. Leads(Path(l, e))[i] # Absent
    BY <1>2, <1>4 DEF Inspected, Trace
  <2>2. Leads(Path(l, e))'[i] = Leads(Path(l, e))[i]
    BY <1>1, <2>1, LeadsStay, SamePath
  <2> QED BY <1>3, <1>4, <2>1, <2>2, SamePath, Ways DEF Inspected, own
<1>5. \A t \in traces[l]' : \E e \in Environments : \E i \in 0 .. Len(Path(l, e)') :
        t = Trace(l, e, i)'
  <2>1. SUFFICES ASSUME NEW t \in traces[l]
                 PROVE  \E e \in Environments : \E i \in 0 .. Len(Path(l, e)) :
                          t = Trace(l, e, i)'
    BY SamePath DEF own
  <2>2. PICK e \in Environments : \E i \in 0 .. Len(Path(l, e)) : t = Trace(l, e, i)
    BY DEF Traced
  <2>3. PICK i \in 0 .. Len(Path(l, e)) : t = Trace(l, e, i)
    BY <2>2
  <2>4. Leads(Path(l, e))[i] # Absent
    BY <1>2, <2>3 DEF Trace
  <2> QED BY <1>3, <2>3, <2>4
<1>6. \A i \in 0 .. Len(Walked(l)) : i < depth[l] => Inspected(l, walked[l], i)'
  <2>1. PICK e \in Environments : e = walked[l] /\ Walked(l) = Path(l, e)
    BY <1>1 DEF Walked
  <2>2. \A i \in 0 .. Len(Path(l, e)) : i < depth[l] => Inspected(l, e, i)
    BY <2>1 DEF Traced
  <2>3. \A i \in 0 .. Len(Path(l, e)) : i < depth[l] => Inspected(l, e, i)'
    BY <1>4, <2>2
  <2> QED BY <2>1, <2>3 DEF own, Inspected, Trace
<1>7. ASSUME NEW e \in Environments, e < walked[l], NEW i \in 0 .. Len(Path(l, e)),
             Leads(Path(l, e))'[i] \in Found
      PROVE  Inspected(l, e, i)'
  <2>1. Leads(Path(l, e))[i] \in Found
    BY <1>1, <1>7, LeadsStay, SamePath
  <2> QED BY <1>4, <1>7, <2>1 DEF Traced
<1>8. ASSUME NEW e \in Environments, NEW f \in Environments,
             e < walked[l], f < walked[l], e # f
      PROVE  ~Clash(child', Path(l, e)', Path(l, f)')
  <2>1. Path(l, e) \in Seq(Names) /\ Path(l, f) \in Seq(Names) /\ Grows(child, child')
    BY <1>1, PathTypes DEF Types, Evolves
  <2> QED BY <1>8, <2>1, ClashStays, SamePath DEF Traced
<1> QED BY <1>2, <1>5, <1>6, <1>7, <1>8, SamePath DEF Traced, own

LEMMA BystanderMade ==
  ASSUME NEW l \in Launches, Types, Evolves, UNCHANGED own(l), Fresh(l),
         \A n \in Made : n[1] = l /\ Linked(n)' => Linked(n)
  PROVE  Fresh(l)'
<1>1. ASSUME NEW n \in Made, n[1] = l, Linked(n)'
      PROVE  SoundRequest(l)' /\ n \in Along(Path(l, chosen[l]))'
  <2>1. Linked(n) /\ SoundRequest(l) /\ n \in Along(Path(l, chosen[l]))
    BY <1>1 DEF Fresh
  <2>2. PICK e \in Environments : e = chosen[l]
    BY DEF Types
  <2>3. PICK i \in 0 .. Len(Path(l, e)) : Leads(Path(l, e))[i] = n
    BY <2>1, <2>2 DEF Along
  <2>4. Resolvable(asked[l]) /\ n # Absent
    BY <1>1, <2>1, Distinct DEF SoundRequest
  <2>5. Route(child', Path(l, e))[i] = n
    BY <2>3, <2>4, LeadsStay
  <2>6. Along(Path(l, chosen[l]))' = {Route(child', Path(l, e))[k] : k \in 0 .. Len(Path(l, e))}
    BY <2>2 DEF Along, Leads, Path, Evolves
  <2> QED BY <2>1, <2>5, <2>6, SoundStays
<1> QED BY <1>1 DEF Fresh, own

LEMMA BystanderPrepared ==
  ASSUME NEW l \in Launches, Types, Evolves, UNCHANGED own(l), Prepared(l)
  PROVE  Prepared(l)'
<1> SUFFICES ASSUME prepared[l] # Absent PROVE Prepared(l)'
  BY DEF Prepared, own
<1>1. PICK e \in Environments : e = chosen[l]
  BY DEF Types
<1>2. SoundRequest(l) /\ Resolvable(asked[l])
  BY DEF Prepared, SoundRequest
<1>3. ASSUME NEW i \in 0 .. Len(Path(l, e))
      PROVE  /\ Route(child', Path(l, e))[i] = Leads(Path(l, e))[i]
             /\ Leads(Path(l, e))[i] # Absent
             /\ Safe(Leads(Path(l, e))[i], i = Len(Path(l, e)))
  BY <1>1, <1>2, LeadsStay DEF Prepared
<1>4. Len(Path(l, e)) \in 0 .. Len(Path(l, e))
  BY <1>2, PathTypes DEF Types
<1>5. Path(l, chosen[l])' = Path(l, e) /\ Leads(Path(l, chosen[l]))' = Route(child', Path(l, e))
  BY <1>1 DEF Path, Evolves, Leads
<1>6. SoundRequest(l)' /\ \A n, final : Safe(n, final)' <=> Safe(n, final)
  BY <1>2, SoundStays, Ways
<1>7. step[l]' \in {"done", "dead"} /\ prepared[l]' = Leads(Path(l, e))[Len(Path(l, e))]
  BY <1>1 DEF Prepared, own
<1> QED BY <1>3, <1>4, <1>5, <1>6, <1>7 DEF Prepared

LEMMA BystanderKeeps ==
  ASSUME NEW l \in Launches, Types, Evolves, UNCHANGED own(l), Kept(l),
         \A n \in Made : n[1] = l /\ Linked(n)' => Linked(n)
  PROVE  Kept(l)'
<1>1. Audited(l)'
  BY SoundStays DEF Kept, Audited, own
<1> QED
  BY <1>1, BystanderWalks, BystanderTraces, BystanderMade, BystanderPrepared DEF Kept

-----------------------------------------------------------------------------
(* Where a launch stands.                                                  *)

\* What the open directory and the next component are to a launch that walks.
LEMMA Here ==
  ASSUME NEW l \in Launches, Types, Walking(l), Walks(l)
  PROVE  /\ walked[l] \in Environments /\ Walked(l) = Path(l, walked[l])
         /\ Resolvable(asked[l])
         /\ Walked(l) \in Seq(Names) /\ Len(Walked(l)) \in 1 .. MaxDepth
         /\ depth[l] \in 0 .. Len(Walked(l))
         /\ current[l] = Leads(Walked(l))[depth[l]] /\ current[l] \in Nodes
         /\ Named(l) \in Nodes \cup {Absent}
         /\ ~Final(l) => /\ depth[l] + 1 \in 1 .. Len(Walked(l))
                         /\ <<current[l], Walked(l)[depth[l] + 1]>> \in Nodes \X Names
                         /\ Named(l) = Leads(Walked(l))[depth[l] + 1]
                         /\ Named(l) = child[<<current[l], Walked(l)[depth[l] + 1]>>]
<1>1. /\ walked[l] \in Environments /\ Walked(l) = Path(l, walked[l])
      /\ Resolvable(asked[l]) /\ depth[l] \in 0 .. Len(Walked(l))
      /\ current[l] = Leads(Walked(l))[depth[l]] /\ current[l] \in Nodes
  BY DEF Types, TypeOK, Walking, Walked
<1>2. Walked(l) \in Seq(Names) /\ Len(Walked(l)) \in 1 .. MaxDepth
  BY <1>1, PathTypes DEF Types
<1>3. ASSUME ~Final(l)
      PROVE  /\ depth[l] + 1 \in 1 .. Len(Walked(l))
             /\ <<current[l], Walked(l)[depth[l] + 1]>> \in Nodes \X Names
             /\ Named(l) = Leads(Walked(l))[depth[l] + 1]
             /\ Named(l) = child[<<current[l], Walked(l)[depth[l] + 1]>>]
  <2>1. depth[l] + 1 \in 1 .. Len(Walked(l)) /\ (depth[l] + 1) - 1 = depth[l]
    BY <1>1, <1>2, <1>3 DEF Final
  <2>2. Walked(l)[depth[l] + 1] \in Names
    BY <1>2, <2>1
  <2>3. Leads(Walked(l))[depth[l] + 1]
          = Onto(child, Walked(l), depth[l] + 1, Leads(Walked(l))[depth[l]])
    BY <1>2, <2>1, RouteSteps DEF Leads
  <2> QED BY <1>1, <1>3, <2>1, <2>2, <2>3, Distinct DEF Onto, Named
<1>4. Named(l) \in Nodes \cup {Absent}
  BY <1>3 DEF Named, Types, Tree
<1> QED BY <1>1, <1>2, <1>3, <1>4

\* Beyond a missing component nothing is found.
LEMMA MissingBeyond ==
  ASSUME NEW t, NEW p \in Seq(Names), NEW m \in 0 .. Len(p), Route(t, p)[m] = Absent
  PROVE  \A i \in 0 .. Len(p) : m <= i => Route(t, p)[i] = Absent
<1> DEFINE S == {i \in 0 .. Len(p) : m <= i => Route(t, p)[i] = Absent}
<1>1. 0 \in S
  OBVIOUS
<1>2. ASSUME NEW i \in 1 .. Len(p), i - 1 \in S PROVE i \in S
  <2>1. Route(t, p)[i] = Onto(t, p, i, Route(t, p)[i - 1])
    BY RouteSteps
  <2> QED BY <1>2, <2>1 DEF Onto
<1> HIDE DEF S
<1>3. Len(p) \in Nat
  OBVIOUS
<1>4. \A i \in 0 .. Len(p) : i \in S
  BY <1>1, <1>2, <1>3, Stepwise
<1> QED BY <1>4 DEF S

\* Directories that launches make are safe, so an unsafe one was found.
LEMMA UnsafeWasFound ==
  ASSUME NEW l \in Launches, Types, NEW e \in Environments, NEW i \in 0 .. Len(Path(l, e)),
         Leads(Path(l, e))[i] \in Nodes, ~Safe(Leads(Path(l, e))[i], i = Len(Path(l, e)))
  PROVE  ~SoundRequest(l)
<1>1. Leads(Path(l, e))[i] \in Found
  BY Distinct DEF Types, Safe
<1> QED BY <1>1, SoundMeans DEF Leads

LEMMA UnsafeHere ==
  ASSUME NEW l \in Launches, Types, Walking(l), Walks(l), ~Safe(current[l], Final(l))
  PROVE  ~SoundRequest(l)
<1>1. PICK e \in Environments : e = walked[l]
  BY Here
<1>2. /\ depth[l] \in 0 .. Len(Path(l, e)) /\ Leads(Path(l, e))[depth[l]] = current[l]
      /\ current[l] \in Nodes /\ Final(l) = (depth[l] = Len(Path(l, e)))
  BY <1>1, Here DEF Final
<1> QED BY <1>2, UnsafeWasFound

LEMMA OtherHere ==
  ASSUME NEW l \in Launches, Types, Walking(l), Walks(l), Named(l) # Absent,
         kind[Named(l)] = "other"
  PROVE  ~SoundRequest(l)
<1>1. PICK e \in Environments : e = walked[l]
  BY Here
<1>2. ~Final(l)
  BY DEF Named
<1>3. /\ depth[l] + 1 \in 0 .. Len(Path(l, e)) /\ Leads(Path(l, e))[depth[l] + 1] = Named(l)
      /\ Named(l) \in Nodes
  <2>1. /\ Walked(l) = Path(l, e) /\ depth[l] + 1 \in 1 .. Len(Walked(l))
        /\ Named(l) = Leads(Walked(l))[depth[l] + 1] /\ Named(l) \in Nodes
        /\ Len(Walked(l)) \in Nat
    <3>1. /\ Walked(l) = Path(l, walked[l]) /\ depth[l] + 1 \in 1 .. Len(Walked(l))
          /\ Named(l) = Leads(Walked(l))[depth[l] + 1]
          /\ Named(l) \in Nodes \cup {Absent} /\ Len(Walked(l)) \in 1 .. MaxDepth
      BY <1>2, Here
    <3> QED BY <1>1, <3>1
  <2> QED BY <2>1
<1>4. ~Safe(Named(l), depth[l] + 1 = Len(Path(l, e)))
  BY DEF Safe
<1> QED BY <1>3, <1>4, UnsafeWasFound

-----------------------------------------------------------------------------
(* The launch that steps.                                                  *)

LEMMA TreeStays ==
  ASSUME Types, UNCHANGED <<treeVars, goal>>
  PROVE  Evolves /\ \A n : Linked(n)' <=> Linked(n)
  BY DEF Types, treeVars, goal, Evolves, Grows, Linked

\* The others keep their invariant, so the step of one launch keeps all.
LEMMA OneSteps ==
  ASSUME PInv, Evolves, Types', NEW l \in Launches, Kept(l)',
         \A m \in Launches \ {l} : UNCHANGED own(m),
         \A n \in Made : Linked(n)' => Linked(n) \/ n[1] = l
  PROVE  PInv'
<1>1. ASSUME NEW m \in Launches, m # l PROVE Kept(m)'
  <2>1. UNCHANGED own(m) /\ \A n \in Made : n[1] = m /\ Linked(n)' => Linked(n)
    BY <1>1
  <2> QED BY <2>1, BystanderKeeps DEF PInv
<1> QED BY <1>1 DEF PInv

\* A launch that gives up is refused only for an unsound request.
LEMMA Stops ==
  ASSUME NEW l \in Launches, PInv, UNCHANGED <<treeVars, goal>>,
         prepared' = prepared, step' \in [Launches -> Steps],
         step[l]' \in {"refused", "error", "dead"},
         step[l]' = "refused" => ~SoundRequest(l),
         step[l]' = "dead" => step[l] # "idle",
         step[l] \notin {"done", "dead"} \/ step[l]' = "dead"
  PROVE  Kept(l)'
<1>1. Evolves /\ \A n : Linked(n)' <=> Linked(n)
  BY TreeStays DEF PInv
<1>2. SoundRequest(l)' <=> SoundRequest(l)
  BY <1>1, SoundStays DEF PInv
<1>3. Along(Path(l, chosen[l]))' = Along(Path(l, chosen[l]))
  BY DEF Along, Leads, Path, treeVars, goal
<1>4. Walking(l)' /\ Traced(l)' /\ Audited(l)'
  BY <1>2 DEF Walking, Walks, Traced, At, Audited
<1>5. Fresh(l)'
  BY <1>1, <1>2, <1>3 DEF PInv, Kept, Fresh
<1>6. Prepared(l)'
  <2>1. SUFFICES ASSUME prepared[l] # Absent PROVE Prepared(l)'
    BY DEF Prepared
  <2>2. step[l] \in {"done", "dead"} /\ SoundRequest(l)
    BY <2>1 DEF PInv, Kept, Prepared
  <2>3. Path(l, chosen[l])' = Path(l, chosen[l])
        /\ Leads(Path(l, chosen[l]))' = Leads(Path(l, chosen[l]))
    BY DEF Leads, Path, treeVars, goal
  <2> QED BY <1>2, <2>1, <2>2, <2>3 DEF PInv, Kept, Prepared, Safe, treeVars
<1> QED BY <1>4, <1>5, <1>6 DEF Kept

\* What every step that leaves the tree alone does to the types.
LEMMA TypesStay ==
  ASSUME Types, UNCHANGED <<treeVars, goal>>,
         step' \in [Launches -> Steps],
         walked' \in [Launches -> Environments], current' \in [Launches -> Nodes],
         depth' \in [Launches -> 0 .. MaxDepth],
         traces' = [l \in Launches |-> traces'[l]],
         \A l \in Launches : \A t \in traces'[l] : t[1] \in Environments /\ t[2] \in Nodes,
         prepared' \in [Launches -> Nodes \cup {Absent}]
  PROVE  Types'
  BY DEF Types, TypeOK, treeVars, goal

LEMMA TypesDescend ==
  ASSUME NEW l \in Launches, Types, Walking(l), Walks(l), Named(l) # Absent,
         Descend(l, Named(l))
  PROVE  /\ walked' \in [Launches -> Environments] /\ current' \in [Launches -> Nodes]
         /\ depth' \in [Launches -> 0 .. MaxDepth]
         /\ ~Final(l)
<1>1. ~Final(l)
  BY DEF Named
<1>2. Named(l) \in Nodes /\ depth[l] + 1 \in 0 .. MaxDepth
  <2>1. /\ depth[l] + 1 \in 1 .. Len(Walked(l)) /\ Len(Walked(l)) \in 1 .. MaxDepth
        /\ Named(l) \in Nodes /\ MaxDepth \in Nat
    BY <1>1, Here, PathAssumption
  <2> QED BY <2>1
<1> QED BY <1>1, <1>2 DEF Types, TypeOK, Descend

LEMMA TypesWalkTo ==
  ASSUME NEW l \in Launches, Types, NEW e \in Environments, WalkTo(l, e)
  PROVE  /\ walked' \in [Launches -> Environments] /\ current' \in [Launches -> Nodes]
         /\ depth' \in [Launches -> 0 .. MaxDepth]
  BY PathAssumption, Distinct DEF Types, TypeOK, WalkTo

LEMMA StartKeeps ==
  ASSUME NEW l \in Launches, PInv, Start(l) PROVE PInv'
<1>1. Types' /\ Evolves /\ \A n : Linked(n)' <=> Linked(n)
  <2>1. step' \in [Launches -> Steps]
    BY DEF Start, Goto, PInv, Types, TypeOK, Steps
  <2> QED BY <2>1, TypesStay, TreeStays DEF Start, PInv, Types, TypeOK
<1>2. \A m \in Launches \ {l} : UNCHANGED own(m)
  BY DEF Start, Goto, PInv, Types, TypeOK, own
<1>3. Kept(l)'
  <2>1. CASE ~Resolvable(asked[l])
    <3>1. step'[l] = "refused" /\ ~SoundRequest(l) /\ step' \in [Launches -> Steps]
      BY <2>1 DEF Start, Goto, PInv, Types, TypeOK, Steps, SoundRequest
    <3> QED BY <3>1, Stops DEF Start, At
  <2>2. CASE Resolvable(asked[l])
    <3>1. /\ step'[l] = "audit" /\ walked'[l] = 1 /\ current'[l] = Top /\ depth'[l] = 0
          /\ traces'[l] = {} /\ prepared' = prepared /\ step[l] = "idle"
          /\ treeVars' = treeVars /\ goal' = goal /\ asked' = asked /\ walked' = walked
      BY <2>2 DEF Start, Goto, At, PInv, Kept, Audited, Types, TypeOK, goal
    <3>2. /\ walked[l] \in Environments /\ Walked(l) = Path(l, walked[l])
          /\ Walked(l)' = Walked(l) /\ Leads(Walked(l))' = Leads(Walked(l))
      BY <3>1 DEF Walked, Path, Leads, treeVars, PInv, Types, TypeOK
    <3>3. Walked(l) \in Seq(Names) /\ Len(Walked(l)) \in Nat /\ 0 \in 0 .. Len(Walked(l))
      BY <2>2, <3>2, PathTypes DEF PInv, Types
    <3>4. Walking(l)'
      <4>1. Leads(Walked(l))[0] = Top
        BY <3>3, RouteSteps DEF Leads
      <4>2. \A i \in 0 .. Len(Walked(l)) : ~(i < 0)
        BY <3>3
      <4>3. depth'[l] \in 0 .. Len(Walked(l))' /\ current'[l] = Leads(Walked(l))'[depth'[l]]
        BY <3>1, <3>2, <3>3, <4>1
      <4> QED BY <2>2, <3>1, <3>2, <4>2, <4>3 DEF Walking, At
    <3>5. Traced(l)'
      <4>1. \A e \in Environments : ~(e < 1)
        BY DEF Environments
      <4>2. \A i \in 0 .. Len(Walked(l)) : ~(i < 0)
        BY <3>3
      <4> QED BY <3>1, <3>2, <4>1, <4>2 DEF Traced
    <3>6. Fresh(l)' /\ Prepared(l)' /\ Audited(l)'
      BY <1>1, <3>1 DEF PInv, Kept, Fresh, Prepared, Audited
    <3> QED BY <3>4, <3>5, <3>6 DEF Kept
  <2> QED BY <2>1, <2>2
<1> QED BY <1>1, <1>2, <1>3, OneSteps DEF PInv

LEMMA ExitKeeps ==
  ASSUME NEW l \in Launches, PInv, Exit(l) PROVE PInv'
<1>1. /\ step' \in [Launches -> Steps] /\ step'[l] = "dead" /\ step[l] # "idle"
      /\ UNCHANGED <<treeVars, goal>> /\ prepared' = prepared
  BY DEF Exit, Goto, PInv, Types, TypeOK, Steps
<1>2. Types'
  <2>1. 1 \in Environments
    BY PathAssumption DEF Environments
  <2>2. /\ traces' = [m \in Launches |-> traces'[m]]
        /\ \A m \in Launches : \A t \in traces'[m] : t[1] \in Environments /\ t[2] \in Nodes
    BY DEF Exit, PInv, Types, TypeOK
  <2>3. prepared' \in [Launches -> Nodes \cup {Absent}]
    BY <1>1 DEF PInv, Types, TypeOK
  <2> QED BY <1>1, <2>1, <2>2, <2>3, TypesStay, TypesWalkTo DEF Exit, PInv
<1>3. Evolves /\ \A n : Linked(n)' <=> Linked(n)
  BY <1>1, TreeStays DEF PInv
<1>4. Kept(l)'
  BY <1>1, Stops
<1>5. \A m \in Launches \ {l} : UNCHANGED own(m)
  BY DEF Exit, Goto, WalkTo, PInv, Types, TypeOK, own
<1> QED BY <1>2, <1>3, <1>4, <1>5, OneSteps

-----------------------------------------------------------------------------
(* The audit.                                                              *)

noted(l) == traces[l] \cup {<<walked[l], current[l], Remainder(l)>>}

\* What the audit notes of the open directory is its trace.
LEMMA NotedHere ==
  ASSUME NEW l \in Launches, PInv, At(l, "audit"), NEW e \in Environments, e = walked[l]
  PROVE  /\ noted(l) = traces[l] \cup {Trace(l, e, depth[l])}
         /\ Walked(l) = Path(l, e) /\ depth[l] \in 0 .. Len(Path(l, e))
         /\ \A t \in noted(l) : t[1] \in Environments /\ t[2] \in Nodes
         /\ \A t \in noted(l) : \E f \in Environments : \E i \in 0 .. Len(Path(l, f)) :
              t = Trace(l, f, i)
<1>1. Types /\ Walking(l) /\ Walks(l) /\ Traced(l)
  BY DEF PInv, Kept, Walks, At
<1>2. /\ Walked(l) = Path(l, e) /\ depth[l] \in 0 .. Len(Path(l, e))
      /\ current[l] = Leads(Path(l, e))[depth[l]] /\ current[l] \in Nodes
  BY <1>1, Here
<1>3. <<walked[l], current[l], Remainder(l)>> = Trace(l, e, depth[l])
  BY <1>2 DEF Trace, Remainder, Rest
<1>4. \A t \in traces[l] : t[1] \in Environments /\ t[2] \in Nodes
  BY <1>1 DEF Types, TypeOK
<1>5. noted(l) = traces[l] \cup {Trace(l, e, depth[l])}
  BY <1>3 DEF noted
<1>6. Trace(l, e, depth[l])[1] = e /\ Trace(l, e, depth[l])[2] = current[l]
  BY <1>2 DEF Trace
<1>7. \A t \in traces[l] : \E f \in Environments : \E i \in 0 .. Len(Path(l, f)) :
        t = Trace(l, f, i)
  BY <1>1 DEF Traced
<1>8. \A t \in noted(l) : t[1] \in Environments /\ t[2] \in Nodes
  BY <1>2, <1>4, <1>5, <1>6
<1>9. \A t \in noted(l) : \E f \in Environments : \E i \in 0 .. Len(Path(l, f)) :
        t = Trace(l, f, i)
  BY <1>2, <1>5, <1>7
<1> QED BY <1>2, <1>5, <1>8, <1>9

\* An alias is a clash of the launch's own request.
LEMMA AliasIsUnsound ==
  ASSUME NEW l \in Launches, PInv, At(l, "audit"), Aliased(noted(l), walked[l])
  PROVE  ~SoundRequest(l)
<1>1. PICK e \in Environments : e = walked[l]
  BY DEF PInv, Types, TypeOK
<1>2. PICK t \in noted(l), u \in noted(l) :
        t[1] = e /\ u[1] # e /\ t[2] = u[2] /\ Overlap(t[3], u[3])
  BY <1>1 DEF Aliased
<1>3. t[2] \in Nodes /\ t[2] # Absent
  BY <1>1, NotedHere, Distinct
<1>4. PICK g \in Environments : \E i \in 0 .. Len(Path(l, g)) : t = Trace(l, g, i)
  BY <1>1, NotedHere
<1>5. PICK i \in 0 .. Len(Path(l, g)) : t = Trace(l, g, i)
  BY <1>4
<1>6. PICK f \in Environments : \E j \in 0 .. Len(Path(l, f)) : u = Trace(l, f, j)
  BY <1>1, NotedHere
<1>7. PICK j \in 0 .. Len(Path(l, f)) : u = Trace(l, f, j)
  BY <1>6
<1>8. /\ g # f /\ Leads(Path(l, g))[i] = Leads(Path(l, f))[j]
      /\ Leads(Path(l, g))[i] # Absent
      /\ Overlap(Rest(Path(l, g), i), Rest(Path(l, f), j))
  BY <1>2, <1>3, <1>5, <1>7 DEF Trace
<1>9. ASSUME Resolvable(asked[l]) PROVE Clash(child, Path(l, g), Path(l, f))
  <2>1. Path(l, g) \in Seq(Names) /\ Path(l, f) \in Seq(Names) /\ Tree(child)
    BY <1>9, PathTypes DEF PInv, Types
  <2> QED BY <1>8, <2>1, MeetingIsClash DEF Leads
<1> QED BY <1>8, <1>9, SoundMeans

\* Once the walk of a root has ended well, that root and those before it have
\* been inspected, as far as they were found, and none of them clash.
LEMMA RootAudited ==
  ASSUME NEW l \in Launches, PInv, At(l, "audit"), NEW e \in Environments, e = walked[l],
         Safe(current[l], Final(l)), Named(l) = Absent, ~Aliased(noted(l), walked[l])
  PROVE  /\ \A f \in Environments : f <= e => \A i \in 0 .. Len(Path(l, f)) :
              Leads(Path(l, f))[i] \in Found =>
                /\ Safe(Leads(Path(l, f))[i], i = Len(Path(l, f)))
                /\ Trace(l, f, i) \in noted(l)
         /\ \A f, g \in Environments : f <= e /\ g <= e /\ f # g =>
              ~Clash(child, Path(l, f), Path(l, g))
<1>1. Types /\ Walking(l) /\ Walks(l) /\ Traced(l) /\ Resolvable(asked[l])
  BY Here DEF PInv, Kept, Walks, At
<1>2. /\ noted(l) = traces[l] \cup {Trace(l, e, depth[l])}
      /\ Walked(l) = Path(l, e) /\ depth[l] \in 0 .. Len(Path(l, e))
  BY NotedHere
<1>3. /\ Path(l, e) \in Seq(Names) /\ Len(Path(l, e)) \in Nat
      /\ current[l] = Leads(Path(l, e))[depth[l]]
      /\ ~Final(l) => /\ depth[l] + 1 \in 0 .. Len(Path(l, e))
                      /\ Leads(Path(l, e))[depth[l] + 1] = Absent
  <2>1. /\ Walked(l) \in Seq(Names) /\ Len(Walked(l)) \in 1 .. MaxDepth
        /\ current[l] = Leads(Walked(l))[depth[l]]
        /\ ~Final(l) => /\ depth[l] + 1 \in 1 .. Len(Walked(l))
                        /\ Named(l) = Leads(Walked(l))[depth[l] + 1]
    BY <1>1, Here
  <2> QED BY <1>2, <2>1
<1>4. ASSUME NEW i \in 0 .. Len(Path(l, e)), Leads(Path(l, e))[i] \in Found
      PROVE  /\ Safe(Leads(Path(l, e))[i], i = Len(Path(l, e)))
             /\ Trace(l, e, i) \in noted(l)
  <2>1. CASE i < depth[l]
    BY <1>1, <1>2, <2>1 DEF Traced, Inspected
  <2>2. CASE i = depth[l]
    <3>1. Final(l) = (i = Len(Path(l, e)))
      BY <1>2, <2>2 DEF Final
    <3> QED BY <1>2, <1>3, <2>2, <3>1
  <2>3. CASE i > depth[l]
    <3>1. ~Final(l) /\ depth[l] + 1 <= i
      BY <1>2, <1>3, <2>3 DEF Final
    <3>2. Leads(Path(l, e))[i] = Absent
      BY <1>3, <3>1, MissingBeyond DEF Leads
    <3> QED BY <1>4, <3>2, Distinct
  <2> QED BY <1>2, <1>3, <2>1, <2>2, <2>3
<1>5. ASSUME NEW f \in Environments, f <= e, NEW i \in 0 .. Len(Path(l, f)),
             Leads(Path(l, f))[i] \in Found
      PROVE  /\ Safe(Leads(Path(l, f))[i], i = Len(Path(l, f)))
             /\ Trace(l, f, i) \in noted(l)
  <2>1. CASE f = e
    BY <1>4, <1>5, <2>1
  <2>2. CASE f < e
    BY <1>1, <1>2, <1>5, <2>2 DEF Traced, Inspected
  <2> QED BY <1>5, <2>1, <2>2 DEF Environments
<1>6. ASSUME NEW f \in Environments, f <= e, f # e, NEW i \in 0 .. Len(Path(l, e)),
             NEW j \in 0 .. Len(Path(l, f)), Leads(Path(l, e))[i] = Leads(Path(l, f))[j],
             Leads(Path(l, e))[i] \in Found
      PROVE  ~Overlap(Rest(Path(l, e), i), Rest(Path(l, f), j))
  <2>1. Trace(l, e, i) \in noted(l) /\ Trace(l, f, j) \in noted(l)
    BY <1>4, <1>5, <1>6
  <2> QED BY <1>6, <2>1 DEF Aliased, Trace
<1>7. ASSUME NEW f \in Environments, NEW g \in Environments, f <= e, g <= e, f # g,
             Clash(child, Path(l, f), Path(l, g))
      PROVE  FALSE
  <2>1. Path(l, f) \in Seq(Names) /\ Path(l, g) \in Seq(Names)
    BY <1>1, PathTypes DEF Types
  <2>2. PICK i \in 0 .. Len(Path(l, f)), j \in 0 .. Len(Path(l, g)) :
          /\ Leads(Path(l, f))[i] = Leads(Path(l, g))[j] /\ Leads(Path(l, f))[i] \in Found
          /\ Overlap(Rest(Path(l, f), i), Rest(Path(l, g), j))
    BY <1>7 DEF Clash, Leads
  <2>3. CASE f = e
    BY <1>6, <1>7, <2>2, <2>3
  <2>4. CASE g = e
    <3>1. Overlap(Rest(Path(l, g), j), Rest(Path(l, f), i))
      BY <2>1, <2>2, RestParts, OverlapSymmetric
    <3> QED BY <1>6, <1>7, <2>2, <2>4, <3>1
  <2>5. CASE f # e /\ g # e
    <3>1. f < e /\ g < e
      BY <1>7, <2>5 DEF Environments
    <3> QED BY <1>1, <1>7, <3>1 DEF Traced
  <2> QED BY <2>3, <2>4, <2>5
<1> QED BY <1>5, <1>7

\* A launch that opens the next component is where its path leads again.
LEMMA DescendWalks ==
  ASSUME NEW l \in Launches, PInv, Walks(l), UNCHANGED <<treeVars, goal>>,
         Named(l) # Absent, Safe(current[l], FALSE), Descend(l, Named(l)),
         step'[l] \in {"audit", "create"}, step'[l] = "audit" <=> step[l] = "audit"
  PROVE  /\ Walking(l)' /\ depth'[l] = depth[l] + 1 /\ walked'[l] = walked[l]
         /\ depth[l] \in Nat /\ ~Final(l)
<1>1. ~Final(l)
  BY DEF Named
<1>2. /\ Types /\ Walking(l) /\ Resolvable(asked[l]) /\ walked[l] \in Environments
      /\ Len(Walked(l)) \in 1 .. MaxDepth /\ depth[l] \in 0 .. Len(Walked(l))
      /\ current[l] = Leads(Walked(l))[depth[l]] /\ current[l] \in Nodes
      /\ depth[l] + 1 \in 1 .. Len(Walked(l)) /\ Named(l) = Leads(Walked(l))[depth[l] + 1]
  BY <1>1, Here DEF PInv, Kept
<1>3. /\ depth'[l] = depth[l] + 1 /\ current'[l] = Named(l) /\ walked'[l] = walked[l]
      /\ depth[l] \in Nat
  BY <1>2 DEF Descend, Types, TypeOK
<1>4. /\ Walked(l)' = Walked(l) /\ Leads(Walked(l))' = Leads(Walked(l))
      /\ Resolvable(asked[l])' /\ chosen'[l] = chosen[l]
      /\ \A n, final : Safe(n, final)' <=> Safe(n, final)
  BY <1>2, <1>3 DEF Walked, Path, Leads, treeVars, goal, Safe
<1>5. \A i \in 0 .. Len(Walked(l)) : i < depth[l] + 1 =>
        Leads(Walked(l))[i] # Absent /\ Safe(Leads(Walked(l))[i], FALSE)
  <2>1. SUFFICES ASSUME NEW i \in 0 .. Len(Walked(l)), i < depth[l] + 1
                 PROVE  Leads(Walked(l))[i] # Absent /\ Safe(Leads(Walked(l))[i], FALSE)
    OBVIOUS
  <2>2. CASE i = depth[l]
    BY <1>2, <2>2, Distinct
  <2>3. CASE i # depth[l]
    <3>1. i < depth[l]
      BY <1>2, <2>1, <2>3
    <3> QED BY <1>2, <3>1 DEF Walking, Walks
  <2> QED BY <2>2, <2>3
<1>6. depth'[l] \in 0 .. Len(Walked(l))' /\ current'[l] = Leads(Walked(l))'[depth'[l]]
  BY <1>2, <1>3, <1>4
<1>7. ~At(l, "audit")' => walked'[l] = chosen'[l]
  BY <1>2, <1>3, <1>4 DEF Walking, Walks, At
<1>8. Walking(l)'
  BY <1>3, <1>4, <1>5, <1>6, <1>7 DEF Walking
<1> QED BY <1>1, <1>3, <1>8

\* A launch that has made nothing and holds nothing.
LEMMA NothingYet ==
  ASSUME NEW l \in Launches, PInv, UNCHANGED <<treeVars, goal>>, prepared' = prepared,
         step[l] \in {"idle", "audit"}
  PROVE  Fresh(l)' /\ Prepared(l)'
<1>1. \A n : Linked(n)' <=> Linked(n)
  BY TreeStays DEF PInv
<1> QED BY <1>1 DEF PInv, Kept, Fresh, Prepared

LEMMA AuditDescends ==
  ASSUME NEW l \in Launches, PInv, At(l, "audit"), UNCHANGED <<treeVars, goal>>,
         Safe(current[l], Final(l)), Named(l) # Absent, Descend(l, Named(l)),
         traces' = [traces EXCEPT ![l] = noted(l)], step' = step, prepared' = prepared
  PROVE  Kept(l)'
<1>1. Types /\ Walks(l) /\ Walking(l) /\ Traced(l) /\ ~Final(l)
  BY DEF PInv, Kept, Walks, At, Named
<1>2. /\ Walking(l)' /\ depth'[l] = depth[l] + 1 /\ walked'[l] = walked[l]
      /\ depth[l] \in Nat
  <2>1. Safe(current[l], FALSE) /\ step'[l] = "audit"
    BY <1>1 DEF Safe, At
  <2> QED BY <1>1, <2>1, DescendWalks DEF At
<1>3. PICK e \in Environments : e = walked[l]
  BY <1>1 DEF Types, TypeOK
<1>4. /\ noted(l) = traces[l] \cup {Trace(l, e, depth[l])} /\ Walked(l) = Path(l, e)
      /\ \A t \in noted(l) : \E f \in Environments : \E i \in 0 .. Len(Path(l, f)) :
           t = Trace(l, f, i)
      /\ traces'[l] = noted(l)
  BY <1>1, <1>3, NotedHere DEF Types
<1>5. ASSUME NEW f \in Environments
      PROVE  /\ Path(l, f)' = Path(l, f) /\ Leads(Path(l, f))' = Leads(Path(l, f))
             /\ \A i : Trace(l, f, i)' = Trace(l, f, i)
             /\ \A i : Inspected(l, f, i) => Inspected(l, f, i)'
  BY <1>4 DEF Path, Leads, Trace, Inspected, Safe, treeVars, goal
<1>6. ASSUME NEW i \in 0 .. Len(Path(l, e)), i < depth[l] + 1
      PROVE  Inspected(l, e, i)'
  <2>1. CASE i < depth[l]
    BY <1>1, <1>3, <1>4, <1>5, <2>1 DEF Traced
  <2>2. CASE i = depth[l]
    <3>1. current[l] = Leads(Path(l, e))[i] /\ Final(l) = (i = Len(Path(l, e)))
      BY <1>1, <1>4, <2>2, Here DEF Final
    <3>2. Safe(Leads(Path(l, e))[i], i = Len(Path(l, e))) /\ Trace(l, e, i) \in traces'[l]
      BY <1>4, <2>2, <3>1
    <3> QED BY <1>5, <3>2 DEF Inspected, Safe, treeVars
  <2> QED BY <1>2, <1>6, <2>1, <2>2
<1>7. Traced(l)'
  <2>1. /\ Walked(l)' = Path(l, e) /\ walked'[l] = e
    BY <1>2, <1>3, <1>4 DEF Walked, Path, goal
  <2>2. \A t \in traces'[l] : \E f \in Environments : \E i \in 0 .. Len(Path(l, f)') :
          t = Trace(l, f, i)'
    BY <1>4, <1>5
  <2>3. \A i \in 0 .. Len(Path(l, e)) : i < depth'[l] => Inspected(l, e, i)'
    BY <1>2, <1>6
  <2>4. \A f \in Environments : f < e => \A i \in 0 .. Len(Path(l, f)') :
          Leads(Path(l, f))'[i] \in Found => Inspected(l, f, i)'
    BY <1>1, <1>3, <1>5 DEF Traced
  <2>5. \A f, g \in Environments : f < e /\ g < e /\ f # g =>
          ~Clash(child', Path(l, f)', Path(l, g)')
    BY <1>1, <1>3, <1>5 DEF Traced, treeVars
  <2> QED BY <2>1, <2>2, <2>3, <2>4, <2>5 DEF Traced, Inspected, Trace
<1>8. Fresh(l)' /\ Prepared(l)' /\ Audited(l)'
  BY NothingYet DEF At, Audited
<1> QED BY <1>2, <1>7, <1>8 DEF Kept

\* A walk that begins is at the root directory.
LEMMA BeginsWalk ==
  ASSUME NEW l \in Launches, PInv, UNCHANGED <<treeVars, goal>>, Resolvable(asked[l]),
         NEW e \in Environments, WalkTo(l, e), step'[l] \in {"audit", "create"},
         step'[l] = "create" => e = chosen[l]
  PROVE  /\ Walking(l)' /\ depth'[l] = 0 /\ walked'[l] = e
         /\ Walked(l)' = Path(l, e) /\ Len(Path(l, e)) \in Nat
<1>1. /\ Path(l, e) \in Seq(Names) /\ Len(Path(l, e)) \in Nat /\ 0 \in 0 .. Len(Path(l, e))
      /\ \A i \in 0 .. Len(Path(l, e)) : ~(i < 0)
  <2>1. Path(l, e) \in Seq(Names) /\ Len(Path(l, e)) \in 1 .. MaxDepth
    BY PathTypes DEF PInv, Types
  <2> QED BY <2>1
<1>2. Leads(Path(l, e))[0] = Top
  BY <1>1, RouteSteps DEF Leads
<1>3. /\ depth'[l] = 0 /\ current'[l] = Top /\ walked'[l] = e
      /\ asked' = asked /\ chosen' = chosen /\ child' = child
  BY DEF WalkTo, PInv, Types, TypeOK, treeVars, goal
<1>4. Walked(l)' = Path(l, e) /\ Leads(Walked(l))' = Leads(Path(l, e))
  BY <1>3 DEF Walked, Path, Leads
<1>5. Walking(l)'
  BY <1>1, <1>2, <1>3, <1>4 DEF Walking, At
<1> QED BY <1>1, <1>3, <1>4, <1>5

LEMMA AuditGoesOn ==
  ASSUME NEW l \in Launches, PInv, At(l, "audit"), UNCHANGED <<treeVars, goal>>,
         Safe(current[l], Final(l)), Named(l) = Absent, ~Aliased(noted(l), walked[l]),
         walked[l] + 1 \in Environments, WalkTo(l, walked[l] + 1),
         traces' = [traces EXCEPT ![l] = noted(l)], step' = step, prepared' = prepared
  PROVE  Kept(l)'
<1>1. PICK e \in Environments : e = walked[l]
  BY DEF PInv, Types, TypeOK
<1>2. PICK g \in Environments : g = e + 1 /\ WalkTo(l, g)
  BY <1>1
<1>3. Resolvable(asked[l])
  BY DEF PInv, Kept, Walking, Walks, At
<1>4. /\ Walking(l)' /\ depth'[l] = 0 /\ walked'[l] = g
      /\ Walked(l)' = Path(l, g) /\ Len(Path(l, g)) \in Nat
  BY <1>2, <1>3, BeginsWalk DEF At
<1>5. ASSUME NEW f \in Environments
      PROVE  /\ Path(l, f)' = Path(l, f) /\ Leads(Path(l, f))' = Leads(Path(l, f))
             /\ \A i : Trace(l, f, i)' = Trace(l, f, i)
  BY DEF Path, Leads, Trace, treeVars, goal
<1>6. traces'[l] = noted(l) /\ child' = child /\ \A n, final : Safe(n, final)' = Safe(n, final)
  BY DEF PInv, Types, treeVars, Safe
<1>7. \A t \in noted(l) : \E f \in Environments : \E i \in 0 .. Len(Path(l, f)) :
        t = Trace(l, f, i)
  BY <1>1, NotedHere
<1>8. \A f \in Environments : f < g => f <= e
  BY <1>2 DEF Environments
<1>9. Traced(l)'
  <2>1. \A t \in traces'[l] : \E f \in Environments : \E i \in 0 .. Len(Path(l, f)') :
          t = Trace(l, f, i)'
    BY <1>5, <1>6, <1>7
  <2>2. \A i \in 0 .. Len(Path(l, g)) : ~(i < 0)
    BY <1>4
  <2>3. \A f \in Environments : f < g => \A i \in 0 .. Len(Path(l, f)') :
          Leads(Path(l, f))'[i] \in Found => Inspected(l, f, i)'
    <3> SUFFICES ASSUME NEW f \in Environments, f < g, NEW i \in 0 .. Len(Path(l, f)),
                        Leads(Path(l, f))'[i] \in Found
                 PROVE  Inspected(l, f, i)'
      BY <1>5
    <3>1. /\ Safe(Leads(Path(l, f))[i], i = Len(Path(l, f)))
          /\ Trace(l, f, i) \in noted(l)
      BY <1>1, <1>5, <1>8, RootAudited
    <3> QED BY <1>5, <1>6, <3>1 DEF Inspected
  <2>4. \A f, h \in Environments : f < g /\ h < g /\ f # h =>
          ~Clash(child', Path(l, f)', Path(l, h)')
    BY <1>1, <1>5, <1>6, <1>8, RootAudited
  <2>5. \A i \in 0 .. Len(Walked(l)') : i < depth'[l] => Inspected(l, walked[l], i)'
    BY <1>4, <2>2
  <2> QED BY <1>4, <2>1, <2>3, <2>4, <2>5 DEF Traced, Inspected, Trace
<1>10. Fresh(l)' /\ Prepared(l)' /\ Audited(l)'
  BY NothingYet DEF At, Audited
<1> QED BY <1>4, <1>9, <1>10 DEF Kept

\* An audit that passes shows the request sound.
LEMMA AuditPasses ==
  ASSUME NEW l \in Launches, PInv, At(l, "audit"), UNCHANGED <<treeVars, goal>>,
         Safe(current[l], Final(l)), Named(l) = Absent, ~Aliased(noted(l), walked[l]),
         AuditEnds(l), WalkTo(l, chosen[l]), step'[l] = "create", prepared' = prepared
  PROVE  Kept(l)'
<1>1. PICK e \in Environments : e = walked[l]
  BY DEF PInv, Types, TypeOK
<1>2. \A f \in Environments : f <= e
  BY <1>1 DEF AuditEnds, Environments
<1>3. SoundRequest(l)
  <2>1. Resolvable(asked[l])
    BY DEF PInv, Kept, Walking, Walks, At
  <2> QED BY <1>1, <1>2, <2>1, RootAudited, SoundMeans DEF Leads
<1>4. PICK g \in Environments : g = chosen[l]
  BY DEF PInv, Types
<1>5. Walking(l)'
  BY <1>3, <1>4, BeginsWalk DEF SoundRequest
<1>6. SoundRequest(l)'
  BY <1>3, SoundStays, TreeStays DEF PInv
<1>7. Fresh(l)' /\ Prepared(l)'
  BY NothingYet DEF At
<1>8. Traced(l)' /\ Audited(l)'
  BY <1>6 DEF Traced, Audited, At
<1> QED BY <1>5, <1>7, <1>8 DEF Kept

LEMMA AuditOpenKeeps ==
  ASSUME NEW l \in Launches, PInv, AuditOpen(l) PROVE PInv'
<1>1. /\ At(l, "audit") /\ UNCHANGED <<treeVars, goal>> /\ prepared' = prepared
      /\ Types /\ Walking(l) /\ Walks(l)
  BY DEF AuditOpen, PInv, Kept, Walks, At
<1>2. Evolves /\ \A n : Linked(n)' <=> Linked(n)
  BY <1>1, TreeStays
<1>3. \A t \in noted(l) : t[1] \in Environments /\ t[2] \in Nodes
  BY <1>1, NotedHere DEF Types, TypeOK
<1>4. /\ prepared' \in [Launches -> Nodes \cup {Absent}]
      /\ step' \in [Launches -> Steps]
  BY <1>1 DEF Types, TypeOK, AuditOpen, Goto, Steps
<1>5. /\ traces' = [m \in Launches |-> traces'[m]]
      /\ \A m \in Launches : \A t \in traces'[m] : t[1] \in Environments /\ t[2] \in Nodes
  <2>1. \/ traces' = traces \/ traces' = [traces EXCEPT ![l] = noted(l)]
        \/ traces' = [traces EXCEPT ![l] = {}]
    BY DEF AuditOpen, noted
  <2> QED BY <1>1, <1>3, <2>1 DEF Types, TypeOK
<1>6. CASE /\ (Goto(l, "refused") /\ ~SoundRequest(l)) \/ Goto(l, "error")
           /\ Stay /\ UNCHANGED traces
  <2>1. Types'
    BY <1>1, <1>4, <1>5, <1>6, TypesStay DEF Stay, Types, TypeOK
  <2>2. step'[l] \in {"refused", "error"} /\ (step'[l] = "refused" => ~SoundRequest(l))
    BY <1>6 DEF Goto, Types, TypeOK, PInv
  <2>3. Kept(l)'
    BY <1>1, <1>4, <2>2, Stops DEF At
  <2>4. \A m \in Launches \ {l} : UNCHANGED own(m)
    BY <1>1, <1>6 DEF Goto, Stay, own, Types, TypeOK
  <2> QED BY <1>2, <2>1, <2>3, <2>4, OneSteps
<1>7. CASE /\ Safe(current[l], Final(l)) /\ Named(l) = Absent
           /\ ~Aliased(noted(l), walked[l]) /\ ~AuditEnds(l)
           /\ WalkTo(l, walked[l] + 1)
           /\ traces' = [traces EXCEPT ![l] = noted(l)]
           /\ UNCHANGED step
  <2>1. walked[l] + 1 \in Environments
    <3>1. walked[l] \in 1 .. Count /\ walked[l] # Count /\ Count \in Nat
      BY <1>1, <1>7, PathAssumption DEF AuditEnds, Environments, Types, TypeOK
    <3> QED BY <3>1 DEF Environments
  <2>2. Types'
    <3>1. PICK e \in Environments : e = walked[l] + 1
      BY <2>1
    <3> QED BY <1>1, <1>4, <1>5, <1>7, <3>1, TypesStay, TypesWalkTo
  <2>3. Kept(l)'
    BY <1>1, <1>7, <2>1, AuditGoesOn
  <2>4. \A m \in Launches \ {l} : UNCHANGED own(m)
    BY <1>1, <1>7 DEF WalkTo, own, Types, TypeOK
  <2> QED BY <1>2, <2>2, <2>3, <2>4, OneSteps
<1>8. CASE /\ Safe(current[l], Final(l)) /\ Named(l) = Absent
           /\ ~Aliased(noted(l), walked[l]) /\ AuditEnds(l)
           /\ WalkTo(l, chosen[l])
           /\ traces' = [traces EXCEPT ![l] = {}]
           /\ Goto(l, "create")
  <2>1. Types'
    <3>1. PICK e \in Environments : e = chosen[l]
      BY <1>1 DEF Types
    <3> QED BY <1>1, <1>4, <1>5, <1>8, <3>1, TypesStay, TypesWalkTo
  <2>2. step'[l] = "create"
    BY <1>1, <1>8 DEF Goto, Types, TypeOK
  <2>3. Kept(l)'
    BY <1>1, <1>8, <2>2, AuditPasses
  <2>4. \A m \in Launches \ {l} : UNCHANGED own(m)
    BY <1>1, <1>8 DEF WalkTo, Goto, own, Types, TypeOK
  <2> QED BY <1>2, <2>1, <2>3, <2>4, OneSteps
<1>9. CASE /\ Safe(current[l], Final(l)) /\ Named(l) # Absent
           /\ traces' = [traces EXCEPT ![l] = noted(l)]
           /\ Descend(l, Named(l)) /\ UNCHANGED step
  <2>1. Types'
    BY <1>1, <1>4, <1>5, <1>9, TypesStay, TypesDescend
  <2>2. Kept(l)'
    BY <1>1, <1>9, AuditDescends
  <2>3. \A m \in Launches \ {l} : UNCHANGED own(m)
    BY <1>1, <1>9 DEF Descend, own, Types, TypeOK
  <2> QED BY <1>2, <2>1, <2>2, <2>3, OneSteps
<1>10. ~Safe(current[l], Final(l)) => ~SoundRequest(l)
  BY <1>1, UnsafeHere
<1>11. Aliased(noted(l), walked[l]) => ~SoundRequest(l)
  BY <1>1, AliasIsUnsound
<1>12. Named(l) # Absent /\ kind[Named(l)] = "other" => ~SoundRequest(l)
  BY <1>1, OtherHere
<1> QED
  BY <1>6, <1>7, <1>8, <1>9, <1>10, <1>11, <1>12 DEF AuditOpen, noted

-----------------------------------------------------------------------------
(* The preparation of the selected root.                                   *)

LEMMA SameTree ==
  ASSUME NEW l \in Launches, PInv, UNCHANGED <<treeVars, goal>>
  PROVE  /\ SoundRequest(l)' <=> SoundRequest(l)
         /\ Along(Path(l, chosen[l]))' = Along(Path(l, chosen[l]))
         /\ Path(l, chosen[l])' = Path(l, chosen[l])
         /\ Leads(Path(l, chosen[l]))' = Leads(Path(l, chosen[l]))
         /\ \A n : Linked(n)' <=> Linked(n)
         /\ \A n, final : Safe(n, final)' <=> Safe(n, final)
<1>1. Evolves /\ \A n : Linked(n)' <=> Linked(n)
  BY TreeStays DEF PInv
<1>2. SoundRequest(l)' <=> SoundRequest(l)
  BY <1>1, SoundStays DEF PInv
<1>3. Along(Path(l, chosen[l]))' = Along(Path(l, chosen[l]))
  BY DEF Along, Leads, Path, treeVars, goal
<1>4. /\ Path(l, chosen[l])' = Path(l, chosen[l])
      /\ Leads(Path(l, chosen[l]))' = Leads(Path(l, chosen[l]))
      /\ \A n, final : Safe(n, final)' <=> Safe(n, final)
  BY DEF Leads, Path, treeVars, goal, Safe
<1> QED BY <1>1, <1>2, <1>3, <1>4

\* What a launch that creates has made stays on its way and above it.
LEMMA MakerKeeps ==
  ASSUME NEW l \in Launches, PInv, UNCHANGED <<treeVars, goal>>, prepared' = prepared,
         step[l] \in {"create", "mkdir", "reopen"},
         step'[l] \in {"create", "mkdir", "reopen"},
         \A n \in Made : n[1] = l /\ Linked(n) =>
           /\ step'[l] \in {"create", "mkdir"} => n[2] <= depth'[l]
           /\ step'[l] = "reopen" => n[2] <= depth'[l] + 1
  PROVE  Traced(l)' /\ Fresh(l)' /\ Prepared(l)' /\ Audited(l)'
<1>1. Traced(l)'
  BY DEF Traced, At
<1>2. Fresh(l)'
  BY SameTree DEF PInv, Kept, Fresh
<1>3. Prepared(l)' /\ Audited(l)'
  BY SameTree DEF PInv, Kept, Prepared, Audited
<1> QED BY <1>1, <1>2, <1>3

LEMMA MadeDepths ==
  ASSUME NEW n \in Made PROVE n[1] \in Launches /\ n[2] \in 1 .. MaxDepth
  BY DEF Made

LEMMA CreateDescends ==
  ASSUME NEW l \in Launches, PInv, step[l] \in {"create", "reopen"},
         UNCHANGED <<treeVars, goal>>, Safe(current[l], Final(l)), Named(l) # Absent,
         Descend(l, Named(l)), step'[l] = "create", prepared' = prepared
  PROVE  Kept(l)'
<1>1. Safe(current[l], FALSE)
  BY DEF Named, Safe
<1>2. Walks(l)
  BY DEF Walks
<1>3. /\ Walking(l)' /\ depth'[l] = depth[l] + 1 /\ depth[l] \in Nat
  BY <1>1, <1>2, DescendWalks
<1>4. ASSUME NEW n \in Made, n[1] = l, Linked(n) PROVE n[2] <= depth'[l]
  <2>1. n[2] <= depth[l] \/ n[2] <= depth[l] + 1
    BY <1>4 DEF PInv, Kept, Fresh
  <2> QED BY <1>3, <2>1, MadeDepths, PathAssumption
<1>5. Traced(l)' /\ Fresh(l)' /\ Prepared(l)' /\ Audited(l)'
  BY <1>4, MakerKeeps
<1> QED BY <1>3, <1>5 DEF Kept

\* A launch that stays where it is, to make the next directory or to open it.
LEMMA CreateStays ==
  ASSUME NEW l \in Launches, PInv, UNCHANGED <<treeVars, goal>>, Stay,
         \/ step[l] = "create" /\ step'[l] = "mkdir"
         \/ step[l] = "mkdir" /\ step'[l] = "reopen",
         ~Final(l), Safe(current[l], FALSE), prepared' = prepared
  PROVE  Kept(l)'
<1>1. Types /\ Walking(l) /\ Walks(l) /\ depth'[l] = depth[l]
  BY DEF PInv, Kept, Walks, Stay
<1>2. /\ Walked(l)' = Walked(l) /\ Leads(Walked(l))' = Leads(Walked(l))
      /\ \A n, final : Safe(n, final)' <=> Safe(n, final)
      /\ Final(l)' <=> Final(l)
      /\ asked' = asked /\ chosen' = chosen
  BY DEF Walked, Path, Leads, Final, Stay, treeVars, goal, Safe
<1>3. Walking(l)'
  BY <1>1, <1>2 DEF Walking, Walks, Stay, At
<1>4. ASSUME NEW n \in Made, n[1] = l, Linked(n)
      PROVE  n[2] <= depth'[l] /\ n[2] <= depth'[l] + 1
  <2>1. n[2] <= depth[l] /\ depth[l] \in Nat /\ n[2] \in Nat
    <3>1. depth[l] \in 0 .. MaxDepth /\ n[2] <= depth[l]
      BY <1>1, <1>4 DEF PInv, Kept, Fresh, Types, TypeOK
    <3> QED BY <3>1, MadeDepths, PathAssumption
  <2> QED BY <1>1, <2>1
<1>5. Traced(l)' /\ Fresh(l)' /\ Prepared(l)' /\ Audited(l)'
  BY <1>4, MakerKeeps
<1> QED BY <1>3, <1>5 DEF Kept

\* The end of the path is reached: the directory held is the root.
LEMMA CreateEnds ==
  ASSUME NEW l \in Launches, PInv, At(l, "create"), UNCHANGED <<treeVars, goal>>,
         Safe(current[l], Final(l)), Final(l), step'[l] = "done",
         prepared'[l] = current[l]
  PROVE  Kept(l)'
<1>1. Types /\ Walking(l) /\ Walks(l) /\ SoundRequest(l) /\ SoundRequest(l)'
  BY SameTree DEF PInv, Kept, Walks, At, Audited
<1>2. PICK e \in Environments : e = chosen[l]
  BY <1>1 DEF Types
<1>3. /\ Walked(l) = Path(l, e) /\ Len(Path(l, e)) \in Nat /\ depth[l] = Len(Path(l, e))
      /\ current[l] = Leads(Path(l, e))[depth[l]] /\ current[l] \in Nodes
  <2>1. /\ Walked(l) = Path(l, walked[l]) /\ walked[l] = chosen[l]
        /\ Len(Walked(l)) \in 1 .. MaxDepth /\ current[l] \in Nodes
        /\ current[l] = Leads(Walked(l))[depth[l]]
    BY <1>1, Here DEF Walking, At
  <2> QED BY <1>2, <2>1 DEF Final
<1>4. ASSUME NEW i \in 0 .. Len(Path(l, e))
      PROVE  Leads(Path(l, e))[i] # Absent /\ Safe(Leads(Path(l, e))[i], i = Len(Path(l, e)))
  <2>1. CASE i = Len(Path(l, e))
    <3>1. Final(l) = (i = Len(Path(l, e)))
      BY <1>3, <2>1 DEF Final
    <3> QED BY <1>3, <2>1, <3>1, Distinct
  <2>2. CASE i # Len(Path(l, e))
    <3>1. i < depth[l] /\ (i = Len(Path(l, e))) = FALSE
      BY <1>3, <2>2
    <3> QED BY <1>1, <1>3, <3>1 DEF Walking
  <2> QED BY <2>1, <2>2
<1>5. Prepared(l)'
  BY <1>1, <1>2, <1>3, <1>4, SameTree DEF Prepared
<1>6. Fresh(l)'
  BY SameTree DEF PInv, Kept, Fresh
<1>7. Walking(l)' /\ Traced(l)' /\ Audited(l)'
  BY <1>1 DEF Walking, Walks, Traced, At, Audited
<1> QED BY <1>5, <1>6, <1>7 DEF Kept

LEMMA CreateOpenKeeps ==
  ASSUME NEW l \in Launches, PInv, CreateOpen(l) PROVE PInv'
<1>1. /\ At(l, "create") /\ UNCHANGED <<treeVars, goal>> /\ traces' = traces
      /\ Types /\ Walking(l) /\ Walks(l)
  BY DEF CreateOpen, PInv, Kept, Walks, At
<1>2. Evolves /\ \A n : Linked(n)' <=> Linked(n)
  BY <1>1, TreeStays
<1>3. /\ step' \in [Launches -> Steps]
      /\ \A m \in Launches \ {l} : UNCHANGED own(m)
  BY <1>1 DEF Types, TypeOK, CreateOpen, Goto, Steps, Stay, Descend, own
<1>4. prepared' \in [Launches -> Nodes \cup {Absent}]
  BY <1>1 DEF Types, TypeOK, CreateOpen
<1>5. CASE /\ (Goto(l, "refused") /\ ~SoundRequest(l)) \/ Goto(l, "error")
           /\ Stay /\ UNCHANGED prepared
  <2>1. Types'
    BY <1>1, <1>3, <1>4, <1>5, TypesStay DEF Stay, Types, TypeOK
  <2>2. step'[l] \in {"refused", "error"} /\ (step'[l] = "refused" => ~SoundRequest(l))
    BY <1>1, <1>5 DEF Goto, Types, TypeOK
  <2>3. Kept(l)'
    BY <1>1, <1>3, <1>5, <2>2, Stops DEF At
  <2> QED BY <1>2, <1>3, <2>1, <2>3, OneSteps
<1>6. CASE /\ Safe(current[l], Final(l)) /\ Final(l)
           /\ prepared' = [prepared EXCEPT ![l] = current[l]]
           /\ Goto(l, "done") /\ Stay
  <2>1. Types'
    BY <1>1, <1>3, <1>4, <1>6, TypesStay DEF Stay, Types, TypeOK
  <2>2. step'[l] = "done" /\ prepared'[l] = current[l]
    BY <1>1, <1>6 DEF Goto, Types, TypeOK
  <2>3. Kept(l)'
    BY <1>1, <1>6, <2>2, CreateEnds
  <2> QED BY <1>2, <1>3, <2>1, <2>3, OneSteps
<1>7. CASE /\ Safe(current[l], Final(l)) /\ ~Final(l)
           /\ Goto(l, "mkdir") /\ Stay /\ UNCHANGED prepared
  <2>1. Types'
    BY <1>1, <1>3, <1>4, <1>7, TypesStay DEF Stay, Types, TypeOK
  <2>2. step[l] = "create" /\ step'[l] = "mkdir" /\ Safe(current[l], FALSE)
    BY <1>1, <1>7 DEF Goto, Types, TypeOK, At, Safe
  <2>3. Kept(l)'
    BY <1>1, <1>7, <2>2, CreateStays
  <2> QED BY <1>2, <1>3, <2>1, <2>3, OneSteps
<1>8. CASE /\ Safe(current[l], Final(l)) /\ Named(l) # Absent
           /\ Descend(l, Named(l)) /\ UNCHANGED <<step, prepared>>
  <2>1. Types'
    BY <1>1, <1>3, <1>4, <1>8, TypesStay, TypesDescend DEF Types, TypeOK
  <2>2. Kept(l)'
    BY <1>1, <1>8, CreateDescends DEF At
  <2> QED BY <1>2, <1>3, <2>1, <2>2, OneSteps
<1>9. ~Safe(current[l], Final(l)) => ~SoundRequest(l)
  BY <1>1, UnsafeHere
<1>10. Named(l) # Absent /\ kind[Named(l)] = "other" => ~SoundRequest(l)
  BY <1>1, OtherHere
<1> QED
  BY <1>5, <1>6, <1>7, <1>8, <1>9, <1>10 DEF CreateOpen

LEMMA ReopenKeeps ==
  ASSUME NEW l \in Launches, PInv, Reopen(l) PROVE PInv'
<1>1. /\ step[l] = "reopen" /\ UNCHANGED <<treeVars, goal>> /\ traces' = traces
      /\ prepared' = prepared /\ Types /\ Walking(l) /\ Walks(l)
      /\ ~Final(l) /\ Safe(current[l], FALSE)
  BY DEF Reopen, PInv, Kept, Walks, Walking, At
<1>2. Evolves /\ \A n : Linked(n)' <=> Linked(n)
  BY <1>1, TreeStays
<1>3. /\ step' \in [Launches -> Steps]
      /\ \A m \in Launches \ {l} : UNCHANGED own(m)
      /\ prepared' \in [Launches -> Nodes \cup {Absent}]
  BY <1>1 DEF Types, TypeOK, Reopen, Goto, Steps, Stay, Descend, own
<1>4. CASE Stay /\ ((Goto(l, "refused") /\ ~SoundRequest(l)) \/ Goto(l, "error"))
  <2>1. Types'
    BY <1>1, <1>3, <1>4, TypesStay DEF Stay, Types, TypeOK
  <2>2. step'[l] \in {"refused", "error"} /\ (step'[l] = "refused" => ~SoundRequest(l))
    BY <1>1, <1>4 DEF Goto, Types, TypeOK
  <2>3. Kept(l)'
    BY <1>1, <1>3, <2>2, Stops
  <2> QED BY <1>2, <1>3, <2>1, <2>3, OneSteps
<1>5. CASE Named(l) # Absent /\ Descend(l, Named(l)) /\ Goto(l, "create")
  <2>1. Types'
    BY <1>1, <1>3, <1>5, TypesStay, TypesDescend DEF Types, TypeOK
  <2>2. step'[l] = "create" /\ Safe(current[l], Final(l))
    BY <1>1, <1>5 DEF Goto, Types, TypeOK, Safe
  <2>3. Kept(l)'
    BY <1>1, <1>5, <2>2, CreateDescends
  <2> QED BY <1>2, <1>3, <2>1, <2>3, OneSteps
<1>6. Named(l) # Absent /\ kind[Named(l)] = "other" => ~SoundRequest(l)
  BY <1>1, OtherHere
<1> QED BY <1>4, <1>5, <1>6 DEF Reopen

\* A directory made is new: it has one name, and hangs on the launch's way.
LEMMA LinkGrows ==
  ASSUME NEW l \in Launches, PInv, At(l, "mkdir"), Named(l) = Absent, NEW d,
         d = <<l, depth[l] + 1>>, Link(l, d), UNCHANGED <<kind, goal>>
  PROVE  /\ Evolves /\ d \in Made
         /\ \A n : Linked(n)' => Linked(n) \/ n = d
         /\ child'[<<current[l], Walked(l)[depth[l] + 1]>>] = d
<1>1. Types /\ Walking(l) /\ Walks(l) /\ ~Final(l) /\ Tree(child)
  BY DEF PInv, Kept, Walks, Walking, At, Types
<1>2. PICK x \in Nodes \X Names :
        /\ x = <<current[l], Walked(l)[depth[l] + 1]>>
        /\ child[x] = Absent
        /\ child' = [child EXCEPT ![x] = d]
  BY <1>1, Here DEF Link
<1>3. /\ depth[l] + 1 \in 1 .. MaxDepth /\ depth[l] \in Nat
      /\ child \in [Nodes \X Names -> Nodes \cup {Absent}]
  <2>1. /\ depth[l] + 1 \in 1 .. Len(Walked(l)) /\ Len(Walked(l)) \in 1 .. MaxDepth
        /\ depth[l] \in 0 .. Len(Walked(l))
    BY <1>1, Here
  <2>2. depth[l] + 1 \in 1 .. MaxDepth /\ depth[l] \in Nat
    BY <2>1, PathAssumption
  <2> QED BY <1>1, <2>2 DEF Tree
<1>4. d \in Made
  BY <1>3 DEF Made
<1>5. ~Linked(d)
  <2>1. ~(d[2] <= depth[l]) /\ d[1] = l
    BY <1>3
  <2> QED BY <1>4, <2>1 DEF PInv, Kept, Fresh, At
<1>6. /\ \A y \in Nodes \X Names : child'[y] = IF y = x THEN d ELSE child[y]
      /\ \A y \in Nodes \X Names : child[y] # d
      /\ child' \in [Nodes \X Names -> Nodes \cup {Absent}]
  <2>1. \A y \in Nodes \X Names : child[y] # d
    BY <1>3, <1>5 DEF Linked
  <2>2. d \in Nodes
    BY <1>4, Distinct
  <2> QED BY <1>2, <1>3, <2>1, <2>2
<1>7. Tree(child')
  <2>1. ASSUME NEW n \in Made, NEW c \in Names
        PROVE  child'[<<n, c>>] \in Made \cup {Absent}
    <3>1. <<n, c>> \in Nodes \X Names
      BY Distinct
    <3> QED BY <1>1, <1>4, <1>6, <3>1 DEF Tree
  <2>2. ASSUME NEW y \in Nodes \X Names, NEW z \in Nodes \X Names,
               child'[y] = child'[z], child'[y] \in Made
        PROVE  y = z
    BY <1>1, <1>6, <2>2 DEF Tree
  <2> QED BY <1>6, <2>1, <2>2 DEF Tree
<1>8. Evolves
  BY <1>1, <1>2, <1>4, <1>6, <1>7 DEF Evolves, Grows, goal
<1>9. \A n : Linked(n)' => Linked(n) \/ n = d
  BY <1>2, <1>3, <1>6 DEF Linked
<1> QED BY <1>2, <1>4, <1>6, <1>8, <1>9

LEMMA MkdirMakes ==
  ASSUME NEW l \in Launches, PInv, At(l, "mkdir"), Named(l) = Absent,
         Link(l, <<l, depth[l] + 1>>), step' = [step EXCEPT ![l] = "reopen"],
         UNCHANGED <<kind, goal, walked, current, depth, traces, prepared>>
  PROVE  PInv'
<1> DEFINE d == <<l, depth[l] + 1>>
<1>1. /\ Evolves /\ d \in Made
      /\ \A n : Linked(n)' => Linked(n) \/ n = d
      /\ child'[<<current[l], Walked(l)[depth[l] + 1]>>] = d
  BY LinkGrows
<1>2. /\ Types /\ Walking(l) /\ Walks(l) /\ ~Final(l) /\ Safe(current[l], FALSE)
      /\ walked[l] = chosen[l] /\ SoundRequest(l) /\ step'[l] = "reopen"
      /\ step' \in [Launches -> Steps]
  BY DEF PInv, Kept, Walks, Walking, At, Types, TypeOK, Audited, Steps
<1>3. Types'
  BY <1>1, <1>2 DEF Evolves, Grows, Tree, Types, TypeOK
<1>4. \A m \in Launches \ {l} : UNCHANGED own(m)
  BY <1>2 DEF own, Types, TypeOK
<1>5. SoundRequest(l)'
  BY <1>1, <1>2, SoundStays
<1>6. PICK e \in Environments : e = walked[l]
  BY <1>2 DEF Types, TypeOK
<1>7. /\ Walked(l) = Path(l, e) /\ Walked(l)' = Path(l, e)
      /\ Leads(Walked(l))' = Route(child', Path(l, e))
      /\ Path(l, chosen[l])' = Path(l, e)
      /\ Resolvable(asked[l]) /\ Path(l, e) \in Seq(Names)
      /\ Len(Path(l, e)) \in 1 .. MaxDepth
      /\ depth[l] \in 0 .. Len(Path(l, e)) /\ depth[l] + 1 \in 1 .. Len(Path(l, e))
      /\ current[l] = Leads(Path(l, e))[depth[l]] /\ current[l] \in Nodes
  <2>1. Walked(l) = Path(l, e)
    BY <1>6 DEF Walked
  <2>2. /\ Walked(l)' = Path(l, e) /\ Leads(Walked(l))' = Route(child', Path(l, e))
        /\ Path(l, chosen[l])' = Path(l, e)
    BY <1>2, <1>6 DEF Walked, Path, goal, Leads
  <2> QED BY <1>2, <2>1, <2>2, Here
<1>8. ASSUME NEW i \in 0 .. Len(Path(l, e)), Leads(Path(l, e))[i] # Absent
      PROVE  Route(child', Path(l, e))[i] = Leads(Path(l, e))[i]
  BY <1>1, <1>2, <1>7, <1>8, LeadsStay
<1>9. Walking(l)'
  <2>1. /\ Resolvable(asked[l])' /\ depth'[l] = depth[l] /\ current'[l] = current[l]
        /\ ~Final(l)' /\ walked'[l] = chosen'[l]
        /\ \A n, final : Safe(n, final)' <=> Safe(n, final)
    BY <1>2, <1>7 DEF goal, Final, Safe
  <2>2. current[l] = Route(child', Path(l, e))[depth[l]]
    BY <1>7, <1>8, Distinct
  <2>3. \A i \in 0 .. Len(Path(l, e)) : i < depth[l] =>
          /\ Route(child', Path(l, e))[i] # Absent
          /\ Safe(Route(child', Path(l, e))[i], FALSE)
    BY <1>2, <1>7, <1>8 DEF Walking
  <2> QED BY <1>2, <1>7, <2>1, <2>2, <2>3 DEF Walking
<1>10. d \in Along(Path(l, chosen[l]))'
  <2>1. Route(child', Path(l, e))[depth[l]] = current[l]
    BY <1>7, <1>8, Distinct
  <2>2. Route(child', Path(l, e))[depth[l] + 1]
          = Onto(child', Path(l, e), depth[l] + 1, Route(child', Path(l, e))[depth[l]])
    <3>1. (depth[l] + 1) - 1 = depth[l]
      BY <1>7
    <3> QED BY <1>7, <3>1, RouteSteps
  <2>3. Route(child', Path(l, e))[depth[l] + 1] = d
    BY <1>1, <1>7, <2>1, <2>2, Distinct DEF Onto
  <2>4. Along(Path(l, chosen[l]))' = {Route(child', Path(l, e))[k] : k \in 0 .. Len(Path(l, e))}
    BY <1>2, <1>6 DEF Along, Leads, Path, goal
  <2>5. depth[l] + 1 \in 0 .. Len(Path(l, e))
    BY <1>7
  <2> QED BY <2>3, <2>4, <2>5
<1>11. Fresh(l)'
  <2>1. ASSUME NEW n \in Made, n[1] = l, Linked(n)'
        PROVE  n[2] <= depth'[l] + 1 /\ n \in Along(Path(l, chosen[l]))'
    <3>1. CASE n = d
      BY <1>7, <1>10, <3>1
    <3>2. CASE n # d
      <4>1. Linked(n)
        BY <1>1, <2>1, <3>2
      <4>2. n[2] <= depth[l] /\ n \in Along(Path(l, e))
        BY <1>2, <1>6, <2>1, <4>1 DEF PInv, Kept, Fresh, At
      <4>3. PICK i \in 0 .. Len(Path(l, e)) : Leads(Path(l, e))[i] = n
        BY <4>2 DEF Along
      <4>4. Route(child', Path(l, e))[i] = n
        BY <1>8, <4>3, Distinct
      <4>5. n[2] <= depth'[l] + 1
        BY <1>7, <4>2, MadeDepths
      <4>6. Along(Path(l, chosen[l]))'
              = {Route(child', Path(l, e))[k] : k \in 0 .. Len(Path(l, e))}
        BY <1>2, <1>6 DEF Along, Leads, Path, goal
      <4> QED BY <4>4, <4>5, <4>6
    <3> QED BY <3>1, <3>2
  <2> QED BY <1>2, <1>5, <2>1 DEF Fresh
<1>12. Traced(l)' /\ Prepared(l)' /\ Audited(l)'
  BY <1>2, <1>5 DEF Traced, Prepared, Audited, At, PInv, Kept
<1>13. Kept(l)'
  BY <1>9, <1>11, <1>12 DEF Kept
<1>14. \A n \in Made : Linked(n)' => Linked(n) \/ n[1] = l
  BY <1>1
<1> QED BY <1>1, <1>3, <1>4, <1>13, <1>14, OneSteps

LEMMA MkdirKeeps ==
  ASSUME NEW l \in Launches, PInv, Mkdir(l) PROVE PInv'
<1>1. /\ step[l] = "mkdir" /\ UNCHANGED <<kind, goal>> /\ Stay
      /\ UNCHANGED <<traces, prepared>>
      /\ Types /\ Walking(l) /\ ~Final(l) /\ Safe(current[l], FALSE)
  BY DEF Mkdir, PInv, Kept, Walks, Walking, At, Stay
<1>2. CASE Named(l) = Absent /\ Link(l, <<l, depth[l] + 1>>) /\ Goto(l, "reopen")
  BY <1>2, MkdirMakes DEF Mkdir, Goto
<1>3. CASE UNCHANGED child /\ (Goto(l, "reopen") \/ Goto(l, "error"))
  <2>1. UNCHANGED <<treeVars, goal>>
    BY <1>1, <1>3 DEF treeVars
  <2>2. /\ step' \in [Launches -> Steps]
        /\ \A m \in Launches \ {l} : UNCHANGED own(m)
    BY <1>1, <1>3 DEF Types, TypeOK, Goto, Steps, Stay, own
  <2>3. Types'
    BY <1>1, <2>1, <2>2, TypesStay DEF Stay, Types, TypeOK
  <2>4. Kept(l)'
    <3>1. CASE step'[l] = "reopen"
      BY <1>1, <2>1, <3>1, CreateStays
    <3>2. CASE step'[l] = "error"
      BY <1>1, <2>1, <2>2, <3>2, Stops
    <3>3. step'[l] \in {"reopen", "error"}
      BY <1>1, <1>3 DEF Goto, Types, TypeOK
    <3> QED BY <3>1, <3>2, <3>3
  <2> QED BY <2>1, <2>2, <2>3, <2>4, TreeStays, OneSteps DEF PInv
<1> QED BY <1>2, <1>3 DEF Mkdir

LEMMA StutterKeeps ==
  ASSUME PInv, UNCHANGED vars PROVE PInv'
<1>1. /\ UNCHANGED <<treeVars, goal>>
      /\ step' = step /\ walked' = walked /\ current' = current /\ depth' = depth
      /\ traces' = traces /\ prepared' = prepared
  BY DEF vars
<1>2. Types'
  BY <1>1, TypesStay DEF PInv, Types, TypeOK
<1>3. ASSUME NEW m \in Launches PROVE Kept(m)'
  BY <1>1, TreeStays, BystanderKeeps DEF PInv, own
<1> QED BY <1>2, <1>3 DEF PInv

LEMMA InitKeeps ==
  ASSUME Init PROVE PInv
<1>1. PICK t \in Trees :
        /\ child = [x \in Nodes \X Names |->
                      IF x \in DOMAIN t.child THEN t.child[x] ELSE Absent]
        /\ kind = [n \in Nodes |-> IF n \in Found THEN t.kind[n] ELSE "private"]
  BY DEF Init
<1>2. /\ DOMAIN t.child \subseteq Found \X Names
      /\ \A x \in DOMAIN t.child : t.child[x] \in Found \cup {Absent}
      /\ t.kind \in [Found -> Kinds]
  BY TreeAssumption
<1>3. \A x \in Nodes \X Names : /\ child[x] \in Found \cup {Absent}
                                /\ child[x] # Absent => x \in Found \X Names
  BY <1>1, <1>2
<1>4. Tree(child)
  <2>1. child \in [Nodes \X Names -> Nodes \cup {Absent}]
    <3>1. DOMAIN child = Nodes \X Names /\ child = [x \in Nodes \X Names |-> child[x]]
      BY <1>1
    <3>2. \A x \in Nodes \X Names : child[x] \in Nodes \cup {Absent}
      BY <1>3, Distinct
    <3> QED BY <3>1, <3>2
  <2>2. ASSUME NEW n \in Made, NEW c \in Names
        PROVE  child[<<n, c>>] \in Made \cup {Absent}
    <3>1. <<n, c>> \in Nodes \X Names /\ ~(<<n, c>> \in Found \X Names)
      BY Distinct
    <3> QED BY <1>3, <3>1
  <2>3. ASSUME NEW x \in Nodes \X Names PROVE child[x] \notin Made
    BY <1>3, Distinct
  <2> QED BY <2>1, <2>2, <2>3 DEF Tree
<1>5. /\ kind \in [Nodes -> Kinds] /\ \A n \in Made : kind[n] = "private"
  BY <1>1, <1>2, Distinct DEF Kinds
<1>6. 1 \in Environments /\ 0 \in 0 .. MaxDepth /\ Top \in Nodes
  BY PathAssumption, Distinct DEF Environments
<1>7. Types
  BY <1>4, <1>5, <1>6 DEF Types, TypeOK, Tree, Init, Steps
<1>8. \A n \in Made : ~Linked(n)
  BY <1>1, <1>3, Distinct DEF Linked
<1>9. ASSUME NEW l \in Launches PROVE Kept(l)
  BY <1>8 DEF Init, Kept, Walking, Walks, Traced, At, Fresh, Prepared, Audited
<1> QED BY <1>7, <1>9 DEF PInv

-----------------------------------------------------------------------------
(* Theorems.                                                               *)

LEMMA PathsHold == Spec => []PInv
<1>1. PInv /\ [Next]_vars => PInv'
  BY StartKeeps, AuditOpenKeeps, CreateOpenKeeps, MkdirKeeps, ReopenKeeps, ExitKeeps,
     StutterKeeps DEF Next
<1> QED BY InitKeeps, <1>1, PTL DEF Spec

\* Every variable keeps its type: no launch runs past the depth PATH_MAX leaves
\* or holds a directory that does not exist.
THEOREM EnvironmentTypes == Spec => []TypeOK
<1>1. PInv => TypeOK
  BY DEF PInv, Types
<1> QED BY <1>1, PathsHold, PTL

\* "Validate the directory actually opened": the root PrepareEnvironmentRoot
\* returns is where the configured path still leads, private, and below
\* ancestors that others cannot replace.
THEOREM PreparedRootIsConfigured == Spec => []PreparedIsWherePathLeads
<1>1. ASSUME PInv PROVE PreparedIsWherePathLeads
  <2>1. ASSUME NEW l \in Launches PROVE Prepared(l)
    BY <1>1 DEF PInv, Kept
  <2> QED BY <2>1 DEF PreparedIsWherePathLeads, Prepared
<1> QED BY <1>1, PathsHold, PTL

\* The roots of two environments are kept apart, also through bind mounts, and
\* although each launch audits a tree that others are changing.
THEOREM EnvironmentsKeptApart == Spec => []RootsKeptApart
<1>1. ASSUME PInv PROVE RootsKeptApart
  <2>1. SUFFICES ASSUME NEW l \in Launches, NEW m \in Launches, prepared[l] # Absent,
                        asked[l] = asked[m], chosen[l] # chosen[m],
                        prepared[l] \in Along(Path(m, chosen[m]))
                 PROVE  FALSE
    BY DEF RootsKeptApart
  <2>2. PICK e \in Environments, f \in Environments : e = chosen[l] /\ f = chosen[m]
    BY <1>1 DEF PInv, Types
  <2>3. /\ SoundRequest(l) /\ prepared[l] = Leads(Path(l, e))[Len(Path(l, e))]
        /\ Path(m, f) = Path(l, f)
    BY <1>1, <2>1, <2>2 DEF PInv, Kept, Prepared, Path
  <2>4. PICK j \in 0 .. Len(Path(l, f)) : Leads(Path(l, f))[j] = prepared[l]
    BY <2>1, <2>2, <2>3 DEF Along
  <2>5. Path(l, e) \in Seq(Names) /\ Path(l, f) \in Seq(Names) /\ Tree(child)
    BY <1>1, <2>3, PathTypes DEF PInv, Types, SoundRequest
  <2>6. Clash(child, Path(l, e), Path(l, f))
    BY <2>1, <2>3, <2>4, <2>5, EndIsClash DEF Leads
  <2> QED BY <2>1, <2>2, <2>3, <2>6, SoundMeans
<1> QED BY <1>1, PathsHold, PTL

\* "Creates only missing components of the selected root", after "inspecting
\* all existing path components before any mutation".
THEOREM OnlyAuditedSelectionIsMade == Spec => []MadeOnlyForAuditedSelection
<1>1. ASSUME PInv PROVE MadeOnlyForAuditedSelection
  <2>1. SUFFICES ASSUME NEW l \in Launches, NEW n \in Made, n[1] = l, Linked(n)
                 PROVE  /\ n \in Along(Path(l, chosen[l]))
                        /\ \A e \in Environments : \A i \in 0 .. Len(Path(l, e)) :
                             \/ Leads(Path(l, e))[i] = Absent
                             \/ Safe(Leads(Path(l, e))[i], i = Len(Path(l, e)))
                        /\ \A e, f \in Environments : e # f =>
                             Leads(Path(l, e))[Len(Path(l, e))]
                               \notin Along(Path(l, f)) \ {Absent}
    BY DEF MadeOnlyForAuditedSelection, Linked
  <2>2. SoundRequest(l) /\ n \in Along(Path(l, chosen[l])) /\ Types
    BY <1>1, <2>1 DEF PInv, Kept, Fresh
  <2>3. /\ Tree(child)
        /\ \A e \in Environments : Path(l, e) \in Seq(Names)
    BY <2>2, PathTypes DEF Types, SoundRequest
  <2>4. ASSUME NEW e \in Environments, NEW i \in 0 .. Len(Path(l, e)),
               Leads(Path(l, e))[i] # Absent
        PROVE  Safe(Leads(Path(l, e))[i], i = Len(Path(l, e)))
    <3>1. Leads(Path(l, e))[i] \in Nodes
      BY <2>3, <2>4, RouteType DEF Leads
    <3> QED BY <2>2, <3>1, UnsafeWasFound
  <2>5. ASSUME NEW e \in Environments, NEW f \in Environments, e # f,
               Leads(Path(l, e))[Len(Path(l, e))] \in Along(Path(l, f)) \ {Absent}
        PROVE  FALSE
    <3>1. PICK j \in 0 .. Len(Path(l, f)) :
            Leads(Path(l, f))[j] = Leads(Path(l, e))[Len(Path(l, e))]
      BY <2>5 DEF Along
    <3>2. Clash(child, Path(l, e), Path(l, f))
      BY <2>3, <2>5, <3>1, EndIsClash DEF Leads
    <3> QED BY <2>2, <2>5, <3>2, SoundMeans
  <2> QED BY <2>2, <2>4, <2>5
<1> QED BY <1>1, PathsHold, PTL

\* Launches never get in each other's way: one is refused only for a request,
\* or a tree, for which it would have been refused alone.
THEOREM LaunchesDoNotInterfere == Spec => []LaunchesTolerateEachOther
<1>1. PInv => LaunchesTolerateEachOther
  BY DEF PInv, Kept, Audited, LaunchesTolerateEachOther, At
<1> QED BY <1>1, PathsHold, PTL
=============================================================================
