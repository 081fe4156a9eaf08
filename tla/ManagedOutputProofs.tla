------------------------ MODULE ManagedOutputProofs -------------------------
(***************************************************************************)
(* Proofs, for any versions of the manifest and any number of runs, that   *)
(* the variables keep their types; that a generator leaves the developer's *)
(* files alone (OthersKept); that a run which nothing disturbs leaves      *)
(* every directory of one manifest (CalmRunIsWhole); and that one which    *)
(* was cut short can be run again (InterruptedRunRepeats).                 *)
(*                                                                         *)
(* The second rests on what a program knows once it has checked its        *)
(* directory (Checked): whatever of the developer's it found under a name  *)
(* it is about to replace or remove, the marker it read lists. The files   *)
(* may change after the check; what it found then does not.                *)
(*                                                                         *)
(* The last two rest on an account of every generated file (Listed): while *)
(* no runs have overlapped it is in the marker, or of a run that was cut   *)
(* short, or of the one program that is at work there (Alone, Held); and   *)
(* on what a calm program has done at each of its steps (Calm).            *)
(***************************************************************************)
EXTENDS ManagedOutput, TLAPS

Stages(r) == IF r = "prepare" THEN 1..3 ELSE {1}

\* A program is at a directory of its plan, and has read a valid manifest
\* where it uses one.
Placed(r) ==
    /\ job[r].at \notin {"idle", "read"} => job[r].step \in Stages(r)
    /\ job[r].at \in {"digest", "write", "stale", "marker"} => job[r].version \in Valid
    /\ job[r].at = "check" /\ Dir(r) # "assets" =>
         job[r].version \in Valid /\ job[r].todo = Mine(r)
    /\ job[r].at = "digest" => job[r].todo = Mine(r)

Checked(r) ==
    /\ job[r].at = "load" /\ Dir(r) = "assets" =>
         ("output" \in job[r].found => "output" \in job[r].old)
    /\ job[r].at = "write" => \A n \in job[r].todo :
         n \in job[r].found => n \in job[r].old
    /\ job[r].at \in {"load", "write", "stale"} /\ Dir(r) = "strings" => job[r].found = {}

TInv == TypeOK /\ \A r \in Programs : Placed(r)
CInv == TInv /\ \A r \in Programs : Checked(r)

-----------------------------------------------------------------------------

LEMMA Plans ==
    \A r \in Programs :
       /\ Stages(r) \subseteq 1..3 /\ 1 \in Stages(r)
       /\ \A i \in Stages(r) : /\ Plan(r)[i] \in Dirs
                              /\ (i = Len(Plan(r)) \/ i + 1 \in Stages(r))
       /\ Plan(r)[1] = "branding"
  BY DEF Programs, Plan, Stages, Dirs

LEMMA PlannedNames ==
    \A d \in Dirs, v \in Versions : Planned(d, v) \subseteq Names /\ Planned("assets", v) = {"output"}
  BY DEF Planned, Names, Desktops, Dirs

LEMMA NoJobType ==
    /\ NoJob \in Job /\ NoJob.at = "idle" /\ NoJob.step = 1 /\ NoJob.found = {}
  BY DEF NoJob, Job

\* A step of one program that changes nothing else of the types.
LEMMA JobType ==
    ASSUME TInv, NEW r \in Programs, NEW q \in Job, job' = [job EXCEPT ![r] = q],
           q.at \notin {"idle", "read"} => q.step \in Stages(r),
           q.at \in {"digest", "write", "stale", "marker"} => q.version \in Valid,
           ((q.at = "check" /\ Plan(r)[q.step] # "assets") \/ q.at = "digest") =>
              q.version \in Valid /\ q.todo = Planned(Plan(r)[q.step], q.version)
    PROVE  job' \in [Programs -> Job] /\ \A s \in Programs : Placed(s)'
<1>1. job' \in [Programs -> Job] /\ job'[r] = q /\ \A s \in Programs \ {r} : job'[s] = job[s]
  BY DEF TInv, TypeOK
<1>2. \A s \in Programs \ {r} : Placed(s)'
  BY <1>1 DEF TInv, Placed, Dir, Mine
<1>3. Placed(r)'
  BY <1>1 DEF Placed, Dir, Mine
<1> QED BY <1>1, <1>2, <1>3

LEMMA InitTypes == Init => TInv
<1> SUFFICES ASSUME Init PROVE TInv
  OBVIOUS
<1>1. manifest \in Versions /\ manifest \in Valid
  BY ManagedAssumption DEF Init
<1>2. files \in [Dirs -> [Names -> Valid \cup Others]]
  BY <1>1 DEF Init, Fresh, Generated, Empty, Others
<1>3. marker \in [Dirs -> [names : SUBSET Names, digests : Valid \cup {"none"},
                           manifest : Versions \cup {"none"}]]
  <2>1. CASE Fresh
    BY <2>1 DEF Fresh, NoMarker, Marker
  <2>2. CASE Generated
    BY <1>1, <2>2, PlannedNames DEF Generated, Marker
  <2> QED BY <2>1, <2>2 DEF Init
<1>4. job \in [Programs -> Job] /\ \A r \in Programs : job[r] = NoJob
  BY NoJobType DEF Init
<1>5. starts \in 0..MaxRuns /\ edits \in 0..MaxEdits /\ acts \in 0..MaxActs
  BY ManagedAssumption DEF Init
<1>6. /\ overlapped \in BOOLEAN /\ stray \in [Dirs -> BOOLEAN] /\ cut \in [Dirs -> SUBSET Valid]
  BY DEF Init
<1>7. \A r \in Programs : Placed(r)
  BY <1>4, NoJobType DEF Placed
<1> QED BY <1>1, <1>2, <1>3, <1>4, <1>5, <1>6, <1>7 DEF TInv, TypeOK

\* What a program may do to the files: nothing, put its version under a name
\* it still has to write, or remove a name that it owns and no longer plans.
Writes(r) ==
    \/ UNCHANGED files
    \/ job[r].at = "write" /\ \E n \in job[r].todo :
         files' = [files EXCEPT ![Dir(r)][n] = job[r].version]
    \/ job[r].at = "stale" /\ files' = [files EXCEPT ![Dir(r)] = [n \in Names |->
         IF n \in job[r].old \ Mine(r) THEN "absent" ELSE @[n]]]

\* Where a program is, its directory is one of the three.
LEMMA DirType ==
    ASSUME TInv, NEW r \in Programs, job[r].at \notin {"idle", "read"}
    PROVE  /\ job[r] \in Job /\ job[r].step \in Stages(r) /\ Dir(r) \in Dirs
           /\ Dir(r) = Plan(r)[job[r].step]
  BY Plans DEF TInv, TypeOK, Placed, Dir

\* The bounded counters and the histories.
LEMMA BeginTypes == ASSUME TInv, NEW r \in Programs, Begin(r) PROVE TInv'
<1>1. /\ job \in [Programs -> Job]
      /\ job' = [s \in Programs |->
                   IF s = r THEN [NoJob EXCEPT !.at = "load", !.calm = Quiet]
                            ELSE [job[s] EXCEPT !.calm = FALSE]]
  BY DEF Begin, TInv, TypeOK
<1>2. Quiet \in BOOLEAN
  BY DEF Quiet
<1> DEFINE q == [NoJob EXCEPT !.at = "load", !.calm = Quiet]
<1>3. q \in Job /\ q.at = "load" /\ q.step = 1
  BY <1>2, NoJobType DEF Job, NoJob
<1>4. \A s \in Programs : [job[s] EXCEPT !.calm = FALSE] \in Job
  BY <1>1 DEF Job
<1> HIDE DEF q
<1>5. job' \in [Programs -> Job] /\ job'[r] = q
  BY <1>1, <1>3, <1>4 DEF q
<1>6. \A s \in Programs \ {r} :
         /\ job'[s].at = job[s].at /\ job'[s].step = job[s].step
         /\ job'[s].version = job[s].version /\ job'[s].todo = job[s].todo
  BY <1>1 DEF Job
<1>7. \A s \in Programs : Placed(s)'
  <2>1. Placed(r)'
    BY <1>3, <1>5, Plans DEF Placed
  <2>2. ASSUME NEW s \in Programs \ {r} PROVE Placed(s)'
    BY <1>6 DEF TInv, Placed, Dir, Mine
  <2> QED BY <2>1, <2>2
<1>8. starts' \in 0..MaxRuns
  BY ManagedAssumption DEF Begin, TInv, TypeOK
<1>9. overlapped' \in BOOLEAN
  BY DEF Begin
<1>10. TypeOK'
  BY <1>5, <1>8, <1>9 DEF Begin, TInv, TypeOK
<1> QED BY <1>7, <1>10 DEF TInv

\* A program that ends, or died.
LEMMA EndTypes ==
    ASSUME TInv, NEW r \in Programs, job' = [job EXCEPT ![r] = NoJob],
           UNCHANGED <<manifest, files, marker, starts, edits, acts, overlapped>>,
           stray' \in [Dirs -> BOOLEAN], cut' \in [Dirs -> SUBSET Valid]
    PROVE  TInv'
<1>1. job' \in [Programs -> Job] /\ \A s \in Programs : Placed(s)'
  BY NoJobType, JobType
<1>2. TypeOK'
  BY <1>1 DEF TInv, TypeOK
<1> QED BY <1>1, <1>2 DEF TInv

LEMMA StopTypes == ASSUME TInv, NEW r \in Programs, Read(r) \/ Fail(r) \/ Die(r) PROVE TInv'
<1>1. job' = [job EXCEPT ![r] = NoJob]
  BY DEF Read, Fail, Die
<1>2. LeavesUnfinished(r) \/ UNCHANGED cut
  BY DEF Read, Fail, Die
<1>3. cut' \in [Dirs -> SUBSET Valid]
  <2>1. CASE Unfinished(r) /\ LeavesUnfinished(r)
    <3>1. job[r].version \in Valid
      BY <2>1 DEF Unfinished, TInv, Placed
    <3> QED BY <2>1, <3>1 DEF LeavesUnfinished, TInv, TypeOK
  <2> QED BY <1>2, <2>1 DEF LeavesUnfinished, TInv, TypeOK
<1>4. stray' \in [Dirs -> BOOLEAN]
  BY DEF Read, Fail, Die, TInv, TypeOK
<1>5. UNCHANGED <<manifest, files, marker, starts, edits, acts, overlapped>>
  BY DEF Read, Fail, Die
<1> QED BY <1>1, <1>3, <1>4, <1>5, EndTypes

\* The steps of a generator that change its own place only.
LEMMA PlaceTypes ==
    ASSUME TInv, NEW r \in Programs, Load(r) \/ Digest(r) \/ Check(r) \/ OpenTemporary(r)
    PROVE  TInv' /\ UNCHANGED files
<1>1. /\ job \in [Programs -> Job] /\ job[r] \in Job /\ manifest \in Versions
      /\ \A d \in Dirs : marker[d].names \subseteq Names
      /\ UNCHANGED <<manifest, files, stray, marker, starts, edits, acts, overlapped, cut>>
  BY DEF TInv, TypeOK, Load, Digest, Check, OpenTemporary
<1>2. /\ job[r].step \in Stages(r) /\ Dir(r) \in Dirs /\ Dir(r) = Plan(r)[job[r].step]
  BY DirType DEF Load, Digest, Check, OpenTemporary
<1>3. job' \in [Programs -> Job] /\ \A s \in Programs : Placed(s)'
  <2>1. CASE Load(r)
    <3> DEFINE at == AfterLoad(Dir(r))
               q == [job[r] EXCEPT !.version = manifest, !.at = at,
                                   !.todo = Planned(Dir(r), manifest)]
    <3>1. manifest \in Valid /\ Planned(Dir(r), manifest) \subseteq Names
      BY <1>1, <1>2, <2>1, PlannedNames DEF Load, Loads
    <3>2. at \in {"check", "write", "digest"}
      BY <1>2 DEF Dirs, AfterLoad
    <3> HIDE DEF at
    <3>3. /\ q \in Job /\ q.at = at /\ q.step = job[r].step /\ q.version = manifest
          /\ q.todo = Planned(Dir(r), manifest)
      BY <1>1, <3>1, <3>2 DEF Job
    <3>4. job' = [job EXCEPT ![r] = q]
      BY <1>1, <2>1 DEF Load, at
    <3> HIDE DEF q
    <3> QED BY <1>2, <3>1, <3>2, <3>3, <3>4, JobType
  <2>2. CASE Digest(r)
    <3> DEFINE q == [job[r] EXCEPT !.sha = manifest, !.at = "check"]
    <3>1. /\ q \in Job /\ q.at = "check" /\ q.step = job[r].step
          /\ q.version = job[r].version /\ q.todo = job[r].todo
      BY <1>1 DEF Job
    <3>2. job' = [job EXCEPT ![r] = q] /\ job[r].at = "digest"
      BY <1>1, <2>2 DEF Digest
    <3>3. job[r].version \in Valid /\ job[r].todo = Mine(r)
      BY <3>2 DEF TInv, Placed
    <3> HIDE DEF q
    <3> QED BY <1>2, <3>1, <3>2, <3>3, JobType DEF Mine
  <2>3. CASE Check(r)
    <3> DEFINE at == IF Dir(r) = "assets" THEN "load" ELSE "write"
               q == [job[r] EXCEPT !.at = at, !.old = marker[Dir(r)].names,
                                   !.found = Touched(Dir(r))]
    <3>1. Touched(Dir(r)) \subseteq Names /\ marker[Dir(r)].names \subseteq Names
      BY <1>1, <1>2 DEF Touched
    <3>2. /\ q \in Job /\ q.at = at /\ q.step = job[r].step /\ q.version = job[r].version
      BY <1>1, <3>1 DEF Job
    <3>3. job' = [job EXCEPT ![r] = q] /\ job[r].at = "check"
      BY <1>1, <2>3 DEF Check
    <3>4. at = "write" => job[r].version \in Valid
      BY <3>3 DEF TInv, Placed
    <3>5. at \in {"load", "write"}
      OBVIOUS
    <3> HIDE DEF q, at
    <3> QED BY <1>2, <3>2, <3>3, <3>4, <3>5, JobType
  <2>4. CASE OpenTemporary(r)
    <3> DEFINE q == [job[r] EXCEPT !.temp = TRUE]
    <3>1. /\ q \in Job /\ q.at = job[r].at /\ q.step = job[r].step
          /\ q.version = job[r].version
      BY <1>1 DEF Job
    <3>2. job' = [job EXCEPT ![r] = q] /\ job[r].at \in {"write", "marker"}
      BY <1>1, <2>4 DEF OpenTemporary
    <3>3. job[r].version \in Valid
      BY <3>2 DEF TInv, Placed
    <3> HIDE DEF q
    <3> QED BY <1>2, <3>1, <3>2, <3>3, JobType
  <2> QED BY <2>1, <2>2, <2>3, <2>4
<1> QED BY <1>1, <1>3 DEF TInv, TypeOK

LEMMA ReplaceTypes == ASSUME TInv, NEW r \in Programs, Replace(r) PROVE TInv' /\ Writes(r)
<1>1. /\ job \in [Programs -> Job] /\ job[r].at = "write" /\ job[r].version \in Valid
      /\ UNCHANGED <<manifest, stray, marker, starts, edits, acts, overlapped, cut>>
  BY DEF TInv, TypeOK, Replace, Placed
<1>2. job[r] \in Job /\ job[r].step \in Stages(r) /\ Dir(r) \in Dirs
  BY <1>1, DirType
<1>3. PICK n \in job[r].todo :
         /\ files' = [files EXCEPT ![Dir(r)][n] = job[r].version]
         /\ job' = [job EXCEPT ![r].temp = FALSE, ![r].todo = @ \ {n},
                               ![r].at = IF job[r].todo = {n} THEN "stale" ELSE "write"]
  BY DEF Replace
<1>4. n \in Names
  BY <1>2 DEF Job
<1>5. files' \in [Dirs -> [Names -> Valid \cup Others]]
  BY <1>1, <1>2, <1>3, <1>4 DEF TInv, TypeOK
<1> DEFINE at == IF job[r].todo = {n} THEN "stale" ELSE "write"
           q == [job[r] EXCEPT !.temp = FALSE, !.todo = @ \ {n}, !.at = at]
<1>6. at \in {"stale", "write"}
  OBVIOUS
<1>7. job' = [job EXCEPT ![r] = q]
  BY <1>1, <1>3
<1> HIDE DEF at
<1>8. q \in Job /\ q.at = at /\ q.step = job[r].step /\ q.version = job[r].version
  BY <1>2, <1>6 DEF Job
<1> HIDE DEF q
<1>9. job' \in [Programs -> Job] /\ \A s \in Programs : Placed(s)'
  BY <1>1, <1>2, <1>6, <1>7, <1>8, JobType
<1>10. Writes(r)
  BY <1>1, <1>3 DEF Writes
<1> QED BY <1>1, <1>5, <1>9, <1>10 DEF TInv, TypeOK

LEMMA RemoveTypes ==
    ASSUME TInv, NEW r \in Programs, RemoveStale(r) PROVE TInv' /\ Writes(r)
<1>1. /\ job \in [Programs -> Job] /\ job[r].at = "stale" /\ job[r].version \in Valid
      /\ UNCHANGED <<manifest, stray, marker, starts, edits, acts, overlapped, cut>>
  BY DEF TInv, TypeOK, RemoveStale, Placed
<1>2. job[r] \in Job /\ job[r].step \in Stages(r) /\ Dir(r) \in Dirs
  BY <1>1, DirType
<1>3. files' \in [Dirs -> [Names -> Valid \cup Others]]
  BY <1>2 DEF TInv, TypeOK, RemoveStale, Others
<1> DEFINE q == [job[r] EXCEPT !.at = "marker"]
<1>4. job' = [job EXCEPT ![r] = q]
  BY <1>1 DEF RemoveStale, Enter
<1>5. q \in Job /\ q.at = "marker" /\ q.step = job[r].step /\ q.version = job[r].version
  BY <1>2 DEF Job
<1> HIDE DEF q
<1>6. job' \in [Programs -> Job] /\ \A s \in Programs : Placed(s)'
  BY <1>1, <1>2, <1>4, <1>5, JobType
<1>7. Writes(r)
  BY <1>1 DEF Writes, RemoveStale
<1> QED BY <1>1, <1>3, <1>6, <1>7 DEF TInv, TypeOK

\* The marker, and where the program goes on.
LEMMA Onward ==
    ASSUME TInv, NEW r \in Programs, ReplaceMarker(r)
    PROVE  \E q \in Job :
              /\ job' = [job EXCEPT ![r] = q] /\ q.found = {}
              /\ q.at \in {"read", "load", "check"}
              /\ q.at # "read" => q.step \in Stages(r)
              /\ q.at # "read" => (q.at = "check" <=> Plan(r)[q.step] = "assets")
<1>1. /\ job \in [Programs -> Job] /\ job[r].at = "marker" /\ job[r].calm \in BOOLEAN
      /\ job[r].step \in Stages(r)
  BY DEF TInv, TypeOK, ReplaceMarker, Placed, Job
<1> DEFINE i == job[r].step + 1
           at == IF job[r].step = Len(Plan(r)) THEN "read" ELSE First(Plan(r)[i])
           q == [NoJob EXCEPT !.calm = job[r].calm, !.step = i, !.at = at]
<1>2. at \in {"read", "load", "check"} /\ i \in 1..4
  BY <1>1 DEF First, Stages, Plan
<1>3. at # "read" => i \in Stages(r) /\ (at = "check" <=> Plan(r)[i] = "assets")
  <2> SUFFICES ASSUME at # "read" PROVE i \in Stages(r) /\ (at = "check" <=> Plan(r)[i] = "assets")
    OBVIOUS
  <2>1. job[r].step # Len(Plan(r)) /\ at = First(Plan(r)[i])
    OBVIOUS
  <2> QED BY <1>1, <2>1, Plans DEF First
<1>4. job' = [job EXCEPT ![r] = q]
  BY DEF ReplaceMarker
<1> HIDE DEF i, at
<1>5. q \in Job /\ q.at = at /\ q.step = i /\ q.found = {}
  BY <1>1, <1>2, NoJobType DEF NoJob, Job
<1> HIDE DEF q
<1> QED BY <1>2, <1>3, <1>4, <1>5

LEMMA MarkerTypes ==
    ASSUME TInv, NEW r \in Programs, ReplaceMarker(r) PROVE TInv' /\ UNCHANGED files
<1>1. /\ job \in [Programs -> Job] /\ job[r].at = "marker" /\ job[r].version \in Valid
      /\ marker' = [marker EXCEPT ![Dir(r)] = Recorded(r)]
      /\ UNCHANGED <<manifest, files, stray, starts, edits, acts, overlapped, cut>>
  BY DEF TInv, TypeOK, ReplaceMarker, Placed
<1>2. job[r] \in Job /\ Dir(r) \in Dirs /\ job[r].sha \in Versions \cup {"none"}
  BY <1>1, DirType DEF Job
<1>3. Mine(r) \subseteq Names
  BY <1>1, <1>2, PlannedNames, ManagedAssumption DEF Mine
<1>4. marker' \in [Dirs -> [names : SUBSET Names, digests : Valid \cup {"none"},
                            manifest : Versions \cup {"none"}]]
  BY <1>1, <1>2, <1>3 DEF TInv, TypeOK, Recorded, Marker
<1>5. job' \in [Programs -> Job] /\ \A s \in Programs : Placed(s)'
  BY Onward, JobType
<1> QED BY <1>1, <1>4, <1>5 DEF TInv, TypeOK

\* What the developer does leaves the programs where they are.
LEMMA DisturbedJobs ==
    ASSUME TInv, Disturbed
    PROVE  /\ job' \in [Programs -> Job] /\ \A r \in Programs : Placed(r)'
           /\ \A r \in Programs :
                /\ job'[r].at = job[r].at /\ job'[r].step = job[r].step
                /\ job'[r].todo = job[r].todo /\ job'[r].old = job[r].old
                /\ job'[r].found = job[r].found
<1>1. job \in [Programs -> Job] /\ job' = [r \in Programs |-> [job[r] EXCEPT !.calm = FALSE]]
  BY DEF TInv, TypeOK, Disturbed
<1>2. \A r \in Programs :
         /\ [job[r] EXCEPT !.calm = FALSE] \in Job
         /\ job'[r].at = job[r].at /\ job'[r].step = job[r].step
         /\ job'[r].version = job[r].version /\ job'[r].todo = job[r].todo
         /\ job'[r].old = job[r].old /\ job'[r].found = job[r].found
  BY <1>1 DEF Job
<1>3. \A r \in Programs : Placed(r)'
  BY <1>2 DEF TInv, Placed, Dir, Mine
<1> QED BY <1>1, <1>2, <1>3

LEMMA DeveloperTypes == ASSUME TInv, Developer PROVE TInv' /\ (UNCHANGED files \/ acts' # acts)
<1>1. Disturbed
  BY DEF Developer, EditManifest, PutFile, RemoveDirectory, Act
<1>2. job' \in [Programs -> Job] /\ \A r \in Programs : Placed(r)'
  BY <1>1, DisturbedJobs
<1>3. ASSUME EditManifest PROVE TypeOK' /\ UNCHANGED files
  BY <1>2, <1>3, ManagedAssumption DEF EditManifest, TInv, TypeOK
<1>4. ASSUME Act PROVE acts' \in 0..MaxActs /\ acts' # acts
  BY <1>4, ManagedAssumption DEF Act, TInv, TypeOK
<1>5. ASSUME NEW d \in Dirs, PutFile(d) PROVE TypeOK' /\ acts' # acts
  <2>1. acts' \in 0..MaxActs /\ acts' # acts
    BY <1>4, <1>5 DEF PutFile
  <2>2. PICK n \in Names, what \in {"user", "odd"} : files' = [files EXCEPT ![d][n] = what]
    BY <1>5 DEF PutFile
  <2>3. files' \in [Dirs -> [Names -> Valid \cup Others]]
    BY <2>2 DEF TInv, TypeOK, Others
  <2> QED BY <1>2, <1>5, <2>1, <2>3 DEF PutFile, TInv, TypeOK
<1>6. ASSUME NEW d \in Dirs, RemoveDirectory(d) PROVE TypeOK' /\ acts' # acts
  <2>1. acts' \in 0..MaxActs /\ acts' # acts
    BY <1>4, <1>6 DEF RemoveDirectory
  <2>2. files' \in [Dirs -> [Names -> Valid \cup Others]]
    BY <1>6 DEF RemoveDirectory, TInv, TypeOK, Empty, Others
  <2>3. marker' \in [Dirs -> [names : SUBSET Names, digests : Valid \cup {"none"},
                              manifest : Versions \cup {"none"}]]
    BY <1>6 DEF RemoveDirectory, TInv, TypeOK, NoMarker, Marker
  <2> QED BY <1>2, <1>6, <2>1, <2>2, <2>3 DEF RemoveDirectory, TInv, TypeOK
<1> QED BY <1>2, <1>3, <1>5, <1>6 DEF Developer, TInv

LEMMA NextTypes ==
    ASSUME TInv, [Next]_vars
    PROVE  TInv' /\ (UNCHANGED files \/ acts' # acts \/ \E r \in Programs : Writes(r))
<1>1. CASE UNCHANGED vars
  BY <1>1 DEF vars, TInv, TypeOK, Placed, Dir, Mine
<1>2. CASE Developer
  BY <1>2, DeveloperTypes
<1>3. ASSUME NEW r \in Programs, Generator(r)
      PROVE  TInv' /\ (UNCHANGED files \/ Writes(r))
  <2>1. CASE Begin(r)
    BY <2>1, BeginTypes DEF Begin
  <2>2. CASE Load(r) \/ Digest(r) \/ Check(r) \/ OpenTemporary(r)
    BY <2>2, PlaceTypes
  <2>3. CASE Replace(r)
    BY <2>3, ReplaceTypes
  <2>4. CASE RemoveStale(r)
    BY <2>4, RemoveTypes
  <2>5. CASE ReplaceMarker(r)
    BY <2>5, MarkerTypes
  <2>6. CASE Read(r) \/ Fail(r) \/ Die(r)
    BY <2>6, StopTypes DEF Read, Fail, Die
  <2> QED BY <1>3, <2>1, <2>2, <2>3, <2>4, <2>5, <2>6 DEF Generator
<1> QED BY <1>1, <1>2, <1>3 DEF Next

\* The variables keep their types: every version that is written or recorded
\* was accepted by load_manifest.
THEOREM ManagedTypes == Spec => []TypeOK
<1>1. Init => TInv
  BY InitTypes
<1>2. TInv /\ [Next]_vars => TInv'
  BY NextTypes
<1>3. TInv => TypeOK
  BY DEF TInv
<1> QED BY <1>1, <1>2, <1>3, PTL DEF Spec

-----------------------------------------------------------------------------

\* What a program knows of its directory does not depend on where the others
\* are, so it is enough to look at the program that moved.
LEMMA OthersChecked ==
    ASSUME CInv, NEW r \in Programs, NEW q \in Job, job' = [job EXCEPT ![r] = q], Checked(r)'
    PROVE  \A s \in Programs : Checked(s)'
  BY DEF CInv, TInv, TypeOK, Checked, Dir

\* The heart of it: a directory is accepted only if what the developer put
\* under a name the program may touch is listed, and in strings only if
\* there is nothing of the developer's at all.
LEMMA AcceptedIsOwned ==
    ASSUME TInv, NEW d \in Dirs, NEW planned, planned \subseteq Names, Accepts(d, planned)
    PROVE  /\ d = "strings" => Touched(d) = {}
           /\ \A n \in planned : n \in Touched(d) => n \in marker[d].names
<1>1. files \in [Dirs -> [Names -> Valid \cup Others]] /\ marker[d].digests \in Valid \cup {"none"}
  BY DEF TInv, TypeOK
<1>2. CASE IsEmpty(d)
  <2>1. \A n \in Names : files[d][n] = "absent"
    BY <1>2 DEF IsEmpty, Empty
  <2> QED BY <2>1 DEF Touched
<1>3. CASE d = "branding" /\ BrandingAccepts(planned)
  BY <1>3 DEF BrandingAccepts, Touched
<1>4. CASE d = "assets" /\ AssetsAccept(planned)
  BY <1>4 DEF AssetsAccept, Touched
<1>5. CASE d = "strings" /\ StringsAccept(planned)
  <2>1. marker[d].digests \notin {"user", "odd"}
    BY <1>1, ManagedAssumption DEF Others
  <2>2. \A n \in Names : files[d][n] \in {marker[d].digests, "absent"}
    BY <1>5 DEF StringsAccept
  <2> QED BY <2>1, <2>2 DEF Touched
<1> QED BY <1>2, <1>3, <1>4, <1>5 DEF Accepts

LEMMA CheckChecks == ASSUME CInv, NEW r \in Programs, Check(r) PROVE \A s \in Programs : Checked(s)'
<1>1. /\ TInv /\ job \in [Programs -> Job] /\ job[r].at = "check" /\ Dir(r) \in Dirs
      /\ job[r] \in Job
  BY DirType DEF CInv, TInv, TypeOK, Check
<1> DEFINE at == IF Dir(r) = "assets" THEN "load" ELSE "write"
           q == [job[r] EXCEPT !.at = at, !.old = marker[Dir(r)].names,
                               !.found = Touched(Dir(r))]
           planned == IF Dir(r) = "assets" THEN {"output"} ELSE Mine(r)
<1>2. Dir(r) # "assets" => job[r].version \in Valid /\ job[r].todo = Mine(r)
  BY <1>1 DEF TInv, Placed
<1>3. planned \subseteq Names
  BY <1>1, <1>2, PlannedNames, ManagedAssumption DEF Mine, Names
<1>4. Accepts(Dir(r), planned)
  BY DEF Check
<1>5. /\ Dir(r) = "strings" => Touched(Dir(r)) = {}
      /\ \A n \in planned : n \in Touched(Dir(r)) => n \in marker[Dir(r)].names
  BY <1>1, <1>3, <1>4, AcceptedIsOwned
<1>6. /\ q.at = at /\ q.step = job[r].step /\ q.todo = job[r].todo
      /\ q.old = marker[Dir(r)].names /\ q.found = Touched(Dir(r))
  BY <1>1 DEF Job
<1>7. q \in Job
  BY <1>1 DEF Job, TInv, TypeOK, Touched
<1>8. job' = [job EXCEPT ![r] = q] /\ job'[r] = q
  BY <1>1 DEF Check
<1> HIDE DEF q
<1>9. Dir(r)' = Dir(r)
  BY <1>6, <1>8 DEF Dir
<1>10. Checked(r)'
  BY <1>2, <1>5, <1>6, <1>8, <1>9 DEF Checked
<1> QED BY <1>7, <1>8, <1>10, OthersChecked

LEMMA WriteChecks ==
    ASSUME CInv, NEW r \in Programs, Replace(r) \/ RemoveStale(r) \/ OpenTemporary(r)
    PROVE  \A s \in Programs : Checked(s)'
<1>1. /\ job \in [Programs -> Job] /\ job' \in [Programs -> Job] /\ Checked(r)
  BY NextTypes DEF CInv, TInv, TypeOK, Next, Generator
<1>2. /\ job' = [job EXCEPT ![r] = job'[r]]
      /\ job'[r].step = job[r].step /\ job'[r].found = job[r].found /\ job'[r].old = job[r].old
      /\ job'[r].todo \subseteq job[r].todo
      /\ \/ job[r].at = "write" /\ job'[r].at \in {"write", "stale"}
         \/ job'[r].at = "marker"
  <2>1. CASE Replace(r)
    <3>1. PICK n \in job[r].todo : job' = [job EXCEPT
             ![r].temp = FALSE, ![r].todo = @ \ {n},
             ![r].at = IF job[r].todo = {n} THEN "stale" ELSE "write"]
      BY <2>1 DEF Replace
    <3> DEFINE at == IF job[r].todo = {n} THEN "stale" ELSE "write"
               q == [job[r] EXCEPT !.temp = FALSE, !.todo = @ \ {n}, !.at = at]
    <3>2. at \in {"stale", "write"} /\ job[r] \in Job /\ job[r].at = "write"
      BY <1>1, <2>1 DEF Replace
    <3>3. job' = [job EXCEPT ![r] = q] /\ job'[r] = q
      BY <1>1, <3>1
    <3> HIDE DEF at
    <3>4. /\ q.at = at /\ q.step = job[r].step /\ q.todo = job[r].todo \ {n}
          /\ q.old = job[r].old /\ q.found = job[r].found
      BY <3>2 DEF Job
    <3> HIDE DEF q
    <3> QED BY <3>2, <3>3, <3>4
  <2>2. CASE RemoveStale(r)
    BY <1>1, <2>2 DEF RemoveStale, Enter, Job
  <2>3. CASE OpenTemporary(r)
    BY <1>1, <2>3 DEF OpenTemporary, Job
  <2> QED BY <2>1, <2>2, <2>3
<1>3. Dir(r)' = Dir(r)
  BY <1>2 DEF Dir
<1>4. Checked(r)'
  BY <1>1, <1>2, <1>3 DEF Checked
<1> QED BY <1>1, <1>2, <1>4, OthersChecked

LEMMA MoveChecks ==
    ASSUME CInv, NEW r \in Programs,
           Begin(r) \/ Load(r) \/ Digest(r) \/ ReplaceMarker(r) \/ Read(r) \/ Fail(r) \/ Die(r)
    PROVE  \A s \in Programs : Checked(s)'
<1>1. /\ TInv /\ job \in [Programs -> Job] /\ \A s \in Programs : Checked(s)
      /\ job[r].at # "idle" => Dir(r) \in Dirs \/ job[r].at = "read"
  BY DirType DEF CInv, TInv, TypeOK
<1>2. CASE Begin(r)
  <2>1. /\ job' = [s \in Programs |->
                     IF s = r THEN [NoJob EXCEPT !.at = "load", !.calm = Quiet]
                              ELSE [job[s] EXCEPT !.calm = FALSE]]
    BY <1>2 DEF Begin
  <2>2. job'[r].at = "load" /\ job'[r].step = 1 /\ job'[r].found = {}
    BY <2>1, NoJobType DEF NoJob
  <2>3. Checked(r)'
    BY <2>2, Plans DEF Checked, Dir
  <2>4. ASSUME NEW s \in Programs \ {r} PROVE Checked(s)'
    <3>1. /\ job'[s].at = job[s].at /\ job'[s].step = job[s].step
          /\ job'[s].todo = job[s].todo /\ job'[s].old = job[s].old
          /\ job'[s].found = job[s].found
      BY <1>1, <2>1 DEF Job
    <3> QED BY <1>1, <3>1 DEF Checked, Dir
  <2> QED BY <2>3, <2>4
<1>3. CASE Load(r)
  <2>1. /\ job[r].at = "load" /\ Dir(r) \in Dirs /\ job[r] \in Job
        /\ job' = [job EXCEPT ![r].version = manifest, ![r].at = AfterLoad(Dir(r)),
                              ![r].todo = Planned(Dir(r), manifest)]
    BY <1>1, <1>3 DEF Load
  <2>2. /\ job'[r].at = AfterLoad(Dir(r)) /\ job'[r].step = job[r].step
        /\ job'[r].todo = Planned(Dir(r), manifest)
        /\ job'[r].old = job[r].old /\ job'[r].found = job[r].found
        /\ job' = [job EXCEPT ![r] = job'[r]]
    BY <1>1, <2>1 DEF Job
  <2>3. Dir(r)' = Dir(r)
    BY <2>2 DEF Dir
  <2>4. Dir(r) = "assets" => job'[r].todo = {"output"}
    BY <2>2 DEF Planned
  <2>5. /\ job'[r].at = "write" => Dir(r) = "assets"
        /\ job'[r].at \in {"check", "write", "digest"}
    <3>1. AfterLoad("branding") = "check" /\ AfterLoad("strings") = "digest"
          /\ AfterLoad("assets") = "write"
      BY DEF AfterLoad
    <3> QED BY <2>1, <2>2, <3>1 DEF Dirs
  <2>6. Checked(r)'
    BY <1>1, <2>1, <2>2, <2>3, <2>4, <2>5 DEF Checked
  <2>7. job' \in [Programs -> Job]
    BY <1>1, <1>3, PlaceTypes DEF TInv, TypeOK
  <2> QED BY <2>2, <2>6, <2>7, OthersChecked
<1>4. CASE Digest(r)
  <2>1. job'[r].at = "check" /\ job' = [job EXCEPT ![r] = job'[r]]
    BY <1>1, <1>4 DEF Digest, Job
  <2>2. job' \in [Programs -> Job]
    BY <1>1, <1>4, PlaceTypes DEF TInv, TypeOK
  <2>3. Checked(r)'
    BY <2>1 DEF Checked
  <2> QED BY <2>1, <2>2, <2>3, OthersChecked
<1>5. CASE ReplaceMarker(r)
  <2>1. PICK q \in Job : /\ job' = [job EXCEPT ![r] = q] /\ q.found = {}
                         /\ q.at \in {"read", "load", "check"}
    BY <1>1, <1>5, Onward
  <2>2. job'[r] = q
    BY <1>1, <2>1
  <2>3. Checked(r)'
    BY <2>1, <2>2 DEF Checked
  <2> QED BY <2>1, <2>3, OthersChecked
<1>6. CASE Read(r) \/ Fail(r) \/ Die(r)
  <2>1. job' = [job EXCEPT ![r] = NoJob] /\ job'[r].at = "idle"
    BY <1>1, <1>6, NoJobType DEF Read, Fail, Die
  <2>2. Checked(r)'
    BY <2>1 DEF Checked
  <2> QED BY <2>1, <2>2, NoJobType, OthersChecked
<1> QED BY <1>2, <1>3, <1>4, <1>5, <1>6

LEMMA NextChecks == ASSUME CInv, [Next]_vars PROVE CInv'
<1>1. TInv'
  BY NextTypes DEF CInv
<1>2. CASE UNCHANGED vars
  BY <1>1, <1>2 DEF vars, CInv, Checked, Dir
<1>3. CASE Developer
  <2>1. Disturbed
    BY <1>3 DEF Developer, EditManifest, PutFile, RemoveDirectory, Act
  <2>2. \A r \in Programs : Checked(r)'
    BY <2>1, DisturbedJobs DEF CInv, Checked, Dir
  <2> QED BY <1>1, <2>2 DEF CInv
<1>4. ASSUME NEW r \in Programs, Generator(r) PROVE CInv'
  BY <1>1, <1>4, MoveChecks, CheckChecks, WriteChecks DEF Generator, CInv
<1> QED BY <1>2, <1>3, <1>4 DEF Next

\* What a program that has checked may do to a file of the developer's.
LEMMA WritesKeep ==
    ASSUME CInv, NEW r \in Programs, Writes(r), NEW d \in Dirs, NEW n \in Touched(d),
           files'[d][n] # files[d][n]
    PROVE  MayReplace(r, d, n)
<1>1. /\ files \in [Dirs -> [Names -> Valid \cup Others]] /\ Checked(r) /\ n \in Names
  BY DEF CInv, TInv, TypeOK, Touched
<1>2. CASE job[r].at = "write" /\ \E k \in job[r].todo :
         files' = [files EXCEPT ![Dir(r)][k] = job[r].version]
  <2>1. Dir(r) = d /\ n \in job[r].todo
    BY <1>1, <1>2
  <2> QED BY <1>1, <1>2, <2>1 DEF MayReplace, Past, Checked
<1>3. CASE /\ job[r].at = "stale"
           /\ files' = [files EXCEPT ![Dir(r)] = [k \in Names |->
                IF k \in job[r].old \ Mine(r) THEN "absent" ELSE @[k]]]
  <2>1. Dir(r) = d /\ n \in job[r].old
    BY <1>1, <1>3
  <2> QED BY <1>1, <1>3, <2>1 DEF MayReplace, Past, Checked
<1> QED BY <1>2, <1>3 DEF Writes

\* No generator overwrites or removes a file of the developer's it found when
\* it checked the directory unless the marker lists it: check_managed_directory
\* of branding.py and branding_assets.py, check_output of branding_strings.py.
THEOREM ManagedKeepsOthers == Spec => OthersKept
<1> DEFINE Kept == \A d \in Dirs : \A n \in Touched(d) :
                     files'[d][n] = files[d][n]
                     \/ acts' # acts
                     \/ \E r \in Programs : MayReplace(r, d, n)
<1>1. Init => CInv
  <2>1. Init => \A r \in Programs : job[r].at = "idle"
    BY NoJobType DEF Init
  <2>2. Init => \A r \in Programs : Checked(r)
    BY <2>1 DEF Checked
  <2> QED BY <2>2, InitTypes DEF CInv
<1>2. CInv /\ [Next]_vars => CInv'
  BY NextChecks
<1>3. CInv /\ [Next]_vars => [Kept]_vars
  <2> SUFFICES ASSUME CInv, [Next]_vars PROVE Kept
    OBVIOUS
  <2>1. UNCHANGED files \/ acts' # acts \/ \E r \in Programs : Writes(r)
    BY NextTypes DEF CInv
  <2> QED BY <2>1, WritesKeep
<1> HIDE DEF Kept
<1>4. Spec => [][Kept]_vars
  BY <1>1, <1>2, <1>3, PTL DEF Spec
<1> QED BY <1>4 DEF OthersKept, Kept

-----------------------------------------------------------------------------
(* Programs that do not overlap.                                           *)

Active(r) == job[r].at \in {"write", "stale", "marker"}
Made(d) == {n \in Names : files[d][n] \notin Others}

\* Only one program runs, unless runs overlapped, and a calm one runs alone.
Alone == \A r, s \in Programs :
    r # s /\ ~Idle(r) /\ ~Idle(s) => overlapped /\ ~job[r].calm

\* What a program owns of its directory when no runs overlapped: the names it
\* found in the marker, and what it has written since.
Held(r) ==
    /\ job[r].temp => job[r].at \in {"write", "marker"}
    /\ Active(r) => job[r].todo \subseteq Mine(r)
    /\ job[r].at \in {"stale", "marker"} => job[r].todo = {}
    /\ (~overlapped /\ (\/ job[r].at \in {"write", "stale"}
                        \/ job[r].at = "load" /\ Dir(r) = "assets")) =>
         job[r].old = marker[Dir(r)].names
    /\ (~overlapped /\ Active(r)) => \A n \in Mine(r) \ job[r].todo :
         files[Dir(r)][n] \in {job[r].version, "user", "odd"}
    /\ (~overlapped /\ job[r].at = "marker") => \A n \in Made(Dir(r)) :
         n \in Mine(r) \/ \E v \in cut[Dir(r)] : n \in Planned(Dir(r), v)

\* A marker lists the names planned for a valid manifest; a temporary file is
\* only there after a run was cut short.
Shaped(d) ==
    /\ marker[d] = NoMarker \/ \E v \in Valid : marker[d].names = Planned(d, v)
    /\ stray[d] => cut[d] # {}

\* What is generated in a directory is listed, or of a run cut short, or of the
\* program that is writing there.
Listed(d) == ~overlapped => \A n \in Made(d) :
    \/ n \in marker[d].names
    \/ \E v \in cut[d] : n \in Planned(d, v)
    \/ \E r \in Programs : Active(r) /\ Dir(r) = d /\ n \in Mine(r) \ job[r].todo

Digested ==
    (~overlapped /\ cut["strings"] = {} /\ marker["strings"] # NoMarker) =>
       \/ files["strings"]["output"] \in {marker["strings"].digests, "user", "odd"}
       \/ \E r \in Programs : /\ Active(r) /\ Dir(r) = "strings"
                              /\ "output" \notin job[r].todo

\* A directory is of the present manifest.
Whole(d) ==
    /\ \A n \in Planned(d, manifest) : files[d][n] = manifest
    /\ marker[d].names = Planned(d, manifest)
    /\ d = "strings" => marker[d].digests = manifest /\ marker[d].manifest = manifest

\* What a program that is alone, with nobody editing, has done so far.
Calm(r) == job[r].calm =>
    /\ ~Idle(r)
    /\ (\/ job[r].at = "digest" \/ Active(r)
        \/ job[r].at = "check" /\ Dir(r) # "assets") => job[r].version = manifest
    /\ (job[r].at = "check" \/ Active(r)) /\ Dir(r) = "strings" => job[r].sha = manifest
    /\ Active(r) => \A n \in Mine(r) \ job[r].todo : files[Dir(r)][n] = manifest
    /\ \A i \in DOMAIN Plan(r) : i < job[r].step => Whole(Plan(r)[i])
    /\ job[r].at = "read" => job[r].step = Len(Plan(r)) + 1

Places == \A d \in Dirs : Shaped(d) /\ Listed(d)
MInv ==
    /\ TInv /\ Alone /\ Places /\ Digested
    /\ \A r \in Programs : Held(r) /\ Calm(r)

-----------------------------------------------------------------------------

Only(r) == \A s \in Programs \ {r} : job'[s] = job[s]

\* What each step of a program makes of what it carries.
LEMMA LoadJob ==
    ASSUME TInv, NEW r \in Programs, Load(r)
    PROVE  /\ Only(r) /\ job[r].at = "load" /\ manifest \in Valid
           /\ job'[r].at = AfterLoad(Dir(r)) /\ job'[r].version = manifest
           /\ job'[r].todo = Planned(Dir(r), manifest)
           /\ job'[r].step = job[r].step /\ job'[r].sha = job[r].sha
           /\ job'[r].temp = job[r].temp /\ job'[r].old = job[r].old
           /\ job'[r].calm = job[r].calm
<1>1. job \in [Programs -> Job] /\ job[r] \in Job
  BY DEF TInv, TypeOK
<1> QED BY <1>1 DEF Load, Loads, Only, Job

LEMMA DigestJob ==
    ASSUME TInv, NEW r \in Programs, Digest(r)
    PROVE  /\ Only(r) /\ job[r].at = "digest"
           /\ job'[r].at = "check" /\ job'[r].sha = manifest
           /\ job'[r].version = job[r].version /\ job'[r].todo = job[r].todo
           /\ job'[r].step = job[r].step /\ job'[r].temp = job[r].temp
           /\ job'[r].old = job[r].old /\ job'[r].calm = job[r].calm
<1>1. job \in [Programs -> Job] /\ job[r] \in Job
  BY DEF TInv, TypeOK
<1> QED BY <1>1 DEF Digest, Only, Job

LEMMA CheckJob ==
    ASSUME TInv, NEW r \in Programs, Check(r)
    PROVE  /\ Only(r) /\ job[r].at = "check"
           /\ job'[r].at = IF Dir(r) = "assets" THEN "load" ELSE "write"
           /\ job'[r].old = marker[Dir(r)].names
           /\ job'[r].version = job[r].version /\ job'[r].todo = job[r].todo
           /\ job'[r].step = job[r].step /\ job'[r].temp = job[r].temp
           /\ job'[r].sha = job[r].sha /\ job'[r].calm = job[r].calm
<1>1. job \in [Programs -> Job] /\ job[r] \in Job
  BY DEF TInv, TypeOK
<1> QED BY <1>1 DEF Check, Only, Job

LEMMA OpenJob ==
    ASSUME TInv, NEW r \in Programs, OpenTemporary(r)
    PROVE  /\ Only(r) /\ job[r].at \in {"write", "marker"}
           /\ job'[r].at = job[r].at /\ job'[r].old = job[r].old
           /\ job'[r].version = job[r].version /\ job'[r].todo = job[r].todo
           /\ job'[r].step = job[r].step
           /\ job'[r].sha = job[r].sha /\ job'[r].calm = job[r].calm
<1>1. job \in [Programs -> Job] /\ job[r] \in Job
  BY DEF TInv, TypeOK
<1> QED BY <1>1 DEF OpenTemporary, Only, Job

LEMMA ReplaceJob ==
    ASSUME TInv, NEW r \in Programs, Replace(r)
    PROVE  \E n \in job[r].todo :
           /\ Only(r) /\ job[r].at = "write" /\ Dir(r) \in Dirs /\ n \in Names
           /\ files' = [files EXCEPT ![Dir(r)][n] = job[r].version]
           /\ job'[r].at = IF job[r].todo = {n} THEN "stale" ELSE "write"
           /\ job'[r].todo = job[r].todo \ {n} /\ job'[r].temp = FALSE
           /\ job'[r].old = job[r].old /\ job'[r].version = job[r].version
           /\ job'[r].step = job[r].step
           /\ job'[r].sha = job[r].sha /\ job'[r].calm = job[r].calm
<1>1. job \in [Programs -> Job] /\ job[r] \in Job /\ job[r].at = "write"
  BY DEF TInv, TypeOK, Replace
<1>2. Dir(r) \in Dirs
  BY <1>1, DirType
<1>3. PICK n \in job[r].todo :
         /\ files' = [files EXCEPT ![Dir(r)][n] = job[r].version]
         /\ job' = [job EXCEPT ![r].temp = FALSE, ![r].todo = @ \ {n},
                               ![r].at = IF job[r].todo = {n} THEN "stale" ELSE "write"]
  BY DEF Replace
<1> DEFINE at == IF job[r].todo = {n} THEN "stale" ELSE "write"
           q == [job[r] EXCEPT !.temp = FALSE, !.todo = @ \ {n}, !.at = at]
<1>4. job'[r] = q /\ Only(r) /\ n \in Names
  BY <1>1, <1>3 DEF Only, Job
<1> HIDE DEF at
<1>5. /\ q.at = at /\ q.todo = job[r].todo \ {n} /\ q.temp = FALSE /\ q.old = job[r].old
      /\ q.version = job[r].version /\ q.step = job[r].step /\ q.sha = job[r].sha
      /\ q.calm = job[r].calm
  BY <1>1 DEF Job
<1> HIDE DEF q
<1> QED BY <1>1, <1>2, <1>3, <1>4, <1>5 DEF at

LEMMA RemoveJob ==
    ASSUME TInv, NEW r \in Programs, RemoveStale(r)
    PROVE  /\ Only(r) /\ job[r].at = "stale" /\ Dir(r) \in Dirs
           /\ job'[r].at = "marker" /\ job'[r].old = job[r].old
           /\ job'[r].version = job[r].version /\ job'[r].todo = job[r].todo
           /\ job'[r].step = job[r].step /\ job'[r].temp = job[r].temp
           /\ job'[r].sha = job[r].sha /\ job'[r].calm = job[r].calm
<1>1. job \in [Programs -> Job] /\ job[r] \in Job /\ job[r].at = "stale"
  BY DEF TInv, TypeOK, RemoveStale
<1>2. Dir(r) \in Dirs
  BY <1>1, DirType
<1> QED BY <1>1, <1>2 DEF RemoveStale, Enter, Only, Job

LEMMA MarkerJob ==
    ASSUME TInv, NEW r \in Programs, ReplaceMarker(r)
    PROVE  /\ Only(r) /\ job[r].at = "marker" /\ Dir(r) \in Dirs
           /\ job'[r].at \in {"read", "load", "check"}
           /\ job'[r].at = "check" => Plan(r)[job'[r].step] = "assets"
           /\ job'[r].at = "load" => Plan(r)[job'[r].step] # "assets"
           /\ job'[r].step = job[r].step + 1 /\ job'[r].temp = FALSE
           /\ job'[r].at = "read" => job[r].step = Len(Plan(r))
           /\ job'[r].calm = job[r].calm
<1>1. /\ job \in [Programs -> Job] /\ job[r] \in Job /\ job[r].at = "marker"
      /\ job[r].step \in Stages(r)
  BY DEF TInv, TypeOK, ReplaceMarker, Placed
<1>2. Dir(r) \in Dirs
  BY <1>1, DirType
<1> DEFINE i == job[r].step + 1
           at == IF job[r].step = Len(Plan(r)) THEN "read" ELSE First(Plan(r)[i])
           q == [NoJob EXCEPT !.calm = job[r].calm, !.step = i, !.at = at]
<1>3. at \in {"read", "load", "check"} /\ (at = "read" => job[r].step = Len(Plan(r)))
  BY DEF First
<1>4. at \notin {"read"} => (at = "check" <=> Plan(r)[i] = "assets")
  BY DEF First
<1>5. job'[r] = q /\ Only(r)
  BY <1>1 DEF ReplaceMarker, Only
<1> HIDE DEF at, i
<1>6. q.at = at /\ q.step = i /\ q.temp = FALSE /\ q.calm = job[r].calm
  BY DEF NoJob
<1> HIDE DEF q
<1> QED BY <1>1, <1>2, <1>3, <1>4, <1>5, <1>6 DEF i

LEMMA EndJob ==
    ASSUME TInv, NEW r \in Programs, Read(r) \/ Fail(r) \/ Die(r)
    PROVE  /\ Only(r) /\ job'[r].at = "idle" /\ job'[r].temp = FALSE
           /\ job'[r].calm = FALSE
<1>1. job \in [Programs -> Job] /\ job' = [job EXCEPT ![r] = NoJob]
  BY DEF TInv, TypeOK, Read, Fail, Die
<1>2. NoJob.at = "idle" /\ NoJob.temp = FALSE /\ NoJob.calm = FALSE
  BY DEF NoJob
<1> QED BY <1>1, <1>2 DEF Only

\* A program other than the one that steps is idle, or overlaps it.
LEMMA Bystanders ==
    ASSUME MInv, NEW r \in Programs, ~Idle(r), Only(r), UNCHANGED overlapped
    PROVE  \A s \in Programs \ {r} : Held(s)' /\ Calm(s)'
<1> SUFFICES ASSUME NEW s \in Programs \ {r} PROVE Held(s)' /\ Calm(s)'
  OBVIOUS
<1>1. job'[s] = job[s] /\ Held(s) /\ Calm(s) /\ overlapped' = overlapped
  BY DEF Only, MInv
<1>2. CASE Idle(s)
  <2>1. job[s].at = "idle" /\ job[s].temp = FALSE /\ job[s].calm = FALSE
    BY <1>1, <1>2 DEF Idle, Held, Calm, MInv, TInv, TypeOK, Job
  <2> QED BY <1>1, <2>1 DEF Held, Calm, Active
<1>3. CASE ~Idle(s)
  <2>1. overlapped /\ job[s].calm = FALSE
    BY <1>3 DEF Alone, MInv, TInv, TypeOK, Job
  <2> QED BY <1>1, <2>1 DEF Held, Calm, Active, Dir, Mine
<1> QED BY <1>2, <1>3

LEMMA StillAlone ==
    ASSUME MInv, NEW r \in Programs, ~Idle(r), Only(r), UNCHANGED overlapped,
           job'[r].calm = job[r].calm \/ job'[r].at = "idle"
    PROVE  Alone'
<1> SUFFICES ASSUME NEW s \in Programs, NEW t \in Programs, s # t, ~Idle(s)', ~Idle(t)'
             PROVE  overlapped' /\ ~job'[s].calm
  BY DEF Alone
<1>1. ~Idle(s) /\ ~Idle(t)
  BY DEF Idle, Only
<1>2. overlapped /\ ~job[s].calm
  BY <1>1 DEF MInv, Alone
<1>3. job'[s].at # "idle"
  BY DEF Idle
<1> QED BY <1>2, <1>3 DEF Only

\* A step that writes nothing keeps what is said of the directories, if it
\* forgets nothing the program had written.
LEMMA Unwritten ==
    ASSUME MInv, NEW r \in Programs, Only(r),
           UNCHANGED <<files, marker, cut, stray, overlapped>>,
           Active(r) => /\ Active(r)' /\ Dir(r)' = Dir(r) /\ Mine(r)' = Mine(r)
                        /\ job'[r].todo = job[r].todo
    PROVE  Places' /\ Digested'
<1>1. \A s \in Programs : Active(s) =>
         /\ Active(s)' /\ Dir(s)' = Dir(s) /\ Mine(s)' = Mine(s)
         /\ job'[s].todo = job[s].todo
  BY DEF Only, Active, Dir, Mine
<1>2. ASSUME NEW d \in Dirs PROVE Shaped(d)' /\ Listed(d)'
  <2>1. Shaped(d) /\ Listed(d) /\ Made(d)' = Made(d)
    BY DEF MInv, Places, Made
  <2>2. Shaped(d)'
    BY <2>1 DEF Shaped
  <2>3. ASSUME ~overlapped, NEW n \in Made(d)
        PROVE  \/ n \in marker[d].names
               \/ \E v \in cut[d] : n \in Planned(d, v)
               \/ \E s \in Programs : /\ Active(s)' /\ Dir(s)' = d
                                      /\ n \in Mine(s)' \ job'[s].todo
    BY <1>1, <2>1, <2>3 DEF Listed
  <2> QED BY <2>1, <2>2, <2>3 DEF Listed
<1>3. Digested'
  BY <1>1 DEF MInv, Digested
<1> QED BY <1>2, <1>3 DEF Places

\* Directories that are of the present manifest stay so while nothing changes.
LEMMA StayWhole ==
    ASSUME NEW d, Whole(d), manifest' = manifest, files'[d] = files[d],
           marker'[d] = marker[d]
    PROVE  Whole(d)'
  BY DEF Whole

\* The steps that read.
LEMMA PlaceKeeps ==
    ASSUME MInv, NEW r \in Programs, Load(r) \/ Digest(r) \/ Check(r) \/ OpenTemporary(r)
    PROVE  MInv'
<1>1. /\ TInv /\ Held(r) /\ Calm(r) /\ Placed(r) /\ Only(r) /\ ~Idle(r)
      /\ job'[r].step = job[r].step /\ job'[r].calm = job[r].calm /\ Dir(r) \in Dirs
  BY LoadJob, DigestJob, CheckJob, OpenJob, DirType DEF MInv, TInv, Idle
<1>2. UNCHANGED <<manifest, files, stray, marker, cut, overlapped>> /\ Dir(r)' = Dir(r)
  BY <1>1 DEF Load, Digest, Check, OpenTemporary, Dir
<1>3. /\ Active(r) => /\ Active(r)' /\ Mine(r)' = Mine(r)
                      /\ job'[r].todo = job[r].todo
      /\ Held(r)'
      /\ job'[r].calm =>
           /\ ~Idle(r)'
           /\ (\/ job'[r].at = "digest" \/ Active(r)'
               \/ job'[r].at = "check" /\ Dir(r) # "assets") => job'[r].version = manifest
           /\ (job'[r].at = "check" \/ Active(r)') /\ Dir(r) = "strings" =>
                job'[r].sha = manifest
           /\ Active(r)' => \A n \in Mine(r)' \ job'[r].todo : files[Dir(r)][n] = manifest
           /\ job'[r].at # "read"
  <2>1. CASE Load(r)
    <3>1. /\ job[r].at = "load" /\ job'[r].at = AfterLoad(Dir(r))
          /\ job'[r].version = manifest /\ job'[r].todo = Planned(Dir(r), manifest)
          /\ job'[r].temp = job[r].temp /\ job'[r].old = job[r].old
      BY <1>1, <2>1, LoadJob
    <3>2. /\ Dir(r) = "assets" => job'[r].at = "write"
          /\ Dir(r) = "branding" => job'[r].at = "check"
          /\ Dir(r) = "strings" => job'[r].at = "digest"
      BY <3>1 DEF AfterLoad
    <3>3. Mine(r)' = job'[r].todo
      BY <1>2, <3>1 DEF Mine
    <3>4. Held(r)'
      BY <1>1, <1>2, <3>1, <3>2, <3>3 DEF Held, Active, Dirs
    <3> QED BY <1>1, <1>2, <3>1, <3>2, <3>3, <3>4 DEF Active, Idle, Dirs
  <2>2. CASE Digest(r)
    BY <1>1, <1>2, <2>2, DigestJob DEF Held, Calm, Active, Idle
  <2>3. CASE Check(r)
    <3>1. /\ job[r].at = "check"
          /\ job'[r].at = IF Dir(r) = "assets" THEN "load" ELSE "write"
          /\ job'[r].old = marker[Dir(r)].names /\ job'[r].sha = job[r].sha
          /\ job'[r].version = job[r].version /\ job'[r].todo = job[r].todo
          /\ job'[r].temp = job[r].temp
      BY <1>1, <2>3, CheckJob
    <3>2. Mine(r)' = Mine(r) /\ (Dir(r) # "assets" => job[r].todo = Mine(r))
      BY <1>1, <1>2, <3>1 DEF Mine, Placed
    <3>3. Held(r)'
      BY <1>1, <1>2, <3>1, <3>2 DEF Held, Active
    <3> QED BY <1>1, <1>2, <3>1, <3>2, <3>3 DEF Calm, Active, Idle
  <2>4. CASE OpenTemporary(r)
    <3>1. /\ job[r].at \in {"write", "marker"} /\ job'[r].at = job[r].at
          /\ job'[r].old = job[r].old /\ job'[r].sha = job[r].sha
          /\ job'[r].version = job[r].version /\ job'[r].todo = job[r].todo
      BY <1>1, <2>4, OpenJob
    <3>2. Mine(r)' = Mine(r) /\ Made(Dir(r))' = Made(Dir(r))
      BY <1>2, <3>1 DEF Mine, Made
    <3>3. Held(r)'
      BY <1>1, <1>2, <3>1, <3>2 DEF Held, Active
    <3> QED BY <1>1, <1>2, <3>1, <3>2, <3>3 DEF Calm, Active, Idle
  <2> QED BY <2>1, <2>2, <2>3, <2>4
<1>4. job'[r].calm => \A i \in DOMAIN Plan(r) : i < job'[r].step => Whole(Plan(r)[i])'
  BY <1>1, <1>2, StayWhole DEF Calm
<1>5. Calm(r)'
  BY <1>2, <1>3, <1>4 DEF Calm
<1>6. \A s \in Programs : Held(s)' /\ Calm(s)'
  BY <1>1, <1>2, <1>3, <1>5, Bystanders
<1>7. Places' /\ Digested'
  BY <1>1, <1>2, <1>3, Unwritten
<1>8. Alone' /\ TInv'
  BY <1>1, <1>2, StillAlone, PlaceTypes
<1> QED BY <1>6, <1>7, <1>8 DEF MInv

LEMMA Earlier ==
    ASSUME NEW r \in Programs, NEW j \in Stages(r), NEW i \in DOMAIN Plan(r), i < j
    PROVE  Plan(r)[i] \in Dirs /\ Plan(r)[i] # Plan(r)[j]
  BY DEF Programs, Plan, Stages, Dirs

\* What a program did before is in other directories than the one it is in.
LEMMA DoneBefore ==
    ASSUME MInv, NEW r \in Programs, Active(r), job[r].calm, UNCHANGED manifest,
           \A d \in Dirs \ {Dir(r)} : files'[d] = files[d] /\ marker'[d] = marker[d],
           NEW i \in DOMAIN Plan(r), i < job[r].step
    PROVE  Whole(Plan(r)[i])'
<1>1. job[r].step \in Stages(r)
  BY DEF Active, MInv, TInv, Placed
<1>2. Plan(r)[i] \in Dirs \ {Dir(r)} /\ Whole(Plan(r)[i])
  BY <1>1, Earlier DEF Dir, MInv, Calm
<1> QED BY <1>2, StayWhole

\* Only one program is active when no runs overlapped.
LEMMA OneActive ==
    ASSUME MInv, ~overlapped, NEW r \in Programs, Active(r), NEW s \in Programs, Active(s)
    PROVE  s = r
  BY DEF MInv, Alone, Active, Idle

LEMMA ReplaceKeeps == ASSUME MInv, NEW r \in Programs, Replace(r) PROVE MInv'
<1>0. PICK d \in Dirs : d = Dir(r)
  BY ReplaceJob DEF MInv
<1>1. PICK n \in job[r].todo :
           /\ Only(r) /\ job[r].at = "write" /\ d \in Dirs /\ n \in Names
           /\ files' = [files EXCEPT ![d][n] = job[r].version]
           /\ job'[r].at = IF job[r].todo = {n} THEN "stale" ELSE "write"
           /\ job'[r].todo = job[r].todo \ {n} /\ job'[r].temp = FALSE
           /\ job'[r].old = job[r].old /\ job'[r].version = job[r].version
           /\ job'[r].step = job[r].step
           /\ job'[r].sha = job[r].sha /\ job'[r].calm = job[r].calm
  BY <1>0, ReplaceJob DEF MInv
<1>2. /\ TInv /\ Held(r) /\ Calm(r) /\ Active(r) /\ Active(r)' /\ ~Idle(r) /\ ~Idle(r)'
      /\ Dir(r)' = d /\ Mine(r)' = Mine(r)
      /\ UNCHANGED <<manifest, stray, marker, cut, overlapped>>
  BY <1>0, <1>1 DEF MInv, Active, Idle, Dir, Mine, Replace
<1>3. /\ files \in [Dirs -> [Names -> Valid \cup Others]]
      /\ \A e \in Dirs \ {d} : files'[e] = files[e]
      /\ files'[d][n] = job[r].version
      /\ \A k \in Names \ {n} : files'[d][k] = files[d][k]
  BY <1>1, <1>2 DEF TInv, TypeOK
<1>4. Held(r)'
  <2>1. Mine(r) \subseteq Names
    BY <1>0, <1>1, <1>2, PlannedNames, ManagedAssumption DEF Mine, TInv, Placed
  <2>2. (~overlapped)' => \A k \in Mine(r) \ job'[r].todo :
           files'[d][k] \in {job[r].version, "user", "odd"}
    BY <1>0, <1>1, <1>2, <1>3, <2>1 DEF Held
  <2> QED BY <1>0, <1>1, <1>2, <2>2 DEF Held, Active
<1>5. Calm(r)'
  <2> SUFFICES ASSUME job[r].calm PROVE Calm(r)'
    BY <1>1 DEF Calm
  <2>1. \A i \in DOMAIN Plan(r) : i < job'[r].step => Whole(Plan(r)[i])'
    BY <1>0, <1>1, <1>2, <1>3, DoneBefore
  <2>2. Mine(r) \subseteq Names
    BY <1>0, <1>1, <1>2, PlannedNames, ManagedAssumption DEF Mine, TInv, Placed
  <2>3. \A k \in Mine(r) \ job'[r].todo : files'[d][k] = manifest
    BY <1>0, <1>1, <1>2, <1>3, <2>2 DEF Calm
  <2> QED BY <1>0, <1>1, <1>2, <2>1, <2>3 DEF Calm, Active
<1>6. ASSUME NEW e \in Dirs PROVE Shaped(e)' /\ Listed(e)'
  <2>1. Shaped(e) /\ Listed(e)
    BY DEF MInv, Places
  <2>2. Shaped(e)'
    BY <1>2, <2>1 DEF Shaped
  <2>3. ASSUME ~overlapped, NEW k \in Made(e)'
        PROVE  \/ k \in marker[e].names
               \/ \E v \in cut[e] : k \in Planned(e, v)
               \/ \E s \in Programs : /\ Active(s)' /\ Dir(s)' = e
                                      /\ k \in Mine(s)' \ job'[s].todo
    <3>1. CASE e = d /\ k = n
      BY <1>1, <1>2, <3>1 DEF Held
    <3>2. CASE ~(e = d /\ k = n)
      <4>1. k \in Made(e)
        BY <1>3, <3>2 DEF Made
      <4>2. CASE \E s \in Programs : Active(s) /\ Dir(s) = e /\ k \in Mine(s) \ job[s].todo
        BY <1>0, <1>1, <1>2, <2>3, <4>2, OneActive
      <4> QED BY <2>1, <2>3, <4>1, <4>2 DEF Listed
    <3> QED BY <3>1, <3>2
  <2> QED BY <1>2, <2>2, <2>3 DEF Listed
<1>7. Digested'
  <2> SUFFICES ASSUME ~overlapped, cut["strings"] = {}, marker["strings"] # NoMarker
               PROVE  \/ files'["strings"]["output"] \in {marker["strings"].digests, "user", "odd"}
                      \/ \E s \in Programs : /\ Active(s)' /\ Dir(s)' = "strings"
                                             /\ "output" \notin job'[s].todo
    BY <1>2 DEF Digested
  <2>1. CASE d = "strings" /\ n = "output"
    BY <1>1, <1>2, <2>1
  <2>2. CASE ~(d = "strings" /\ n = "output")
    <3>1. files'["strings"]["output"] = files["strings"]["output"]
      BY <1>3, <2>2 DEF Dirs, Names
    <3>2. CASE \E s \in Programs : /\ Active(s) /\ Dir(s) = "strings"
                                   /\ "output" \notin job[s].todo
      BY <1>0, <1>1, <1>2, <3>2, OneActive
    <3> QED BY <3>1, <3>2 DEF MInv, Digested
  <2> QED BY <2>1, <2>2
<1>8. \A s \in Programs : Held(s)' /\ Calm(s)'
  BY <1>1, <1>2, <1>4, <1>5, Bystanders
<1>9. Alone' /\ TInv'
  BY <1>1, <1>2, StillAlone, ReplaceTypes
<1> QED BY <1>6, <1>7, <1>8, <1>9 DEF MInv, Places

LEMMA RemoveKeeps == ASSUME MInv, NEW r \in Programs, RemoveStale(r) PROVE MInv'
<1>0. PICK d \in Dirs : d = Dir(r)
  BY RemoveJob DEF MInv
<1>1. /\ Only(r) /\ job[r].at = "stale" /\ d \in Dirs
      /\ job'[r].at = "marker" /\ job'[r].old = job[r].old
      /\ job'[r].version = job[r].version /\ job'[r].todo = job[r].todo
      /\ job'[r].step = job[r].step /\ job'[r].temp = job[r].temp
      /\ job'[r].sha = job[r].sha /\ job'[r].calm = job[r].calm
  BY <1>0, RemoveJob DEF MInv
<1>2. /\ TInv /\ Held(r) /\ Calm(r) /\ Active(r) /\ Active(r)' /\ ~Idle(r) /\ ~Idle(r)'
      /\ Dir(r)' = d /\ Mine(r)' = Mine(r) /\ job[r].todo = {} /\ job[r].version \in Valid
      /\ UNCHANGED <<manifest, stray, marker, cut, overlapped>>
  BY <1>0, <1>1 DEF MInv, TInv, Placed, Held, Active, Idle, Dir, Mine, RemoveStale
<1>3. /\ files \in [Dirs -> [Names -> Valid \cup Others]]
      /\ \A e \in Dirs \ {d} : files'[e] = files[e]
      /\ \A k \in Names : files'[d][k] = IF k \in job[r].old \ Mine(r) THEN "absent"
                                                                  ELSE files[d][k]
  BY <1>0, <1>1, <1>2 DEF TInv, TypeOK, RemoveStale
<1>4. Mine(r) \subseteq Names /\ "output" \in Mine(r)
  BY <1>0, <1>1, <1>2, PlannedNames, ManagedAssumption DEF Mine, Planned
<1>5. \A e \in Dirs : Made(e)' \subseteq Made(e)
  BY <1>3 DEF Made, Others
<1>6. Held(r)'
  <2>1. (~overlapped)' => \A k \in Mine(r) :
           files'[d][k] \in {job[r].version, "user", "odd"}
    BY <1>0, <1>1, <1>2, <1>3, <1>4 DEF Held
  <2>2. ASSUME ~overlapped, NEW k \in Made(d)'
        PROVE  k \in Mine(r) \/ \E v \in cut[d] : k \in Planned(d, v)
    <3>1. k \in Made(d) /\ k \in Names /\ (k \in job[r].old => k \in Mine(r))
      <4>1. k \in Names /\ files'[d][k] # "absent" /\ k \in Made(d)
        BY <1>1, <1>5, <2>2 DEF Made, Others
      <4> QED BY <1>3, <4>1
    <3>2. marker[d].names = job[r].old
      BY <1>0, <1>1, <1>2, <2>2 DEF Held
    <3>3. CASE \E s \in Programs : Active(s) /\ Dir(s) = d /\ k \in Mine(s) \ job[s].todo
      BY <1>2, <2>2, <3>3, OneActive
    <3> QED BY <1>1, <2>2, <3>1, <3>2, <3>3 DEF MInv, Places, Listed
  <2>3. (~overlapped)' => \A k \in Made(Dir(r))' :
           k \in Mine(r)' \/ \E v \in cut'[d] : k \in Planned(d, v)
    BY <1>2, <2>2 DEF Made
  <2> QED BY <1>1, <1>2, <2>1, <2>3 DEF Held, Active
<1>7. Calm(r)'
  <2> SUFFICES ASSUME job[r].calm PROVE Calm(r)'
    BY <1>1 DEF Calm
  <2>1. \A i \in DOMAIN Plan(r) : i < job'[r].step => Whole(Plan(r)[i])'
    BY <1>0, <1>1, <1>2, <1>3, DoneBefore
  <2>2. \A k \in Mine(r) : files'[d][k] = manifest
    BY <1>0, <1>1, <1>2, <1>3, <1>4 DEF Calm
  <2> QED BY <1>0, <1>1, <1>2, <2>1, <2>2 DEF Calm, Active
<1>8. ASSUME NEW e \in Dirs PROVE Shaped(e)' /\ Listed(e)'
  <2>1. Shaped(e) /\ Listed(e) /\ Made(e)' \subseteq Made(e)
    BY <1>5 DEF MInv, Places
  <2>2. Shaped(e)'
    BY <1>2, <2>1 DEF Shaped
  <2>3. ASSUME ~overlapped, NEW k \in Made(e)'
        PROVE  \/ k \in marker[e].names
               \/ \E v \in cut[e] : k \in Planned(e, v)
               \/ \E s \in Programs : /\ Active(s)' /\ Dir(s)' = e
                                      /\ k \in Mine(s)' \ job'[s].todo
    <3>1. CASE \E s \in Programs : Active(s) /\ Dir(s) = e /\ k \in Mine(s) \ job[s].todo
      BY <1>0, <1>1, <1>2, <2>3, <3>1, OneActive
    <3> QED BY <2>1, <2>3, <3>1 DEF Listed
  <2> QED BY <1>2, <2>2, <2>3 DEF Listed
<1>9. Digested'
  <2>1. CASE d = "strings"
    BY <1>1, <1>2, <2>1 DEF Digested
  <2>2. CASE d # "strings"
    <3>1. files'["strings"] = files["strings"]
      BY <1>3, <2>2 DEF Dirs
    <3>2. ASSUME NEW s \in Programs, ~overlapped, Active(s), Dir(s) = "strings" PROVE FALSE
      BY <1>0, <1>2, <2>2, <3>2, OneActive
    <3> QED BY <1>2, <3>1, <3>2 DEF MInv, Digested
  <2> QED BY <2>1, <2>2
<1>10. \A s \in Programs : Held(s)' /\ Calm(s)'
  BY <1>1, <1>2, <1>6, <1>7, Bystanders
<1>11. Alone' /\ TInv'
  BY <1>1, <1>2, StillAlone, RemoveTypes
<1> QED BY <1>8, <1>9, <1>10, <1>11 DEF MInv, Places

LEMMA MarkerKeeps == ASSUME MInv, NEW r \in Programs, ReplaceMarker(r) PROVE MInv'
<1>0. PICK d \in Dirs : d = Dir(r)
  BY MarkerJob DEF MInv
<1>1. /\ Only(r) /\ job[r].at = "marker" /\ d \in Dirs
      /\ job'[r].at \in {"read", "load", "check"}
      /\ job'[r].at = "check" => Plan(r)[job'[r].step] = "assets"
      /\ job'[r].at = "load" => Plan(r)[job'[r].step] # "assets"
      /\ job'[r].step = job[r].step + 1 /\ job'[r].temp = FALSE
      /\ job'[r].at = "read" => job[r].step = Len(Plan(r))
      /\ job'[r].calm = job[r].calm
  BY <1>0, MarkerJob DEF MInv
<1>2. /\ TInv /\ Held(r) /\ Calm(r) /\ Active(r) /\ ~Active(r)' /\ ~Idle(r) /\ ~Idle(r)'
      /\ job[r].todo = {} /\ job[r].version \in Valid
      /\ UNCHANGED <<manifest, stray, files, cut, overlapped>>
  BY <1>1 DEF MInv, TInv, Placed, Held, Active, Idle, ReplaceMarker
<1>3. /\ marker'[d] = Recorded(r) /\ \A e \in Dirs \ {d} : marker'[e] = marker[e]
      /\ \A e \in Dirs : Made(e)' = Made(e)
  BY <1>0, <1>1, <1>2 DEF ReplaceMarker, TInv, TypeOK, Made
<1>4. /\ Recorded(r).names = Mine(r) /\ Mine(r) = Planned(d, job[r].version)
      /\ d = "strings" => /\ Recorded(r).digests = job[r].version
                          /\ Recorded(r).manifest = job[r].sha
                          /\ "output" \in Mine(r)
  BY <1>0 DEF Recorded, Marker, Mine, Planned
<1>5. /\ Dir(r)' = Plan(r)[job'[r].step]
      /\ job'[r].at = "load" => Dir(r)' # "assets"
      /\ job'[r].at = "check" => Dir(r)' = "assets"
  BY <1>1 DEF Dir
<1>6. Held(r)'
  BY <1>1, <1>2, <1>5 DEF Held, Active
<1>7. Calm(r)'
  <2> SUFFICES ASSUME job[r].calm PROVE Calm(r)'
    BY <1>1 DEF Calm
  <2>1. job[r].version = manifest /\ (d = "strings" => job[r].sha = manifest)
        /\ (\A n \in Mine(r) : files[d][n] = manifest)
    BY <1>0, <1>1, <1>2 DEF Calm
  <2>2. Whole(d)'
    BY <1>2, <1>3, <1>4, <2>1 DEF Whole
  <2>3. job[r].step \in Stages(r)
    BY <1>1 DEF MInv, TInv, Placed
  <2>4. ASSUME NEW i \in DOMAIN Plan(r), i < job'[r].step PROVE Whole(Plan(r)[i])'
    <3>1. CASE i = job[r].step
      BY <1>0, <2>2, <3>1 DEF Dir
    <3>2. CASE i # job[r].step
      <4>1. i < job[r].step
        BY <1>1, <2>3, <2>4, <3>2 DEF Stages, Plan
      <4> QED BY <1>0, <1>2, <1>3, <4>1, DoneBefore
    <3> QED BY <3>1, <3>2
  <2> QED BY <1>1, <1>2, <1>5, <2>4 DEF Calm, Active
<1>8. ASSUME NEW e \in Dirs PROVE Shaped(e)' /\ Listed(e)'
  <2>1. Shaped(e) /\ Listed(e)
    BY DEF MInv, Places
  <2>2. Shaped(e)'
    <3>1. CASE e = d
      BY <1>2, <1>3, <1>4, <2>1, <3>1 DEF Shaped
    <3>2. CASE e # d
      BY <1>2, <1>3, <2>1, <3>2 DEF Shaped
    <3> QED BY <3>1, <3>2
  <2>3. ASSUME ~overlapped, NEW k \in Made(e)
        PROVE  \/ k \in marker'[e].names
               \/ \E v \in cut[e] : k \in Planned(e, v)
               \/ \E s \in Programs : /\ Active(s)' /\ Dir(s)' = e
                                      /\ k \in Mine(s)' \ job'[s].todo
    <3>1. CASE e = d
      BY <1>0, <1>1, <1>2, <1>3, <1>4, <2>3, <3>1 DEF Held
    <3>2. CASE e # d
      <4>1. ASSUME NEW s \in Programs, Active(s), Dir(s) = e PROVE FALSE
        BY <1>0, <1>2, <2>3, <3>2, <4>1, OneActive
      <4> QED BY <1>3, <2>1, <2>3, <3>2, <4>1 DEF Listed
    <3> QED BY <3>1, <3>2
  <2> QED BY <1>2, <1>3, <2>2, <2>3 DEF Listed
<1>9. Digested'
  <2>1. CASE d = "strings"
    <3>1. ~overlapped => files["strings"]["output"] \in {job[r].version, "user", "odd"}
      BY <1>0, <1>1, <1>2, <1>4, <2>1 DEF Held
    <3> QED BY <1>2, <1>3, <1>4, <2>1, <3>1 DEF Digested
  <2>2. CASE d # "strings"
    <3>1. marker'["strings"] = marker["strings"]
      BY <1>3, <2>2 DEF Dirs
    <3>2. ASSUME NEW s \in Programs, ~overlapped, Active(s), Dir(s) = "strings" PROVE FALSE
      BY <1>0, <1>2, <2>2, <3>2, OneActive
    <3> QED BY <1>2, <3>1, <3>2 DEF MInv, Digested
  <2> QED BY <2>1, <2>2
<1>10. \A s \in Programs : Held(s)' /\ Calm(s)'
  BY <1>1, <1>2, <1>6, <1>7, Bystanders
<1>11. Alone' /\ TInv'
  BY <1>1, <1>2, StillAlone, MarkerTypes
<1> QED BY <1>8, <1>9, <1>10, <1>11 DEF MInv, Places

\* A program that ends. What it had written is in cut from then on, and so is
\* the run that left a temporary file.
LEMMA EndKeeps ==
    ASSUME MInv, NEW r \in Programs, Read(r) \/ Fail(r) \/ Die(r) PROVE MInv'
<1>1. /\ TInv /\ Held(r) /\ Only(r) /\ ~Idle(r) /\ job'[r].at = "idle"
      /\ job'[r].temp = FALSE /\ job'[r].calm = FALSE
      /\ UNCHANGED <<manifest, files, marker, overlapped>>
      /\ stray \in [Dirs -> BOOLEAN] /\ cut \in [Dirs -> SUBSET Valid]
      /\ \A e \in Dirs : Made(e)' = Made(e)
  BY EndJob DEF MInv, TInv, TypeOK, Read, Fail, Die, Idle, Held, Made
<1>2. Active(r) => /\ Dir(r) \in Dirs /\ "output" \in Mine(r)
                   /\ Mine(r) = Planned(Dir(r), job[r].version)
  BY <1>1, DirType DEF Active, Mine, Planned
<1>3. /\ Active(r) /\ job[r].temp => job[r].version \in cut'[Dir(r)]
      /\ Active(r) => Mine(r) \ job[r].todo = {} \/ job[r].version \in cut'[Dir(r)]
      /\ \A e \in Dirs : cut[e] \subseteq cut'[e]
  <2>1. CASE Read(r)
    BY <1>1, <2>1 DEF Read, Active
  <2>2. CASE LeavesUnfinished(r) /\ Unfinished(r)
    <3>1. Active(r) /\ cut' = [cut EXCEPT ![Dir(r)] = @ \cup {job[r].version}]
      BY <2>2 DEF LeavesUnfinished, Unfinished, Active
    <3> QED BY <1>1, <1>2, <3>1
  <2>3. CASE LeavesUnfinished(r) /\ ~Unfinished(r)
    BY <1>1, <1>2, <2>3 DEF LeavesUnfinished, Unfinished, Active
  <2> QED BY <2>1, <2>2, <2>3 DEF Fail, Die
<1>4. ASSUME NEW e \in Dirs, stray'[e] PROVE stray[e] \/ cut'[e] # {}
  <2>1. CASE Read(r)
    BY <1>4, <2>1 DEF Read
  <2>2. CASE Fail(r) \/ Die(r)
    <3>1. stray'[e] = stray[e] \/ (job[r].temp /\ Dir(r) = e)
      BY <1>1, <2>2 DEF Fail, Die
    <3>2. job[r].temp => Active(r)
      BY <1>1 DEF Held, Active
    <3> QED BY <1>3, <1>4, <3>1, <3>2
  <2> QED BY <2>1, <2>2
<1>5. ~Active(r)' /\ Held(r)' /\ Calm(r)'
  BY <1>1 DEF Active, Held, Calm
<1>6. ASSUME NEW e \in Dirs PROVE Shaped(e)' /\ Listed(e)'
  <2>1. Shaped(e) /\ Listed(e)
    BY DEF MInv, Places
  <2>2. Shaped(e)'
    BY <1>1, <1>3, <1>4, <2>1 DEF Shaped
  <2>3. ASSUME ~overlapped, NEW k \in Made(e)
        PROVE  k \in marker[e].names \/ \E v \in cut'[e] : k \in Planned(e, v)
    <3>1. CASE \E s \in Programs : Active(s) /\ Dir(s) = e /\ k \in Mine(s) \ job[s].todo
      <4>1. PICK s \in Programs : Active(s) /\ Dir(s) = e /\ k \in Mine(s) \ job[s].todo
        BY <3>1
      <4>2. s = r
        BY <1>1, <2>3, <4>1 DEF MInv, Alone, Active, Idle
      <4> QED BY <1>2, <1>3, <4>1, <4>2
    <3> QED BY <1>3, <2>1, <2>3, <3>1 DEF Listed
  <2> QED BY <1>1, <2>2, <2>3 DEF Listed
<1>7. Digested'
  <2> SUFFICES ASSUME ~overlapped, cut'["strings"] = {}, marker["strings"] # NoMarker
               PROVE  files["strings"]["output"] \in {marker["strings"].digests, "user", "odd"}
    BY <1>1 DEF Digested
  <2>1. cut["strings"] = {}
    BY <1>3 DEF Dirs
  <2>2. ASSUME NEW s \in Programs, Active(s), Dir(s) = "strings", "output" \notin job[s].todo
        PROVE  FALSE
    <3>1. s = r
      BY <1>1, <2>2 DEF MInv, Alone, Active, Idle
    <3> QED BY <1>2, <1>3, <2>2, <3>1
  <2> QED BY <2>1, <2>2 DEF MInv, Digested
<1>8. \A s \in Programs : Held(s)' /\ Calm(s)'
  BY <1>1, <1>5, Bystanders
<1>9. Alone' /\ TInv'
  BY <1>1, StillAlone, StopTypes
<1> QED BY <1>6, <1>7, <1>8, <1>9 DEF MInv, Places

LEMMA BeginKeeps == ASSUME MInv, NEW r \in Programs, Begin(r) PROVE MInv'
<1>1. /\ TInv /\ job \in [Programs -> Job] /\ job[r].at = "idle"
      /\ job' = [s \in Programs |->
                   IF s = r THEN [NoJob EXCEPT !.at = "load", !.calm = Quiet]
                            ELSE [job[s] EXCEPT !.calm = FALSE]]
      /\ UNCHANGED <<manifest, files, stray, marker, cut>>
      /\ overlapped' = (overlapped \/ ~Quiet)
      /\ \A e \in Dirs : Made(e)' = Made(e)
  BY DEF MInv, TInv, TypeOK, Begin, Idle, Made
<1>2. /\ job'[r].at = "load" /\ job'[r].step = 1 /\ job'[r].temp = FALSE
      /\ job'[r].calm = Quiet
  BY <1>1 DEF NoJob
<1>3. \A s \in Programs \ {r} :
         /\ job'[s].at = job[s].at /\ job'[s].step = job[s].step
         /\ job'[s].version = job[s].version /\ job'[s].sha = job[s].sha
         /\ job'[s].todo = job[s].todo /\ job'[s].temp = job[s].temp
         /\ job'[s].old = job[s].old /\ job'[s].calm = FALSE
  BY <1>1 DEF Job
<1>4. ASSUME NEW s \in Programs \ {r} PROVE Held(s)' /\ Calm(s)'
  <2>1. /\ Active(s)' = Active(s) /\ Dir(s)' = Dir(s) /\ Mine(s)' = Mine(s)
        /\ Made(Dir(s))' = Made(Dir(s))
    BY <1>1, <1>3 DEF Active, Dir, Mine, Made
  <2>2. /\ Held(s) /\ (~overlapped' => ~overlapped) /\ job'[s].calm = FALSE
        /\ UNCHANGED <<files, marker, cut>>
    BY <1>1, <1>3 DEF MInv
  <2>3. Held(s)'
    BY <1>3, <2>1, <2>2 DEF Held
  <2> QED BY <2>2, <2>3 DEF Calm
<1>5. Held(r)' /\ Calm(r)'
  <2>1. Dir(r)' = "branding"
    BY <1>2, Plans DEF Dir
  <2>2. ~\E i \in DOMAIN Plan(r) : i < 1
    BY DEF Plan
  <2> QED BY <1>2, <2>1, <2>2 DEF Held, Calm, Active, Idle
<1>6. Alone'
  <2> SUFFICES ASSUME NEW s \in Programs, NEW t \in Programs, s # t, ~Idle(s)', ~Idle(t)'
               PROVE  overlapped' /\ ~job'[s].calm
    BY DEF Alone
  <2>1. CASE s # r /\ t # r
    <3>1. overlapped
      BY <1>3, <2>1 DEF MInv, Alone, Idle
    <3> QED BY <1>1, <1>3, <2>1, <3>1
  <2>2. CASE s = r \/ t = r
    <3>1. ~Quiet
      BY <1>3, <2>2 DEF Quiet, Idle
    <3> QED BY <1>1, <1>2, <1>3, <3>1
  <2> QED BY <2>1, <2>2
<1>7. \A s \in Programs : Active(s) =>
         /\ Active(s)' /\ Dir(s)' = Dir(s) /\ Mine(s)' = Mine(s)
         /\ job'[s].todo = job[s].todo
  BY <1>1, <1>3 DEF Active, Dir, Mine
<1>8. ASSUME NEW e \in Dirs PROVE Shaped(e)' /\ Listed(e)'
  <2>1. Shaped(e) /\ Listed(e) /\ Made(e)' = Made(e)
    BY <1>1 DEF MInv, Places
  <2>2. Shaped(e)'
    BY <1>1, <2>1 DEF Shaped
  <2>3. ASSUME ~overlapped, NEW n \in Made(e)
        PROVE  \/ n \in marker[e].names
               \/ \E v \in cut[e] : n \in Planned(e, v)
               \/ \E s \in Programs : /\ Active(s)' /\ Dir(s)' = e
                                      /\ n \in Mine(s)' \ job'[s].todo
    BY <1>7, <2>1, <2>3 DEF Listed
  <2> QED BY <1>1, <2>1, <2>2, <2>3 DEF Listed
<1>9. Digested'
  BY <1>1, <1>7 DEF MInv, Digested
<1> QED BY <1>4, <1>5, <1>6, <1>8, <1>9, BeginTypes DEF MInv, Places

\* The developer's steps: no program is calm after them.
LEMMA DisturbedKeeps ==
    ASSUME MInv, Disturbed, UNCHANGED <<overlapped, cut>>
    PROVE  /\ Alone'
           /\ \A s \in Programs :
                /\ Active(s)' = Active(s) /\ Dir(s)' = Dir(s) /\ Mine(s)' = Mine(s)
                /\ job'[s].at = job[s].at /\ job'[s].version = job[s].version
                /\ job'[s].todo = job[s].todo /\ job'[s].temp = job[s].temp
                /\ job'[s].old = job[s].old /\ Calm(s)'
<1>1. job \in [Programs -> Job] /\ job' = [s \in Programs |-> [job[s] EXCEPT !.calm = FALSE]]
  BY DEF MInv, TInv, TypeOK, Disturbed
<1>2. \A s \in Programs :
         /\ job'[s].at = job[s].at /\ job'[s].version = job[s].version
         /\ job'[s].todo = job[s].todo /\ job'[s].temp = job[s].temp
         /\ job'[s].old = job[s].old /\ job'[s].step = job[s].step
         /\ job'[s].calm = FALSE
  BY <1>1 DEF Job
<1>3. Alone'
  BY <1>2 DEF MInv, Alone, Idle
<1> QED BY <1>2, <1>3 DEF Active, Dir, Mine, Calm

LEMMA DeveloperKeeps == ASSUME MInv, Developer PROVE MInv'
<1>1. TInv' /\ TInv /\ files \in [Dirs -> [Names -> Valid \cup Others]]
  BY DeveloperTypes DEF MInv, TInv, TypeOK
<1>2. CASE EditManifest \/ \E d \in Dirs : PutFile(d)
  <2>1. Disturbed /\ UNCHANGED <<stray, marker, cut, overlapped>>
    BY <1>2 DEF EditManifest, PutFile, Act
  <2>2. \A e \in Dirs, n \in Names :
           files'[e][n] = files[e][n] \/ files'[e][n] \in {"user", "odd"}
    BY <1>1, <1>2 DEF EditManifest, PutFile
  <2>3. /\ Alone'
        /\ \A s \in Programs :
             /\ Active(s)' = Active(s) /\ Dir(s)' = Dir(s) /\ Mine(s)' = Mine(s)
             /\ job'[s].at = job[s].at /\ job'[s].version = job[s].version
             /\ job'[s].todo = job[s].todo /\ job'[s].temp = job[s].temp
             /\ job'[s].old = job[s].old /\ Calm(s)'
    BY <2>1, DisturbedKeeps
  <2>4. ASSUME NEW e \in Dirs PROVE Made(e)' \subseteq Made(e)
    BY <2>2 DEF Made, Others
  <2>5. ASSUME NEW s \in Programs PROVE Held(s)'
    <3>1. Held(s)
      BY DEF MInv
    <3>2. CASE Active(s)
      <4>1. Dir(s) \in Dirs /\ Mine(s) \subseteq Names
        <5>1. Dir(s) \in Dirs /\ job[s].version \in Valid
          BY <1>1, <3>2, DirType DEF Active, TInv, Placed
        <5> QED BY <5>1, PlannedNames, ManagedAssumption DEF Mine
      <4>2. Made(Dir(s))' \subseteq Made(Dir(s))
        BY <2>2, <2>3, <4>1 DEF Made, Others
      <4>3. (~overlapped)' => \A n \in Mine(s) \ job[s].todo :
               files'[Dir(s)][n] \in {job[s].version, "user", "odd"}
        BY <2>1, <2>2, <3>1, <3>2, <4>1 DEF Held
      <4> QED BY <2>1, <2>3, <3>1, <3>2, <4>2, <4>3 DEF Held
    <3>3. CASE ~Active(s)
      BY <2>1, <2>3, <3>1, <3>3 DEF Held, Active
    <3> QED BY <3>2, <3>3
  <2>6. ASSUME NEW e \in Dirs PROVE Shaped(e)' /\ Listed(e)'
    <3>1. Shaped(e) /\ Listed(e)
      BY DEF MInv, Places
    <3>2. Shaped(e)'
      BY <2>1, <3>1 DEF Shaped
    <3>3. ASSUME ~overlapped, NEW n \in Made(e)'
          PROVE  \/ n \in marker[e].names
                 \/ \E v \in cut[e] : n \in Planned(e, v)
                 \/ \E s \in Programs : /\ Active(s)' /\ Dir(s)' = e
                                        /\ n \in Mine(s)' \ job'[s].todo
      <4>1. n \in Made(e)
        BY <2>4, <3>3
      <4> QED BY <2>3, <3>1, <3>3, <4>1 DEF Listed
    <3> QED BY <2>1, <3>2, <3>3 DEF Listed
  <2>7. Digested'
    <3>1. \/ files'["strings"]["output"] = files["strings"]["output"]
          \/ files'["strings"]["output"] \in {"user", "odd"}
      BY <2>2 DEF Dirs, Names
    <3> QED BY <2>1, <2>3, <3>1 DEF MInv, Digested
  <2> QED BY <1>1, <2>3, <2>5, <2>6, <2>7 DEF MInv, Places
<1>3. ASSUME NEW d \in Dirs, RemoveDirectory(d) PROVE MInv'
  <2>1. /\ Disturbed /\ Quiet /\ UNCHANGED overlapped
        /\ files'[d] = Empty /\ stray'[d] = FALSE /\ marker'[d] = NoMarker
        /\ cut'[d] = {}
        /\ \A e \in Dirs \ {d} : /\ files'[e] = files[e] /\ stray'[e] = stray[e]
                                 /\ marker'[e] = marker[e] /\ cut'[e] = cut[e]
    BY <1>1, <1>3 DEF RemoveDirectory, Act, TInv, TypeOK
  <2>2. job \in [Programs -> Job] /\ job' = [s \in Programs |-> [job[s] EXCEPT !.calm = FALSE]]
    BY <1>1, <2>1 DEF TInv, TypeOK, Disturbed
  <2>3. \A s \in Programs :
           /\ job[s].at = "idle" /\ job'[s].at = "idle"
           /\ job'[s].temp = job[s].temp /\ job'[s].calm = FALSE
    BY <2>1, <2>2 DEF Quiet, Idle, Job
  <2>4. Alone' /\ \A s \in Programs : Held(s)' /\ Calm(s)' /\ ~Active(s)' /\ ~Active(s)
    BY <2>3 DEF MInv, Alone, Idle, Held, Calm, Active
  <2>5. ASSUME NEW e \in Dirs PROVE Shaped(e)' /\ Listed(e)'
    <3>1. Shaped(e) /\ Listed(e)
      BY DEF MInv, Places
    <3>2. CASE e = d
      <4>1. Made(e)' = {}
        BY <2>1, <3>2 DEF Made, Empty, Others
      <4> QED BY <2>1, <3>2, <4>1 DEF Shaped, Listed
    <3>3. CASE e # d
      <4>1. Made(e)' = Made(e)
        BY <2>1, <3>3 DEF Made
      <4> QED BY <2>1, <2>4, <3>1, <3>3, <4>1 DEF Shaped, Listed
    <3> QED BY <3>2, <3>3
  <2>6. Digested'
    BY <2>1, <2>4 DEF MInv, Digested, Dirs
  <2> QED BY <1>1, <2>4, <2>5, <2>6 DEF MInv, Places
<1> QED BY <1>2, <1>3 DEF Developer

LEMMA NextKeeps == ASSUME MInv, [Next]_vars PROVE MInv'
<1>1. CASE UNCHANGED vars
  <2>1. \A s \in Programs : (Held(s) /\ Calm(s))' = (Held(s) /\ Calm(s))
    BY <1>1 DEF vars, Held, Calm, Idle, Active, Dir, Mine, Made, Whole
  <2>2. TInv'
    BY NextTypes DEF MInv
  <2>3. Alone' /\ Places' /\ Digested'
    BY <1>1 DEF vars, MInv, Alone, Idle, Places, Shaped, Listed, Made, Digested,
                Active, Dir, Mine
  <2> QED BY <2>1, <2>2, <2>3 DEF MInv
<1>2. ASSUME NEW r \in Programs, Generator(r) PROVE MInv'
  BY <1>2, BeginKeeps, PlaceKeeps, ReplaceKeeps, RemoveKeeps, MarkerKeeps, EndKeeps
     DEF Generator
<1> QED BY <1>1, <1>2, DeveloperKeeps DEF Next

LEMMA InitKeeps == Init => MInv
<1> SUFFICES ASSUME Init PROVE MInv
  OBVIOUS
<1>1. /\ TInv /\ manifest \in Valid /\ overlapped = FALSE
      /\ stray = [d \in Dirs |-> FALSE] /\ cut = [d \in Dirs |-> {}]
      /\ \A r \in Programs : job[r].at = "idle" /\ job[r].temp = FALSE /\ job[r].calm = FALSE
  BY InitTypes DEF Init, NoJob
<1>2. Alone /\ \A r \in Programs : Held(r) /\ Calm(r)
  BY <1>1 DEF Alone, Idle, Held, Calm, Active
<1>3. CASE Fresh
  <2>1. \A d \in Dirs : Made(d) = {} /\ marker[d] = NoMarker
    BY <1>3 DEF Fresh, Made, Empty, Others
  <2> QED BY <1>1, <1>2, <2>1 DEF MInv, Places, Shaped, Listed, Digested, Dirs
<1>4. CASE Generated
  <2>1. \A d \in Dirs :
           /\ \A n \in Names : files[d][n] = IF n \in Planned(d, manifest) THEN manifest
                                                                          ELSE "absent"
           /\ marker[d].names = Planned(d, manifest)
           /\ d = "strings" => marker[d].digests = manifest
    BY <1>4 DEF Generated, Marker
  <2>2. \A d \in Dirs : Shaped(d) /\ Listed(d)
    BY <1>1, <2>1 DEF Shaped, Listed, Made, Others
  <2>3. Digested
    BY <2>1 DEF Digested, Dirs, Names, Planned
  <2> QED BY <1>1, <1>2, <2>2, <2>3 DEF MInv, Places
<1> QED BY <1>3, <1>4 DEF Init

LEMMA ManagedHolds == Spec => []MInv
<1>1. MInv /\ [Next]_vars => MInv'
  BY NextKeeps
<1> QED BY InitKeeps, <1>1, PTL DEF Spec

-----------------------------------------------------------------------------

\* What a program that was alone reads is of one manifest, with nothing else
\* generated beside it: generated_payload of product.py, build_control.py.
THEOREM CalmReadsOneManifest == Spec => []CalmRunIsWhole
<1>1. MInv => CalmRunIsWhole
  <2> SUFFICES ASSUME MInv, NEW r \in Programs, job[r].at = "read", job[r].calm,
                      NEW i \in DOMAIN Plan(r)
               PROVE  LET d == Plan(r)[i]
                          planned == Planned(d, manifest)
                      IN /\ \A n \in planned : files[d][n] = manifest
                         /\ marker[d].names = planned
                         /\ d = "strings" => /\ marker[d].digests = manifest
                                             /\ marker[d].manifest = manifest
                         /\ \/ overlapped \/ cut[d] # {}
                            \/ \A n \in Names \ planned : files[d][n] \in Others
    BY DEF CalmRunIsWhole
  <2>1. Plan(r)[i] \in Dirs /\ i < job[r].step
    BY DEF MInv, Calm, Plan, Dirs, Programs
  <2>2. PICK d \in Dirs : d = Plan(r)[i]
    BY <2>1
  <2>3. Whole(d)
    BY <2>1, <2>2 DEF MInv, Calm
  <2>4. ASSUME ~overlapped, cut[d] = {}, NEW n \in Names \ Planned(d, manifest)
        PROVE  files[d][n] \in Others
    <3>1. n \notin marker[d].names
      BY <2>3, <2>4 DEF Whole
    <3>2. ~\E s \in Programs : Active(s)
      BY <2>4 DEF MInv, Alone, Active, Idle
    <3> QED BY <2>4, <3>1, <3>2 DEF MInv, Places, Listed, Made
  <2> QED BY <2>2, <2>3, <2>4 DEF Whole
<1> QED BY <1>1, ManagedHolds, PTL

\* Each generator takes the directory it left, unless a run was cut short in
\* it: check_managed_directory and check_output.
THEOREM InterruptedRunCanRepeat == Spec => []InterruptedRunRepeats
<1>1. MInv => InterruptedRunRepeats
  <2> SUFFICES ASSUME MInv, Quiet, ~overlapped, manifest \in Valid,
                      NEW d \in Dirs, Touched(d) = {}, ~Blocked(d)
               PROVE  Accepts(d, Planned(d, manifest))
    BY DEF InterruptedRunRepeats
  <2>1. /\ Shaped(d) /\ Listed(d)
        /\ files[d] \in [Names -> Valid \cup Others] /\ stray[d] \in BOOLEAN
        /\ \A n \in Names : files[d][n] \notin {"user", "odd"}
        /\ \A r \in Programs : job[r].at = "idle" /\ ~Active(r)
    BY DEF MInv, Places, TInv, TypeOK, Touched, Quiet, Idle, Active
  <2>2. \A n \in Names : /\ files[d][n] # "absent"
                         /\ n \notin marker[d].names
                         => \E v \in cut[d] : n \in Planned(d, v)
    BY <2>1 DEF Listed, Made, Others
  <2>3. "output" \in Names /\ \A v \in Versions : "output" \in Planned(d, v)
    BY DEF Names, Planned
  <2>4. marker[d] # NoMarker => \E v \in Valid : marker[d].names = Planned(d, v)
    BY <2>1 DEF Shaped
  <2>5. CASE marker[d] = NoMarker
    <3>1. cut[d] = {}
      BY <2>5 DEF Blocked, Dirs
    <3>2. \A n \in Names : files[d][n] = "absent"
      BY <2>2, <2>5, <3>1 DEF NoMarker, Marker
    <3>3. files[d] = Empty
      BY <2>1, <3>2 DEF Empty
    <3>4. IsEmpty(d)
      BY <2>1, <2>5, <3>1, <3>3 DEF IsEmpty, Shaped
    <3> QED BY <3>4 DEF Accepts
  <2>6. CASE marker[d] # NoMarker /\ d = "branding"
    <3>1. "output" \in marker[d].names
      BY <2>3, <2>4, <2>6, ManagedAssumption
    <3>2. ASSUME NEW n \in Planned(d, manifest) \ marker[d].names
          PROVE  files[d][n] = "absent"
      <4>1. n = DesktopName[manifest] /\ n \in Names
        BY <2>6, <3>1, <3>2, PlannedNames, ManagedAssumption DEF Planned
      <4>2. ASSUME files[d][n] # "absent" PROVE FALSE
        <5>1. PICK v \in cut[d] : n \in Planned(d, v)
          BY <2>2, <3>2, <4>1, <4>2
        <5>2. n = DesktopName[v]
          BY <2>6, <3>1, <3>2, <5>1 DEF Planned
        <5> QED BY <2>6, <3>2, <4>1, <5>1, <5>2 DEF Blocked
      <4> QED BY <4>2
    <3>3. \A n \in Planned(d, manifest) \cup marker[d].names : n \in Names
      BY <2>4, <2>6, PlannedNames, ManagedAssumption
    <3>4. BrandingAccepts(Planned(d, manifest))
      BY <2>1, <2>6, <3>2, <3>3 DEF BrandingAccepts
    <3> QED BY <2>6, <3>4 DEF Accepts
  <2>7. CASE marker[d] # NoMarker /\ d = "assets"
    <3>1. marker[d].names = Planned(d, manifest) /\ Planned(d, manifest) = {"output"}
      BY <2>4, <2>7, PlannedNames, ManagedAssumption
    <3>2. AssetsAccept(Planned(d, manifest))
      BY <2>1, <2>3, <2>7, <3>1 DEF AssetsAccept
    <3> QED BY <2>7, <3>2 DEF Accepts
  <2>8. CASE marker[d] # NoMarker /\ d = "strings"
    <3>1. cut[d] = {} /\ ~stray[d]
      BY <2>1, <2>8 DEF Blocked, Shaped
    <3>2. marker[d].names = Planned(d, manifest) /\ Planned(d, manifest) = {"output"}
      BY <2>4, <2>8 DEF Planned
    <3>3. files[d]["output"] = marker[d].digests
      BY <2>1, <2>3, <2>8, <3>1 DEF MInv, Digested
    <3>4. \A n \in Names \ {"output"} : files[d][n] = "absent"
      BY <2>2, <3>1, <3>2
    <3>5. StringsAccept(Planned(d, manifest))
      BY <2>8, <3>1, <3>2, <3>3, <3>4 DEF StringsAccept
    <3> QED BY <2>8, <3>5 DEF Accepts
  <2> QED BY <2>5, <2>6, <2>7, <2>8 DEF Dirs
<1> QED BY <1>1, ManagedHolds, PTL
=============================================================================
