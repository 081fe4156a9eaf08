---------------------- MODULE ProductIntegrationProofs ----------------------
(***************************************************************************)
(* Proofs about ProductIntegration for any sources, patches, targets and   *)
(* bounds.                                                                 *)
(*                                                                         *)
(* Proved are the type invariant; that prepare never touches an edit it    *)
(* does not recognise; that verify accepts only what the present sources   *)
(* make of the checkout; that a prepare that completed verifies; that one  *)
(* that was interrupted can be repeated; and that a package is of an       *)
(* integration that verified. All rest on one inductive invariant. Its     *)
(* parts say what the running prepare carries (Carried), that past the     *)
(* check nothing it may touch is a person's work except what was touched   *)
(* since (Guarded), and that a payload or receipt no source change raced   *)
(* with is the payload of one state of the sources (Matched). The last     *)
(* three facts add what an undisturbed prepare leaves at each of its steps *)
(* (Undisturbed) and what the binaries were compiled from (Compiled).      *)
(***************************************************************************)
EXTENDS ProductIntegration, TLAPS

Working == {"check", "retire", "write", "replace"}

\* A set of staged files with the versions they were read in.
IsFiles(f) == DOMAIN f \subseteq Dest /\ \A n \in DOMAIN f : f[n] \in Versions

PayloadOf(ws) == Merged(SourcePayload(ws), PatchPayload(ws))

States == [Sources -> Versions \cup {Absent}]

HistoryType ==
    history \in [steady : BOOLEAN, raced : BOOLEAN, racedReceipt : BOOLEAN,
                 late : SUBSET Dest, quiet : BOOLEAN,
                 last : {"none", "started", "refused", "interrupted",
                         "completed"}]

StoreType ==
    /\ wanted \in States
    /\ tree \in [Dest -> Contents]
    /\ stray \in BOOLEAN
    /\ IsFiles(receipt.files)
    /\ HistoryType

\* What a running prepare carries from its reads to its writes.
Carried ==
    /\ prep.phase \in {"idle", "patched"} \cup Working
    /\ prep.phase = "idle" => prep = Idle
    /\ prep.phase = "patched" =>
         /\ IsFiles(prep.previous)
         /\ IsFiles(prep.patched)
         /\ DOMAIN prep.patched \subseteq Upstream
    /\ prep.phase \in Working =>
         /\ prep = [phase |-> prep.phase, previous |-> prep.previous,
                    patched |-> prep.patched, payload |-> prep.payload,
                    restores |-> prep.restores, todo |-> prep.todo,
                    writing |-> prep.writing]
         /\ IsFiles(prep.previous)
         /\ IsFiles(prep.payload)
         /\ prep.patched = DOMAIN prep.payload \cap Upstream
         /\ prep.restores = Restores(prep.previous, prep.payload)
    /\ prep.phase \in {"check", "retire"} =>
         prep.todo \subseteq Moves(prep.previous, prep.payload)
    /\ prep.phase \in {"write", "replace"} => prep.todo \subseteq DOMAIN Staged
    /\ prep.phase = "replace" => stray = TRUE /\ prep.writing \in prep.todo

\* Past the check, a person's work among the files prepare may touch is newer
\* than the check.
Guarded ==
    prep.phase \in {"retire", "write", "replace"} =>
        \A n \in DOMAIN prep.payload \cup DOMAIN prep.previous :
            PersonsWork(n) => n \in history.late

\* Without a source change in between, what was read is of one moment.
Matched ==
    /\ (prep.phase = "patched" /\ ~history.raced)
         => prep.patched = PatchPayload(wanted)
    /\ (prep.phase \in Working /\ ~history.raced)
         => prep.payload = PayloadOf(wanted)
    /\ (receipt # NoReceipt /\ ~history.racedReceipt)
         => \E ws \in States : /\ receipt.files = PayloadOf(ws)
                               /\ receipt.sources = Present(ws)

IInv == StoreType /\ Carried /\ Guarded /\ Matched

-----------------------------------------------------------------------------
(* The payloads.                                                           *)

\* The patches yield versions of upstream files, for any state of the sources.
LEMMA PatchPayloadType ==
    ASSUME NEW ws \in States
    PROVE  /\ IsFiles(PatchPayload(ws))
           /\ DOMAIN PatchPayload(ws) \subseteq Upstream
<1> DEFINE live == {p \in Patches : ws[p] \in Touching}
           image == {PatchedFile[p] : p \in live}
<1>1. PatchPayload(ws) =
        [u \in image |-> ws[CHOOSE p \in live : PatchedFile[p] = u]]
  BY DEF PatchPayload
<1>2. image \subseteq Upstream
  BY FilesAssumption
<1>3. ASSUME NEW u \in image
      PROVE  ws[CHOOSE p \in live : PatchedFile[p] = u] \in Versions
  <2>1. \E p \in live : PatchedFile[p] = u
    OBVIOUS
  <2>2. (CHOOSE p \in live : PatchedFile[p] = u) \in live
    BY <2>1
  <2> QED BY <2>2, FilesAssumption
<1> HIDE DEF image, live
<1> QED BY <1>1, <1>2, <1>3 DEF IsFiles, Dest

\* The sources are staged in the versions they have, under their own names.
LEMMA SourcePayloadType ==
    ASSUME NEW ws \in States
    PROVE  /\ IsFiles(SourcePayload(ws))
           /\ DOMAIN SourcePayload(ws) \subseteq Sources
BY DEF IsFiles, SourcePayload, Present, States, Dest, Sources

\* Putting the two together keeps the upstream files those of the patches.
LEMMA MergeType ==
    ASSUME NEW f, NEW g, IsFiles(f), IsFiles(g),
           DOMAIN f \subseteq Upstream, DOMAIN g \subseteq Sources
    PROVE  /\ IsFiles(Merged(g, f))
           /\ DOMAIN f = DOMAIN Merged(g, f) \cap Upstream
<1>1. Sources \cap Upstream = {}
  BY FilesAssumption DEF Sources
<1> QED BY <1>1 DEF IsFiles, Merged

\* What prepare writes covers the payload and the restored files, and is never
\* an edit or a missing file.
LEMMA StagedType ==
    ASSUME Carried, prep.phase \in Working
    PROVE  /\ DOMAIN Staged \subseteq DOMAIN prep.payload \cup DOMAIN prep.previous
           /\ \A n \in DOMAIN Staged : Staged[n] \in Versions \cup {Pristine}
<1>1. /\ IsFiles(prep.payload)
      /\ prep.restores = [u \in Retired(prep.previous, prep.payload) \cap Upstream
                            |-> Pristine]
  BY DEF Carried, Restores
<1>2. /\ DOMAIN Staged = DOMAIN prep.payload \cup DOMAIN prep.restores
      /\ \A n \in DOMAIN Staged :
           Staged[n] = IF n \in DOMAIN prep.restores THEN prep.restores[n]
                                                     ELSE prep.payload[n]
  BY DEF Staged, Merged
<1> QED BY <1>1, <1>2 DEF IsFiles, Retired

\* The check lets nothing pass that is a person's work.
LEMMA CheckFindsWork ==
    ASSUME StoreType, Carried, prep.phase = "check", Validated,
           NEW n \in DOMAIN prep.payload \cup DOMAIN prep.previous
    PROVE  ~PersonsWork(n)
<1>1. /\ IsFiles(prep.previous) /\ IsFiles(prep.payload)
      /\ prep.patched = DOMAIN prep.payload \cap Upstream
      /\ prep.restores = [u \in Retired(prep.previous, prep.payload) \cap Upstream
                            |-> Pristine]
  BY DEF Carried, Restores, Working
<1>2. /\ DOMAIN Staged \subseteq DOMAIN prep.payload \cup DOMAIN prep.previous
      /\ \A m \in DOMAIN Staged : Staged[m] \in Versions \cup {Pristine}
  BY StagedType DEF Working
<1>3. DOMAIN prep.payload \subseteq DOMAIN Staged
  BY DEF Staged, Merged
<1> DEFINE original == prep.patched \cup DOMAIN prep.restores
<1>4. Recognised(Staged, original, prep.previous, n)
  BY <1>3 DEF Validated, CheckChanges
<1>5. n \in Upstream => n \in original
  BY <1>1 DEF Retired
<1>6. tree[n] \in Versions \cup {Pristine} \/ (tree[n] = Absent /\ n \notin original)
  BY <1>1, <1>2, <1>4 DEF Recognised, IsFiles
<1> QED BY <1>5, <1>6, FilesAssumption DEF PersonsWork, Absent, Edit, Pristine

-----------------------------------------------------------------------------
(* The invariant is inductive.                                             *)

\* The first run starts from an untouched checkout without a receipt.
LEMMA InitIInv == Init => IInv
<1> SUFFICES ASSUME Init PROVE IInv
  OBVIOUS
<1>1. StoreType
  <2>1. wanted \in States
    BY FilesAssumption DEF Init, States
  <2>2. tree \in [Dest -> Contents]
    BY DEF Init, Contents, Untouched
  <2>3. IsFiles(receipt.files)
    BY DEF Init, NoReceipt, IsFiles
  <2> QED BY <2>1, <2>2, <2>3 DEF Init, StoreType, HistoryType
<1>2. Carried /\ Guarded /\ Matched
  BY DEF Init, Idle, Carried, Guarded, Matched, Working
<1> QED BY <1>1, <1>2 DEF IInv

\* The developer's steps: what they touch counts as touched since the check,
\* and as a race with the prepare that runs.
LEMMA DeveloperStep == IInv /\ Developer => IInv'
<1> SUFFICES ASSUME IInv, Developer PROVE IInv'
  OBVIOUS
<1> USE DEF IInv
<1>1. ASSUME NEW s \in Sources, NEW v \in Versions \cup {Absent}, ChangeSource(s, v)
      PROVE  IInv'
  <2>1. StoreType'
    BY <1>1 DEF ChangeSource, StoreType, HistoryType, States
  <2>2. Carried'
    BY <1>1 DEF ChangeSource, Carried, Staged
  <2>3. Guarded'
    BY <1>1 DEF ChangeSource, Guarded, PersonsWork, StoreType, HistoryType
  <2>4. Matched'
    BY <1>1 DEF ChangeSource, Matched, StoreType, HistoryType
  <2> QED BY <2>1, <2>2, <2>3, <2>4
<1>2. ASSUME NEW n \in Dest, NEW c \in Contents, ChangeTree(n, c)
      PROVE  IInv'
  <2>1. StoreType'
    BY <1>2 DEF ChangeTree, StoreType, HistoryType
  <2>2. Carried'
    BY <1>2 DEF ChangeTree, Carried, Staged
  <2>3. Guarded'
    BY <1>2 DEF ChangeTree, Guarded, PersonsWork, StoreType, HistoryType
  <2>4. Matched'
    BY <1>2 DEF ChangeTree, Matched, StoreType, HistoryType
  <2> QED BY <2>1, <2>2, <2>3, <2>4
<1>3. ASSUME RemoveStray PROVE IInv'
  <2>1. StoreType'
    BY <1>3 DEF RemoveStray, StoreType, HistoryType
  <2>2. Carried'
    BY <1>3 DEF RemoveStray, Carried, Staged
  <2>3. Guarded'
    BY <1>3 DEF RemoveStray, Guarded, PersonsWork, StoreType, HistoryType
  <2>4. Matched'
    BY <1>3 DEF RemoveStray, Matched, StoreType, HistoryType
  <2> QED BY <2>1, <2>2, <2>3, <2>4
<1> QED BY <1>1, <1>2, <1>3 DEF Developer

\* Builds and the stager leave the overlay and its receipt alone.
LEMMA BuildStep ==
    ASSUME IInv,
           \/ BuildAndStage
           \/ UNCHANGED vars
    PROVE  IInv'
<1>1. /\ UNCHANGED <<wanted, tree, stray, receipt, prep>>
      /\ history' = history \/ history' = [history EXCEPT !.quiet = TRUE]
  BY DEF BuildAndStage, StartBuild, Compile, FinishBuild, FailBuild,
         StageRelease, vars
<1>2. HistoryType' /\ UNCHANGED <<history.late, history.raced, history.racedReceipt>>
  BY <1>1 DEF IInv, StoreType, HistoryType
<1>3. StoreType' /\ Carried'
  BY <1>1, <1>2 DEF IInv, StoreType, Carried, Staged
<1>4. Guarded' /\ Matched'
  BY <1>1, <1>2 DEF IInv, Guarded, Matched, PersonsWork
<1> QED BY <1>3, <1>4 DEF IInv

\* prepare reads the patches, then everything else; what it carries is of the
\* present sources unless one changed in between.
LEMMA ReadStep == IInv /\ (ReadPatches \/ ReadSources) => IInv'
<1> SUFFICES ASSUME IInv, ReadPatches \/ ReadSources PROVE IInv'
  OBVIOUS
<1> USE DEF IInv
<1>1. wanted \in States
  BY DEF StoreType
<1>2. CASE ReadPatches
  <2>1. StoreType'
    BY <1>2 DEF ReadPatches, StoreType, HistoryType
  <2>2. /\ IsFiles(PatchPayload(wanted))
        /\ DOMAIN PatchPayload(wanted) \subseteq Upstream
    BY <1>1, PatchPayloadType
  <2>3. /\ prep'.phase = "patched"
        /\ prep'.previous = receipt.files
        /\ prep'.patched = PatchPayload(wanted)
    BY <1>2 DEF ReadPatches
  <2>4. Carried'
    BY <2>2, <2>3 DEF Carried, Working, StoreType
  <2>5. Guarded'
    BY <2>3 DEF Guarded
  <2>6. Matched'
    BY <1>2, <2>3 DEF ReadPatches, Matched, Working, StoreType, HistoryType
  <2> QED BY <2>1, <2>4, <2>5, <2>6
<1>3. CASE ReadSources
  <2> DEFINE payload == Merged(SourcePayload(wanted), prep.patched)
  <2>1. StoreType'
    BY <1>3 DEF ReadSources, StoreType, HistoryType
  <2>2. /\ prep.phase = "patched"
        /\ IsFiles(prep.previous) /\ IsFiles(prep.patched)
        /\ DOMAIN prep.patched \subseteq Upstream
    BY <1>3 DEF ReadSources, Carried
  <2>3. /\ IsFiles(SourcePayload(wanted))
        /\ DOMAIN SourcePayload(wanted) \subseteq Sources
    BY <1>1, SourcePayloadType
  <2>4. IsFiles(payload) /\ DOMAIN prep.patched = DOMAIN payload \cap Upstream
    BY <2>2, <2>3, MergeType
  <2>5. prep' = [phase |-> "check", previous |-> prep.previous,
                 patched |-> DOMAIN prep.patched, payload |-> payload,
                 restores |-> Restores(prep.previous, payload),
                 todo |-> Moves(prep.previous, payload), writing |-> NoName]
    BY <1>3 DEF ReadSources
  <2>6. Carried'
    <3> HIDE DEF payload
    <3> QED BY <2>2, <2>4, <2>5 DEF Carried, Working
  <2>7. Guarded'
    BY <2>5 DEF Guarded
  <2>8. Matched'
    <3>1. ~history.raced => payload = PayloadOf(wanted)
      BY <2>2 DEF Matched, PayloadOf
    <3> HIDE DEF payload
    <3> QED BY <1>3, <2>5, <3>1 DEF ReadSources, Matched, Working
  <2> QED BY <2>1, <2>6, <2>7, <2>8
<1> QED BY <1>2, <1>3

\* The check: from here on the files prepare may touch hold no one's work.
LEMMA CheckStep == IInv /\ Check => IInv'
<1> SUFFICES ASSUME IInv, Check PROVE IInv'
  OBVIOUS
<1> USE DEF IInv
<1>1. StoreType'
  BY DEF Check, StoreType, HistoryType
<1>2. CASE Validated /\ prep' = [prep EXCEPT !.phase = "retire"]
  <2>1. prep.phase = "check"
    BY DEF Check
  <2>2. prep' = [phase |-> "retire", previous |-> prep.previous,
                 patched |-> prep.patched, payload |-> prep.payload,
                 restores |-> prep.restores, todo |-> prep.todo,
                 writing |-> prep.writing]
    BY <1>2, <2>1 DEF Carried, Working
  <2>3. Carried'
    BY <2>1, <2>2 DEF Carried, Working
  <2>4. \A n \in DOMAIN prep.payload \cup DOMAIN prep.previous : ~PersonsWork(n)
    BY <1>2, <2>1, CheckFindsWork
  <2>5. Guarded'
    BY <2>2, <2>4 DEF Check, Guarded, PersonsWork
  <2>6. Matched'
    BY <2>1, <2>2 DEF Check, Matched, Working, StoreType, HistoryType
  <2> QED BY <1>1, <2>3, <2>5, <2>6
<1>3. CASE prep' = Idle
  BY <1>1, <1>3 DEF Check, Carried, Guarded, Matched, Idle, Working, StoreType,
                    HistoryType
<1> QED BY <1>2, <1>3 DEF Check

\* Moving and writing files: no step makes a person's work of a file.
LEMMA WritingStep ==
    ASSUME IInv,
           \/ \E n \in Dest : Retire(n) \/ Write(n)
           \/ StartWriting \/ Replace
    PROVE  IInv'
<1> USE DEF IInv
<1>1. ASSUME NEW n \in Dest, Retire(n) PROVE IInv'
  <2>1. StoreType'
    BY <1>1 DEF Retire, StoreType, HistoryType, Contents
  <2>2. prep.phase = "retire"
    BY <1>1 DEF Retire
  <2>3. prep' = [phase |-> "retire", previous |-> prep.previous,
                 patched |-> prep.patched, payload |-> prep.payload,
                 restores |-> prep.restores, todo |-> prep.todo \ {n},
                 writing |-> prep.writing]
    BY <1>1, <2>2 DEF Retire, Carried, Working
  <2>4. Carried'
    BY <2>2, <2>3 DEF Carried, Working
  <2>5. n \notin Upstream
    BY <1>1, <2>2 DEF Retire, Carried, Moves
  <2>6. history'.late = history.late
    BY <1>1 DEF Retire, StoreType, HistoryType
  <2>7. Guarded'
    BY <1>1, <2>2, <2>3, <2>5, <2>6
    DEF Retire, Guarded, PersonsWork, StoreType, Absent, Edit
  <2>8. Matched'
    BY <1>1, <2>2, <2>3 DEF Retire, Matched, Working, StoreType, HistoryType
  <2> QED BY <2>1, <2>4, <2>7, <2>8
<1>2. ASSUME NEW n \in Dest, Write(n) PROVE IInv'
  <2>1. StoreType'
    BY <1>2 DEF Write, StoreType, HistoryType
  <2>2. prep.phase = "write" /\ n \in prep.todo
    BY <1>2 DEF Write
  <2>3. \E ph \in {"write", "replace"}, w \in {prep.writing, n}, left \in SUBSET prep.todo :
          /\ prep' = [phase |-> ph, previous |-> prep.previous,
                      patched |-> prep.patched, payload |-> prep.payload,
                      restores |-> prep.restores, todo |-> left, writing |-> w]
          /\ ph = "replace" => w = n /\ left = prep.todo /\ stray' = TRUE
    BY <1>2, <2>2 DEF Write, Carried, Working
  <2>4. Carried'
    BY <2>2, <2>3 DEF Carried, Working, Staged
  <2>5. Guarded'
    BY <1>2, <2>2, <2>3 DEF Write, Guarded, PersonsWork
  <2>6. Matched'
    BY <1>2, <2>2, <2>3 DEF Write, Matched, Working
  <2> QED BY <2>1, <2>4, <2>5, <2>6
<1>3. CASE StartWriting
  <2>1. StoreType'
    BY <1>3 DEF StartWriting, StoreType, HistoryType
  <2>2. prep.phase = "retire"
    BY <1>3 DEF StartWriting
  <2>3. prep' = [phase |-> "write", previous |-> prep.previous,
                 patched |-> prep.patched, payload |-> prep.payload,
                 restores |-> prep.restores, todo |-> DOMAIN Staged,
                 writing |-> prep.writing]
    BY <1>3, <2>2 DEF StartWriting, Carried, Working
  <2>4. Carried'
    BY <2>2, <2>3 DEF Carried, Working, Staged
  <2>5. Guarded' /\ Matched'
    BY <1>3, <2>2, <2>3 DEF StartWriting, Guarded, Matched, PersonsWork, Working
  <2> QED BY <2>1, <2>4, <2>5
<1>4. CASE Replace
  <2>1. prep.phase = "replace" /\ prep.writing \in prep.todo
    BY <1>4 DEF Replace, Carried
  <2>2. Staged[prep.writing] \in Versions \cup {Pristine}
    BY <2>1, StagedType DEF Carried, Working
  <2>3. StoreType'
    BY <1>4, <2>2 DEF Replace, StoreType, HistoryType, Contents
  <2>4. prep' = [phase |-> "write", previous |-> prep.previous,
                 patched |-> prep.patched, payload |-> prep.payload,
                 restores |-> prep.restores, todo |-> prep.todo \ {prep.writing},
                 writing |-> NoName]
    BY <1>4, <2>1 DEF Replace, Carried, Working
  <2>5. Carried'
    BY <2>1, <2>4 DEF Carried, Working, Staged
  <2>6. history'.late = history.late
    BY <1>4 DEF Replace, StoreType, HistoryType
  <2>7. Staged[prep.writing] # Edit /\ Staged[prep.writing] # Absent
    BY <2>2, FilesAssumption DEF Edit, Absent, Pristine
  <2>8. Guarded'
    BY <1>4, <2>1, <2>4, <2>6, <2>7 DEF Replace, Guarded, PersonsWork, StoreType
  <2>9. Matched'
    BY <1>4, <2>1, <2>4 DEF Replace, Matched, Working, StoreType, HistoryType
  <2> QED BY <2>3, <2>5, <2>8, <2>9
<1> QED BY <1>1, <1>2, <1>3, <1>4

\* The end of a prepare, with its receipt or without.
LEMMA EndStep == IInv /\ (WriteReceipt \/ Interrupt) => IInv'
<1> SUFFICES ASSUME IInv, WriteReceipt \/ Interrupt PROVE IInv'
  OBVIOUS
<1> USE DEF IInv
<1>1. CASE WriteReceipt
  <2>1. prep.phase = "write" /\ IsFiles(prep.payload)
    BY <1>1 DEF WriteReceipt, Carried, Working
  <2>2. receipt' = [stamp |-> prepares, files |-> prep.payload,
                    sources |-> Present(wanted)]
    BY <1>1 DEF WriteReceipt
  <2>3. StoreType'
    <3>1. IsFiles(receipt'.files)
      BY <2>1, <2>2
    <3>2. HistoryType'
      BY <1>1 DEF WriteReceipt, StoreType, HistoryType
    <3> QED BY <1>1, <3>1, <3>2 DEF WriteReceipt, StoreType
  <2>4. Carried' /\ Guarded'
    <3>1. prep' = Idle /\ prep'.phase = "idle"
      BY <1>1 DEF WriteReceipt, Idle
    <3> QED BY <3>1 DEF Carried, Guarded, Working
  <2>5. history'.racedReceipt = history.raced
    BY <1>1 DEF WriteReceipt, StoreType, HistoryType
  <2>6. ~history.raced => prep.payload = PayloadOf(wanted)
    BY <2>1 DEF Matched, Working
  <2>7. Matched'
    BY <1>1, <2>2, <2>5, <2>6 DEF WriteReceipt, Matched, Idle, Working, StoreType
  <2> QED BY <2>3, <2>4, <2>7
<1>2. CASE Interrupt
  <2>1. StoreType'
    BY <1>2 DEF Interrupt, StoreType, HistoryType
  <2>2. Carried' /\ Guarded' /\ Matched'
    BY <1>2 DEF Interrupt, Idle, Carried, Guarded, Matched, Working, StoreType,
                HistoryType
  <2> QED BY <2>1, <2>2
<1> QED BY <1>1, <1>2

LEMMA Inductive == IInv /\ [Next]_vars => IInv'
BY DeveloperStep, BuildStep, ReadStep, CheckStep, WritingStep, EndStep
DEF Next, Prepare

\* The invariant holds throughout, for any constants.
THEOREM InvariantHolds == Spec => []IInv
BY InitIInv, Inductive, PTL DEF Spec

-----------------------------------------------------------------------------
(* The properties.                                                         *)

\* prepare never overwrites or moves an edit of the checkout its check could
\* see (product.py:391), for any history of receipts, crashes and edits.
THEOREM PreparePreservesEdits == Spec => EditsKept
<1> DEFINE Kept == \A n \in Dest :
             (prep # Idle /\ prep' # prep /\ PersonsWork(n) /\ n \notin history.late)
                => tree'[n] = tree[n]
<1>1. IInv /\ [Next]_vars => Kept
  <2> SUFFICES ASSUME IInv, [Next]_vars, NEW n \in Dest, prep # Idle,
                      prep' # prep, PersonsWork(n), n \notin history.late
               PROVE  tree'[n] = tree[n]
    OBVIOUS
  <2>1. CASE tree' = tree
    BY <2>1
  <2>2. ASSUME NEW m \in Dest, Retire(m) PROVE tree'[n] = tree[n]
    <3>1. m \in DOMAIN prep.previous
      BY <2>2 DEF IInv, Carried, Retire, Moves, Retired
    <3>2. m # n
      BY <2>2, <3>1 DEF IInv, Guarded, Retire
    <3> QED BY <2>2, <3>2 DEF Retire, IInv, StoreType
  <2>3. CASE Replace
    <3>1. prep.phase = "replace" /\ prep.writing \in DOMAIN Staged
      BY <2>3 DEF IInv, Carried, Replace
    <3>2. prep.writing \in DOMAIN prep.payload \cup DOMAIN prep.previous
      BY <3>1, StagedType DEF IInv, Working
    <3>3. prep.writing # n
      BY <3>1, <3>2 DEF IInv, Guarded
    <3> QED BY <2>3, <3>3 DEF Replace, IInv, StoreType
  <2>4. ASSUME NEW m \in Dest, NEW c \in Contents, ChangeTree(m, c) PROVE FALSE
    BY <2>4 DEF ChangeTree
  <2>5. \/ tree' = tree
        \/ \E m \in Dest : Retire(m)
        \/ Replace
        \/ \E m \in Dest, c \in Contents : ChangeTree(m, c)
    BY DEF Next, Developer, Prepare, BuildAndStage, ChangeSource, RemoveStray,
           ReadPatches, ReadSources, Check, StartWriting, Write, WriteReceipt,
           Interrupt, StartBuild, Compile, FinishBuild, FailBuild, StageRelease,
           vars
  <2> QED BY <2>1, <2>2, <2>3, <2>4, <2>5
<1>2. IInv /\ [Next]_vars => [Kept]_vars
  BY <1>1
<1> QED BY <1>2, InvariantHolds, PTL DEF Spec, EditsKept

\* What verify accepts is what the present product sources make of the
\* checkout, unless a source changed while the receipt's prepare ran.
THEOREM VerifyMeansCurrentSources == Spec => []VerifiedIsCurrentSource
<1>1. IInv => VerifiedIsCurrentSource
  <2> SUFFICES ASSUME IInv, Verifies, ~history.racedReceipt
               PROVE  StagedFromSources
    BY DEF VerifiedIsCurrentSource
  <2>1. PICK ws \in States : /\ receipt.files = PayloadOf(ws)
                             /\ receipt.sources = Present(ws)
    BY DEF IInv, Matched, Verifies
  <2>2. wanted \in States
    BY DEF IInv, StoreType
  <2>3. Present(wanted) = Present(ws)
    BY <2>1 DEF Verifies, VerifyProductSources
  <2>4. ASSUME NEW s \in Sources PROVE wanted[s] = ws[s]
    <3>1. CASE s \notin Present(wanted)
      BY <2>2, <2>3, <3>1 DEF Present, States
    <3>2. CASE s \in Present(wanted)
      <4>1. receipt.files[s] = wanted[s]
        BY <3>2 DEF Verifies, VerifyProductSources
      <4>2. s \notin DOMAIN PatchPayload(ws)
        BY <2>1, PatchPayloadType, FilesAssumption DEF Sources
      <4>3. PayloadOf(ws)[s] = ws[s]
        BY <2>3, <3>2, <4>2 DEF PayloadOf, Merged, SourcePayload
      <4> QED BY <2>1, <4>1, <4>3
    <3> QED BY <3>1, <3>2
  <2>5. wanted = ws
    BY <2>2, <2>4 DEF States
  <2>6. receipt.files = Merged(SourcePayload(wanted), PatchPayload(wanted))
    BY <2>1, <2>5 DEF PayloadOf
  <2>7. ASSUME NEW n \in Dest
        PROVE  tree[n] = IF n \in DOMAIN receipt.files THEN receipt.files[n]
                                                       ELSE Untouched(n)
    <3>1. Changed \subseteq DOMAIN receipt.files
      BY DEF Verifies, CheckChanges
    <3> QED BY <3>1 DEF Verifies, Changed
  <2>8. tree = [n \in Dest |-> IF n \in DOMAIN receipt.files THEN receipt.files[n]
                                                             ELSE Untouched(n)]
    BY <2>7 DEF IInv, StoreType
  <2> QED BY <2>6, <2>8 DEF StagedFromSources
<1> QED BY <1>1, InvariantHolds, PTL

-----------------------------------------------------------------------------
(* The type invariant.                                                     *)

\* What TypeOK needs of the receipts and the build beyond IInv: a prepare that
\* runs has a number, and a build is of a receipt that some prepare wrote.
Numbered ==
    /\ prepares \in 0..MaxPrepares
    /\ prep # Idle => prepares \in 1..MaxPrepares
    /\ receipt.stamp \in 0..MaxPrepares
    /\ receipt # NoReceipt => receipt.stamp \in 1..MaxPrepares
    /\ receipt.sources \subseteq Sources
    /\ out \in [Targets -> {NoOutput} \cup [Dest -> Contents]]
    /\ build # Idle => /\ build = [phase |-> "compile", targets |-> build.targets,
                                  todo |-> build.todo,
                                  integration |-> build.integration]
                       /\ build.todo \subseteq build.targets
                       /\ build.integration.stamp \in 1..MaxPrepares
    /\ \A b \in built : b.integration.stamp \in 1..MaxPrepares

LEMMA InitNumbered == Init => Numbered
BY BoundsAssumption DEF Init, Numbered, NoReceipt

LEMMA NumberedStep == IInv /\ Numbered /\ [Next]_vars => Numbered'
<1> SUFFICES ASSUME IInv, Numbered, [Next]_vars PROVE Numbered'
  OBVIOUS
<1>1. CASE UNCHANGED <<receipt, prep, out, build, built, prepares>>
  BY <1>1 DEF Numbered
<1>2. CASE ReadPatches
  BY <1>2, BoundsAssumption DEF ReadPatches, Numbered
<1>3. CASE /\ prep # Idle
           /\ UNCHANGED <<receipt, out, build, built, prepares>>
  BY <1>3 DEF Numbered
<1>4. CASE WriteReceipt
  <2>1. prep # Idle
    BY <1>4 DEF WriteReceipt, Idle
  <2>2. receipt'.stamp \in 1..MaxPrepares /\ receipt'.sources \subseteq Sources
    BY <1>4, <2>1 DEF WriteReceipt, Numbered, Present, IInv, StoreType, States
  <2>3. 1..MaxPrepares \subseteq 0..MaxPrepares
    BY BoundsAssumption
  <2> QED BY <1>4, <2>2, <2>3 DEF WriteReceipt, Numbered
<1>5. ASSUME NEW ts \in SUBSET Targets, StartBuild(ts) PROVE Numbered'
  BY <1>5 DEF StartBuild, Numbered, Verifies, Idle
<1>6. ASSUME NEW t \in Targets, Compile(t) PROVE Numbered'
  <2>1. out' \in [Targets -> {NoOutput} \cup [Dest -> Contents]]
    BY <1>6 DEF Compile, Numbered, IInv, StoreType
  <2>2. build' = [phase |-> "compile", targets |-> build.targets,
                  todo |-> build.todo \ {t}, integration |-> build.integration]
    <3>1. build = [phase |-> "compile", targets |-> build.targets,
                   todo |-> build.todo, integration |-> build.integration]
      BY <1>6 DEF Compile, Numbered
    <3>2. build' = [build EXCEPT !.todo = build.todo \ {t}]
      BY <1>6 DEF Compile
    <3> QED BY <3>1, <3>2
  <2> QED BY <1>6, <2>1, <2>2 DEF Compile, Numbered
<1>7. CASE FinishBuild
  BY <1>7 DEF FinishBuild, Numbered
<1>8. CASE FailBuild
  BY <1>8 DEF FailBuild, Numbered
<1>9. CASE ReadSources \/ Check \/ StartWriting \/ Replace \/ Interrupt
           \/ \E n \in Dest : Retire(n) \/ Write(n)
  <2>1. prep # Idle
    <3>1. Idle.phase = "idle"
      BY DEF Idle
    <3>2. prep.phase # "idle" \/ prep # Idle
      BY <1>9 DEF ReadSources, Check, StartWriting, Replace, Interrupt, Retire,
                  Write
    <3> QED BY <3>1, <3>2
  <2>2. UNCHANGED <<receipt, out, build, built, prepares>>
    BY <1>9 DEF ReadSources, Check, StartWriting, Replace, Interrupt, Retire, Write
  <2> QED BY <1>3, <2>1, <2>2
<1>10. CASE Developer \/ (\E b \in built : StageRelease(b)) \/ UNCHANGED vars
  BY <1>1, <1>10 DEF Developer, ChangeSource, ChangeTree, RemoveStray,
                     StageRelease, vars
<1> QED BY <1>2, <1>4, <1>5, <1>6, <1>7, <1>8, <1>9, <1>10
        DEF Next, Prepare, BuildAndStage

\* Every variable keeps its type, for any sources, targets and bounds.
THEOREM TypeCorrect == Spec => []TypeOK
<1>1. IInv /\ Numbered => TypeOK
  <2> SUFFICES ASSUME IInv, Numbered PROVE TypeOK
    OBVIOUS
  <2>1. /\ wanted \in [Sources -> Versions \cup {Absent}]
        /\ tree \in [Dest -> Contents]
        /\ stray \in BOOLEAN
        /\ DOMAIN receipt.files \subseteq Dest
        /\ \A n \in DOMAIN receipt.files : receipt.files[n] \in Versions
    BY DEF IInv, StoreType, States, IsFiles
  <2>2. /\ prep.phase \in {"idle", "patched", "check", "retire", "write", "replace"}
        /\ prep.phase = "replace" => stray /\ prep.writing \in prep.todo
    BY DEF IInv, Carried, Working
  <2>3. prep.phase = "retire" => prep.todo \subseteq Dest
    BY DEF IInv, Carried, Working, Moves, Retired, IsFiles
  <2>4. prep.phase = "write" => prep.todo \subseteq Dest
    <3> SUFFICES ASSUME prep.phase = "write" PROVE prep.todo \subseteq Dest
      OBVIOUS
    <3>1. DOMAIN Staged \subseteq DOMAIN prep.payload \cup DOMAIN prep.previous
      BY StagedType DEF IInv, Working
    <3> QED BY <3>1 DEF IInv, Carried, Working, IsFiles
  <2> QED BY <2>1, <2>2, <2>3, <2>4 DEF TypeOK, Numbered
<1> QED BY <1>1, InvariantHolds, InitNumbered, NumberedStep, PTL DEF Spec

-----------------------------------------------------------------------------
(* A prepare nobody interferes with.                                       *)

\* The files that lie in the checkout under a name prepare writes or retires.
Originals == prep.patched \cup DOMAIN prep.restores

\* The check of the running prepare would still take the checkout, but for
\* the temporary file.
Takeable ==
    /\ Changed \subseteq DOMAIN Staged \cup DOMAIN prep.previous
    /\ \A n \in DOMAIN Staged \cup DOMAIN prep.previous :
         Recognised(Staged, Originals, prep.previous, n)

\* What the running prepare has moved out and written is in its place.
Done ==
    /\ prep.phase = "retire" =>
         \A n \in Moves(prep.previous, prep.payload) \ prep.todo : tree[n] = Absent
    /\ prep.phase \in {"write", "replace"} =>
         /\ \A n \in Moves(prep.previous, prep.payload) : tree[n] = Absent
         /\ \A n \in DOMAIN Staged \ prep.todo : tree[n] = Staged[n]

\* What holds of the running prepare, the last part as long as nobody
\* interferes.
Undisturbed ==
    /\ prep.phase # "idle" => prep.previous = receipt.files
    /\ prep.phase \in {"patched", "check"} => history.last = "none"
    /\ prep.phase = "check" => prep.todo = Moves(prep.previous, prep.payload)
    /\ history.steady => ~history.raced
    /\ (prep.phase \in {"retire", "write", "replace"} /\ history.steady) =>
         /\ stray => prep.phase = "replace"
         /\ Takeable
         /\ Done

\* What prepare writes are the payload and the restored files; the files it
\* moves out are others.
LEMMA StagedParts ==
    ASSUME Carried, prep.phase \in Working
    PROVE  /\ DOMAIN Staged = DOMAIN prep.payload \cup DOMAIN prep.restores
           /\ DOMAIN prep.restores =
                (DOMAIN prep.previous \ DOMAIN prep.payload) \cap Upstream
           /\ \A n \in DOMAIN prep.payload : Staged[n] = prep.payload[n]
           /\ \A n \in DOMAIN prep.restores : Staged[n] = Pristine
           /\ Moves(prep.previous, prep.payload) \cap DOMAIN Staged = {}
           /\ Originals \subseteq Upstream
<1>1. /\ prep.restores = [u \in Retired(prep.previous, prep.payload) \cap Upstream
                            |-> Pristine]
      /\ prep.patched = DOMAIN prep.payload \cap Upstream
  BY DEF Carried, Restores
<1>2. /\ DOMAIN Staged = DOMAIN prep.payload \cup DOMAIN prep.restores
      /\ \A n \in DOMAIN Staged :
           Staged[n] = IF n \in DOMAIN prep.restores THEN prep.restores[n]
                                                     ELSE prep.payload[n]
  BY DEF Staged, Merged
<1> QED BY <1>1, <1>2 DEF Retired, Moves, Originals

LEMMA InitUndisturbed == Init => Undisturbed
BY DEF Init, Idle, Undisturbed

\* The developer's steps end the claim; builds leave the checkout alone.
LEMMA UndisturbedOutside ==
    ASSUME IInv, Undisturbed, Developer \/ BuildAndStage \/ UNCHANGED vars
    PROVE  Undisturbed'
<1>1. CASE Developer
  <2>1. /\ UNCHANGED <<prep, receipt>>
        /\ history'.last = history.last /\ ~history'.steady
    BY <1>1 DEF Developer, ChangeSource, ChangeTree, RemoveStray, IInv, StoreType,
                HistoryType
  <2> QED BY <2>1 DEF Undisturbed
<1>2. CASE BuildAndStage \/ UNCHANGED vars
  <2>1. /\ UNCHANGED <<wanted, tree, stray, receipt, prep>>
        /\ history' = history \/ history' = [history EXCEPT !.quiet = TRUE]
    BY <1>2 DEF BuildAndStage, StartBuild, Compile, FinishBuild, FailBuild,
                StageRelease, vars
  <2>2. UNCHANGED <<history.last, history.steady, history.raced>>
    BY <2>1 DEF IInv, StoreType, HistoryType
  <2> QED BY <2>1, <2>2 DEF Undisturbed, Takeable, Done, Staged, Originals, Changed,
                            Recognised
<1> QED BY <1>1, <1>2

\* Up to the check, which finds the checkout as it must be.
LEMMA UndisturbedReads ==
    ASSUME IInv, Undisturbed, ReadPatches \/ ReadSources \/ Check
    PROVE  Undisturbed'
<1>1. CASE ReadPatches
  BY <1>1 DEF ReadPatches, Undisturbed, IInv, StoreType, HistoryType
<1>2. CASE ReadSources
  <2>1. /\ prep'.phase = "check" /\ prep'.previous = prep.previous
        /\ prep'.todo = Moves(prep'.previous, prep'.payload)
    BY <1>2 DEF ReadSources
  <2> QED BY <1>2, <2>1 DEF ReadSources, Undisturbed
<1>3. CASE Check
  <2>1. prep.phase = "check"
    BY <1>3 DEF Check
  <2>2. CASE Validated /\ prep' = [prep EXCEPT !.phase = "retire"]
    <3>1. prep' = [phase |-> "retire", previous |-> prep.previous,
                   patched |-> prep.patched, payload |-> prep.payload,
                   restores |-> prep.restores, todo |-> prep.todo,
                   writing |-> prep.writing]
      BY <2>1, <2>2 DEF IInv, Carried, Working
    <3>2. UNCHANGED <<Staged, Originals, tree, stray, receipt, history.steady,
                      history.raced>>
      BY <1>3, <3>1 DEF Check, Staged, Originals, IInv, StoreType, HistoryType
    <3>3. Takeable /\ ~stray
      BY <2>2 DEF Validated, CheckChanges, Takeable, Originals
    <3>4. Takeable'
      BY <3>1, <3>2, <3>3 DEF Takeable, Changed, Recognised
    <3>5. Done'
      BY <2>1, <3>1 DEF Undisturbed, Done
    <3> QED BY <2>1, <3>1, <3>2, <3>3, <3>4, <3>5 DEF Undisturbed
  <2>3. CASE prep' = Idle
    BY <1>3, <2>3 DEF Check, Undisturbed, Idle, IInv, StoreType, HistoryType
  <2> QED BY <1>3, <2>2, <2>3 DEF Check
<1> QED BY <1>1, <1>2, <1>3

\* Every move and every write leaves a checkout the check would take again.
LEMMA UndisturbedWriting ==
    ASSUME IInv, Undisturbed,
           \/ \E n \in Dest : Retire(n) \/ Write(n)
           \/ StartWriting \/ Replace
    PROVE  Undisturbed'
<1> DEFINE Kept(phase, todo, writing) ==
             prep' = [phase |-> phase, previous |-> prep.previous,
                      patched |-> prep.patched, payload |-> prep.payload,
                      restores |-> prep.restores, todo |-> todo,
                      writing |-> writing]
<1>1. ASSUME NEW phase \in {"write", "retire", "replace"}, NEW todo, NEW writing,
             Kept(phase, todo, writing), prep.phase \in {"write", "retire", "replace"},
             receipt' = receipt,
             UNCHANGED <<history.steady, history.raced>>,
             history.steady /\ Takeable /\ Done /\ (stray => prep.phase = "replace") =>
               Takeable' /\ Done' /\ (stray' => phase = "replace")
      PROVE  Undisturbed'
  BY <1>1 DEF Undisturbed
<1>2. ASSUME NEW n \in Dest, Retire(n) PROVE Undisturbed'
  <2>1. prep.phase = "retire" /\ n \in prep.todo
    BY <1>2 DEF Retire
  <2>2. Kept("retire", prep.todo \ {n}, prep.writing)
    BY <1>2, <2>1 DEF Retire, IInv, Carried, Working
  <2>3. /\ UNCHANGED <<receipt, history.steady, history.raced, stray>>
        /\ tree' = [tree EXCEPT ![n] = Absent]
        /\ tree \in [Dest -> Contents]
    BY <1>2 DEF Retire, IInv, StoreType, HistoryType
  <2>4. UNCHANGED <<Staged, Originals>>
    BY <2>2 DEF Staged, Originals
  <2>5. /\ n \in DOMAIN prep.previous /\ n \notin Upstream
        /\ Originals \subseteq Upstream
    BY <2>1, StagedParts DEF IInv, Carried, Working, Moves, Retired
  <2>6. Takeable => Takeable'
    BY <2>2, <2>3, <2>4, <2>5 DEF Takeable, Changed, Recognised
  <2>7. Done => Done'
    BY <2>1, <2>2, <2>3 DEF Done, Moves, Retired
  <2> QED BY <1>1, <2>1, <2>2, <2>3, <2>6, <2>7
<1>3. CASE StartWriting
  <2>1. prep.phase = "retire" /\ prep.todo = {}
    BY <1>3 DEF StartWriting
  <2>2. Kept("write", DOMAIN Staged, prep.writing)
    BY <1>3, <2>1 DEF StartWriting, IInv, Carried, Working
  <2>3. UNCHANGED <<receipt, history, stray, tree>>
    BY <1>3 DEF StartWriting
  <2>4. UNCHANGED <<Staged, Originals>>
    BY <2>2 DEF Staged, Originals
  <2>5. Takeable => Takeable'
    BY <2>2, <2>3, <2>4 DEF Takeable, Changed, Recognised
  <2>6. Done => Done'
    BY <2>1, <2>2, <2>3, <2>4 DEF Done
  <2> QED BY <1>1, <2>1, <2>2, <2>3, <2>5, <2>6
<1>4. ASSUME NEW n \in Dest, Write(n) PROVE Undisturbed'
  <2>1. prep.phase = "write" /\ n \in prep.todo
    BY <1>4 DEF Write
  <2>2. UNCHANGED <<receipt, history, tree>>
    BY <1>4 DEF Write
  <2>3. CASE /\ tree[n] = Staged[n] /\ stray' = stray
             /\ prep' = [prep EXCEPT !.todo = @ \ {n}]
    <3>1. Kept("write", prep.todo \ {n}, prep.writing)
      BY <2>1, <2>3 DEF IInv, Carried, Working
    <3>2. UNCHANGED <<Staged, Originals>>
      BY <3>1 DEF Staged, Originals
    <3>3. Takeable => Takeable'
      BY <2>2, <3>1, <3>2 DEF Takeable, Changed, Recognised
    <3>4. Done => Done'
      BY <2>1, <2>2, <2>3, <3>1, <3>2 DEF Done
    <3> QED BY <1>1, <2>1, <2>2, <2>3, <3>1, <3>3, <3>4
  <2>4. CASE prep' = [prep EXCEPT !.phase = "replace", !.writing = n]
    <3>1. Kept("replace", prep.todo, n)
      BY <2>1, <2>4 DEF IInv, Carried, Working
    <3>2. UNCHANGED <<Staged, Originals>>
      BY <3>1 DEF Staged, Originals
    <3>3. Takeable => Takeable'
      BY <2>2, <3>1, <3>2 DEF Takeable, Changed, Recognised
    <3>4. Done => Done'
      BY <2>1, <2>2, <3>1, <3>2 DEF Done
    <3> QED BY <1>1, <2>1, <2>2, <3>1, <3>3, <3>4
  <2> QED BY <1>4, <2>3, <2>4 DEF Write
<1>5. CASE Replace
  <2>1. prep.phase = "replace" /\ prep.writing \in prep.todo
    BY <1>5 DEF Replace, IInv, Carried
  <2>2. Kept("write", prep.todo \ {prep.writing}, NoName)
    BY <1>5, <2>1 DEF Replace, IInv, Carried, Working
  <2>3. /\ UNCHANGED <<receipt, history.steady, history.raced>> /\ ~stray'
        /\ tree' = [tree EXCEPT ![prep.writing] = Staged[prep.writing]]
        /\ tree \in [Dest -> Contents]
    BY <1>5 DEF Replace, IInv, StoreType, HistoryType
  <2>4. UNCHANGED <<Staged, Originals>>
    BY <2>2 DEF Staged, Originals
  <2>5. /\ prep.writing \in DOMAIN Staged
        /\ prep.writing \notin Moves(prep.previous, prep.payload)
    BY <2>1, StagedParts DEF IInv, Carried, Working
  <2>6. DOMAIN Staged \cup DOMAIN prep.previous \subseteq Dest
    BY <2>1, StagedParts DEF IInv, Carried, Working, IsFiles
  <2>7. Takeable => Takeable'
    BY <2>2, <2>3, <2>4, <2>5, <2>6 DEF Takeable, Changed, Recognised
  <2>8. Done => Done'
    BY <2>1, <2>2, <2>3, <2>4, <2>5, <2>6 DEF Done, Moves, Retired
  <2> QED BY <1>1, <2>1, <2>2, <2>3, <2>7, <2>8
<1> QED BY <1>2, <1>3, <1>4, <1>5

LEMMA UndisturbedStep == IInv /\ Undisturbed /\ [Next]_vars => Undisturbed'
<1>1. ASSUME IInv, Undisturbed, WriteReceipt \/ Interrupt PROVE Undisturbed'
  <2>1. prep' = Idle /\ prep'.phase = "idle"
    BY <1>1 DEF WriteReceipt, Interrupt, Idle
  <2>2. UNCHANGED <<history.steady, history.raced>>
    BY <1>1 DEF WriteReceipt, Interrupt, IInv, StoreType, HistoryType
  <2> QED BY <1>1, <2>1, <2>2 DEF Undisturbed
<1> QED BY <1>1, UndisturbedOutside, UndisturbedReads, UndisturbedWriting
        DEF Next, Prepare

\* The payload of an undisturbed prepare is that of the present sources.
LEMMA PresentPayload ==
    ASSUME IInv, Undisturbed, history.steady, prep.phase \in Working
    PROVE  /\ prep.payload = PayloadOf(wanted)
           /\ prep.patched = DOMAIN PatchPayload(wanted)
           /\ \A s \in Present(wanted) :
                s \in DOMAIN prep.payload /\ prep.payload[s] = wanted[s]
<1>1. prep.payload = PayloadOf(wanted)
  BY DEF IInv, Undisturbed, Matched
<1>2. wanted \in States
  BY DEF IInv, StoreType
<1>3. /\ IsFiles(PatchPayload(wanted)) /\ DOMAIN PatchPayload(wanted) \subseteq Upstream
      /\ IsFiles(SourcePayload(wanted)) /\ DOMAIN SourcePayload(wanted) \subseteq Sources
  BY <1>2, PatchPayloadType, SourcePayloadType
<1>4. DOMAIN PatchPayload(wanted) = DOMAIN PayloadOf(wanted) \cap Upstream
  BY <1>3, MergeType DEF PayloadOf
<1>5. prep.patched = DOMAIN PatchPayload(wanted)
  BY <1>1, <1>4 DEF IInv, Carried
<1>6. ASSUME NEW s \in Present(wanted)
      PROVE  s \in DOMAIN prep.payload /\ prep.payload[s] = wanted[s]
  <2>1. s \in Sources /\ s \notin Upstream
    BY <1>2, FilesAssumption DEF Present, States, Sources
  <2>2. s \notin DOMAIN PatchPayload(wanted)
    BY <1>3, <2>1
  <2> QED BY <1>1, <2>2 DEF PayloadOf, Merged, SourcePayload
<1> QED BY <1>1, <1>5, <1>6

\* A prepare that completes undisturbed leaves a checkout that verifies.
LEMMA CompletionVerifies ==
    ASSUME IInv, Numbered, Undisturbed, WriteReceipt, history.steady
    PROVE  Verifies'
<1>1. /\ prep.phase = "write" /\ prep.todo = {} /\ prep.phase \in Working
      /\ receipt' = [stamp |-> prepares, files |-> prep.payload,
                     sources |-> Present(wanted)]
      /\ UNCHANGED <<wanted, tree, stray>>
  BY DEF WriteReceipt, Working
<1>2. ~stray /\ Takeable /\ Done
  BY <1>1 DEF Undisturbed
<1>3. receipt' # NoReceipt
  <2>1. prep # Idle
    BY <1>1 DEF Idle
  <2>2. prepares \in 1..MaxPrepares
    BY <2>1 DEF Numbered
  <2>3. prepares # 0
    BY <2>2, BoundsAssumption
  <2> QED BY <1>1, <2>3 DEF NoReceipt
<1>4. \A n \in DOMAIN prep.payload : tree[n] = prep.payload[n]
  BY <1>1, <1>2, StagedParts DEF IInv, Done
<1>5. VerifyProductSources'
  BY <1>1, PresentPayload DEF VerifyProductSources, Present
<1>6. Changed \subseteq DOMAIN prep.payload
  <2> SUFFICES ASSUME NEW n \in Changed, n \notin DOMAIN prep.payload PROVE FALSE
    OBVIOUS
  <2>1. n \in DOMAIN prep.previous
    BY <1>1, <1>2, StagedParts DEF IInv, Takeable
  <2>2. CASE n \in Upstream
    <3>1. n \in DOMAIN prep.restores /\ n \in DOMAIN Staged
      BY <1>1, <2>1, <2>2, StagedParts DEF IInv
    <3>2. tree[n] = Pristine
      BY <1>1, <1>2, <3>1, StagedParts DEF IInv, Done
    <3> QED BY <2>2, <3>2 DEF Changed, Untouched
  <2>3. CASE n \notin Upstream
    <3>1. tree[n] = Absent
      BY <1>1, <1>2, <2>1, <2>3 DEF Done, Moves, Retired
    <3> QED BY <2>3, <3>1 DEF Changed, Untouched
  <2> QED BY <2>2, <2>3
<1>7. CheckChanges(<< >>, {}, receipt.files)'
  <2>1. receipt'.files = prep.payload /\ Changed' = Changed
    BY <1>1 DEF Changed
  <2>2. Changed' \subseteq DOMAIN << >> \cup DOMAIN receipt'.files
    BY <1>6, <2>1
  <2>3. \A n \in DOMAIN << >> \cup DOMAIN receipt'.files :
          n \in DOMAIN receipt'.files /\ tree'[n] = receipt'.files[n]
    BY <1>1, <1>4, <2>1
  <2> QED BY <1>1, <1>2, <2>2, <2>3 DEF CheckChanges, Recognised
<1> QED BY <1>1, <1>3, <1>4, <1>5, <1>7 DEF Verifies

\* Whatever an undisturbed prepare leaves when it is killed, a new one takes.
LEMMA InterruptionRepeats ==
    ASSUME IInv, Undisturbed, Interrupt
    PROVE  InterruptedPrepareRepeats'
<1> SUFFICES ASSUME history.steady, ~stray, history.last = "started"
             PROVE  LET patched  == PatchPayload(wanted)
                        payload  == Merged(SourcePayload(wanted), patched)
                        restores == Restores(receipt.files, payload)
                    IN  CheckChanges(Merged(payload, restores),
                                     DOMAIN patched \cup DOMAIN restores,
                                     receipt.files)
  <2>1. /\ UNCHANGED <<wanted, tree, stray, receipt, history.steady>>
        /\ history'.last = "interrupted" => history.last = "started"
    BY DEF Interrupt, IInv, StoreType, HistoryType
  <2> QED BY <2>1 DEF InterruptedPrepareRepeats, CheckChanges, Changed, Recognised
<1>1. prep.phase \in {"retire", "write", "replace"} /\ prep.phase \in Working
  BY DEF Interrupt, IInv, Carried, Undisturbed, Working
<1>2. Takeable /\ prep.previous = receipt.files
  BY <1>1 DEF Undisturbed
<1>3. prep.payload = PayloadOf(wanted) /\ prep.patched = DOMAIN PatchPayload(wanted)
  BY <1>1, PresentPayload
<1>4. prep.restores = Restores(prep.previous, prep.payload)
  BY <1>1 DEF IInv, Carried
<1>5. CheckChanges(Merged(prep.payload, prep.restores),
                   prep.patched \cup DOMAIN prep.restores, prep.previous)
  BY <1>2 DEF Takeable, CheckChanges, Staged, Originals
<1> QED BY <1>2, <1>3, <1>4, <1>5 DEF PayloadOf

\* Between two prepares nothing but a person disturbs what the last one left.
LEMMA LeftAlone ==
    ASSUME IInv, [Next]_vars, prep = Idle, prep' = Idle, history'.steady
    PROVE  /\ UNCHANGED <<wanted, tree, stray, receipt>>
           /\ history.steady /\ history'.last = history.last
<1>1. Idle.phase = "idle"
  BY DEF Idle
<1>2. ~Developer
  BY DEF Developer, ChangeSource, ChangeTree, RemoveStray, IInv, StoreType,
         HistoryType
<1>3. ~Prepare
  <2>1. ~ReadPatches
    BY <1>1 DEF ReadPatches
  <2> QED BY <1>1, <2>1
          DEF Prepare, ReadSources, Check, StartWriting, Retire, Write, Replace,
              WriteReceipt, Interrupt
<1>4. /\ UNCHANGED <<wanted, tree, stray, receipt>>
      /\ history' = history \/ history' = [history EXCEPT !.quiet = TRUE]
  BY <1>2, <1>3 DEF Next, BuildAndStage, StartBuild, Compile, FinishBuild,
                    FailBuild, StageRelease, vars
<1> QED BY <1>4 DEF IInv, StoreType, HistoryType

LEMMA OutcomeStep ==
    ASSUME IInv, Numbered, Undisturbed, [Next]_vars,
           CompletedPrepareVerifies, InterruptedPrepareRepeats
    PROVE  CompletedPrepareVerifies' /\ InterruptedPrepareRepeats'
<1>1. CASE prep' # Idle
  BY <1>1 DEF CompletedPrepareVerifies, InterruptedPrepareRepeats
<1>2. CASE prep = Idle /\ prep' = Idle
  <2>1. CASE ~history'.steady
    BY <2>1 DEF CompletedPrepareVerifies, InterruptedPrepareRepeats
  <2>2. CASE history'.steady
    <3>1. /\ UNCHANGED <<wanted, tree, stray, receipt>>
          /\ history.steady /\ history'.last = history.last
      BY <1>2, <2>2, LeftAlone
    <3>2. CompletedPrepareVerifies'
      BY <1>2, <3>1 DEF CompletedPrepareVerifies, Verifies, VerifyProductSources,
                        Present, CheckChanges, Changed, Recognised
    <3>3. InterruptedPrepareRepeats'
      BY <1>2, <3>1 DEF InterruptedPrepareRepeats, CheckChanges, Changed, Recognised
    <3> QED BY <3>2, <3>3
  <2> QED BY <2>1, <2>2
<1>3. CASE prep # Idle /\ prep' = Idle
  <2>1. \/ WriteReceipt
        \/ Interrupt
        \/ Check /\ history' = [history EXCEPT !.last = "refused"]
    <3>1. CASE WriteReceipt \/ Interrupt
      BY <3>1
    <3>2. CASE Check
      <4>1. prep.phase = "check"
        BY <3>2 DEF Check
      <4>2. prep' = [prep EXCEPT !.phase = "retire"] => prep'.phase = "retire"
        BY <4>1 DEF IInv, Carried, Working
      <4> QED BY <1>3, <3>2, <4>2 DEF Check, Idle
    <3>3. CASE ReadPatches \/ ReadSources
      BY <1>3, <3>3 DEF ReadPatches, ReadSources, Idle
    <3>4. CASE StartWriting \/ Replace \/ \E n \in Dest : Retire(n) \/ Write(n)
      <4>1. prep.phase \in Working /\ prep'.phase \in {"retire", "write", "replace"}
        BY <3>4 DEF StartWriting, Replace, Retire, Write, IInv, Carried, Working
      <4> QED BY <1>3, <4>1 DEF Idle
    <3>5. CASE Developer \/ BuildAndStage \/ UNCHANGED vars
      BY <1>3, <3>5
      DEF Developer, ChangeSource, ChangeTree, RemoveStray, BuildAndStage,
          StartBuild, Compile, FinishBuild, FailBuild, StageRelease, vars
    <3> QED BY <3>1, <3>2, <3>3, <3>4, <3>5 DEF Next, Prepare
  <2>2. CASE WriteReceipt
    <3>1. history'.steady = history.steady /\ history'.last = "completed"
      BY <2>2 DEF WriteReceipt, IInv, StoreType, HistoryType
    <3> QED BY <2>2, <3>1, CompletionVerifies
            DEF CompletedPrepareVerifies, InterruptedPrepareRepeats
  <2>3. CASE Interrupt
    <3>1. history'.last # "completed"
      BY <2>3 DEF Interrupt, IInv, StoreType, HistoryType
    <3> QED BY <2>3, <3>1, InterruptionRepeats DEF CompletedPrepareVerifies
  <2>4. CASE history' = [history EXCEPT !.last = "refused"]
    <3>1. history'.last = "refused"
      BY <2>4 DEF IInv, StoreType, HistoryType
    <3> QED BY <3>1 DEF CompletedPrepareVerifies, InterruptedPrepareRepeats
  <2> QED BY <2>1, <2>2, <2>3, <2>4
<1> QED BY <1>1, <1>2, <1>3

LEMMA Outcome ==
    Spec => [](CompletedPrepareVerifies /\ InterruptedPrepareRepeats)
<1>1. Init => CompletedPrepareVerifies /\ InterruptedPrepareRepeats
  BY DEF Init, CompletedPrepareVerifies, InterruptedPrepareRepeats
<1> QED BY <1>1, InvariantHolds, InitNumbered, NumberedStep, InitUndisturbed,
           UndisturbedStep, OutcomeStep, PTL DEF Spec

\* A prepare that completes with nobody interfering leaves a checkout verify
\* accepts, whatever receipts and half-staged files it started from.
THEOREM CompletionIsVerified == Spec => []CompletedPrepareVerifies
BY Outcome, PTL

\* A prepare that died anywhere can be run again on the same sources, unless
\* it left its temporary file.
THEOREM InterruptionIsRepeatable == Spec => []InterruptedPrepareRepeats
BY Outcome, PTL

-----------------------------------------------------------------------------
(* Builds and packages.                                                    *)

\* As long as nothing in the checkout changed since the running build verified
\* it, it is its integration, and so is what the build has compiled; a build
\* receipt keeps that of the browser.
Compiled ==
    /\ (build # Idle /\ history.quiet) =>
         /\ tree = Integrated(build.integration)
         /\ \A t \in build.targets \ build.todo : out[t] = tree
    /\ \A b \in built :
         (b.quiet /\ b.targets = Targets) => b.binary = Integrated(b.integration)

\* A checkout that verifies is the one its receipt describes.
LEMMA VerifiedIsIntegrated ==
    ASSUME StoreType, Verifies
    PROVE  tree = Integrated(receipt)
<1>1. Changed \subseteq DOMAIN receipt.files
  BY DEF Verifies, CheckChanges
<1>2. \A n \in Dest : tree[n] = IF n \in DOMAIN receipt.files THEN receipt.files[n]
                                                             ELSE Untouched(n)
  BY <1>1 DEF Verifies, Changed
<1> QED BY <1>2 DEF StoreType, Integrated

LEMMA CompiledStep ==
    ASSUME IInv, Numbered, Compiled, PackagedFromIntegration, [Next]_vars
    PROVE  Compiled' /\ PackagedFromIntegration'
<1>1. CASE /\ UNCHANGED <<out, build, built, package>>
           /\ history'.quiet => history.quiet /\ tree' = tree
  BY <1>1 DEF Compiled, PackagedFromIntegration, Integrated
<1>2. CASE Developer
  BY <1>1, <1>2 DEF Developer, ChangeSource, ChangeTree, RemoveStray, IInv,
                    StoreType, HistoryType
<1>3. CASE Prepare
  <2>1. ASSUME NEW n \in Dest, Retire(n)
        PROVE  history'.quiet => history.quiet /\ tree' = tree
    BY <2>1 DEF Retire, IInv, StoreType, HistoryType
  <2>2. Replace => ~history'.quiet
    BY DEF Replace, IInv, StoreType, HistoryType
  <2>3. \/ Replace
        \/ \E n \in Dest : Retire(n)
        \/ tree' = tree /\ history'.quiet = history.quiet
    BY <1>3 DEF Prepare, ReadPatches, ReadSources, Check, StartWriting, Write,
                WriteReceipt, Interrupt, IInv, StoreType, HistoryType
  <2>4. UNCHANGED <<out, build, built, package>>
    BY <1>3 DEF Prepare, ReadPatches, ReadSources, Check, StartWriting, Retire,
                Write, Replace, WriteReceipt, Interrupt
  <2> QED BY <1>1, <2>1, <2>2, <2>3, <2>4
<1>4. ASSUME NEW ts \in SUBSET Targets \ {{}}, StartBuild(ts)
      PROVE  Compiled' /\ PackagedFromIntegration'
  <2>1. tree = Integrated(receipt)
    BY <1>4, VerifiedIsIntegrated DEF StartBuild, IInv
  <2>2. /\ build' = [phase |-> "compile", targets |-> ts, todo |-> ts,
                     integration |-> receipt]
        /\ UNCHANGED <<tree, built, package>>
    BY <1>4 DEF StartBuild
  <2>3. tree' = Integrated(build'.integration) /\ build'.targets \ build'.todo = {}
    BY <2>1, <2>2 DEF Integrated
  <2> QED BY <2>2, <2>3 DEF Compiled, PackagedFromIntegration, Integrated
<1>5. ASSUME NEW t \in Targets, Compile(t)
      PROVE  Compiled' /\ PackagedFromIntegration'
  <2>1. build = [phase |-> "compile", targets |-> build.targets,
                 todo |-> build.todo, integration |-> build.integration]
    BY <1>5 DEF Compile, Numbered
  <2>2. build' = [phase |-> "compile", targets |-> build.targets,
                  todo |-> build.todo \ {t}, integration |-> build.integration]
    <3>1. build' = [build EXCEPT !.todo = build.todo \ {t}]
      BY <1>5 DEF Compile
    <3> QED BY <2>1, <3>1
  <2>3. /\ build # Idle /\ out' = [out EXCEPT ![t] = tree] /\ t \in DOMAIN out
        /\ UNCHANGED <<tree, history, built, package>>
    BY <1>5 DEF Compile, Numbered
  <2> QED BY <2>2, <2>3 DEF Compiled, PackagedFromIntegration, Integrated
<1>6. CASE FinishBuild
  <2>1. /\ build # Idle /\ build.todo = {} /\ build' = Idle
        /\ UNCHANGED <<tree, history, out, package>>
    BY <1>6 DEF FinishBuild
  <2>2. ASSUME NEW b \in built', b.quiet, b.targets = Targets
        PROVE  b.binary = Integrated(b.integration)
    <3>1. CASE b \in built
      BY <2>2, <3>1 DEF Compiled
    <3>2. CASE b = [integration |-> build.integration, current |-> receipt,
                    binary |-> out["chrome"], targets |-> build.targets,
                    quiet |-> history.quiet]
      BY <2>1, <2>2, <3>2, FilesAssumption DEF Compiled
    <3> QED BY <1>6, <3>1, <3>2 DEF FinishBuild
  <2> QED BY <2>1, <2>2 DEF Compiled, PackagedFromIntegration, Integrated
<1>7. CASE FailBuild
  BY <1>7 DEF FailBuild, Compiled, PackagedFromIntegration, Integrated
<1>8. ASSUME NEW b \in built, StageRelease(b)
      PROVE  Compiled' /\ PackagedFromIntegration'
  <2>1. /\ out["chrome"] = b.binary /\ b.integration = receipt
        /\ package' = [receipt |-> b, chrome |-> out["chrome"],
                       integration |-> receipt]
        /\ UNCHANGED <<tree, history, out, build, built>>
    BY <1>8 DEF StageRelease, ValidReceipt
  <2>2. (b.quiet /\ b.targets = Targets) => b.binary = Integrated(receipt)
    BY <2>1 DEF Compiled
  <2> QED BY <2>1, <2>2 DEF Compiled, PackagedFromIntegration, Integrated
<1>9. CASE UNCHANGED vars
  BY <1>1, <1>9 DEF vars
<1> QED BY <1>2, <1>3, <1>4, <1>5, <1>6, <1>7, <1>8, <1>9 DEF Next, BuildAndStage

\* The browser in a package was compiled of the integration the checkout held
\* when it was packaged, whatever other builds, prepares and edits there were.
THEOREM PackageIsOfItsIntegration == Spec => []PackagedFromIntegration
<1>1. Init => Compiled /\ PackagedFromIntegration
  BY DEF Init, Compiled, PackagedFromIntegration
<1> QED BY <1>1, InvariantHolds, InitNumbered, NumberedStep, CompiledStep, PTL
        DEF Spec
=============================================================================
