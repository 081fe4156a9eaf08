------------------------ MODULE UserConfigStateProofs -------------------------
(***************************************************************************)
(* Proofs about UserConfigState, for any number of launches, process ids,  *)
(* temporary names and writes per file.                                    *)
(***************************************************************************)
EXTENDS UserConfigState, TLAPS

USE LaunchAssumption, SizeAssumption, AttemptsAssumption, NamesAssumption

\* A launch inside ReadRememberedEnvironment reads a file some launch wrote.
ReadersOpened == \A l \in Launches : At(l, "reading") => opened[l] \in Launches

\* A launch that finishes a state file holds one of the names it may try.
NamesInRange ==
  \A l \in Launches :
    /\ At(l, "rename") => kind[l] = "state"
    /\ Finishing(l) /\ kind[l] = "state" => attempt[l] < Attempts

Typed == TypeOK /\ ReadersOpened /\ NamesInRange

LEMMA RelinkType ==
  ASSUME TypeOK, NEW s \in StateEntries, NEW n, NEW f \in StateEntries
  PROVE  Relink(s, n, f) \in StateDirs
BY DEF Relink, StateDirs, TypeOK

LEMMA InitTyped == Init => Typed
<1> SUFFICES ASSUME Init PROVE Typed
  OBVIOUS
<1>1. stateDir \in StateDirs
  BY DEF Init, StateDirs, StateEntries
<1>2. QED
  BY <1>1 DEF Init, Typed, TypeOK, ReadersOpened, NamesInRange, Finishing, At, Entries, Files, Kinds,
              Steps, Reports

LEMMA NextTyped == Typed /\ [Next]_vars => Typed'
<1> SUFFICES ASSUME Typed, [Next]_vars PROVE Typed'
  OBVIOUS
<1> USE DEF Typed, TypeOK, ReadersOpened, NamesInRange, Finishing, At, Goto
<1>0. \A l \in Launches : File(l) \in Files
  BY DEF File, Files
<1>1. ASSUME NEW l \in Launches, Start(l) PROVE Typed'
  BY <1>1 DEF Start, Steps, dirVars, fileVars, writeVars, readVars, histVars
<1>2. ASSUME NEW l \in Launches, OpenConfig(l) PROVE Typed'
  BY <1>2 DEF OpenConfig, SetConfig, Steps, Kinds, Entries, dirVars, fileVars,
              readVars, histVars
<1>3. ASSUME NEW l \in Launches, CheckPrivateRegular(l) PROVE Typed'
  BY <1>3 DEF CheckPrivateRegular, Steps, dirVars, fileVars, writeVars,
              readVars, histVars
<1>4. ASSUME NEW l \in Launches, WriteAll(l) PROVE Typed'
  BY <1>4, <1>0 DEF WriteAll, Steps, dirVars, writeVars, readVars, histVars
<1>5. ASSUME NEW l \in Launches, SyncFile(l) PROVE Typed'
  BY <1>5, <1>0 DEF SyncFile, Steps, dirVars, writeVars, readVars, histVars
<1>6. ASSUME NEW l \in Launches, CloseFile(l) PROVE Typed'
  BY <1>6 DEF CloseFile, Kinds, Steps, dirVars, fileVars, writeVars, readVars, histVars
<1>7. ASSUME NEW l \in Launches, Discard(l) PROVE Typed'
  <2>1. Relink(stateDir.state, Name(l), NoFile) \in StateDirs
    BY RelinkType DEF StateDirs, StateEntries
  <2>2. QED
    BY <1>7, <2>1 DEF Discard, AfterFailure, SetConfig, SetStateDir, Entries,
                      Steps, fileVars, writeVars, readVars, histVars
<1>8. ASSUME NEW l \in Launches, SyncDirectory(l) PROVE Typed'
  BY <1>8, <1>0 DEF SyncDirectory, AfterFailure, Steps, fileVars, writeVars,
                    readVars
<1>9. ASSUME NEW l \in Launches, OpenState(l) PROVE Typed'
  BY <1>9 DEF OpenState, Open, Close, StateDirs, StateEntries, Entries, Steps,
              Reports, dirVars, fileVars, writeVars, histVars
<1>10. ASSUME NEW l \in Launches, ReadState(l) PROVE Typed'
  <2>1. opened[l] \in Launches /\ <<"state", opened[l]>> \in Files
    BY <1>10 DEF ReadState, Files, Kinds
  <2>2. QED
    BY <1>10, <2>1 DEF ReadState, ReadSome, Open, Close, Entries, Steps, Reports,
                       dirVars, fileVars, writeVars, histVars
<1>11. ASSUME NEW l \in Launches, OpenConfigFile(l) PROVE Typed'
  BY <1>11 DEF OpenConfigFile, Open, Close, Entries, Steps, dirVars, fileVars,
               writeVars, histVars
<1>12. ASSUME NEW l \in Launches, ReadConfigFile(l) PROVE Typed'
  <2>1. ConfigLength(opened[l]) \in 0 .. Size
    BY DEF ConfigLength, Files, Kinds
  <2>2. QED
    BY <1>12, <2>1 DEF ReadConfigFile, ReadSome, Open, Close, Entries, Steps,
                       dirVars, fileVars, writeVars, histVars
<1>13. ASSUME NEW l \in Launches, Choose(l) PROVE Typed'
  BY <1>13 DEF Choose, Steps, dirVars, fileVars, readVars, histVars
<1>14. ASSUME NEW l \in Launches, OpenTemporary(l) PROVE Typed'
  <2>1. Relink(stateDir.state, Name(l), l) \in StateDirs
    BY RelinkType DEF StateDirs, StateEntries
  <2>2. QED
    BY <1>14, <2>1 DEF OpenTemporary, SetStateDir, Kinds, Steps, dirVars,
                       fileVars, readVars, histVars
<1>15. ASSUME NEW l \in Launches, RenameTemporary(l) PROVE Typed'
  <2>1. ASSUME NEW f \in Launches
        PROVE  Relink(f, Name(l), NoFile) \in StateDirs
    BY RelinkType DEF StateEntries
  <2>2. At(l, "rename") /\ Name(l) \in Names
    BY <1>15 DEF RenameTemporary, Name, Names
  <2>3. stateDir.temp[Name(l)] \in StateEntries
    BY <2>2 DEF StateDirs
  <2>4. QED
    BY <1>15, <2>1, <2>3 DEF RenameTemporary, SetStateDir, StateDirs, StateEntries,
                       Steps, dirVars, fileVars, writeVars, readVars
<1>16. ASSUME NEW l \in Launches, Exit(l) PROVE Typed'
  BY <1>16 DEF Exit, Forget, Steps, Kinds, Entries, Reports, dirVars, fileVars,
               histVars
<1>17. ASSUME PowerLoss PROVE Typed'
  BY <1>17 DEF PowerLoss, Forget, Steps, Kinds, Entries, Reports, histVars
<1>18. ASSUME InstallUserConfig PROVE Typed'
  BY <1>18 DEF InstallUserConfig, Entries, fileVars, writeVars, readVars, histVars
<1>19. CASE UNCHANGED vars
  BY <1>19 DEF vars, dirVars, fileVars, writeVars, readVars, histVars
<1>20. QED
  BY <1>1, <1>2, <1>3, <1>4, <1>5, <1>6, <1>7, <1>8, <1>9, <1>10, <1>11, <1>12,
     <1>13, <1>14, <1>15, <1>16, <1>17, <1>18, <1>19 DEF Next, Code

\* Type correctness of the launch processes and the files they share.
THEOREM TypeCorrect == Spec => []TypeOK
<1>1. Typed => TypeOK
  BY DEF Typed
<1>2. QED
  BY InitTyped, NextTyped, <1>1, PTL DEF Spec

-----------------------------------------------------------------------------
(* Who holds the temporary names *)

PidsDistinct ==
  \A l, m \in Launches : l # m /\ Live(l) /\ Live(m) => pid[l] # pid[m]

\* The name of a launch that finishes a state file leads to its own file.
OwnsName ==
  \A l \in Launches :
    Finishing(l) /\ kind[l] = "state" => stateDir.temp[Name(l)] = l

\* Only launches that got as far as the state file are behind a name of the
\* state directory, in any version of it.
HasOpenedTemporary(l) ==
  \/ step[l] \in {"done", "dead"}
  \/ kind[l] = "state" /\ (Finishing(l) \/ At(l, "syncDir"))
WritersOnDisk ==
  \A d \in stateDisk : \A l \in Launches :
    d.state = l \/ (\E n \in Names : d.temp[n] = l) => HasOpenedTemporary(l)

Ownership ==
  /\ PidsDistinct
  /\ OwnsName
  /\ stateDir \in stateDisk
  /\ WritersOnDisk
  /\ TemporariesAccountedFor

LEMMA InitOwnership == Init => Ownership
BY DEF Init, Ownership, PidsDistinct, OwnsName, WritersOnDisk, Live, Gone,
       TemporariesAccountedFor, Finishing

\* Steps that touch neither the state directory nor the names.
LEMMA QuietOwnership ==
  ASSUME Typed, Ownership, NEW l \in Launches,
         UNCHANGED <<stateDir, stateDisk, pid>>,
         \/ UNCHANGED <<kind, attempt, step>>
         \/ /\ UNCHANGED <<kind, attempt>>
            /\ Live(l)
            /\ \E s \in Steps : step' = [step EXCEPT ![l] = s]
            /\ HasOpenedTemporary(l) => HasOpenedTemporary(l)'
            /\ Finishing(l)' => Finishing(l)
            /\ Finishing(l) /\ kind[l] = "state" => Finishing(l)'
         \/ /\ kind' = [kind EXCEPT ![l] = "config"]
            /\ UNCHANGED attempt
            /\ At(l, "ensure")
            /\ step' = [step EXCEPT ![l] = "write"]
  PROVE  Ownership'
<1> USE DEF Typed, TypeOK, Ownership
<1>1. PidsDistinct'
  BY DEF PidsDistinct, Live, Gone, At
<1>2. OwnsName'
  BY DEF OwnsName, Finishing, Name, At
<1>3. WritersOnDisk'
  BY DEF WritersOnDisk, HasOpenedTemporary, Finishing, At
<1>4. TemporariesAccountedFor'
  BY DEF TemporariesAccountedFor, Finishing, Name, At, Live, Gone
<1>5. QED
  BY <1>1, <1>2, <1>3, <1>4

LEMMA NextOwnership == Typed /\ Ownership /\ [Next]_vars => Ownership'
<1> SUFFICES ASSUME Typed, Ownership, [Next]_vars PROVE Ownership'
  OBVIOUS
<1> USE DEF At, Goto
<1>t. /\ step \in [Launches -> Steps] /\ kind \in [Launches -> Kinds]
      /\ attempt \in [Launches -> 0 .. Attempts] /\ pid \in [Launches -> Pids]
      /\ stateDir \in StateDirs /\ stateDisk \subseteq StateDirs
  BY DEF Typed, TypeOK
<1>n. \A l \in Launches :
        Finishing(l) /\ kind[l] = "state" => Name(l) \in Names
  BY <1>t DEF Typed, NamesInRange, Name, Names
<1>1. ASSUME NEW l \in Launches, Start(l) PROVE Ownership'
  BY <1>1, <1>t DEF Start, Ownership, PidsDistinct, OwnsName, WritersOnDisk,
         TemporariesAccountedFor, HasOpenedTemporary, Finishing, Live, Gone,
         Name, Steps, dirVars, writeVars
<1>2. ASSUME NEW l \in Launches, OpenConfig(l) PROVE Ownership'
  BY <1>2, <1>t, QuietOwnership DEF OpenConfig, SetConfig, HasOpenedTemporary,
         Finishing, Live, Gone, Steps, dirVars
<1>3. ASSUME NEW l \in Launches, CheckPrivateRegular(l) PROVE Ownership'
  BY <1>3, <1>t, QuietOwnership DEF CheckPrivateRegular, HasOpenedTemporary,
         Finishing, Live, Gone, Steps, dirVars, writeVars
<1>4. ASSUME NEW l \in Launches, WriteAll(l) PROVE Ownership'
  BY <1>4, <1>t, QuietOwnership DEF WriteAll, HasOpenedTemporary,
         Finishing, Live, Gone, Steps, dirVars, writeVars
<1>5. ASSUME NEW l \in Launches, SyncFile(l) PROVE Ownership'
  BY <1>5, <1>t, QuietOwnership DEF SyncFile, HasOpenedTemporary,
         Finishing, Live, Gone, Steps, dirVars, writeVars
<1>6. ASSUME NEW l \in Launches, CloseFile(l) PROVE Ownership'
  BY <1>6, <1>t, QuietOwnership DEF CloseFile, HasOpenedTemporary,
         Finishing, Live, Gone, Steps, Kinds, dirVars, writeVars
<1>7. ASSUME NEW l \in Launches, Discard(l) PROVE Ownership'
  <2>1. CASE kind[l] = "config"
    BY <1>7, <2>1, <1>t, QuietOwnership DEF Discard, AfterFailure, SetConfig,
           HasOpenedTemporary, Finishing, Live, Gone, Steps, writeVars
  <2>2. CASE kind[l] = "state"
    <3>1. /\ Name(l) \in Names /\ Live(l) /\ stateDir.temp[Name(l)] = l
          /\ stateDir'.temp = [stateDir.temp EXCEPT ![Name(l)] = NoFile]
          /\ stateDir'.state = stateDir.state
          /\ stateDisk' = stateDisk \cup {stateDir'}
          /\ step' = [step EXCEPT ![l] = "done"]
          /\ UNCHANGED <<pid, kind, attempt>>
      BY <1>7, <2>2, <1>t, <1>n DEF Discard, AfterFailure, SetStateDir, Relink,
             StateDirs, Ownership, OwnsName, Finishing, Live, Gone, writeVars
    <3>2. PidsDistinct' /\ (stateDir \in stateDisk)'
      BY <3>1, <1>t DEF Ownership, PidsDistinct, Live, Gone
    <3>3. OwnsName'
      BY <3>1, <1>t DEF Ownership, OwnsName, PidsDistinct, Finishing, Live, Gone,
                        Name, StateDirs
    <3>4. WritersOnDisk'
      BY <3>1, <1>t, LaunchAssumption DEF Ownership, WritersOnDisk,
             HasOpenedTemporary, Finishing, StateDirs
    <3>5. TemporariesAccountedFor'
      BY <1>7, <3>1, <1>t, LaunchAssumption DEF Discard, Ownership,
             TemporariesAccountedFor, Finishing, Name, StateDirs
    <3>6. QED
      BY <3>2, <3>3, <3>4, <3>5 DEF Ownership
  <2>3. QED
    BY <2>1, <2>2, <1>t DEF Kinds
<1>8. ASSUME NEW l \in Launches, SyncDirectory(l) PROVE Ownership'
  BY <1>8, <1>t DEF SyncDirectory, AfterFailure, Ownership, PidsDistinct,
         OwnsName, WritersOnDisk, TemporariesAccountedFor, HasOpenedTemporary,
         Finishing, Live, Gone, Name, Kinds, Steps, writeVars
<1>9. ASSUME NEW l \in Launches, OpenState(l) PROVE Ownership'
  BY <1>9, <1>t, QuietOwnership DEF OpenState, Open, Close, HasOpenedTemporary,
         Finishing, Live, Gone, Steps, dirVars, writeVars
<1>10. ASSUME NEW l \in Launches, ReadState(l) PROVE Ownership'
  BY <1>10, <1>t, QuietOwnership DEF ReadState, ReadSome, Open, Close,
         HasOpenedTemporary, Finishing, Live, Gone, Steps, dirVars, writeVars
<1>11. ASSUME NEW l \in Launches, OpenConfigFile(l) PROVE Ownership'
  BY <1>11, <1>t, QuietOwnership DEF OpenConfigFile, Open, Close,
         HasOpenedTemporary, Finishing, Live, Gone, Steps, dirVars, writeVars
<1>12. ASSUME NEW l \in Launches, ReadConfigFile(l) PROVE Ownership'
  BY <1>12, <1>t, QuietOwnership DEF ReadConfigFile, ReadSome, Open, Close,
         HasOpenedTemporary, Finishing, Live, Gone, Steps, dirVars, writeVars
<1>13. ASSUME NEW l \in Launches, Choose(l) PROVE Ownership'
  BY <1>13, <1>t DEF Choose, Ownership, PidsDistinct, OwnsName, WritersOnDisk,
         TemporariesAccountedFor, HasOpenedTemporary, Finishing, Live, Gone,
         Name, Steps, dirVars
<1>14. ASSUME NEW l \in Launches, OpenTemporary(l) PROVE Ownership'
  <2>1. CASE /\ stateDir.temp[Name(l)] = NoFile
             /\ SetStateDir(Relink(stateDir.state, Name(l), l))
             /\ kind' = [kind EXCEPT ![l] = "state"]
             /\ step' = [step EXCEPT ![l] = "write"]
             /\ attempt[l] < Attempts
             /\ UNCHANGED <<attempt, pid>>
    <3>1. /\ Name(l) \in Names /\ Live(l)
          /\ stateDir'.temp = [stateDir.temp EXCEPT ![Name(l)] = l]
          /\ stateDir'.state = stateDir.state
          /\ stateDisk' = stateDisk \cup {stateDir'}
      BY <2>1, <1>14, <1>t, AttemptsAssumption DEF OpenTemporary, SetStateDir,
             Relink, StateDirs, Name, Names, Live, Gone
    <3>2. PidsDistinct' /\ (stateDir \in stateDisk)'
      BY <2>1, <3>1, <1>t DEF Ownership, PidsDistinct, Live, Gone
    <3>3. OwnsName'
      BY <2>1, <3>1, <1>t DEF Ownership, OwnsName, PidsDistinct, Finishing, Live,
                              Gone, Name, StateDirs
    <3>4. WritersOnDisk'
      BY <2>1, <3>1, <1>t DEF Ownership, WritersOnDisk, HasOpenedTemporary,
                              Finishing, StateDirs
    <3>5. TemporariesAccountedFor'
      BY <1>14, <2>1, <3>1, <1>t DEF OpenTemporary, Ownership, Finishing, Name,
             TemporariesAccountedFor, StateDirs
    <3>6. QED
      BY <3>2, <3>3, <3>4, <3>5 DEF Ownership
  <2>2. CASE /\ UNCHANGED <<stateDir, stateDisk, pid, kind>>
             /\ At(l, "temp")
             /\ \/ /\ attempt' = [attempt EXCEPT ![l] = @ + 1]
                   /\ UNCHANGED step
                \/ /\ step' = [step EXCEPT ![l] = "done"]
                   /\ UNCHANGED attempt
    <3>1. PidsDistinct' /\ (stateDir \in stateDisk)'
      BY <2>2, <1>t DEF Ownership, PidsDistinct, Live, Gone
    <3>2. OwnsName'
      BY <2>2, <1>t DEF Ownership, OwnsName, Finishing, Name
    <3>3. WritersOnDisk'
      BY <2>2, <1>t DEF Ownership, WritersOnDisk, HasOpenedTemporary, Finishing
    <3>4. TemporariesAccountedFor'
      BY <2>2, <1>t DEF Ownership, TemporariesAccountedFor, Finishing, Name
    <3>5. QED
      BY <3>1, <3>2, <3>3, <3>4 DEF Ownership
  <2>3. QED
    BY <1>14, <2>1, <2>2 DEF OpenTemporary, dirVars
<1>15. ASSUME NEW l \in Launches, RenameTemporary(l) PROVE Ownership'
  <2>0. /\ At(l, "rename") /\ kind[l] = "state" /\ Name(l) \in Names
        /\ stateDir.temp[Name(l)] = l
        /\ UNCHANGED <<pid, kind, attempt>>
    BY <1>15, <1>n DEF RenameTemporary, Typed, NamesInRange, Ownership, OwnsName,
                       Finishing, writeVars
  <2>1. CASE /\ step' = [step EXCEPT ![l] = "discard"]
             /\ UNCHANGED dirVars
    BY <2>0, <2>1, <1>t, QuietOwnership DEF HasOpenedTemporary, Finishing, Live,
           Gone, Steps, dirVars
  <2>2. CASE /\ step' = [step EXCEPT ![l] = "syncDir"]
             /\ SetStateDir(Relink(l, Name(l), NoFile))
    <3>1. /\ stateDir'.temp = [stateDir.temp EXCEPT ![Name(l)] = NoFile]
          /\ stateDir'.state = l
          /\ stateDisk' = stateDisk \cup {stateDir'}
          /\ Live(l)
      BY <2>0, <2>2, <1>t DEF SetStateDir, Relink, StateDirs, Live, Gone
    <3>2. PidsDistinct' /\ (stateDir \in stateDisk)'
      BY <2>0, <2>2, <3>1, <1>t DEF Ownership, PidsDistinct, Live, Gone
    <3>3. OwnsName'
      BY <2>0, <2>2, <3>1, <1>t DEF Ownership, OwnsName, PidsDistinct, Finishing,
             Live, Gone, Name, StateDirs
    <3>4. WritersOnDisk'
      BY <2>0, <2>2, <3>1, <1>t, LaunchAssumption DEF Ownership, WritersOnDisk,
             HasOpenedTemporary, Finishing, StateDirs
    <3>5. TemporariesAccountedFor'
      BY <2>0, <2>2, <3>1, <1>t, LaunchAssumption DEF Ownership,
             TemporariesAccountedFor, Finishing, Name, StateDirs
    <3>6. QED
      BY <3>2, <3>3, <3>4, <3>5 DEF Ownership
  <2>3. QED
    BY <1>15, <2>0, <2>1, <2>2 DEF RenameTemporary
<1>16. ASSUME NEW l \in Launches, Exit(l) PROVE Ownership'
  BY <1>16, <1>t DEF Exit, Forget, Ownership, PidsDistinct, OwnsName,
         WritersOnDisk, TemporariesAccountedFor, HasOpenedTemporary, Finishing,
         Live, Gone, Name, dirVars
<1>17. ASSUME PowerLoss PROVE Ownership'
  BY <1>17, <1>t DEF PowerLoss, Forget, Ownership, PidsDistinct, OwnsName,
         WritersOnDisk, TemporariesAccountedFor, HasOpenedTemporary, Finishing,
         Live, Gone, Name, Kinds
<1>18. CASE InstallUserConfig \/ UNCHANGED vars
  BY <1>18 DEF InstallUserConfig, vars, dirVars, writeVars, Ownership,
         PidsDistinct, OwnsName, WritersOnDisk, TemporariesAccountedFor,
         HasOpenedTemporary, Finishing, Live, Name
<1>19. QED
  BY <1>1, <1>2, <1>3, <1>4, <1>5, <1>6, <1>7, <1>8, <1>9, <1>10, <1>11, <1>12,
     <1>13, <1>14, <1>15, <1>16, <1>17, <1>18 DEF Next, Code

\* renameat never moves a file of another launch into place, whatever names
\* earlier processes with the same id left behind.
THEOREM RenameIsOwn == Spec => []RenameInstallsOwnFile
<1>1. Typed /\ Ownership => RenameInstallsOwnFile
  BY DEF Typed, NamesInRange, Ownership, OwnsName, Finishing, At,
         RenameInstallsOwnFile
<1>2. QED
  BY InitTyped, NextTyped, InitOwnership, NextOwnership, <1>1, PTL DEF Spec

\* Every temporary state file belongs to a launch that is writing it or died.
THEOREM NoTemporaryLeaks == Spec => []TemporariesAccountedFor
<1>1. Ownership => TemporariesAccountedFor
  BY DEF Ownership
<1>2. QED
  BY InitTyped, NextTyped, InitOwnership, NextOwnership, <1>1, PTL DEF Spec

-----------------------------------------------------------------------------
(* What is on disk *)

LengthsOrdered == \A f \in Files : synced[f] <= len[f]

\* FinishCreatedFile syncs a file only when it is complete, and gives it up for
\* use only when it is synchronized.
FinishedInOrder ==
  \A l \in Launches :
    /\ At(l, "sync") => len[File(l)] = Size
    /\ step[l] \in {"close", "rename", "syncDir"} => synced[File(l)] = Size

ReadersOnComplete ==
  \A l \in Launches : At(l, "reading") => synced[<<"state", opened[l]>>] = Size

Durability ==
  /\ LengthsOrdered
  /\ FinishedInOrder
  /\ StateAlwaysComplete
  /\ ReadersOnComplete
  /\ ReadsAreWhole

LEMMA InitDurability == Init => Durability
<1> SUFFICES ASSUME Init PROVE Durability
  OBVIOUS
<1>1. LengthsOrdered
  BY DEF Init, LengthsOrdered
<1>2. StateAlwaysComplete
  BY DEF Init, StateAlwaysComplete
<1>3. FinishedInOrder /\ ReadersOnComplete
  BY DEF Init, FinishedInOrder, ReadersOnComplete, At
<1>4. ReadsAreWhole
  BY DEF Init, ReadsAreWhole, Nothing, Malformed
<1>5. QED
  BY <1>1, <1>2, <1>3, <1>4 DEF Durability

\* Steps that leave the state directory and every file alone.
LEMMA QuietDurability ==
  ASSUME Typed, Durability, NEW l \in Launches,
         UNCHANGED <<stateDir, stateDisk, len, synced>>,
         At(l, "close") => kind'[l] = kind[l],
         \A m \in Launches \ {l} : /\ step'[m] = step[m]
                                  /\ kind'[m] = kind[m]
                                  /\ opened'[m] = opened[m]
                                  /\ heard'[m] = heard[m],
         step'[l] \notin {"sync", "close", "rename", "syncDir"} \/ At(l, "close"),
         step'[l] # "sync" \/ ~At(l, "close"),
         step'[l] = "reading" =>
           \/ At(l, "reading") /\ opened'[l] = opened[l]
           \/ opened'[l] = stateDir.state /\ stateDir.state # NoFile,
         heard'[l] # Malformed
  PROVE  Durability'
<1>1. LengthsOrdered' /\ StateAlwaysComplete'
  BY DEF Durability, LengthsOrdered, StateAlwaysComplete
<1>2. FinishedInOrder'
  BY DEF Durability, FinishedInOrder, At, File
<1>3. ReadersOnComplete'
  BY DEF Durability, ReadersOnComplete, StateAlwaysComplete, At
<1>4. ReadsAreWhole'
  BY DEF Durability, ReadsAreWhole
<1>5. QED
  BY <1>1, <1>2, <1>3, <1>4 DEF Durability

LEMMA NextDurability ==
  Typed /\ Typed' /\ Ownership /\ Durability /\ [Next]_vars => Durability'
<1> SUFFICES ASSUME Typed, Typed', Ownership, Durability, [Next]_vars
             PROVE  Durability'
  OBVIOUS
<1> USE DEF At, Goto
<1>t. /\ step \in [Launches -> Steps] /\ kind \in [Launches -> Kinds]
      /\ len \in [Files -> 0 .. Size] /\ synced \in [Files -> 0 .. Size]
      /\ env \in [Launches -> Environments]
      /\ opened \in [Launches -> Entries] /\ heard \in [Launches -> Reports]
      /\ \A l \in Launches : heard[l] # Malformed
      /\ \A l \in Launches : File(l) \in Files
      /\ Size \in Nat
  BY SizeAssumption DEF Typed, TypeOK, Durability, ReadsAreWhole, File, Files
<1>1. ASSUME NEW l \in Launches, Start(l) PROVE Durability'
  BY <1>1, <1>t, QuietDurability DEF Start, dirVars, fileVars, writeVars, readVars
<1>2. ASSUME NEW l \in Launches, OpenConfig(l) PROVE Durability'
  BY <1>2, <1>t, QuietDurability DEF OpenConfig, SetConfig, dirVars, fileVars, readVars
<1>3. ASSUME NEW l \in Launches, CheckPrivateRegular(l) PROVE Durability'
  BY <1>3, <1>t, QuietDurability DEF CheckPrivateRegular, dirVars, fileVars,
                       writeVars, readVars
<1>4. ASSUME NEW l \in Launches, WriteAll(l) PROVE Durability'
  <2>1. CASE step' = [step EXCEPT ![l] = "discard"] /\ UNCHANGED len
    BY <1>4, <2>1, <1>t, QuietDurability DEF WriteAll, dirVars, writeVars, readVars
  <2>2. CASE \E n \in 1 .. Size - len[File(l)] :
               /\ len' = [len EXCEPT ![File(l)] = @ + n]
               /\ Goto(l, IF len'[File(l)] = Size THEN "sync" ELSE "write")
    <3>1. LengthsOrdered'
      BY <1>4, <2>2, <1>t DEF WriteAll, Durability, LengthsOrdered
    <3>2. StateAlwaysComplete' /\ ReadersOnComplete' /\ ReadsAreWhole'
      BY <1>4, <2>2, <1>t DEF WriteAll, Durability, StateAlwaysComplete,
             ReadersOnComplete, ReadsAreWhole, dirVars, readVars
    <3>3. \A m \in Launches \ {l} : File(m) # File(l)
      BY DEF File
    <3>4. FinishedInOrder'
      BY <1>4, <2>2, <3>3, <1>t DEF WriteAll, Durability, FinishedInOrder, File,
             writeVars
    <3>5. QED
      BY <3>1, <3>2, <3>4 DEF Durability
  <2>3. QED
    BY <1>4, <2>1, <2>2 DEF WriteAll
<1>5. ASSUME NEW l \in Launches, SyncFile(l) PROVE Durability'
  <2>1. CASE step' = [step EXCEPT ![l] = "discard"] /\ UNCHANGED synced
    BY <1>5, <2>1, <1>t, QuietDurability DEF SyncFile, dirVars, writeVars, readVars
  <2>2. CASE /\ synced' = [synced EXCEPT ![File(l)] = len[File(l)]]
             /\ Goto(l, "close")
    <3>1. len[File(l)] = Size /\ synced'[File(l)] = Size
      BY <1>5, <2>2, <1>t DEF SyncFile, Durability, FinishedInOrder
    <3>2. LengthsOrdered'
      BY <1>5, <2>2, <3>1, <1>t DEF SyncFile, Durability, LengthsOrdered
    <3>3. \A f \in Files : synced[f] = Size => synced'[f] = Size
      BY <2>2, <3>1, <1>t
    <3>4. StateAlwaysComplete'
      <4> SUFFICES ASSUME NEW d \in stateDisk \cup {stateDir}, d.state # NoFile
                   PROVE  synced'[<<"state", d.state>>] = Size
        BY <1>5 DEF SyncFile, StateAlwaysComplete, dirVars
      <4>1. <<"state", d.state>> \in Files
        BY DEF Typed, TypeOK, StateDirs, StateEntries, Files, Kinds
      <4>2. QED
        BY <4>1, <3>3 DEF Durability, StateAlwaysComplete
    <3>5. ReadersOnComplete' /\ ReadsAreWhole'
      BY <1>5, <2>2, <3>3, <1>t DEF SyncFile, Durability, ReadersOnComplete,
             ReadsAreWhole, Typed, ReadersOpened, Files, Kinds, readVars
    <3>6. FinishedInOrder'
      BY <1>5, <2>2, <3>1, <3>3, <1>t DEF SyncFile, Durability, FinishedInOrder,
             File, writeVars
    <3>7. QED
      BY <3>2, <3>4, <3>5, <3>6 DEF Durability
  <2>3. QED
    BY <1>5, <2>1, <2>2 DEF SyncFile
<1>6. ASSUME NEW l \in Launches, CloseFile(l) PROVE Durability'
  BY <1>6, <1>t, QuietDurability DEF CloseFile, Kinds, dirVars, fileVars,
                       writeVars, readVars
<1>7. ASSUME NEW l \in Launches, Discard(l) PROVE Durability'
  <2>1. \A d \in stateDisk' \cup {stateDir'} :
          \E c \in stateDisk \cup {stateDir} : d.state = c.state
    BY <1>7 DEF Discard, SetConfig, SetStateDir, Relink
  <2>2. StateAlwaysComplete'
    BY <1>7, <2>1 DEF Discard, Durability, StateAlwaysComplete, fileVars
  <2>3. LengthsOrdered' /\ FinishedInOrder' /\ ReadersOnComplete' /\ ReadsAreWhole'
    BY <1>7, <1>t DEF Discard, AfterFailure, Durability, LengthsOrdered, File,
           FinishedInOrder, ReadersOnComplete, ReadsAreWhole, fileVars,
           writeVars, readVars
  <2>4. QED
    BY <2>2, <2>3 DEF Durability
<1>8. ASSUME NEW l \in Launches, SyncDirectory(l) PROVE Durability'
  BY <1>8, <1>t DEF SyncDirectory, AfterFailure, Durability, LengthsOrdered,
         FinishedInOrder, StateAlwaysComplete, ReadersOnComplete, ReadsAreWhole,
         File, fileVars, writeVars, readVars
<1>9. ASSUME NEW l \in Launches, OpenState(l) PROVE Durability'
  <2>1. heard'[l] # Malformed
    BY <1>9, <1>t DEF OpenState, Unreadable, Malformed
  <2>2. QED
    BY <1>9, <2>1, <1>t, QuietDurability DEF OpenState, Open, Close, dirVars,
           fileVars, writeVars
<1>10. ASSUME NEW l \in Launches, ReadState(l) PROVE Durability'
  <2>1. /\ opened[l] \in Launches
        /\ len[<<"state", opened[l]>>] = Size
        /\ env[opened[l]] # Malformed
    BY <1>10, <1>t, NamesAssumption DEF ReadState, Typed, ReadersOpened,
           Durability, ReadersOnComplete, LengthsOrdered, Files, Kinds
  <2>2. heard'[l] # Malformed
    BY <1>10, <2>1, <1>t DEF ReadState, Unreadable, Malformed
  <2>3. QED
    BY <1>10, <2>2, <1>t, QuietDurability DEF ReadState, ReadSome, Open, Close,
           dirVars, fileVars, writeVars
<1>11. ASSUME NEW l \in Launches, OpenConfigFile(l) PROVE Durability'
  BY <1>11, <1>t, QuietDurability DEF OpenConfigFile, Open, Close,
                        dirVars, fileVars, writeVars
<1>12. ASSUME NEW l \in Launches, ReadConfigFile(l) PROVE Durability'
  BY <1>12, <1>t, QuietDurability DEF ReadConfigFile, ReadSome, Open,
                        Close, dirVars, fileVars, writeVars
<1>13. ASSUME NEW l \in Launches, Choose(l) PROVE Durability'
  BY <1>13, <1>t, QuietDurability DEF Choose, dirVars, fileVars, readVars
<1>14. ASSUME NEW l \in Launches, OpenTemporary(l) PROVE Durability'
  <2>1. \A d \in stateDisk' \cup {stateDir'} :
          \E c \in stateDisk \cup {stateDir} : d.state = c.state
    BY <1>14 DEF OpenTemporary, SetStateDir, Relink, dirVars
  <2>2. StateAlwaysComplete'
    BY <1>14, <2>1 DEF OpenTemporary, Durability, StateAlwaysComplete, fileVars
  <2>3. LengthsOrdered' /\ FinishedInOrder' /\ ReadersOnComplete' /\ ReadsAreWhole'
    BY <1>14, <1>t DEF OpenTemporary, Durability, LengthsOrdered, File,
           FinishedInOrder, ReadersOnComplete, ReadsAreWhole, fileVars, readVars
  <2>4. QED
    BY <2>2, <2>3 DEF Durability
<1>15. ASSUME NEW l \in Launches, RenameTemporary(l) PROVE Durability'
  <2>1. CASE step' = [step EXCEPT ![l] = "discard"] /\ UNCHANGED dirVars
    BY <1>15, <2>1, <1>t, QuietDurability DEF RenameTemporary, dirVars, fileVars,
           writeVars, readVars
  <2>2. CASE /\ step' = [step EXCEPT ![l] = "syncDir"]
             /\ SetStateDir(Relink(stateDir.temp[Name(l)], Name(l), NoFile))
    <3>1. kind[l] = "state" /\ stateDir.temp[Name(l)] = l
      BY <1>15 DEF RenameTemporary, Typed, NamesInRange, Ownership, OwnsName,
             Finishing
    <3>2. synced[<<"state", l>>] = Size
      BY <1>15, <3>1 DEF RenameTemporary, Durability, FinishedInOrder, File
    <3>3. StateAlwaysComplete'
      BY <1>15, <2>2, <3>1, <3>2 DEF RenameTemporary, SetStateDir, Relink,
             Durability, StateAlwaysComplete, fileVars
    <3>4. LengthsOrdered' /\ FinishedInOrder' /\ ReadersOnComplete' /\ ReadsAreWhole'
      BY <1>15, <2>2, <3>1, <3>2, <1>t DEF RenameTemporary, Durability, File,
             LengthsOrdered, FinishedInOrder, ReadersOnComplete, ReadsAreWhole,
             fileVars, writeVars, readVars
    <3>5. QED
      BY <3>3, <3>4 DEF Durability
  <2>3. QED
    BY <1>15, <2>1, <2>2 DEF RenameTemporary
<1>16. ASSUME NEW l \in Launches, Exit(l) PROVE Durability'
  BY <1>16, <1>t DEF Exit, Forget, Durability, LengthsOrdered, FinishedInOrder,
         StateAlwaysComplete, ReadersOnComplete, ReadsAreWhole, File, dirVars,
         fileVars, Nothing, Malformed
<1>17. ASSUME PowerLoss PROVE Durability'
  <2>1. \A f \in Files : synced[f] = Size => synced'[f] = Size
    BY <1>17, <1>t DEF PowerLoss
  <2>2. StateAlwaysComplete'
    <3> SUFFICES ASSUME NEW d \in stateDisk, d.state # NoFile
                 PROVE  synced'[<<"state", d.state>>] = Size
      BY <1>17 DEF PowerLoss, StateAlwaysComplete
    <3>1. <<"state", d.state>> \in Files
      BY DEF Typed, TypeOK, StateDirs, StateEntries, Files, Kinds
    <3>2. QED
      BY <3>1, <2>1 DEF Durability, StateAlwaysComplete
  <2>3. \A l \in Launches : step'[l] \in Gone
    BY <1>17, <1>t DEF PowerLoss, Forget, Live, Gone, Steps
  <2>4. LengthsOrdered' /\ FinishedInOrder' /\ ReadersOnComplete'
    BY <1>17, <2>3, <1>t DEF PowerLoss, LengthsOrdered, FinishedInOrder,
           ReadersOnComplete, Gone
  <2>5. ReadsAreWhole'
    BY <1>17, <1>t DEF PowerLoss, Forget, ReadsAreWhole, Nothing, Malformed
  <2>6. QED
    BY <2>2, <2>4, <2>5 DEF Durability
<1>18. CASE InstallUserConfig \/ UNCHANGED vars
  BY <1>18, <1>t DEF InstallUserConfig, vars, dirVars, fileVars, writeVars,
         readVars, Durability, LengthsOrdered, FinishedInOrder, File,
         StateAlwaysComplete, ReadersOnComplete, ReadsAreWhole
<1>19. QED
  BY <1>1, <1>2, <1>3, <1>4, <1>5, <1>6, <1>7, <1>8, <1>9, <1>10, <1>11, <1>12,
     <1>13, <1>14, <1>15, <1>16, <1>17, <1>18 DEF Next, Code

\* Atomic replacement: whatever survives a crash or a power loss, state.toml is
\* missing or a complete, synchronized document.
THEOREM StateNeverTorn == Spec => []StateAlwaysComplete
<1>1. Durability => StateAlwaysComplete
  BY DEF Durability
<1>2. QED
  BY InitTyped, NextTyped, InitOwnership, NextOwnership, InitDurability,
     NextDurability, <1>1, PTL DEF Spec

\* No reader ever gets a text that ParseState rejects.
THEOREM ReadersSeeWholeStates == Spec => []ReadsAreWhole
<1>1. Durability => ReadsAreWhole
  BY DEF Durability
<1>2. QED
  BY InitTyped, NextTyped, InitOwnership, NextOwnership, InitDurability,
     NextDurability, <1>1, PTL DEF Spec

-----------------------------------------------------------------------------
(* What a successful write promises *)

AckedReturned ==
  \A l \in Launches : <<"state", l>> \in acked => step[l] \in {"done", "dead"}

StampsBounded == \A l \in Launches : stamp[l] <= clock

\* Between the rename and the directory's fsync, what state.toml names is the
\* launch's own file or a later one.
RenamedNotOlder ==
  \A l \in Launches :
    At(l, "syncDir") /\ kind[l] = "state" => stamp[l] <= Stamp(stateDir.state)

Acknowledgement ==
  /\ AckedReturned
  /\ StampsBounded
  /\ RenamedNotOlder
  /\ AcknowledgedSurvives

LEMMA InitAcknowledgement == Init => Acknowledgement
BY DEF Init, Acknowledgement, AckedReturned, StampsBounded, RenamedNotOlder,
       AcknowledgedSurvives, Acked, At

\* Steps that rename nothing and acknowledge nothing.
LEMMA QuietAcknowledgement ==
  ASSUME Typed, Acknowledgement, UNCHANGED <<acked, stamp, clock>>,
         stateDir'.state = stateDir.state,
         \A d \in stateDisk' : \E c \in stateDisk : d.state = c.state,
         \A l \in Launches :
           /\ step[l] \in {"done", "dead"} => step'[l] \in {"done", "dead"}
           /\ step'[l] = "syncDir" /\ kind'[l] = "state" =>
                step[l] = "syncDir" /\ kind[l] = "state"
  PROVE  Acknowledgement'
<1>1. AckedReturned' /\ StampsBounded'
  BY DEF Acknowledgement, AckedReturned, StampsBounded
<1>2. RenamedNotOlder'
  BY DEF Acknowledgement, RenamedNotOlder, At, Stamp
<1>3. AcknowledgedSurvives'
  BY DEF Acknowledgement, AcknowledgedSurvives, Acked, Stamp
<1>4. QED
  BY <1>1, <1>2, <1>3 DEF Acknowledgement

LEMMA NextAcknowledgement ==
  Typed /\ Ownership /\ Acknowledgement /\ [Next]_vars => Acknowledgement'
<1> SUFFICES ASSUME Typed, Ownership, Acknowledgement, [Next]_vars
             PROVE  Acknowledgement'
  OBVIOUS
<1> USE DEF At, Goto
<1>t. /\ step \in [Launches -> Steps] /\ kind \in [Launches -> Kinds]
      /\ stamp \in [Launches -> Nat] /\ clock \in Nat
      /\ stateDir \in StateDirs /\ stateDir \in stateDisk
      /\ stateDisk \subseteq StateDirs
  BY DEF Typed, TypeOK, Ownership
<1>1. ASSUME NEW l \in Launches,
             \/ Start(l) \/ OpenConfig(l) \/ CheckPrivateRegular(l)
             \/ WriteAll(l) \/ SyncFile(l)
      PROVE  Acknowledgement'
  BY <1>1, <1>t, QuietAcknowledgement DEF Start, OpenConfig, CheckPrivateRegular,
         WriteAll, SyncFile, SetConfig, dirVars, writeVars, histVars
<1>2. ASSUME NEW l \in Launches,
             \/ OpenState(l) \/ ReadState(l)
             \/ OpenConfigFile(l) \/ ReadConfigFile(l) \/ Choose(l)
      PROVE  Acknowledgement'
  BY <1>2, <1>t, QuietAcknowledgement DEF OpenState, ReadState, ReadSome,
         OpenConfigFile, ReadConfigFile, Open, Close, Choose, dirVars,
         writeVars, histVars
<1>3. ASSUME NEW l \in Launches, CloseFile(l) PROVE Acknowledgement'
  BY <1>3, <1>t, QuietAcknowledgement DEF CloseFile, Kinds, dirVars, writeVars,
         histVars
<1>4. ASSUME NEW l \in Launches, Discard(l) \/ OpenTemporary(l)
      PROVE  Acknowledgement'
  <2>1. /\ stateDir'.state = stateDir.state
        /\ \A d \in stateDisk' : \E c \in stateDisk : d.state = c.state
    BY <1>4, <1>t DEF Discard, OpenTemporary, SetConfig, SetStateDir, Relink,
           dirVars
  <2>2. QED
    BY <1>4, <2>1, <1>t, QuietAcknowledgement DEF Discard, OpenTemporary,
           AfterFailure, Kinds, writeVars, histVars
<1>5. ASSUME NEW l \in Launches, SyncDirectory(l) PROVE Acknowledgement'
  <2>1. CASE UNCHANGED <<stateDisk, acked>> /\ Goto(l, AfterFailure(l))
    BY <1>5, <2>1, <1>t, QuietAcknowledgement DEF SyncDirectory, AfterFailure,
           writeVars
  <2>2. CASE acked' = acked \cup {File(l)} /\ kind[l] = "config"
    <3>1. Acked("state")' = Acked("state")
      BY <2>2 DEF Acked, File
    <3>2. /\ UNCHANGED <<stateDir, stamp, clock, kind>>
          /\ stateDisk' = stateDisk
          /\ step[l] = "syncDir"
          /\ step' = [step EXCEPT ![l] = "read"] \/ step' = [step EXCEPT ![l] = "failed"]
      BY <1>5, <2>2, <1>t DEF SyncDirectory, AfterFailure, writeVars
    <3>3. QED
      BY <2>2, <3>1, <3>2, <1>t DEF Acknowledgement, AckedReturned, Acked, File,
             StampsBounded, RenamedNotOlder, AcknowledgedSurvives, Stamp
  <2>3. CASE /\ kind[l] = "state" /\ acked' = acked \cup {File(l)}
             /\ stateDisk' = {stateDir} /\ Goto(l, "done")
    <3>1. UNCHANGED <<stateDir, stamp, clock, kind>> /\ step[l] = "syncDir"
      BY <1>5 DEF SyncDirectory, writeVars
    <3>2. AckedReturned' /\ StampsBounded' /\ RenamedNotOlder'
      BY <2>3, <3>1, <1>t DEF Acknowledgement, AckedReturned, File,
             StampsBounded, RenamedNotOlder, Stamp
    <3>3. AcknowledgedSurvives'
      BY <2>3, <3>1, <1>t DEF Acknowledgement, AcknowledgedSurvives, File,
             RenamedNotOlder, Acked, Stamp
    <3>4. QED
      BY <3>2, <3>3 DEF Acknowledgement
  <2>4. QED
    BY <1>5, <2>1, <2>2, <2>3, <1>t DEF SyncDirectory, Kinds
<1>6. ASSUME NEW l \in Launches, RenameTemporary(l) PROVE Acknowledgement'
  <2>1. CASE step' = [step EXCEPT ![l] = "discard"] /\ UNCHANGED <<dirVars, stamp, clock>>
    BY <1>6, <2>1, <1>t, QuietAcknowledgement DEF RenameTemporary, dirVars,
           writeVars
  <2>2. CASE /\ step' = [step EXCEPT ![l] = "syncDir"]
             /\ SetStateDir(Relink(stateDir.temp[Name(l)], Name(l), NoFile))
             /\ clock' = clock + 1
             /\ stamp' = [stamp EXCEPT ![stateDir.temp[Name(l)]] = clock + 1]
    <3>1. stateDir.temp[Name(l)] = l /\ step[l] = "rename"
      BY <1>6 DEF RenameTemporary, Typed, NamesInRange, Ownership, OwnsName,
             Finishing
    <3>2. /\ stateDir'.state = l /\ stateDisk' = stateDisk \cup {stateDir'}
          /\ UNCHANGED <<kind, acked>> /\ l # NoFile
      BY <1>6, <2>2, <3>1, LaunchAssumption DEF RenameTemporary, SetStateDir,
             Relink, writeVars
    <3>3. AckedReturned' /\ StampsBounded' /\ RenamedNotOlder'
      BY <2>2, <3>1, <3>2, <1>t DEF Acknowledgement, AckedReturned,
             StampsBounded, RenamedNotOlder, Stamp
    <3>4. \A d \in stateDisk : d.state = NoFile \/ d.state \in Launches
      BY <1>t DEF StateDirs, StateEntries
    <3>5. AcknowledgedSurvives'
      BY <2>2, <3>1, <3>2, <3>4, <1>t DEF Acknowledgement, AckedReturned,
             StampsBounded, AcknowledgedSurvives, Acked, Stamp
    <3>6. QED
      BY <3>3, <3>5 DEF Acknowledgement
  <2>3. QED
    BY <1>6, <2>1, <2>2 DEF RenameTemporary
<1>7. ASSUME NEW l \in Launches, Exit(l) PROVE Acknowledgement'
  BY <1>7, <1>t, QuietAcknowledgement DEF Exit, Forget, dirVars, histVars
<1>8. ASSUME PowerLoss PROVE Acknowledgement'
  <2>1. /\ \A l \in Launches : step'[l] # "syncDir"
        /\ \A l \in Launches : step[l] \in {"done", "dead"} => step'[l] \in {"done", "dead"}
    BY <1>8, <1>t DEF PowerLoss, Forget, Live, Gone
  <2>2. AckedReturned' /\ StampsBounded' /\ RenamedNotOlder'
    BY <1>8, <2>1 DEF PowerLoss, histVars, Acknowledgement, AckedReturned,
           StampsBounded, RenamedNotOlder
  <2>3. AcknowledgedSurvives'
    BY <1>8 DEF PowerLoss, histVars, Acknowledgement, AcknowledgedSurvives,
           Acked, Stamp
  <2>4. QED
    BY <2>2, <2>3 DEF Acknowledgement
<1>9. CASE InstallUserConfig \/ UNCHANGED vars
  BY <1>9, <1>t, QuietAcknowledgement DEF InstallUserConfig, vars, dirVars,
         writeVars, histVars
<1>10. QED
  BY <1>1, <1>2, <1>3, <1>4, <1>5, <1>6, <1>7, <1>8, <1>9 DEF Next, Code

\* A selection reported as written is never undone by a later power loss.
THEOREM AcknowledgedWritesSurvive == Spec => []AcknowledgedSurvives
<1>1. Acknowledgement => AcknowledgedSurvives
  BY DEF Acknowledgement
<1>2. QED
  BY InitTyped, NextTyped, InitOwnership, NextOwnership, InitAcknowledgement,
     NextAcknowledgement, <1>1, PTL DEF Spec

-----------------------------------------------------------------------------
(* The abstract register *)

Abs == Content(stateDir.state)
AbsDisk == {Content(d.state) : d \in stateDisk}
AbsVars == <<Abs, AbsDisk>>
AbsNext ==
  \/ \E e \in Environments : Abs' = e /\ AbsDisk' = AbsDisk \cup {e}
  \/ AbsDisk' = {Abs} /\ UNCHANGED Abs
  \/ Abs' \in AbsDisk /\ AbsDisk' = {Abs'}

\* What a complete state file says is settled: no step changes the selection of
\* a launch whose file state.toml may name.
LEMMA ContentSettled ==
  ASSUME Typed, Typed', Ownership, Durability, Durability', [Next]_vars,
         NEW d \in stateDisk, d \in stateDisk' \/ PowerLoss
  PROVE  Content(d.state)' = Content(d.state)
<1> DEFINE f == d.state
<1>1. CASE f = NoFile
  BY <1>1 DEF Content
<1>2. CASE f \in Launches
  <2>1. <<"state", f>> \in Files /\ synced[<<"state", f>>] = Size
    BY <1>2, LaunchAssumption DEF Files, Kinds, Durability, StateAlwaysComplete
  <2>2. synced'[<<"state", f>>] = Size
    <3>1. CASE d \in stateDisk'
      BY <3>1, <1>2, LaunchAssumption DEF Durability, StateAlwaysComplete
    <3>2. CASE PowerLoss
      BY <3>2, <2>1, SizeAssumption DEF PowerLoss, Typed, TypeOK
    <3>3. QED
      BY <3>1, <3>2
  <2>3. step[f] # "choose"
    BY <1>2 DEF Ownership, WritersOnDisk, HasOpenedTemporary, Finishing, At
  <2>4. env'[f] = env[f]
    <3>1. \A l \in Launches : Choose(l) => l # f /\ env'[f] = env[f]
      BY <2>3, <1>2 DEF Choose, At, Typed, TypeOK
    <3>2. \/ UNCHANGED env
          \/ \E l \in Launches : Choose(l)
      BY DEF Next, Code, Start, OpenConfig, CheckPrivateRegular, WriteAll,
             SyncFile, CloseFile, Discard, SyncDirectory, OpenState, ReadState,
             OpenConfigFile, ReadConfigFile, OpenTemporary, RenameTemporary,
             Exit, Forget, PowerLoss, InstallUserConfig, vars, writeVars
    <3>3. QED
      BY <3>1, <3>2
  <2>5. f # NoFile
    BY <1>2, LaunchAssumption
  <2>6. QED
    BY <2>1, <2>2, <2>4, <2>5 DEF Content
<1>3. QED
  BY <1>1, <1>2 DEF Typed, TypeOK, StateDirs, StateEntries

LEMMA StepsOfRegister ==
  Typed /\ Typed' /\ Ownership /\ Ownership' /\ Durability /\ Durability'
    /\ [Next]_vars => [AbsNext]_AbsVars
<1> SUFFICES ASSUME Typed, Typed', Ownership, Ownership', Durability,
                    Durability', [Next]_vars
             PROVE  [AbsNext]_AbsVars
  OBVIOUS
<1>t. /\ stateDir \in stateDisk /\ stateDir' \in stateDisk'
      /\ stateDir \in StateDirs
  BY DEF Ownership, Typed, TypeOK
<1>1. \A d \in stateDisk :
        d \in stateDisk' \/ PowerLoss => Content(d.state)' = Content(d.state)
  BY ContentSettled
\* Steps after which the directory, and what may survive of it, read the same.
<1>2. ASSUME ~PowerLoss, stateDisk \subseteq stateDisk',
             stateDir'.state = stateDir.state,
             \A d \in stateDisk' : \E c \in stateDisk : d.state = c.state
      PROVE  UNCHANGED AbsVars
  <2>1. \A c \in stateDisk : Content(c.state)' = Content(c.state)
    BY <1>1, <1>2
  <2>2. UNCHANGED Abs
    BY <1>t, <1>2, <2>1 DEF Abs, Content
  <2>3. \A d \in stateDisk' : \E c \in stateDisk : Content(d.state)' = Content(c.state)
    BY <1>2, <2>1 DEF Content
  <2>4. UNCHANGED AbsDisk
    BY <1>2, <2>1, <2>3 DEF AbsDisk
  <2>5. QED
    BY <2>2, <2>4 DEF AbsVars
<1>3. ASSUME NEW l \in Launches, SyncDirectory(l), stateDisk' = {stateDir},
             UNCHANGED stateDir
      PROVE  AbsNext
  <2>1. Abs' = Abs
    BY <1>3, <1>1, <1>t DEF Abs
  <2>2. AbsDisk' = {Abs}
    BY <1>3, <2>1 DEF AbsDisk, Abs
  <2>3. QED
    BY <2>1, <2>2 DEF AbsNext
<1>4. ASSUME NEW l \in Launches, RenameTemporary(l), stateDir'.state = l,
             stateDisk' = stateDisk \cup {stateDir'}
      PROVE  AbsNext
  <2>1. l # NoFile /\ UNCHANGED env /\ env[l] \in Environments
    BY <1>4, LaunchAssumption DEF RenameTemporary, writeVars, Typed, TypeOK
  <2>2. synced'[<<"state", l>>] = Size
    BY <1>4, <1>t, <2>1 DEF Durability, StateAlwaysComplete
  <2>3. Abs' = env[l]
    BY <1>4, <2>1, <2>2 DEF Abs, Content
  <2>4. \A d \in stateDisk : Content(d.state)' = Content(d.state)
    BY <1>1, <1>4
  <2>5. AbsDisk' = AbsDisk \cup {env[l]}
    BY <1>4, <2>3, <2>4 DEF AbsDisk, Abs
  <2>6. QED
    BY <2>1, <2>3, <2>5 DEF AbsNext
<1>5. ASSUME PowerLoss PROVE AbsNext
  <2>1. PICK d \in stateDisk : stateDir' = d /\ stateDisk' = {d}
    BY <1>5 DEF PowerLoss
  <2>2. Abs' = Content(d.state) /\ AbsDisk' = {Abs'}
    BY <2>1, <1>1, <1>5 DEF Abs, AbsDisk
  <2>3. QED
    BY <2>1, <2>2 DEF AbsNext, AbsDisk
<1>6. CASE \E l \in Launches : Discard(l) \/ OpenTemporary(l)
  <2>1. ~PowerLoss \/ PowerLoss
    OBVIOUS
  <2>2. /\ stateDisk \subseteq stateDisk' /\ stateDir'.state = stateDir.state
        /\ \A d \in stateDisk' : \E c \in stateDisk : d.state = c.state
    BY <1>6, <1>t DEF Discard, OpenTemporary, SetConfig, SetStateDir, Relink,
           dirVars
  <2>3. QED
    BY <2>1, <2>2, <1>2, <1>5
<1>7. CASE \E l \in Launches : SyncDirectory(l)
  BY <1>7, <1>2, <1>3, <1>5, <1>t DEF SyncDirectory
<1>8. CASE \E l \in Launches : RenameTemporary(l)
  <2> SUFFICES ASSUME NEW l \in Launches, RenameTemporary(l)
               PROVE  [AbsNext]_AbsVars
    BY <1>8
  <2>1. stateDir.temp[Name(l)] = l
    BY DEF RenameTemporary, Typed, NamesInRange, Ownership, OwnsName, Finishing,
           At
  <2>2. CASE UNCHANGED dirVars
    BY <2>2, <1>2, <1>5, <1>t DEF dirVars
  <2>3. CASE SetStateDir(Relink(l, Name(l), NoFile))
    BY <2>3, <1>4 DEF SetStateDir, Relink
  <2>4. QED
    BY <2>1, <2>2, <2>3 DEF RenameTemporary
<1>9. CASE UNCHANGED <<stateDir, stateDisk>>
  BY <1>9, <1>2, <1>5, <1>t
<1>10. QED
  BY <1>5, <1>6, <1>7, <1>8, <1>9 DEF Next, Code, Start, OpenConfig, SetConfig,
     CheckPrivateRegular, WriteAll, SyncFile, CloseFile, OpenState, ReadState,
     OpenConfigFile, ReadConfigFile, Choose, Exit, InstallUserConfig, vars,
     dirVars

\* The state file is an atomic register that a power loss may set back, but not
\* past its last acknowledged write: no torn, mixed or invented value.
THEOREM StateFileIsRegister == Spec => ImplementsRegister
<1>1. Init => Register!Init
  <2> SUFFICES ASSUME Init PROVE Register!Init
    OBVIOUS
  <2>1. stateDir.state = NoFile /\ stateDisk = {stateDir}
    BY DEF Init
  <2>2. Content(stateDir.state) = Nothing
    BY <2>1 DEF Content
  <2>3. {Content(d.state) : d \in stateDisk} = {Content(stateDir.state)}
    BY <2>1
  <2>4. QED
    BY <2>2, <2>3 DEF Register!Init
<1>2. AbsNext <=> Register!Next
  BY DEF AbsNext, Abs, AbsDisk, Register!Next, Register!Record,
         Register!MakeDurable, Register!PowerLoss
<1>3. AbsVars = Register!vars
  BY DEF AbsVars, Abs, AbsDisk, Register!vars
<1>4. Typed /\ Typed' /\ Ownership /\ Ownership' /\ Durability /\ Durability'
        /\ [Next]_vars => [Register!Next]_Register!vars
  BY StepsOfRegister, <1>2, <1>3 DEF AbsVars, Register!vars, Abs, AbsDisk
<1>5. QED
  BY InitTyped, NextTyped, InitOwnership, NextOwnership, InitDurability,
     NextDurability, <1>1, <1>4, PTL DEF Spec, ImplementsRegister, Register!Spec

-----------------------------------------------------------------------------
(* The configuration file *)

\* A launch between the creation of config.toml and the report of it.
Creating(l) ==
  kind[l] = "config" /\ step[l] \in {"write", "sync", "close", "discard", "syncDir"}

\* O_EXCL lets one launch create at a time; only the user replaces what it
\* creates, and what is not the launches' own is on disk.
Creation ==
  /\ \A l, m \in Launches : Creating(l) /\ Creating(m) => l = m
  /\ \A l \in Launches : Creating(l) => config \in {l, UserFile}
  /\ config \in configDisk
  /\ config \in {UserFile, AlienFile} => configDisk = {config}
  /\ \A l \in Acked("config") : ~ \E m \in Launches : Creating(m)

ConfigInv == Creation /\ CreatedConfigSurvives

LEMMA InitConfig == Init => ConfigInv
BY DEF Init, ConfigInv, Creation, CreatedConfigSurvives, Creating, Acked

\* Steps that create nothing and report nothing about config.toml.
LEMMA QuietConfig ==
  ASSUME ConfigInv, UNCHANGED <<config, configDisk>>,
         Acked("config")' \subseteq Acked("config"),
         \A l \in Launches : Creating(l)' => Creating(l),
         \A l \in Acked("config") : synced'[<<"config", l>>] = synced[<<"config", l>>]
  PROVE  ConfigInv'
<1>1. Creation'
  BY DEF ConfigInv, Creation
<1>2. CreatedConfigSurvives'
  BY DEF ConfigInv, CreatedConfigSurvives
<1>3. QED
  BY <1>1, <1>2 DEF ConfigInv

LEMMA NextConfig == Typed /\ Durability /\ ConfigInv /\ [Next]_vars => ConfigInv'
<1> SUFFICES ASSUME Typed, Durability, ConfigInv, [Next]_vars PROVE ConfigInv'
  OBVIOUS
<1> USE DEF At, Goto
<1>t. /\ step \in [Launches -> Steps] /\ kind \in [Launches -> Kinds]
      /\ len \in [Files -> 0 .. Size] /\ synced \in [Files -> 0 .. Size]
      /\ \A l \in Launches : step[l] = "rename" => kind[l] = "state"
      /\ config \in Entries
  BY DEF Typed, TypeOK, NamesInRange
<1>1. CASE \E l \in Launches :
             Start(l) \/ CheckPrivateRegular(l) \/ WriteAll(l) \/ CloseFile(l)
             \/ OpenState(l) \/ ReadState(l) \/ OpenConfigFile(l) \/ ReadConfigFile(l)
             \/ Choose(l) \/ OpenTemporary(l) \/ RenameTemporary(l)
  <2> SUFFICES ASSUME NEW l \in Launches,
                      Start(l) \/ CheckPrivateRegular(l) \/ WriteAll(l) \/ CloseFile(l)
                      \/ OpenState(l) \/ ReadState(l) \/ OpenConfigFile(l)
                      \/ ReadConfigFile(l) \/ Choose(l) \/ OpenTemporary(l)
                      \/ RenameTemporary(l)
               PROVE  ConfigInv'
    BY <1>1
  <2>1. UNCHANGED <<config, configDisk, synced, acked>>
    BY DEF Start, CheckPrivateRegular, WriteAll, CloseFile, OpenState, ReadState,
       OpenConfigFile, ReadConfigFile, Choose, OpenTemporary, RenameTemporary,
       SetStateDir, dirVars, fileVars, histVars
  <2>2. \A m \in Launches \ {l} : Creating(m)' <=> Creating(m)
    <3>1. \A m \in Launches \ {l} : step'[m] = step[m] /\ kind'[m] = kind[m]
      BY <1>t DEF Start, CheckPrivateRegular, WriteAll, CloseFile, OpenState, ReadState,
         OpenConfigFile, ReadConfigFile, Choose, OpenTemporary, RenameTemporary,
         Open, Close, ReadSome, writeVars
    <3>2. QED
      BY <3>1 DEF Creating
  <2>3. Creating(l)' => Creating(l)
    <3>1. CASE WriteAll(l) \/ CloseFile(l)
      BY <3>1, <1>t DEF WriteAll, CloseFile, Creating, writeVars
    <3>2. CASE OpenTemporary(l)
      BY <3>2, <1>t DEF OpenTemporary, Creating
    <3>3. CASE RenameTemporary(l)
      BY <3>3, <1>t DEF RenameTemporary, Creating, writeVars
    <3>4. CASE Start(l) \/ CheckPrivateRegular(l) \/ OpenState(l) \/ ReadState(l)
               \/ OpenConfigFile(l) \/ ReadConfigFile(l) \/ Choose(l)
      BY <3>4, <1>t DEF Start, CheckPrivateRegular, OpenState, ReadState, OpenConfigFile,
         ReadConfigFile, Choose, Open, Close, ReadSome, Creating
    <3>5. QED
      BY <3>1, <3>2, <3>3, <3>4
  <2>4. QED
    BY <2>1, <2>2, <2>3, QuietConfig DEF Acked
<1>2. ASSUME NEW l \in Launches, OpenConfig(l) PROVE ConfigInv'
  <2>1. CASE /\ config = NoFile /\ config' = l /\ configDisk' = configDisk \cup {l}
             /\ kind' = [kind EXCEPT ![l] = "config"]
             /\ step' = [step EXCEPT ![l] = "write"]
             /\ UNCHANGED <<acked, synced>>
    <3>1. \A m \in Launches : ~Creating(m) /\ m \notin Acked("config")
      BY <2>1, LaunchAssumption DEF ConfigInv, Creation, CreatedConfigSurvives, Acked
    <3>2. \A m \in Launches : Creating(m)' => m = l
      BY <2>1, <3>1, <1>t DEF Creating
    <3>3. Acked("config")' = {}
      BY <2>1, <3>1 DEF Acked
    <3>4. QED
      BY <2>1, <3>2, <3>3, LaunchAssumption
      DEF ConfigInv, Creation, CreatedConfigSurvives
  <2>2. CASE /\ \E s \in {"check", "failed"} : step' = [step EXCEPT ![l] = s]
             /\ UNCHANGED <<config, configDisk, kind, acked, synced>>
    BY <2>2, <1>t, QuietConfig DEF Acked, Creating
  <2>3. QED
    BY <1>2, <2>1, <2>2 DEF OpenConfig, SetConfig, dirVars, fileVars, histVars
<1>3. ASSUME NEW l \in Launches, SyncFile(l) PROVE ConfigInv'
  <2>1. /\ step[l] = "sync" /\ \E s \in {"close", "discard"} : step' = [step EXCEPT ![l] = s]
        /\ UNCHANGED <<config, configDisk, kind, acked>>
        /\ UNCHANGED synced \/ synced' = [synced EXCEPT ![File(l)] = len[File(l)]]
    BY <1>3 DEF SyncFile, dirVars, writeVars, histVars
  <2>2. \A m \in Launches : Creating(m)' => Creating(m)
    BY <2>1, <1>t DEF Creating
  <2>3. \A m \in Acked("config") : synced'[<<"config", m>>] = synced[<<"config", m>>]
    <3> SUFFICES ASSUME NEW m \in Acked("config")
                 PROVE  synced'[<<"config", m>>] = synced[<<"config", m>>]
      OBVIOUS
    <3>1. ~Creating(l)
      BY DEF ConfigInv, Creation
    <3>2. File(l) # <<"config", m>>
      BY <2>1, <3>1 DEF Creating, File
    <3>3. <<"config", m>> \in Files
      BY DEF Acked, Files, Kinds
    <3>4. QED
      BY <2>1, <3>2, <3>3, <1>t
  <2>4. QED
    BY <2>1, <2>2, <2>3, QuietConfig DEF Acked
<1>4. ASSUME NEW l \in Launches, Discard(l) PROVE ConfigInv'
  <2>1. /\ step[l] = "discard"
        /\ \E s \in {"failed", "done"} : step' = [step EXCEPT ![l] = s]
        /\ UNCHANGED <<kind, synced, acked>>
    BY <1>4 DEF Discard, AfterFailure, fileVars, writeVars, histVars
  <2>2. \A m \in Launches : Creating(m)' => m # l /\ Creating(m)
    BY <2>1, <1>t DEF Creating
  <2>3. CASE kind[l] = "config"
    <3>1. Creating(l)
      BY <2>1, <2>3 DEF Creating
    <3>2. config' = NoFile /\ configDisk' = configDisk \cup {NoFile}
      BY <1>4, <2>3 DEF Discard, SetConfig
    <3>3. \A m \in Launches : ~Creating(m)' /\ m \notin Acked("config")
      BY <2>2, <3>1 DEF ConfigInv, Creation
    <3>4. Acked("config")' = {}
      BY <2>1, <3>3 DEF Acked
    <3>5. QED
      BY <3>2, <3>3, <3>4, LaunchAssumption
      DEF ConfigInv, Creation, CreatedConfigSurvives
  <2>4. CASE kind[l] # "config"
    BY <1>4, <2>1, <2>2, <2>4, QuietConfig DEF Discard, SetStateDir, Acked
  <2>5. QED
    BY <2>3, <2>4
<1>5. ASSUME NEW l \in Launches, SyncDirectory(l) PROVE ConfigInv'
  <2>1. /\ step[l] = "syncDir" /\ UNCHANGED <<config, kind, synced>>
        /\ \E s \in {"read", "done", "failed"} : step' = [step EXCEPT ![l] = s]
    BY <1>5 DEF SyncDirectory, AfterFailure, fileVars, writeVars
  <2>2. \A m \in Launches : Creating(m)' => m # l /\ Creating(m)
    BY <2>1, <1>t DEF Creating
  <2>3. CASE kind[l] = "config" /\ configDisk' = {config} /\ acked' = acked \cup {File(l)}
    <3>1. Creating(l) /\ config \in {l, UserFile} /\ synced[<<"config", l>>] = Size
      BY <2>1, <2>3 DEF Creating, ConfigInv, Creation, Durability, FinishedInOrder, File
    <3>2. \A m \in Launches : ~Creating(m)' /\ m \notin Acked("config")
      BY <2>2, <3>1 DEF ConfigInv, Creation
    <3>3. Acked("config")' = {l}
      BY <2>3, <3>2 DEF Acked, File
    <3>4. QED
      BY <2>1, <2>3, <3>1, <3>2, <3>3 DEF ConfigInv, Creation, CreatedConfigSurvives
  <2>4. CASE UNCHANGED configDisk /\ (kind[l] # "config" \/ UNCHANGED acked)
    <3>1. Acked("config")' \subseteq Acked("config")
      BY <1>5, <2>4 DEF SyncDirectory, Acked, File
    <3>2. QED
      BY <2>1, <2>2, <2>4, <3>1, QuietConfig
  <2>5. QED
    BY <1>5, <2>3, <2>4 DEF SyncDirectory
<1>6. ASSUME NEW l \in Launches, Exit(l) PROVE ConfigInv'
  <2>1. \A m \in Launches : Creating(m)' => Creating(m)
    BY <1>6, <1>t DEF Exit, Forget, Creating
  <2>2. QED
    BY <1>6, <2>1, QuietConfig DEF Exit, Acked, dirVars, fileVars, histVars
<1>7. CASE PowerLoss
  <2>1. \A m \in Launches : ~Creating(m)'
    BY <1>7, <1>t DEF PowerLoss, Forget, Creating, Live, Gone
  <2>2. /\ config' \in configDisk /\ configDisk' = {config'} /\ UNCHANGED acked
        /\ Acked("config")' = Acked("config")
    BY <1>7 DEF PowerLoss, histVars, Acked
  <2>3. ASSUME NEW m \in Acked("config") PROVE synced'[<<"config", m>>] = Size
    <3>1. <<"config", m>> \in Files /\ synced[<<"config", m>>] = Size
      BY DEF ConfigInv, CreatedConfigSurvives, Acked, Files, Kinds
    <3>2. synced' \in [Files -> 0 .. Size] /\ synced[<<"config", m>>] <= synced'[<<"config", m>>]
      BY <1>7, <3>1 DEF PowerLoss
    <3>3. QED
      BY <3>1, <3>2, SizeAssumption
  <2>4. QED
    BY <2>1, <2>2, <2>3 DEF ConfigInv, Creation, CreatedConfigSurvives
<1>8. CASE InstallUserConfig
  <2>1. config' = UserFile /\ configDisk' = {UserFile} /\ UNCHANGED <<step, kind, synced, acked>>
    BY <1>8 DEF InstallUserConfig, fileVars, writeVars, histVars
  <2>2. \A m \in Launches : Creating(m)' <=> Creating(m)
    BY <2>1 DEF Creating
  <2>3. Acked("config")' = Acked("config")
    BY <2>1 DEF Acked
  <2>4. QED
    BY <2>1, <2>2, <2>3 DEF ConfigInv, Creation, CreatedConfigSurvives
<1>9. CASE UNCHANGED vars
  <2>1. UNCHANGED <<config, configDisk, step, kind, synced, acked>>
    BY <1>9 DEF vars, dirVars, fileVars, writeVars, histVars
  <2>2. QED
    BY <2>1, QuietConfig DEF Creating, Acked
<1>10. QED
  BY <1>1, <1>2, <1>3, <1>4, <1>5, <1>6, <1>7, <1>8, <1>9 DEF Next, Code

LEMMA Configuration == Spec => [](Typed /\ Durability /\ ConfigInv)
BY InitTyped, NextTyped, InitOwnership, NextOwnership, InitDurability, NextDurability,
   InitConfig, NextConfig, PTL DEF Spec

\* A default configuration that EnsureDefaultConfig reported as created is on
\* disk, complete, unless the user has put their own in its place.
THEOREM CreatedConfigIsDurable == Spec => []CreatedConfigSurvives
<1>1. ConfigInv => CreatedConfigSurvives
  BY DEF ConfigInv
<1>2. QED
  BY <1>1, Configuration, PTL

\* "Existing files are never replaced", by a launch or a power loss.
THEOREM ExistingConfigIsKept == Spec => ExistingConfigKept
<1> DEFINE A == (config \in {UserFile, AlienFile} /\
      ~ \E l \in Launches : Finishing(l) /\ kind[l] = "config")
        => config' \in {config, UserFile}
<1>1. Typed /\ ConfigInv /\ Next => A
  <2> SUFFICES ASSUME Typed, ConfigInv, Next, config \in {UserFile, AlienFile},
                      ~ \E l \in Launches : Finishing(l) /\ kind[l] = "config"
               PROVE  config' \in {config, UserFile}
    OBVIOUS
  <2>1. ~ \E l \in Launches : Discard(l) /\ kind[l] = "config"
    BY DEF Discard, Finishing, At
  <2>2. PowerLoss => config' = config
    BY DEF PowerLoss, ConfigInv, Creation
  <2>3. \A l \in Launches : OpenConfig(l) => config' = config
    BY LaunchAssumption DEF OpenConfig, dirVars
  <2>4. QED
    BY <2>1, <2>2, <2>3 DEF Next, Code, Start, CheckPrivateRegular, WriteAll, SyncFile,
       CloseFile, Discard, SetStateDir, SyncDirectory, OpenState, ReadState,
       OpenConfigFile, ReadConfigFile, Choose, OpenTemporary, RenameTemporary, Exit,
       InstallUserConfig, dirVars
<1>2. Typed /\ ConfigInv /\ [Next]_vars => [A]_vars
  BY <1>1
<1>3. Spec => [][A]_vars
  BY <1>2, Configuration, PTL DEF Spec
<1>4. QED
  BY <1>3 DEF ExistingConfigKept
=============================================================================
