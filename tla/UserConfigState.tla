--------------------------- MODULE UserConfigState ---------------------------
(***************************************************************************)
(* The XDG configuration and selection-state files of browser/             *)
(* user_config_state.cc, and the loader of config/config_file.cc, as used  *)
(* by browser launches that share one home directory.  Each launch is one  *)
(* process; every system call is one step, so launches interleave between  *)
(* any two of them.  A process may die at any step, and a power loss may   *)
(* undo whatever no fsync has made durable.                                *)
(*                                                                         *)
(* A launch creates at most one config.toml and one temporary state file,  *)
(* so the launch itself names the inode: <<"config", l>>, <<"state", l>>.  *)
(* A file's text is Size writes long; only its length matters, and a text  *)
(* of length Size is the complete document.                                *)
(***************************************************************************)
EXTENDS Naturals

CONSTANTS
  Launches,      \* the processes that run the startup gate
  Pids,          \* the process ids the kernel hands out, and hands out again
  Environments,  \* portable environment names
  Attempts,      \* kTemporaryNameAttempts
  Size,          \* the writes a complete document takes
  UserEdits,     \* whether the user installs a config.toml while launches run
  NoFile,        \* the name is absent
  UserFile,      \* a complete private config.toml the user wrote
  AlienFile      \* a config.toml that is a symlink, shared or not regular

Kinds == {"config", "state"}
Files == Kinds \X Launches
Names == Pids \X (0 .. Attempts - 1)       \* .state.toml.<pid>.<attempt>.tmp

\* What ReadRememberedEnvironment reports: a name, nothing, an I/O error, or
\* a text ParseState rejects.  The three markers are not portable names.
Nothing    == ""
Unreadable == "<unreadable>"
Malformed  == "<malformed>"
Reports    == Environments \cup {Nothing, Unreadable, Malformed}

ASSUME LaunchAssumption ==
  /\ NoFile \notin Launches /\ UserFile \notin Launches /\ AlienFile \notin Launches
  /\ NoFile # UserFile /\ NoFile # AlienFile /\ UserFile # AlienFile
ASSUME SizeAssumption == Size \in Nat \ {0}
ASSUME AttemptsAssumption == Attempts \in Nat \ {0}
ASSUME NamesAssumption ==
  /\ Environments # {}
  /\ Environments \cap {Nothing, Unreadable, Malformed} = {}

VARIABLES
  config,      \* the file config.toml names
  configDisk,  \* the values of config a power loss may leave
  stateDir,    \* the state directory: state.toml and the temporary names
  stateDisk,   \* the versions of stateDir a power loss may leave
  len,         \* the length of each file
  synced,      \* the part of it that is on disk
  step,        \* where each launch is
  pid,         \* its process id
  kind,        \* which file FinishCreatedFile is finishing for it
  attempt,     \* the temporary name it tries or holds
  env,         \* the environment it selected
  opened,      \* the file it reads
  position,    \* how much of it was read
  heard,       \* what ReadRememberedEnvironment reported
  acked,       \* history: the files whose writer was told they are durable
  stamp,       \* history: when each state file was renamed into place
  clock        \* history: the number of renames

dirVars   == <<config, configDisk, stateDir, stateDisk>>
fileVars  == <<len, synced>>
writeVars == <<kind, attempt, env>>
readVars  == <<opened, position, heard>>
histVars  == <<acked, stamp, clock>>
vars == <<dirVars, fileVars, step, pid, writeVars, readVars, histVars>>

Steps == {"idle", "ensure", "check", "write", "sync", "close", "discard",
          "syncDir", "read", "reading", "load", "loading", "choose", "temp",
          "rename", "done", "failed", "unusable", "dead"}
Returned == {"done", "failed", "unusable", "dead"}
Gone == {"idle", "failed", "unusable", "dead"}    \* no process holds the pid

Live(l) == step[l] \notin Gone
Goto(l, s) == step' = [step EXCEPT ![l] = s]
At(l, s) == step[l] = s

File(l) == <<kind[l], l>>
Name(l) == <<pid[l], attempt[l]>>
ConfigLength(f) == IF f \in Launches THEN len[<<"config", f>>] ELSE Size

\* A directory operation takes effect at once and reaches the disk some time
\* before the directory's next fsync; until then either version may survive.
SetConfig(f) ==
  /\ config' = f
  /\ configDisk' = configDisk \cup {f}
  /\ UNCHANGED <<stateDir, stateDisk>>
SetStateDir(d) ==
  /\ stateDir' = d
  /\ stateDisk' = stateDisk \cup {d}
  /\ UNCHANGED <<config, configDisk>>
Relink(state, name, f) ==
  [state |-> state, temp |-> [stateDir.temp EXCEPT ![name] = f]]

Init ==
  /\ config \in {NoFile, UserFile, AlienFile}
  /\ configDisk = {config}
  /\ stateDir = [state |-> NoFile, temp |-> [n \in Names |-> NoFile]]
  /\ stateDisk = {stateDir}
  /\ len = [f \in Files |-> 0]
  /\ synced = [f \in Files |-> 0]
  /\ step = [l \in Launches |-> "idle"]
  /\ pid \in [Launches -> Pids]
  /\ kind = [l \in Launches |-> "config"]
  /\ attempt = [l \in Launches |-> 0]
  /\ env = [l \in Launches |-> CHOOSE e \in Environments : TRUE]
  /\ opened = [l \in Launches |-> NoFile]
  /\ position = [l \in Launches |-> 0]
  /\ heard = [l \in Launches |-> Nothing]
  /\ acked = {}
  /\ stamp = [l \in Launches |-> 0]
  /\ clock = 0

\* A process starts under an id no live process has.
Start(l) ==
  /\ At(l, "idle")
  /\ \A m \in Launches \ {l} : Live(m) => pid[m] # pid[l]
  /\ Goto(l, "ensure")
  /\ UNCHANGED <<dirVars, fileVars, pid, writeVars, readVars, histVars>>

-----------------------------------------------------------------------------
(* EnsureDefaultConfig *)

\* Slip: without O_EXCL an existing file is truncated and taken over.
OpenConfigTruncating(l) ==
  /\ At(l, "ensure")
  /\ SetConfig(l)
  /\ kind' = [kind EXCEPT ![l] = "config"]
  /\ Goto(l, "write")
  /\ UNCHANGED <<fileVars, pid, attempt, env, readVars, histVars>>

\* Prepare and openat(O_CREAT | O_EXCL): the file is created in place, under
\* its final name and empty.  Any other failure ends the launch.
OpenConfig(l) ==
  /\ At(l, "ensure")
  /\ \/ /\ config = NoFile
        /\ SetConfig(l)
        /\ kind' = [kind EXCEPT ![l] = "config"]
        /\ Goto(l, "write")
     \/ /\ config # NoFile
        /\ Goto(l, "check")
        /\ UNCHANGED <<dirVars, kind>>
     \/ /\ Goto(l, "failed")
        /\ UNCHANGED <<dirVars, kind>>
  /\ UNCHANGED <<fileVars, pid, attempt, env, readVars, histVars>>

\* An existing file is only inspected: who owns it and its mode, never its
\* contents.
CheckPrivateRegular(l) ==
  /\ At(l, "check")
  /\ \/ config \notin {NoFile, AlienFile} /\ Goto(l, "read")
     \/ Goto(l, "failed")
  /\ UNCHANGED <<dirVars, fileVars, pid, writeVars, readVars, histVars>>

-----------------------------------------------------------------------------
(* FinishCreatedFile, for config.toml and for a temporary state file *)

\* Slip: the count write() returns is ignored.
WriteOnce(l) ==
  /\ At(l, "write")
  /\ \E n \in 1 .. Size - len[File(l)] :
       len' = [len EXCEPT ![File(l)] = @ + n]
  /\ Goto(l, "sync")
  /\ UNCHANGED <<dirVars, synced, pid, writeVars, readVars, histVars>>

\* Slip: what was written is not taken off the text.
WriteAllAgain(l) ==
  /\ At(l, "write")
  /\ \E n \in 1 .. Size : len' = [len EXCEPT ![File(l)] = @ + n]
  /\ UNCHANGED <<dirVars, synced, step, pid, writeVars, readVars, histVars>>

WriteAll(l) ==
  /\ At(l, "write")
  /\ \/ \E n \in 1 .. Size - len[File(l)] :
          /\ len' = [len EXCEPT ![File(l)] = @ + n]
          /\ Goto(l, IF len'[File(l)] = Size THEN "sync" ELSE "write")
     \/ /\ Goto(l, "discard")
        /\ UNCHANGED len
  /\ UNCHANGED <<dirVars, synced, pid, writeVars, readVars, histVars>>

\* Slip: the file is closed without an fsync.
SkipSyncFile(l) ==
  /\ At(l, "sync")
  /\ Goto(l, "close")
  /\ UNCHANGED <<dirVars, fileVars, pid, writeVars, readVars, histVars>>

SyncFile(l) ==
  /\ At(l, "sync")
  /\ \/ /\ synced' = [synced EXCEPT ![File(l)] = len[File(l)]]
        /\ Goto(l, "close")
     \/ /\ Goto(l, "discard")
        /\ UNCHANGED synced
  /\ UNCHANGED <<dirVars, len, pid, writeVars, readVars, histVars>>

CloseFile(l) ==
  /\ At(l, "close")
  /\ \/ Goto(l, IF kind[l] = "config" THEN "syncDir" ELSE "rename")
     \/ Goto(l, "discard")
  /\ UNCHANGED <<dirVars, fileVars, pid, writeVars, readVars, histVars>>

\* A failed default configuration ends startup; a failed state write does not.
AfterFailure(l) == IF kind[l] = "config" THEN "failed" ELSE "done"

\* Slip: the error path returns without unlinkat.
DiscardNothing(l) ==
  /\ At(l, "discard")
  /\ Goto(l, AfterFailure(l))
  /\ UNCHANGED <<dirVars, fileVars, pid, writeVars, readVars, histVars>>

\* unlinkat removes the name, whatever file it names by then.
Discard(l) ==
  /\ At(l, "discard")
  /\ IF kind[l] = "config"
     THEN SetConfig(NoFile)
     ELSE SetStateDir(Relink(stateDir.state, Name(l), NoFile))
  /\ Goto(l, AfterFailure(l))
  /\ UNCHANGED <<fileVars, pid, writeVars, readVars, histVars>>

\* Slip: success is reported without an fsync of the directory.
SkipSyncDirectory(l) ==
  /\ At(l, "syncDir")
  /\ acked' = acked \cup {File(l)}
  /\ Goto(l, IF kind[l] = "config" THEN "read" ELSE "done")
  /\ UNCHANGED <<dirVars, fileVars, pid, writeVars, readVars, stamp, clock>>

\* fsync of the directory: its current version is the only one left.
SyncDirectory(l) ==
  /\ At(l, "syncDir")
  /\ \/ /\ IF kind[l] = "config"
           THEN configDisk' = {config} /\ Goto(l, "read") /\ UNCHANGED stateDisk
           ELSE stateDisk' = {stateDir} /\ Goto(l, "done") /\ UNCHANGED configDisk
        /\ acked' = acked \cup {File(l)}
     \/ /\ Goto(l, AfterFailure(l))
        /\ UNCHANGED <<configDisk, stateDisk, acked>>
  /\ UNCHANGED <<config, stateDir, fileVars, pid, writeVars, readVars, stamp,
                 clock>>

-----------------------------------------------------------------------------
(* ReadRememberedEnvironment *)

\* Both readers open a file, read it to its end and close it.
Open(l, f, s) ==
  /\ opened' = [opened EXCEPT ![l] = f]
  /\ position' = [position EXCEPT ![l] = 0]
  /\ Goto(l, s)
ReadSome(l, end) ==
  /\ \E n \in 1 .. end - position[l] : position' = [position EXCEPT ![l] = @ + n]
  /\ UNCHANGED <<step, opened>>
Close(l, s) == Open(l, NoFile, s)

OpenState(l) ==
  /\ At(l, "read")
  /\ \/ /\ stateDir.state # NoFile
        /\ Open(l, stateDir.state, "reading")
        /\ UNCHANGED heard
     \/ /\ stateDir.state = NoFile                 \* a success: nothing remembered
        /\ Close(l, "load")
        /\ UNCHANGED heard
     \/ /\ heard' = [heard EXCEPT ![l] = Unreadable]
        /\ Close(l, "load")
  /\ UNCHANGED <<dirVars, fileVars, pid, writeVars, histVars>>

\* read() returns part of what is there, or nothing at the end of the file;
\* then ParseState takes the text as a whole.
ReadState(l) ==
  LET end == len[<<"state", opened[l]>>]
      text == IF position[l] = Size THEN env[opened[l]] ELSE Malformed
  IN /\ At(l, "reading")
     /\ \/ ReadSome(l, end) /\ UNCHANGED heard
        \/ /\ position[l] = end
           /\ heard' = [heard EXCEPT ![l] = text]
           /\ Close(l, "load")
        \/ /\ heard' = [heard EXCEPT ![l] = Unreadable]
           /\ Close(l, "load")
     /\ UNCHANGED <<dirVars, fileVars, pid, writeVars, histVars>>

-----------------------------------------------------------------------------
(* LoadConfigFile *)

OpenConfigFile(l) ==
  /\ At(l, "load")
  /\ \/ config # NoFile /\ Open(l, config, "loading")
     \/ Close(l, "failed")
  /\ UNCHANGED <<dirVars, fileVars, pid, writeVars, heard, histVars>>

\* A document cut short does not parse: the environment table comes last.
ReadConfigFile(l) ==
  LET end == ConfigLength(opened[l])
  IN /\ At(l, "loading")
     /\ \/ ReadSome(l, end)
        \/ /\ position[l] = end
           /\ Close(l, IF position[l] = Size THEN "choose" ELSE "unusable")
        \/ Close(l, "failed")
     /\ UNCHANGED <<dirVars, fileVars, pid, writeVars, heard, histVars>>

-----------------------------------------------------------------------------
(* WriteRememberedEnvironment *)

\* The gate's remaining work: it selects an environment, prepares its root
\* and, unless the launch is private or does not restore, records it.
Choose(l) ==
  /\ At(l, "choose")
  /\ \/ /\ \E e \in Environments : env' = [env EXCEPT ![l] = e]
        /\ attempt' = [attempt EXCEPT ![l] = 0]
        /\ Goto(l, "temp")
     \/ /\ Goto(l, "done")
        /\ UNCHANGED <<attempt, env>>
  /\ UNCHANGED <<dirVars, fileVars, pid, kind, readVars, histVars>>

\* Slip: without O_EXCL a leftover of the same name is written again.
OpenTemporaryShared(l) ==
  /\ At(l, "temp")
  /\ IF stateDir.temp[Name(l)] = NoFile
     THEN SetStateDir(Relink(stateDir.state, Name(l), l))
     ELSE UNCHANGED dirVars
  /\ kind' = [kind EXCEPT ![l] = "state"]
  /\ Goto(l, "write")
  /\ UNCHANGED <<fileVars, pid, attempt, env, readVars, histVars>>

\* Slip: every attempt tries the same name.
OpenTemporaryAgain(l) ==
  /\ At(l, "temp")
  /\ IF stateDir.temp[Name(l)] = NoFile
     THEN /\ SetStateDir(Relink(stateDir.state, Name(l), l))
          /\ kind' = [kind EXCEPT ![l] = "state"]
          /\ Goto(l, "write")
     ELSE UNCHANGED <<dirVars, kind, step>>
  /\ UNCHANGED <<fileVars, pid, attempt, env, readVars, histVars>>

OpenTemporary(l) ==
  /\ At(l, "temp")
  /\ \/ /\ attempt[l] < Attempts
        /\ stateDir.temp[Name(l)] = NoFile
        /\ SetStateDir(Relink(stateDir.state, Name(l), l))
        /\ kind' = [kind EXCEPT ![l] = "state"]
        /\ Goto(l, "write")
        /\ UNCHANGED attempt
     \/ /\ attempt[l] < Attempts
        /\ stateDir.temp[Name(l)] # NoFile
        /\ attempt' = [attempt EXCEPT ![l] = @ + 1]
        /\ UNCHANGED <<dirVars, kind, step>>
     \/ /\ attempt[l] < Attempts                  \* any other errno
        /\ Goto(l, "done")
        /\ UNCHANGED <<dirVars, kind, attempt>>
     \/ /\ attempt[l] = Attempts
        /\ Goto(l, "done")
        /\ UNCHANGED <<dirVars, kind, attempt>>
  /\ UNCHANGED <<fileVars, pid, env, readVars, histVars>>

\* renameat moves whatever the temporary name names.
RenameTemporary(l) ==
  LET moved == stateDir.temp[Name(l)]
  IN /\ At(l, "rename")
     /\ \/ /\ moved # NoFile
           /\ SetStateDir(Relink(moved, Name(l), NoFile))
           /\ clock' = clock + 1
           /\ stamp' = [stamp EXCEPT ![moved] = clock + 1]
           /\ Goto(l, "syncDir")
        \/ /\ Goto(l, "discard")
           /\ UNCHANGED <<dirVars, stamp, clock>>
     /\ UNCHANGED <<fileVars, pid, writeVars, readVars, acked>>

-----------------------------------------------------------------------------
(* The world around the launches *)

\* What a process that ended still had in memory is gone; its files are not.
Forget(dying) ==
  /\ step' = [l \in Launches |-> IF l \in dying THEN "dead" ELSE step[l]]
  /\ kind' = [l \in Launches |-> IF l \in dying THEN "config" ELSE kind[l]]
  /\ attempt' = [l \in Launches |-> IF l \in dying THEN 0 ELSE attempt[l]]
  /\ opened' = [l \in Launches |-> IF l \in dying THEN NoFile ELSE opened[l]]
  /\ position' = [l \in Launches |-> IF l \in dying THEN 0 ELSE position[l]]
  /\ heard' = [l \in Launches |-> IF l \in dying THEN Nothing ELSE heard[l]]
  /\ UNCHANGED <<pid, env>>

\* A process exits or is killed at any point.
Exit(l) ==
  /\ Live(l)
  /\ Forget({l})
  /\ UNCHANGED <<dirVars, fileVars, histVars>>

\* Every process ends; each directory falls back to a version the disk may
\* hold, each file to at least its synchronized part.
PowerLoss ==
  /\ \E l \in Launches : Live(l)
  /\ Forget({l \in Launches : Live(l)})
  /\ config' \in configDisk
  /\ configDisk' = {config'}
  /\ stateDir' \in stateDisk
  /\ stateDisk' = {stateDir'}
  /\ len' \in {g \in [Files -> 0 .. Size] :
                 \A f \in Files : synced[f] <= g[f] /\ g[f] <= len[f]}
  /\ synced' = len'
  /\ UNCHANGED histVars

\* The user, or a tool of theirs, moves a configuration of their own into
\* place and synchronizes it.
InstallUserConfig ==
  /\ UserEdits
  /\ config # UserFile
  /\ config' = UserFile
  /\ configDisk' = {UserFile}
  /\ UNCHANGED <<stateDir, stateDisk, fileVars, step, pid, writeVars, readVars,
                 histVars>>

Code(l) ==
  \/ OpenConfig(l) \/ CheckPrivateRegular(l)
  \/ WriteAll(l) \/ SyncFile(l) \/ CloseFile(l) \/ Discard(l) \/ SyncDirectory(l)
  \/ OpenState(l) \/ ReadState(l)
  \/ OpenConfigFile(l) \/ ReadConfigFile(l)
  \/ Choose(l) \/ OpenTemporary(l) \/ RenameTemporary(l)

Next ==
  \/ \E l \in Launches : Start(l) \/ Code(l) \/ Exit(l)
  \/ PowerLoss
  \/ InstallUserConfig

Spec == Init /\ [][Next]_vars

\* The scheduler runs every process that can run.
FairSpec == Spec /\ \A l \in Launches : WF_vars(Code(l))

-----------------------------------------------------------------------------
(* Properties *)

Entries == Launches \cup {NoFile, UserFile, AlienFile}
StateEntries == Launches \cup {NoFile}
StateDirs == [state : StateEntries, temp : [Names -> StateEntries]]

TypeOK ==
  /\ config \in Entries /\ configDisk \subseteq Entries
  /\ stateDir \in StateDirs /\ stateDisk \subseteq StateDirs
  /\ len \in [Files -> 0 .. Size] /\ synced \in [Files -> 0 .. Size]
  /\ step \in [Launches -> Steps]
  /\ pid \in [Launches -> Pids]
  /\ kind \in [Launches -> Kinds]
  /\ attempt \in [Launches -> 0 .. Attempts]
  /\ env \in [Launches -> Environments]
  /\ opened \in [Launches -> Entries]
  /\ position \in [Launches -> 0 .. Size]
  /\ heard \in [Launches -> Reports]
  /\ acked \subseteq Files
  /\ stamp \in [Launches -> Nat]
  /\ clock \in Nat

\* Steps at which FinishCreatedFile, or the rename after it, owns the file.
Finishing(l) == step[l] \in {"write", "sync", "close", "discard", "rename"}
Stamp(f) == IF f = NoFile THEN 0 ELSE stamp[f]
Acked(k) == {l \in Launches : <<k, l>> \in acked}

\* "Atomically replaces the versioned state file": whatever version of the
\* directory a crash or a power loss leaves, state.toml is missing or a
\* complete, synchronized document.
StateAlwaysComplete ==
  \A d \in stateDisk \cup {stateDir} :
    d.state # NoFile => synced[<<"state", d.state>>] = Size

\* A reader that overlaps any number of writers, crashes and power losses
\* never sees a state file that ParseState rejects.
ReadsAreWhole == \A l \in Launches : heard[l] # Malformed

\* A selection that WriteRememberedEnvironment reported as written is not
\* undone by a later power loss: every version that may survive holds it or
\* one renamed into place after it.
AcknowledgedSurvives ==
  \A l \in Acked("state") : \A d \in stateDisk : Stamp(d.state) >= stamp[l]

\* renameat works by name; the name still leads to the file this launch
\* wrote, although process ids and temporary names are used again.
RenameInstallsOwnFile ==
  \A l \in Launches : At(l, "rename") => stateDir.temp[Name(l)] = l

\* A temporary name is held by the live launch that is writing it or by a
\* process that died: an error path leaves nothing behind, so only deaths use
\* up the names one process id may try.
TemporariesAccountedFor ==
  \A n \in Names : \A l \in Launches :
    stateDir.temp[n] = l =>
      At(l, "dead") \/ (Finishing(l) /\ kind[l] = "state" /\ Name(l) = n)

\* A configuration reported as created is there after a power loss: complete,
\* or replaced by the user's own.
CreatedConfigSurvives ==
  \A l \in Acked("config") :
    /\ configDisk \subseteq {l, UserFile}
    /\ synced[<<"config", l>>] = Size

\* "Existing files are never replaced": a config.toml that is not the
\* launches' own stays, unless a launch is still creating one.
ExistingConfigKept ==
  [][(config \in {UserFile, AlienFile} /\
      ~ \E l \in Launches : Finishing(l) /\ kind[l] = "config")
        => config' \in {config, UserFile}]_vars

\* The state file implements the abstract register: its content is that of
\* the file state.toml names, now and in each version that may survive.
Content(f) ==
  IF f = NoFile THEN Nothing
  ELSE IF synced[<<"state", f>>] = Size THEN env[f] ELSE Malformed
Register == INSTANCE RememberedSelection WITH
  remembered <- Content(stateDir.state),
  survivors <- {Content(d.state) : d \in stateDisk}
ImplementsRegister == Register!Spec

\* A launch nobody kills comes back from the gate, however many temporary
\* names are taken and whoever writes the files it reads.
LaunchReturns ==
  \A l \in Launches : At(l, "ensure") ~> step[l] \in Returned

\* "The template contains a usable personal environment": without edits by the
\* user, a launch for which EnsureDefaultConfig succeeded loads a document that
\* parses (an I/O error of its own apart).
EnsuredConfigIsUsable == \A l \in Launches : ~At(l, "unusable")
=============================================================================
