-------------------------- MODULE BrowserConfigGate --------------------------
(***************************************************************************)
(* The startup gate of browser/browser_config_gate.cc, with the selection  *)
(* of config/runtime_config.cc, as browser and child processes of one user *)
(* run it concurrently.  They share the two configuration files a process  *)
(* may use, the environment roots and the remembered selection, which is   *)
(* the register of RememberedSelection (UserConfigState shows how the      *)
(* state file implements it).  The user edits either file at any time.     *)
(*                                                                         *)
(* A document is a record: the root of each environment, the default one,  *)
(* whether the last one is restored, and which environments list a startup *)
(* URL Chromium rejects.                                                   *)
(***************************************************************************)
EXTENDS Naturals

CONSTANTS
  Processes,
  Environments,   \* environment names
  Documents,      \* the documents the user writes
  Template,       \* the default document EnsureDefaultConfig writes
  Invocations,    \* the command lines and surroundings processes start with
  Calls,          \* how often one process may call the gate
  Missing, Torn,  \* no file; a default document still being written
  Null, Nothing

\* What LoadRuntimeConfig may return.
Snapshots ==
  {s \in [document : Documents \cup {Template}, selected : Environments] :
     s.selected \in DOMAIN s.document.roots}

Root(s) == s.document.roots[s.selected]

\* A command line: the switches the gate looks at, and what surrounds it.
IsLine(l) ==
  l = [type |-> l.type, config |-> l.config, environment |-> l.environment,
       root |-> l.root, incognito |-> l.incognito, around |-> l.around]
\* The gate rewrites --user-data-dir.
Lines ==
  Invocations \cup {[l EXCEPT !.root = Root(s)] :
                     l \in Invocations, s \in Snapshots}

ASSUME GateAssumption ==
  /\ Calls \in Nat \ {0}
  /\ Missing # Torn /\ {Missing, Torn} \cap (Documents \cup {Template}) = {}
  /\ \A d \in Documents \cup {Template} : DOMAIN d.roots \subseteq Environments
  /\ Nothing \notin Environments /\ Null \notin Snapshots
  /\ \A l \in Invocations : IsLine(l) /\ l.config \in {"absent", "blank", "file"}

VARIABLES
  document,    \* "default" (XDG) and "explicit" (--config): their contents
  remembered, survivors,    \* the register
  roots,       \* the environment roots that exist
  step,        \* where each process is
  calls,       \* how many times it entered the gate
  line,        \* its command line and surroundings
  recalled,    \* what it read from the register
  snapshot,    \* what LoadRuntimeConfig returned to it
  storage,     \* Storage(): what the process published
  quiet        \* history: the register has not changed since it started

sharedVars == <<document, remembered, survivors, roots>>
localVars  == <<calls, line, recalled, snapshot, storage, quiet>>
vars == <<sharedVars, step, localVars>>
register == <<remembered, survivors>>

Register == INSTANCE RememberedSelection

Steps == {"idle", "enter", "ensure", "finish", "read", "load", "prepare",
          "install", "remember", "flush", "done", "rejected", "dead"}
Live(p) == step[p] \notin {"idle", "rejected", "dead"}
At(p, s) == step[p] = s
Goto(p, s) == step' = [step EXCEPT ![p] = s]

Files == {"default", "explicit"}
ConfigFile(l) == IF l.config = "absent" THEN "default" ELSE "explicit"

Init ==
  /\ document \in [Files -> Documents \cup {Missing}]
  /\ Register!Init
  /\ roots = {}
  /\ step = [p \in Processes |-> "idle"]
  /\ calls = [p \in Processes |-> 0]
  /\ line = [p \in Processes |-> Null]
  /\ recalled = [p \in Processes |-> Nothing]
  /\ snapshot = [p \in Processes |-> Null]
  /\ storage = [p \in Processes |-> Null]
  /\ quiet = [p \in Processes |-> FALSE]

\* BasicStartupComplete calls the gate; nothing of an earlier call but the
\* published configuration and the rewritten command line is left.
Call(p) ==
  /\ calls' = [calls EXCEPT ![p] = @ + 1]
  /\ recalled' = [recalled EXCEPT ![p] = Nothing]
  /\ Goto(p, "enter")
  /\ UNCHANGED <<sharedVars, snapshot, storage>>

Start(p) ==
  /\ At(p, "idle")
  /\ \E l \in Invocations : line' = [line EXCEPT ![p] = l]
  /\ quiet' = [quiet EXCEPT ![p] = TRUE]
  /\ Call(p)

CallAgain(p) ==
  /\ At(p, "done")
  /\ calls[p] < Calls
  /\ UNCHANGED <<line, quiet>>
  /\ Call(p)

-----------------------------------------------------------------------------
(* InitializeExplicitBrowserConfig *)

IsChild(l) == l.type = "child"

\* "Native --user-data-dir is an intentional opt-out."
OptsOut(l) ==
  l.config = "absent" /\ l.environment = "absent" /\ l.root # "absent"

\* The checks before any file is touched, in two groups: the first applies
\* to every browser process, the second to those that do not opt out.
Refused(p, l) ==
  \/ l.type = "malformed" \/ l.around = "CHROME_USER_DATA_DIR"
  \/ /\ ~OptsOut(l)
     /\ \/ storage[p] # Null
        \/ l.config = "blank" \/ l.environment = "blank" \/ l.around = "no HOME"

\* Slip: --user-data-dir alone does not opt out.
EnterNever(p) ==
  LET l == line[p]
  IN /\ At(p, "enter")
     /\ \/ IsChild(l) /\ Goto(p, "done")
        \/ ~IsChild(l) /\ Refused(p, l) /\ Goto(p, "rejected")
        \/ /\ ~IsChild(l) /\ ~Refused(p, l)
           /\ Goto(p, IF l.config = "file" THEN "load" ELSE "ensure")
     /\ UNCHANGED <<sharedVars, localVars>>

Enter(p) ==
  LET l == line[p]
  IN /\ At(p, "enter")
     /\ \/ IsChild(l) /\ Goto(p, "done")
        \/ ~IsChild(l) /\ Refused(p, l) /\ Goto(p, "rejected")
        \/ /\ ~IsChild(l) /\ ~Refused(p, l)
           /\ \/ OptsOut(l) /\ Goto(p, "done")
              \/ ~OptsOut(l) /\ l.config = "file" /\ Goto(p, "load")
              \/ ~OptsOut(l) /\ l.config = "absent" /\ Goto(p, "ensure")
     /\ UNCHANGED <<sharedVars, localVars>>

SetDocument(f, d) == document' = [document EXCEPT ![f] = d]

\* ResolveUserConfigPaths and EnsureDefaultConfig up to the O_EXCL open, each
\* of which may refuse the directories it finds.
Ensure(p) ==
  /\ At(p, "ensure")
  /\ \/ /\ document["default"] = Missing
        /\ SetDocument("default", Torn)
        /\ Goto(p, "finish")
     \/ /\ document["default"] # Missing
        /\ UNCHANGED document
        /\ Goto(p, "read")
     \/ UNCHANGED document /\ Goto(p, "rejected")
  /\ UNCHANGED <<register, roots, localVars>>

\* The rest of EnsureDefaultConfig.  What the user moved into place meanwhile
\* is not written to, but a failed write unlinks it.
Finish(p) ==
  LET written == IF document["default"] = Torn THEN Template
                 ELSE document["default"]
  IN /\ At(p, "finish")
     /\ \/ /\ SetDocument("default", written)
           /\ \E s \in {"read", "rejected"} : Goto(p, s)
        \/ SetDocument("default", Missing) /\ Goto(p, "rejected")
     /\ UNCHANGED <<register, roots, localVars>>

\* ReadRememberedEnvironment; a failure is reported and counts as nothing.
Read(p) ==
  /\ At(p, "read")
  /\ \/ recalled' = [recalled EXCEPT ![p] = remembered] /\ UNCHANGED quiet
     \/ UNCHANGED recalled /\ quiet' = [quiet EXCEPT ![p] = FALSE]
  /\ Goto(p, "load")
  /\ UNCHANGED <<sharedVars, calls, line, snapshot, storage>>

\* Slip: the remembered environment wins over --environment.
SelectedRememberedFirst(l, d, r) ==
  IF d.restore /\ r \in DOMAIN d.roots THEN r
  ELSE IF l.environment # "absent" THEN l.environment
  ELSE d.default

\* LoadRuntimeConfig's choice.
Selected(l, d, r) ==
  IF l.environment # "absent" THEN l.environment
  ELSE IF d.restore /\ r \in DOMAIN d.roots THEN r
  ELSE d.default

\* Slip: --environment is not looked up.
AcceptableUnknown(l, d, selected) ==
  /\ d.badUrls = {}
  /\ l.root = "absent" \/ (selected \in DOMAIN d.roots /\ l.root = d.roots[selected])

\* Slip: only the selected environment's startup URLs are checked.
AcceptableSelectedOnly(l, d, selected) ==
  /\ selected \in DOMAIN d.roots
  /\ selected \notin d.badUrls
  /\ l.root \in {"absent", d.roots[selected]}

\* What must hold of the whole document and the command line before the
\* first mkdir.
Acceptable(l, d, selected) ==
  /\ selected \in DOMAIN d.roots
  /\ d.badUrls = {}
  /\ l.root \in {"absent", d.roots[selected]}

\* LoadRuntimeConfig and the checks after it.  The audit of the configured
\* directories may refuse any document.
Load(p) ==
  LET l == line[p]
      d == document[ConfigFile(l)]
      selected == Selected(l, d, recalled[p])
  IN /\ At(p, "load")
     /\ \/ /\ d \notin {Missing, Torn}
           /\ Acceptable(l, d, selected)
           /\ snapshot' = [snapshot EXCEPT
                             ![p] = [document |-> d, selected |-> selected]]
           /\ Goto(p, "prepare")
        \/ UNCHANGED snapshot /\ Goto(p, "rejected")
     /\ UNCHANGED <<sharedVars, calls, line, recalled, storage, quiet>>

\* Slip: the configuration file is read again.
PrepareReloading(p) ==
  LET d == document[ConfigFile(line[p])]
      again == [document |-> IF d \in {Missing, Torn} THEN snapshot[p].document ELSE d,
                selected |-> snapshot[p].selected]
  IN /\ At(p, "prepare")
     /\ again.selected \in DOMAIN again.document.roots
     /\ roots' = roots \cup {Root(again)}
     /\ Goto(p, "install")
     /\ UNCHANGED <<document, register, localVars>>

\* PrepareEnvironmentRoot.  It may fail, even after the last mkdirat.
Prepare(p) ==
  LET root == Root(snapshot[p])
  IN /\ At(p, "prepare")
     /\ \/ roots' = roots \cup {root} /\ Goto(p, "install")
        \/ roots' \in {roots, roots \cup {root}} /\ Goto(p, "rejected")
     /\ UNCHANGED <<document, register, localVars>>

\* The discovered configuration's normal launches are remembered.
Remembers(l, d) == l.config = "absent" /\ ~l.incognito /\ d.restore

\* --user-data-dir now names the selected root, and the snapshot is published.
Install(p) ==
  LET s == snapshot[p]
  IN /\ At(p, "install")
     /\ line' = [line EXCEPT ![p].root = Root(s)]
     /\ storage' = [storage EXCEPT ![p] = s]
     /\ Goto(p, IF Remembers(line[p], s.document) THEN "remember" ELSE "done")
     /\ UNCHANGED <<sharedVars, calls, recalled, snapshot, quiet>>

\* WriteRememberedEnvironment, up to its rename and up to the fsync of the
\* directory.  A failure of either is reported and does not end the launch.
Remember(p) ==
  /\ At(p, "remember")
  /\ \/ /\ Register!Record(storage[p].selected)
        /\ quiet' = [q \in Processes |-> FALSE]
        /\ Goto(p, "flush")
     \/ UNCHANGED <<register, quiet>> /\ Goto(p, "done")
  /\ UNCHANGED <<document, roots, calls, line, recalled, snapshot, storage>>

Flush(p) ==
  /\ At(p, "flush")
  /\ Register!MakeDurable \/ UNCHANGED register
  /\ Goto(p, "done")
  /\ UNCHANGED <<document, roots, localVars>>

-----------------------------------------------------------------------------
(* The world around the processes *)

Exit(p) ==
  /\ Live(p)
  /\ Goto(p, "dead")
  /\ UNCHANGED <<sharedVars, localVars>>

\* What a power loss may make of the discovered file: one that a launch wrote
\* by itself may be gone or torn, what the user moved into place stays.
Leftovers(d) == IF d \in {Torn, Template} THEN {Missing, Torn, Template} ELSE {d}

\* No directory above a new root is ever synchronized, so any of the roots may
\* be gone, also those of the selections that survive.
PowerLoss ==
  /\ \E p \in Processes : Live(p)
  /\ step' = [p \in Processes |-> IF Live(p) THEN "dead" ELSE step[p]]
  /\ Register!PowerLoss
  /\ roots' \in SUBSET roots
  /\ \E d \in Leftovers(document["default"]) : SetDocument("default", d)
  /\ quiet' = [p \in Processes |-> FALSE]
  /\ UNCHANGED <<calls, line, recalled, snapshot, storage>>

\* The user moves another document into place.
Edit(f) ==
  /\ \E d \in Documents \ {document[f]} : SetDocument(f, d)
  /\ UNCHANGED <<register, roots, step, localVars>>

Gate(p) ==
  \/ Enter(p) \/ Ensure(p) \/ Finish(p) \/ Read(p) \/ Load(p) \/ Prepare(p)
  \/ Install(p) \/ Remember(p) \/ Flush(p)

Next ==
  \/ \E p \in Processes : Start(p) \/ CallAgain(p) \/ Gate(p) \/ Exit(p)
  \/ PowerLoss
  \/ \E f \in Files : Edit(f)

Spec == Init /\ [][Next]_vars

-----------------------------------------------------------------------------
(* Properties *)

TypeOK ==
  /\ document \in [Files -> Documents \cup {Template, Missing, Torn}]
  /\ document["explicit"] \notin {Torn}
  /\ remembered \in survivors
  /\ survivors \subseteq Environments \cup {Nothing}
  /\ step \in [Processes -> Steps]
  /\ calls \in [Processes -> 0 .. Calls]
  /\ line \in [Processes -> Lines \cup {Null}]
  /\ recalled \in [Processes -> Environments \cup {Nothing}]
  /\ snapshot \in [Processes -> Snapshots \cup {Null}]
  /\ storage \in [Processes -> Snapshots \cup {Null}]
  /\ quiet \in [Processes -> BOOLEAN]

Discovers(p) == line[p].config = "absent"

\* A browser runs in the root that belongs to the environment its published
\* configuration selects: the switch Chromium goes on to read names it and the
\* root is there, although the user may have edited the file since, and
\* although the environment may be one a power loss left remembered without
\* its root.
RunsInSelectedRoot ==
  \A p \in Processes : Live(p) /\ storage[p] # Null =>
    /\ line[p].root = Root(storage[p])
    /\ Root(storage[p]) \in roots

\* Whatever launches leave behind, only launches that had a right to it did: a
\* root exists because one selected it from a document that passed every check
\* ("Check full URL validity for every environment, including unselected ones,
\* before mkdir"), whatever became of it later; and the selection that is
\* remembered, or that a power loss may bring back, was published by a normal
\* launch of the discovered configuration, which asked for restoring.  (Its
\* root may be gone: nothing synchronizes the directory it was made in.)
LeftByAcceptedLaunches ==
  /\ \A r \in roots : \E p \in Processes :
       /\ snapshot[p] # Null
       /\ r = Root(snapshot[p])
       /\ snapshot[p].document.badUrls = {}
  /\ \A e \in survivors \ {Nothing} : \E p \in Processes :
       /\ storage[p] # Null
       /\ storage[p].selected = e
       /\ Discovers(p) /\ ~line[p].incognito /\ storage[p].document.restore

\* --environment decides; without it a launch of the discovered configuration
\* that restores resumes the environment recorded last or, when the document
\* it read has that name no longer, takes the default, as long as nobody
\* recorded another since the launch began and the state file could be read.
SelectionResumesLast ==
  \A p \in Processes : snapshot[p] # Null =>
    LET s == snapshot[p]
        asked == line[p].environment
    IN /\ asked # "absent" => s.selected = asked
       /\ asked = "absent" /\ (~Discovers(p) \/ ~s.document.restore)
            => s.selected = s.document.default
       /\ asked = "absent" /\ Discovers(p) /\ quiet[p] /\ s.document.restore
            => s.selected = IF remembered \in DOMAIN s.document.roots
                            THEN remembered ELSE s.document.default

\* "Do not create XDG config, state, or an environment root": a child, an
\* explicit configuration and a native --user-data-dir leave the discovered
\* configuration and the remembered selection alone at every step.
OthersLeaveDefaultsAlone ==
  [][\A p \in Processes :
       /\ step'[p] \notin {step[p], "dead"}
       /\ line'[p].type = "child" \/ line'[p].config # "absent"
            \/ (OptsOut(line'[p]) /\ storage'[p] = Null)
       => UNCHANGED <<document["default"], register>>]_vars

\* "Null for children and browser processes without explicit --config."
PublishedOnlyForExplicitConfig ==
  \A p \in Processes : storage[p] # Null => line[p].config = "file"
=============================================================================
