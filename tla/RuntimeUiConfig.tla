--------------------------- MODULE RuntimeUiConfig ---------------------------
(***************************************************************************)
(* The runtime UI configuration of browser/runtime_ui_config.cc with the   *)
(* hooks of patch 0010, for one regular profile over several runs of the   *)
(* browser.  A configured sidebar option or theme that differs from the    *)
(* one last applied overrides what the browser has saved; an unchanged one *)
(* leaves it alone.                                                        *)
(*                                                                         *)
(* The browser keeps preferences (initial values of new windows, the theme *)
(* and the dictionary of what was applied) and a session (the state of     *)
(* each window).  It writes each to disk when it likes, so that a run that *)
(* ends loses any suffix of its changes to either.                         *)
(***************************************************************************)
EXTENDS Integers

CONSTANTS
  Fields,    \* the sidebar options: sidebar_width, sidebar_collapsed
  Theme,     \* the option theme
  Values, Windows,
  Runs,      \* how often the browser is started
  Absent

Options == Fields \cup {Theme}
Sidebars == [Fields -> Values]
Configs == [Options -> Values]
Applied == [Options -> Values \cup {Absent}]
\* State: the desired configuration, the changed fields that are not recorded
\* yet, whether a window was initialized, and the startup restores it is in.
States == [desired : Configs, changed : SUBSET Fields, initialized : BOOLEAN,
           depth : 0 .. 1]

ASSUME OptionsAssumption ==
  /\ Theme \notin Fields /\ Absent \notin Values /\ Values # {} /\ Runs \in Nat
  /\ Absent \notin States

VARIABLES
  runs,        \* how often the browser was started; it runs while up is TRUE
  up,
  state,       \* the profile's State, if the run has a configuration
  scope,       \* ScopedInitialUiConfigRestore: does one exist, does it count
  fresh,       \* no window and no restore yet: the next is process startup
  window,      \* the sidebar of each open window
  prefs, prefsDisk,      \* preferences in memory, and as written
  saved, savedDisk,      \* the session likewise: the saved state of a window
  found,       \* history: what had been applied when the run began
  given        \* history: the fields some window got from the configuration

diskVars == <<prefsDisk, savedDisk>>
runVars == <<runs, up, found>>
vars == <<runVars, state, scope, fresh, window, prefs, saved, diskVars, given>>

Init ==
  /\ runs = 0 /\ up = FALSE
  /\ state = Absent /\ scope = "none" /\ fresh = FALSE
  /\ window = [w \in Windows |-> Absent]
  /\ \E v \in Values :
       prefs = [initial |-> [o \in Options |-> v],
                applied |-> [o \in Options |-> Absent],
                reached |-> [o \in Options |-> Absent]]
  /\ prefsDisk = prefs
  /\ saved = [w \in Windows |-> Absent] /\ savedDisk = saved
  /\ found = [o \in Options |-> Absent] /\ given = {}

-----------------------------------------------------------------------------
(* InitializeRuntimeUiConfig and RecordRuntimeThemeApplied *)

\* "Product profile markers compare configured width and collapse separately."
Changed(config, applied) == {o \in Options : applied[o] # config[o]}

\* Record what has been applied.  reached is history: the configured values
\* that got where they belong, recorded or not.
Record(p, config, options) ==
  [p EXCEPT !.applied = [o \in Options |-> IF o \in options THEN config[o] ELSE @[o]]]
Reached(p, config, options) ==
  [p EXCEPT !.reached = [o \in Options |-> IF o \in options THEN config[o] ELSE @[o]]]

\* Changed options become the profile's; of them only the theme is applied
\* and recorded at once.
InitialPrefs(p, config, changed) ==
  LET q == [p EXCEPT !.initial = [o \in Options |->
                                    IF o \in changed THEN config[o] ELSE @[o]]]
      theme == changed \cap {Theme}
  IN Reached(Record(q, config, theme), config, theme)

\* A run begins from what is on disk.  PostProfileInit initializes the state
\* of a regular profile if the process has published a configuration.
Start ==
  /\ ~up /\ runs < Runs
  /\ runs' = runs + 1 /\ up' = TRUE /\ fresh' = TRUE
  /\ found' = prefsDisk.applied
  /\ \/ /\ state' = Absent
        /\ UNCHANGED prefs
     \/ \E config \in Configs :
          LET changed == Changed(config, prefsDisk.applied)
          IN /\ prefs' = InitialPrefs(prefsDisk, config, changed)
             /\ state' = [desired |-> config, changed |-> changed \ {Theme},
                          initialized |-> FALSE, depth |-> 0]
  /\ UNCHANGED <<scope, window, saved, diskVars, given>>

-----------------------------------------------------------------------------
(* OverrideInitialSidebarConfig and DidInitializeSidebarConfig *)

\* Slip: a restored window is overridden also outside the startup restore.
OverridesRestored(s, restored) ==
  s # Absent /\ (~s.initialized \/ s.depth # 0)

Overrides(s, restored) ==
  /\ s # Absent
  /\ ~s.initialized \/ s.depth # 0
  /\ ~restored \/ s.depth # 0

\* Slip: the first window of a batch completes it.
RecordableInBatch(s) == s.initialized

\* Slip: the end of the batch is enough.
RecordableEmpty(s) == s.depth = 0

\* RecordSidebarApplied waits for a window and for the end of the batch.
Recordable(s) == s.initialized /\ s.depth = 0

RecordSidebarApplied(s, p) ==
  IF Recordable(s)
  THEN prefs' = Record(p, s.desired, s.changed) /\ state' = [s EXCEPT !.changed = {}]
  ELSE prefs' = p /\ state' = s

\* What a window starts with when nobody intervenes: a restored one with its
\* saved state, any other with the profile's preferences.
Native(w, restored) ==
  IF restored THEN saved[w] ELSE [f \in Fields |-> prefs.initial[f]]

\* BrowserWindowFeatures::Init of a normal window: override, construct the
\* native controller, record.  The controller may save at once what it got.
CreateWindow(w, restored) ==
  LET native == Native(w, restored)
      overridden == IF Overrides(state, restored) THEN state.changed ELSE {}
      sidebar == [f \in Fields |-> IF f \in overridden THEN state.desired[f] ELSE native[f]]
  IN /\ up /\ window[w] = Absent
     /\ restored => saved[w] # Absent
     /\ window' = [window EXCEPT ![w] = sidebar]
     /\ \E s \in {sidebar, IF restored THEN native ELSE Absent} :
          saved' = [saved EXCEPT ![w] = s]
     /\ given' = given \cup overridden
     /\ fresh' = FALSE
     /\ IF Overrides(state, restored)
        THEN RecordSidebarApplied([state EXCEPT !.initialized = TRUE],
               IF scope = "counts" THEN prefs
               ELSE Reached(prefs, state.desired, overridden))
        ELSE UNCHANGED <<state, prefs>>
     /\ UNCHANGED <<runVars, scope, diskVars>>

-----------------------------------------------------------------------------
(* ScopedInitialUiConfigRestore *)

\* Only the restore of the process startup counts, and only with a state.
BeginRestore ==
  /\ up /\ scope = "none"
  /\ fresh' = FALSE
  /\ IF fresh /\ state # Absent
     THEN scope' = "counts" /\ state' = [state EXCEPT !.depth = @ + 1]
     ELSE scope' = "inert" /\ UNCHANGED state
  /\ UNCHANGED <<runVars, window, prefs, saved, diskVars, given>>

\* Slip: the destructor does not ask whether the constructor counted.
EndRestoreAlways ==
  /\ up /\ scope # "none"
  /\ scope' = "none"
  /\ IF state # Absent
     THEN RecordSidebarApplied([state EXCEPT !.depth = @ - 1], prefs)
     ELSE UNCHANGED <<state, prefs>>
  /\ UNCHANGED <<runVars, fresh, window, saved, diskVars, given>>

\* Slip: the end of the batch does not record what its windows got.
EndRestoreUnrecorded ==
  /\ up /\ scope # "none"
  /\ scope' = "none"
  /\ IF scope = "counts"
     THEN /\ state' = [state EXCEPT !.depth = @ - 1]
          /\ prefs' = Reached(prefs, state.desired, given)
     ELSE UNCHANGED <<state, prefs>>
  /\ UNCHANGED <<runVars, fresh, window, saved, diskVars, given>>

EndRestore ==
  /\ up /\ scope # "none"
  /\ scope' = "none"
  /\ IF scope = "counts"
     THEN RecordSidebarApplied([state EXCEPT !.depth = @ - 1],
            Reached(prefs, state.desired, given))
     ELSE UNCHANGED <<state, prefs>>
  /\ UNCHANGED <<runVars, fresh, window, saved, diskVars, given>>

-----------------------------------------------------------------------------
(* The user and the browser around it *)

\* The user resizes or collapses a sidebar; the controller keeps both stores.
Resize(w) ==
  /\ window[w] # Absent
  /\ \E f \in Fields : \E v \in Values \ {window[w][f]} :
       /\ window' = [window EXCEPT ![w][f] = v]
       /\ saved' = [saved EXCEPT ![w] = window'[w]]
       /\ prefs' = [prefs EXCEPT !.initial[f] = v]
  /\ UNCHANGED <<runVars, state, scope, fresh, diskVars, given>>

ChooseTheme ==
  /\ up
  /\ \E v \in Values \ {prefs.initial[Theme]} : prefs' = [prefs EXCEPT !.initial[Theme] = v]
  /\ UNCHANGED <<runVars, state, scope, fresh, window, saved, diskVars, given>>

\* A closed window can be reopened.
Close(w) ==
  /\ window[w] # Absent
  /\ window' = [window EXCEPT ![w] = Absent]
  /\ UNCHANGED <<runVars, state, scope, fresh, prefs, saved, diskVars, given>>

WritePreferences ==
  /\ up /\ prefsDisk' = prefs
  /\ UNCHANGED <<runVars, state, scope, fresh, window, prefs, saved, savedDisk, given>>

WriteSession ==
  /\ up /\ savedDisk' = saved
  /\ UNCHANGED <<runVars, state, scope, fresh, window, prefs, saved, prefsDisk, given>>

\* The run ends, in good order or not: what was not written is lost.
End ==
  /\ up /\ up' = FALSE
  /\ state' = Absent /\ scope' = "none" /\ fresh' = FALSE
  /\ window' = [w \in Windows |-> Absent]
  /\ prefs' = prefsDisk /\ saved' = savedDisk
  /\ found' = [o \in Options |-> Absent] /\ given' = {}
  /\ UNCHANGED <<runs, diskVars>>

Next ==
  \/ Start \/ BeginRestore \/ EndRestore \/ End
  \/ \E w \in Windows, restored \in BOOLEAN : CreateWindow(w, restored)
  \/ \E w \in Windows : Resize(w) \/ Close(w)
  \/ ChooseTheme \/ WritePreferences \/ WriteSession

Spec == Init /\ [][Next]_vars

-----------------------------------------------------------------------------
(* Properties *)

TypeOK ==
  /\ runs \in 0 .. Runs /\ up \in BOOLEAN /\ fresh \in BOOLEAN
  /\ scope \in {"none", "counts", "inert"}
  /\ state \in States \cup {Absent}
  /\ window \in [Windows -> Sidebars \cup {Absent}]
  /\ {prefs, prefsDisk} \subseteq [initial : Configs, applied : Applied, reached : Applied]
  /\ {saved, savedDisk} \subseteq [Windows -> Sidebars \cup {Absent}]
  /\ found \in Applied /\ given \subseteq Fields

\* The options whose configured value differs from the one the run found.
Owed == IF state = Absent THEN {} ELSE {o \in Options : state.desired[o] # found[o]}
Opens(w) == window[w] = Absent /\ window'[w] # Absent

\* "Changed fields must apply to every window in the startup restore batch":
\* to the last as to the first, whatever else happens during the restore.
BatchGetsConfigured ==
  [][\A w \in Windows : Opens(w) /\ scope = "counts" =>
       \A f \in Fields \cap Owed : window'[w][f] = state.desired[f]]_vars

\* An option counts as applied, in memory and above all on disk, only when a
\* window got it and the startup restore is over: a run that dies before that
\* leaves the change to the next one.
MarkerIsHonest ==
  \A f \in Fields \cap Owed :
    (prefs.applied[f] = state.desired[f] \/ prefsDisk.applied[f] = state.desired[f])
      => f \in given /\ scope # "counts"

\* "Then yield to native persistence": a window starts with its native state
\* in every unchanged option, and in every option if it is reopened after the
\* startup restore or created after the configuration reached a window.
NativeStateKept ==
  [][\A w \in Windows, restored \in BOOLEAN : CreateWindow(w, restored) =>
       \A f \in Fields :
         f \notin Owed \/ (scope # "counts" /\ (restored \/ f \in given))
           => window'[w][f] = Native(w, restored)[f]]_vars

\* Once a configured value has reached its place, a run with the same value
\* leaves alone what the user has made of the option since, as far as the
\* preferences were written.
ChoiceSurvivesRestart ==
  [][up' /\ ~up /\ state' # Absent =>
       \A o \in Options : state'.desired[o] = prefsDisk.reached[o] =>
         prefs'.initial[o] = prefsDisk.initial[o]]_vars
=============================================================================
