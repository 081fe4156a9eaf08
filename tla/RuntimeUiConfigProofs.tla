------------------------ MODULE RuntimeUiConfigProofs ------------------------
(***************************************************************************)
(* Proofs about RuntimeUiConfig for any options, values, windows and       *)
(* number of runs: its type invariant, that the marker of what was applied *)
(* is honest, and its three action properties.                             *)
(*                                                                         *)
(* All rest on one invariant.  A configuration is in one of two states:    *)
(* nothing of it is recorded, neither in memory nor on disk, and all of it *)
(* still counts as changed (Unrecorded); or all of it reached a window     *)
(* outside the startup restore and nothing counts as changed (Recorded).   *)
(* The scope object and the depth count agree (Scoped), what a window was  *)
(* given is what is owed from the first window on (Given), and what got    *)
(* where it belongs is what was recorded (Faithful).                       *)
(***************************************************************************)
EXTENDS RuntimeUiConfig, TLAPS

OwedFields == Fields \cap Owed

\* Between runs nothing is left of a run but the disk.
Settled == ~up => /\ state = Absent /\ scope = "none" /\ ~fresh /\ given = {}
                  /\ window = [w \in Windows |-> Absent]
                  /\ prefs = prefsDisk /\ saved = savedDisk

Scoped ==
    /\ state = Absent => scope # "counts"
    /\ state # Absent => (state.depth = 1 <=> scope = "counts")
    /\ state # Absent /\ fresh => ~state.initialized

Given ==
    /\ state = Absent => given = {}
    /\ state # Absent => given = IF state.initialized THEN OwedFields ELSE {}

Unrecorded ==
    /\ state.changed = OwedFields
    /\ \A f \in OwedFields : prefs.applied[f] = found[f] /\ prefsDisk.applied[f] = found[f]

Recorded ==
    /\ state.changed = {}
    /\ state.initialized /\ state.depth = 0

Faithful == prefs.reached = prefs.applied /\ prefsDisk.reached = prefsDisk.applied

IInv ==
    /\ TypeOK /\ Settled /\ Scoped /\ Given /\ Faithful
    /\ state # Absent => Unrecorded \/ Recorded

-----------------------------------------------------------------------------
(* The helpers.                                                            *)

Prefs == [initial : Configs, applied : Applied, reached : Applied]

\* Recording touches the applied options only, and only those recorded.
LEMMA RecordType ==
    ASSUME NEW p \in Prefs, NEW config \in Configs, NEW options
    PROVE  /\ Record(p, config, options) \in Prefs
           /\ Record(p, config, options).initial = p.initial
           /\ Record(p, config, options).reached = p.reached
           /\ Record(p, config, options).applied
                = [o \in Options |-> IF o \in options THEN config[o] ELSE p.applied[o]]
  BY DEF Record, Prefs, Configs, Applied

LEMMA ReachedType ==
    ASSUME NEW p \in Prefs, NEW config \in Configs, NEW options
    PROVE  /\ Reached(p, config, options) \in Prefs
           /\ Reached(p, config, options).initial = p.initial
           /\ Reached(p, config, options).applied = p.applied
           /\ Reached(p, config, options).reached
                = [o \in Options |-> IF o \in options THEN config[o] ELSE p.reached[o]]
  BY DEF Reached, Prefs, Configs, Applied

\* At the start of a run the changed options become the profile's; the theme
\* is recorded at once.
LEMMA InitialPrefsType ==
    ASSUME NEW p \in Prefs, NEW config \in Configs, NEW changed
    PROVE  LET q == InitialPrefs(p, config, changed)
           IN /\ q \in Prefs
              /\ \A o \in Options \ changed : q.initial[o] = p.initial[o]
              /\ \A f \in Fields : q.applied[f] = p.applied[f]
              /\ p.reached = p.applied => q.reached = q.applied
<1> DEFINE q0 == [p EXCEPT !.initial = [o \in Options |->
                              IF o \in changed THEN config[o] ELSE @[o]]]
           theme == changed \cap {Theme}
           q1 == Record(q0, config, theme)
           q2 == Reached(q1, config, theme)
<1>1. /\ q0 \in Prefs /\ q0.applied = p.applied /\ q0.reached = p.reached
      /\ \A o \in Options \ changed : q0.initial[o] = p.initial[o]
  BY DEF Prefs, Configs
<1> HIDE DEF q0, theme, q1, q2
<1>2. /\ q1 \in Prefs /\ q1.initial = q0.initial /\ q1.reached = p.reached
      /\ q1.applied = [o \in Options |-> IF o \in theme THEN config[o] ELSE p.applied[o]]
  BY <1>1, RecordType DEF q1
<1>3. /\ q2 \in Prefs /\ q2.initial = q0.initial /\ q2.applied = q1.applied
      /\ q2.reached = [o \in Options |-> IF o \in theme THEN config[o] ELSE p.reached[o]]
  BY <1>2, ReachedType DEF q2
<1>4. InitialPrefs(p, config, changed) = q2
  BY DEF InitialPrefs, q0, theme, q1, q2
<1>5. \A f \in Fields : f \in Options /\ f \notin theme
  BY OptionsAssumption DEF Options, theme
<1>6. \A f \in Fields : q2.applied[f] = p.applied[f]
  BY <1>2, <1>3, <1>5
<1>7. p.reached = p.applied => q2.reached = q2.applied
  BY <1>2, <1>3
<1> QED BY <1>1, <1>3, <1>4, <1>6, <1>7

\* RecordSidebarApplied, by whether it waits.
LEMMA RecordSidebarAppliedType ==
    ASSUME NEW s \in States, NEW p \in Prefs, RecordSidebarApplied(s, p)
    PROVE  /\ state' \in States /\ prefs' \in Prefs
           /\ prefs'.initial = p.initial /\ prefs'.reached = p.reached
           /\ state'.desired = s.desired /\ state'.initialized = s.initialized
           /\ state'.depth = s.depth
           /\ Recordable(s) =>
                /\ state'.changed = {}
                /\ prefs'.applied = [o \in Options |->
                      IF o \in s.changed THEN s.desired[o] ELSE p.applied[o]]
           /\ ~Recordable(s) => state'.changed = s.changed /\ prefs'.applied = p.applied
<1>1. s.desired \in Configs
  BY DEF States
<1>2. CASE Recordable(s)
  <2>1. prefs' = Record(p, s.desired, s.changed) /\ state' = [s EXCEPT !.changed = {}]
    BY <1>2 DEF RecordSidebarApplied
  <2>2. /\ state' \in States /\ state'.desired = s.desired
        /\ state'.initialized = s.initialized /\ state'.depth = s.depth
        /\ state'.changed = {}
    BY <2>1 DEF States
  <2> QED BY <1>1, <1>2, <2>1, <2>2, RecordType
<1>3. CASE ~Recordable(s)
  BY <1>3 DEF RecordSidebarApplied
<1> QED BY <1>2, <1>3

\* The sidebar a window starts with.
LEMMA NativeType ==
    ASSUME TypeOK, NEW w \in Windows, NEW restored \in BOOLEAN,
           restored => saved[w] # Absent
    PROVE  Native(w, restored) \in Sidebars
<1>1. saved[w] \in Sidebars \cup {Absent}
  BY DEF TypeOK
<1>2. prefs.initial \in Configs /\ Fields \subseteq Options
  BY DEF TypeOK, Options
<1>3. [f \in Fields |-> prefs.initial[f]] \in Sidebars
  BY <1>2 DEF Sidebars, Configs
<1> QED BY <1>1, <1>3 DEF Native

\* What is owed changes with the configuration and what was found only.
LEMMA OwedKept ==
    ASSUME state # Absent, state' # Absent, state'.desired = state.desired, found' = found
    PROVE  Owed' = Owed
  BY DEF Owed

-----------------------------------------------------------------------------
(* The steps.                                                              *)

\* A step that leaves the state, what was found and both markers alone.
LEMMA MarkersKept ==
    ASSUME IInv, UNCHANGED <<state, found>>,
           prefs'.applied = prefs.applied, prefs'.reached = prefs.reached,
           prefsDisk'.applied \in {prefs.applied, prefsDisk.applied},
           prefsDisk'.reached = prefsDisk'.applied
    PROVE  Faithful' /\ (state' # Absent => Unrecorded' \/ Recorded')
<1>1. Faithful'
  BY DEF IInv, Faithful
<1>2. ASSUME state # Absent, Unrecorded PROVE Unrecorded'
  <2>1. OwedFields' = OwedFields
    BY <1>2, OwedKept DEF OwedFields
  <2> QED BY <1>2, <2>1 DEF Unrecorded
<1>3. Recorded => Recorded'
  BY DEF Recorded
<1> QED BY <1>1, <1>2, <1>3 DEF IInv

LEMMA InitInv == Init => IInv
<1> SUFFICES ASSUME Init PROVE IInv
  OBVIOUS
<1>1. PICK v \in Values :
        prefs = [initial |-> [o \in Options |-> v],
                 applied |-> [o \in Options |-> Absent],
                 reached |-> [o \in Options |-> Absent]]
  BY DEF Init
<1>2. prefs \in Prefs /\ prefsDisk = prefs
  BY <1>1 DEF Init, Prefs, Configs, Applied
<1>3. TypeOK
  <2>1. {prefs, prefsDisk} \subseteq [initial : Configs, applied : Applied, reached : Applied]
    BY <1>2 DEF Prefs
  <2>2. found \in Applied
    BY DEF Init, Applied
  <2>3. runs \in 0 .. Runs
    BY OptionsAssumption DEF Init
  <2>4. {saved, savedDisk} \subseteq [Windows -> Sidebars \cup {Absent}]
    BY DEF Init
  <2> QED BY <2>1, <2>2, <2>3, <2>4 DEF Init, TypeOK
<1>4. Faithful
  BY <1>1, <1>2 DEF Faithful
<1> QED BY <1>2, <1>3, <1>4 DEF Init, IInv, Settled, Scoped, Given

\* A run that begins owes what differs from the disk, and has recorded none of it.
LEMMA StartStep == IInv /\ Start => IInv'
<1> SUFFICES ASSUME IInv, Start PROVE IInv'
  OBVIOUS
<1>1. /\ ~up /\ up' = TRUE /\ runs' \in 0 .. Runs /\ fresh' = TRUE
      /\ found' = prefsDisk.applied
      /\ UNCHANGED <<scope, window, saved, prefsDisk, savedDisk, given>>
  BY OptionsAssumption DEF Start, diskVars, IInv, TypeOK
<1>2. prefsDisk \in Prefs /\ prefsDisk.applied \in Applied
  BY DEF IInv, TypeOK, Prefs
<1>3. state = Absent /\ scope = "none" /\ given = {} /\ prefs = prefsDisk
  BY <1>1 DEF IInv, Settled
<1>4. CASE state' = Absent /\ UNCHANGED prefs
  <2>1. TypeOK'
    BY <1>1, <1>2, <1>4 DEF IInv, TypeOK
  <2> QED BY <1>1, <1>3, <1>4, <2>1 DEF IInv, Settled, Scoped, Given, Faithful
<1>5. ASSUME NEW config \in Configs,
             prefs' = InitialPrefs(prefsDisk, config, Changed(config, prefsDisk.applied)),
             state' = [desired |-> config,
                       changed |-> Changed(config, prefsDisk.applied) \ {Theme},
                       initialized |-> FALSE, depth |-> 0]
      PROVE  IInv'
  <2>1. Changed(config, prefsDisk.applied) \ {Theme} = OwedFields' /\ state' # Absent
        /\ state' \in States
    <3>1. Changed(config, prefsDisk.applied) \ {Theme} \subseteq Fields
      BY DEF Changed, Options
    <3>2. state' \in States
      BY <1>5, <3>1 DEF States
    <3>3. state' # Absent
      BY <3>2, OptionsAssumption
    <3>4. Owed' = Changed(config, prefsDisk.applied)
      BY <1>1, <1>5, <3>3 DEF Owed, Changed
    <3> QED BY <3>2, <3>3, <3>4, OptionsAssumption DEF OwedFields, Owed, Options
  <2>2. /\ prefs' \in Prefs
        /\ \A f \in Fields : prefs'.applied[f] = prefsDisk.applied[f]
        /\ prefs'.reached = prefs'.applied
    BY <1>2, <1>5, InitialPrefsType DEF IInv, Faithful
  <2>3. TypeOK'
    BY <1>1, <1>2, <2>1, <2>2 DEF IInv, TypeOK, Prefs
  <2>4. Unrecorded'
    BY <1>1, <1>5, <2>1, <2>2 DEF Unrecorded, OwedFields
  <2>5. Faithful'
    BY <1>1, <2>2 DEF IInv, Faithful
  <2> QED BY <1>1, <1>3, <1>5, <2>1, <2>3, <2>4, <2>5 DEF IInv, Settled, Scoped, Given
<1> QED BY <1>4, <1>5 DEF Start

\* A window that is overridden, or the end of the startup restore, hands the
\* state on to RecordSidebarApplied.  s and p are what it is called with.
LEMMA HandedOn ==
    ASSUME IInv, state # Absent, found' = found, prefsDisk' = prefsDisk,
           NEW s \in States, NEW p \in Prefs, RecordSidebarApplied(s, p),
           s.desired = state.desired, s.changed = state.changed,
           state.initialized => s.initialized, state.depth = 0 => s.depth = 0,
           p.applied = prefs.applied,
           Recordable(s) => p.reached = [o \in Options |->
               IF o \in s.changed THEN s.desired[o] ELSE prefs.reached[o]],
           ~Recordable(s) => p.reached = prefs.reached
    PROVE  /\ state' # Absent /\ OwedFields' = OwedFields
           /\ Faithful' /\ (Unrecorded' \/ Recorded')
<1>1. state' \in States /\ state' # Absent /\ state'.desired = state.desired
  BY RecordSidebarAppliedType, OptionsAssumption
<1>2. OwedFields' = OwedFields
  BY <1>1, OwedKept DEF OwedFields
<1>3. CASE Recordable(s)
  <2>1. /\ state'.changed = {} /\ state'.initialized = s.initialized
        /\ state'.depth = s.depth /\ prefs'.reached = p.reached
        /\ prefs'.applied = [o \in Options |->
                               IF o \in s.changed THEN s.desired[o] ELSE p.applied[o]]
    BY <1>3, RecordSidebarAppliedType
  <2>2. Recorded'
    BY <1>3, <2>1 DEF Recordable, Recorded
  <2>3. Faithful'
    BY <1>3, <2>1 DEF IInv, Faithful
  <2> QED BY <1>1, <1>2, <2>2, <2>3
<1>4. CASE ~Recordable(s)
  <2>1. /\ state'.changed = state.changed /\ state'.initialized = s.initialized
        /\ state'.depth = s.depth
        /\ prefs'.applied = prefs.applied /\ prefs'.reached = prefs.reached
    BY <1>4, RecordSidebarAppliedType
  <2>2. ~Recorded
    BY <1>4 DEF Recorded, Recordable
  <2>3. Unrecorded'
    BY <1>2, <2>1, <2>2 DEF IInv, Unrecorded
  <2> QED BY <1>1, <1>2, <2>1, <2>3 DEF IInv, Faithful
<1> QED BY <1>3, <1>4

LEMMA CreateWindowStep ==
    ASSUME IInv, NEW w \in Windows, NEW restored \in BOOLEAN, CreateWindow(w, restored)
    PROVE  IInv'
<1> DEFINE native == Native(w, restored)
           overridden == IF Overrides(state, restored) THEN state.changed ELSE {}
           sidebar == [f \in Fields |-> IF f \in overridden THEN state.desired[f]
                                       ELSE native[f]]
           p == IF scope = "counts" THEN prefs ELSE Reached(prefs, state.desired, overridden)
           s == [state EXCEPT !.initialized = TRUE]
<1>1. /\ up /\ fresh' = FALSE /\ given' = given \cup overridden
      /\ UNCHANGED <<runs, up, found, scope, prefsDisk, savedDisk>>
      /\ window' = [window EXCEPT ![w] = sidebar]
      /\ \E k \in {sidebar, IF restored THEN native ELSE Absent} : saved' = [saved EXCEPT ![w] = k]
      /\ restored => saved[w] # Absent
      /\ IF Overrides(state, restored) THEN RecordSidebarApplied(s, p)
         ELSE UNCHANGED <<state, prefs>>
  BY DEF CreateWindow, runVars, diskVars
<1>2. native \in Sidebars
  BY <1>1, NativeType DEF IInv
<1>3. overridden \subseteq Fields /\ (overridden # {} => state.desired \in Configs)
  BY DEF Overrides, IInv, TypeOK, States
<1> HIDE DEF native, overridden, s, p
<1>4. sidebar \in Sidebars
  <2>1. \A f \in overridden : state.desired[f] \in Values
    BY <1>3 DEF Configs, Options
  <2> QED BY <1>2, <2>1 DEF Sidebars
<1> HIDE DEF sidebar
<1>5. /\ window' \in [Windows -> Sidebars \cup {Absent}]
      /\ saved' \in [Windows -> Sidebars \cup {Absent}]
  BY <1>1, <1>2, <1>4 DEF IInv, TypeOK
<1>6. CASE Overrides(state, restored)
  <2>1. state # Absent /\ state \in States /\ overridden = state.changed
    BY <1>6 DEF Overrides, IInv, TypeOK, overridden
  <2>2. /\ s \in States /\ s.desired = state.desired /\ s.changed = state.changed
        /\ s.initialized = TRUE /\ s.depth = state.depth
    BY <2>1 DEF States, s
  <2>3. ~Recorded /\ Unrecorded
    BY <1>6, <2>1 DEF Overrides, Recorded, IInv
  <2>4. prefs \in Prefs /\ state.desired \in Configs
    BY <2>1 DEF IInv, TypeOK, Prefs, States
  <2>5. Recordable(s) <=> scope # "counts"
    <3>1. state.depth \in {0, 1}
      BY <2>1 DEF States
    <3> QED BY <2>1, <2>2, <3>1 DEF Recordable, IInv, Scoped
  <2>6. /\ p \in Prefs /\ p.applied = prefs.applied
        /\ ~Recordable(s) => p.reached = prefs.reached
        /\ Recordable(s) => p.reached = [o \in Options |->
               IF o \in s.changed THEN s.desired[o] ELSE prefs.reached[o]]
    BY <2>1, <2>2, <2>4, <2>5, ReachedType DEF p
  <2>7. RecordSidebarApplied(s, p)
    BY <1>1, <1>6
  <2>8. /\ state' # Absent /\ OwedFields' = OwedFields
        /\ Faithful' /\ (Unrecorded' \/ Recorded')
    BY <1>1, <2>1, <2>2, <2>6, <2>7, HandedOn
  <2>9. /\ state' \in States /\ prefs' \in Prefs
        /\ state'.initialized = TRUE /\ state'.depth = state.depth
    BY <2>2, <2>6, <2>7, RecordSidebarAppliedType
  <2>10. given' = OwedFields'
    BY <1>1, <2>1, <2>3, <2>8 DEF Unrecorded, IInv, Given
  <2>11. TypeOK'
    BY <1>1, <1>3, <1>5, <2>9 DEF IInv, TypeOK, Prefs
  <2>12. Settled' /\ Scoped' /\ Given'
    BY <1>1, <2>1, <2>8, <2>9, <2>10 DEF IInv, Settled, Scoped, Given
  <2> QED BY <2>8, <2>11, <2>12 DEF IInv
<1>7. CASE ~Overrides(state, restored)
  <2>1. UNCHANGED <<state, prefs, given>>
    BY <1>1, <1>7 DEF overridden
  <2>2. Faithful' /\ (state' # Absent => Unrecorded' \/ Recorded')
    BY <1>1, <2>1, MarkersKept DEF IInv, Faithful
  <2>3. TypeOK'
    BY <1>1, <1>5, <2>1 DEF IInv, TypeOK
  <2>4. OwedFields' = OwedFields
    BY <1>1, <2>1 DEF OwedFields, Owed
  <2>5. Settled' /\ Scoped' /\ Given'
    BY <1>1, <2>1, <2>4 DEF IInv, Settled, Scoped, Given
  <2> QED BY <2>2, <2>3, <2>5 DEF IInv
<1> QED BY <1>6, <1>7

LEMMA BeginRestoreStep == IInv /\ BeginRestore => IInv'
<1> SUFFICES ASSUME IInv, BeginRestore PROVE IInv'
  OBVIOUS
<1>1. /\ up /\ scope = "none" /\ fresh' = FALSE
      /\ UNCHANGED <<runs, up, found, window, prefs, saved, prefsDisk, savedDisk, given>>
  BY DEF BeginRestore, runVars, diskVars
<1>2. CASE fresh /\ state # Absent
  <2>1. state \in States /\ state.depth = 0 /\ ~state.initialized /\ Unrecorded
    BY <1>1, <1>2 DEF IInv, TypeOK, States, Scoped, Recorded
  <2>2. scope' = "counts" /\ state' = [state EXCEPT !.depth = @ + 1]
    BY <1>2 DEF BeginRestore
  <2>3. /\ state' \in States /\ state'.depth = 1 /\ ~state'.initialized
        /\ state'.desired = state.desired /\ state'.changed = state.changed
    BY <2>1, <2>2 DEF States
  <2>4. state' # Absent /\ OwedFields' = OwedFields
    BY <1>1, <1>2, <2>3, OwedKept, OptionsAssumption DEF OwedFields
  <2>5. Unrecorded' /\ Faithful'
    BY <1>1, <2>1, <2>3, <2>4 DEF IInv, Unrecorded, Faithful
  <2>6. TypeOK'
    BY <1>1, <2>2, <2>3 DEF IInv, TypeOK
  <2>7. Settled' /\ Scoped' /\ Given'
    BY <1>1, <1>2, <2>1, <2>2, <2>3, <2>4 DEF IInv, Settled, Scoped, Given
  <2> QED BY <2>5, <2>6, <2>7 DEF IInv
<1>3. CASE ~(fresh /\ state # Absent)
  <2>1. scope' = "inert" /\ UNCHANGED state
    BY <1>3 DEF BeginRestore
  <2>2. Faithful' /\ (state' # Absent => Unrecorded' \/ Recorded')
    BY <1>1, <2>1, MarkersKept DEF IInv, Faithful
  <2>3. OwedFields' = OwedFields
    BY <1>1, <2>1 DEF OwedFields, Owed
  <2> QED BY <1>1, <2>1, <2>2, <2>3 DEF IInv, TypeOK, Settled, Scoped, Given
<1> QED BY <1>2, <1>3

LEMMA EndRestoreStep == IInv /\ EndRestore => IInv'
<1> SUFFICES ASSUME IInv, EndRestore PROVE IInv'
  OBVIOUS
<1>1. /\ up /\ scope # "none" /\ scope' = "none"
      /\ UNCHANGED <<runs, up, found, fresh, window, saved, prefsDisk, savedDisk, given>>
  BY DEF EndRestore, runVars, diskVars
<1>2. CASE scope = "counts"
  <2> DEFINE s == [state EXCEPT !.depth = @ - 1]
             p == Reached(prefs, state.desired, given)
  <2>1. RecordSidebarApplied(s, p)
    BY <1>2 DEF EndRestore
  <2>2. /\ state # Absent /\ state \in States /\ state.depth = 1 /\ Unrecorded
        /\ state.desired \in Configs /\ prefs \in Prefs
    BY <1>2 DEF IInv, TypeOK, Scoped, Recorded, States, Prefs
  <2>3. /\ s \in States /\ s.desired = state.desired /\ s.changed = state.changed
        /\ s.initialized = state.initialized /\ s.depth = 0
    BY <2>2 DEF States
  <2>4. p \in Prefs /\ p.applied = prefs.applied
        /\ p.reached = [o \in Options |->
               IF o \in given THEN state.desired[o] ELSE prefs.reached[o]]
    BY <2>2, ReachedType
  <2> HIDE DEF s, p
  <2>5. given = IF state.initialized THEN state.changed ELSE {}
    BY <2>2 DEF IInv, Given, Unrecorded
  <2>6. Recordable(s) <=> state.initialized
    BY <2>3 DEF Recordable
  <2>7. prefs.reached = [o \in Options |-> prefs.reached[o]]
    BY <2>2 DEF Prefs, Applied
  <2>8. /\ ~Recordable(s) => p.reached = prefs.reached
        /\ Recordable(s) => p.reached = [o \in Options |->
               IF o \in s.changed THEN s.desired[o] ELSE prefs.reached[o]]
    BY <2>3, <2>4, <2>5, <2>6, <2>7
  <2>9. /\ state' # Absent /\ OwedFields' = OwedFields
        /\ Faithful' /\ (Unrecorded' \/ Recorded')
    BY <1>1, <2>1, <2>2, <2>3, <2>4, <2>8, HandedOn
  <2>10. /\ state' \in States /\ prefs' \in Prefs
         /\ state'.initialized = state.initialized /\ state'.depth = 0
    BY <2>1, <2>3, <2>4, RecordSidebarAppliedType
  <2>11. TypeOK'
    BY <1>1, <2>10 DEF IInv, TypeOK, Prefs
  <2>12. Settled' /\ Scoped' /\ Given'
    BY <1>1, <2>2, <2>9, <2>10 DEF IInv, Settled, Scoped, Given
  <2> QED BY <2>9, <2>11, <2>12 DEF IInv
<1>3. CASE scope # "counts"
  <2>1. UNCHANGED <<state, prefs>>
    BY <1>3 DEF EndRestore
  <2>2. Faithful' /\ (state' # Absent => Unrecorded' \/ Recorded')
    BY <1>1, <2>1, MarkersKept DEF IInv, Faithful
  <2>3. OwedFields' = OwedFields
    BY <1>1, <2>1 DEF OwedFields, Owed
  <2> QED BY <1>1, <1>3, <2>1, <2>2, <2>3 DEF IInv, TypeOK, Settled, Scoped, Given
<1> QED BY <1>2, <1>3

\* What the user does to a window or the theme changes no marker.
LEMMA UserStep ==
    ASSUME IInv,
           \/ \E w \in Windows : Resize(w) \/ Close(w)
           \/ ChooseTheme
    PROVE  IInv'
<1>1. /\ UNCHANGED <<runs, up, found, state, scope, fresh, prefsDisk, savedDisk, given>>
  BY DEF Resize, Close, ChooseTheme, runVars, diskVars
<1>2. up
  BY DEF Resize, Close, ChooseTheme, IInv, Settled
<1>3. prefs \in Prefs
  BY DEF IInv, TypeOK, Prefs
<1>4. /\ prefs' \in Prefs /\ prefs'.applied = prefs.applied /\ prefs'.reached = prefs.reached
      /\ window' \in [Windows -> Sidebars \cup {Absent}]
      /\ saved' \in [Windows -> Sidebars \cup {Absent}]
  <2>1. ASSUME NEW w \in Windows, Resize(w) PROVE <1>4!:
    <3>1. PICK f \in Fields, v \in Values :
            /\ window' = [window EXCEPT ![w][f] = v]
            /\ saved' = [saved EXCEPT ![w] = window'[w]]
            /\ prefs' = [prefs EXCEPT !.initial[f] = v]
      BY <2>1 DEF Resize
    <3>2. window[w] \in Sidebars
      BY <2>1 DEF Resize, IInv, TypeOK
    <3>3. window' = [window EXCEPT ![w] = [window[w] EXCEPT ![f] = v]]
      BY <3>1
    <3>4. [window[w] EXCEPT ![f] = v] \in Sidebars
      BY <3>2 DEF Sidebars
    <3>5. window' \in [Windows -> Sidebars \cup {Absent}] /\ window'[w] \in Sidebars
      BY <3>3, <3>4 DEF IInv, TypeOK
    <3>6. saved' \in [Windows -> Sidebars \cup {Absent}]
      BY <3>1, <3>5 DEF IInv, TypeOK
    <3>7. prefs' = [prefs EXCEPT !.initial = [prefs.initial EXCEPT ![f] = v]]
      BY <3>1
    <3>8. [prefs.initial EXCEPT ![f] = v] \in Configs
      BY <1>3 DEF Prefs, Configs, Options
    <3> QED BY <1>3, <3>5, <3>6, <3>7, <3>8 DEF Prefs
  <2>2. ASSUME NEW w \in Windows, Close(w) PROVE <1>4!:
    BY <1>3, <2>2 DEF Close, IInv, TypeOK
  <2>3. ASSUME ChooseTheme PROVE <1>4!:
    <3>1. PICK v \in Values : prefs' = [prefs EXCEPT !.initial[Theme] = v]
      BY <2>3 DEF ChooseTheme
    <3>2. prefs' = [prefs EXCEPT !.initial = [prefs.initial EXCEPT ![Theme] = v]]
      BY <3>1
    <3>3. [prefs.initial EXCEPT ![Theme] = v] \in Configs
      BY <1>3 DEF Prefs, Configs, Options
    <3>4. UNCHANGED <<window, saved>>
      BY <2>3 DEF ChooseTheme
    <3> QED BY <1>3, <3>2, <3>3, <3>4 DEF Prefs, IInv, TypeOK
  <2> QED BY <2>1, <2>2, <2>3
<1>5. Faithful' /\ (state' # Absent => Unrecorded' \/ Recorded')
  BY <1>1, <1>4, MarkersKept DEF IInv, Faithful
<1>6. OwedFields' = OwedFields
  BY <1>1 DEF OwedFields, Owed
<1>7. TypeOK'
  BY <1>1, <1>4 DEF IInv, TypeOK, Prefs
<1> QED BY <1>1, <1>2, <1>5, <1>6, <1>7 DEF IInv, Settled, Scoped, Given

LEMMA WriteStep == IInv /\ (WritePreferences \/ WriteSession) => IInv'
<1> SUFFICES ASSUME IInv, WritePreferences \/ WriteSession PROVE IInv'
  OBVIOUS
<1>1. /\ up /\ UNCHANGED <<runs, up, found, state, scope, fresh, window, prefs, saved, given>>
      /\ prefsDisk' \in {prefs, prefsDisk} /\ savedDisk' \in {saved, savedDisk}
  BY DEF WritePreferences, WriteSession, runVars
<1>2. Faithful' /\ (state' # Absent => Unrecorded' \/ Recorded')
  BY <1>1, MarkersKept DEF IInv, Faithful
<1>3. OwedFields' = OwedFields
  BY <1>1 DEF OwedFields, Owed
<1> QED BY <1>1, <1>2, <1>3 DEF IInv, TypeOK, Settled, Scoped, Given

LEMMA EndStep == IInv /\ End => IInv'
<1> SUFFICES ASSUME IInv, End PROVE IInv'
  OBVIOUS
<1>1. /\ up' = FALSE /\ state' = Absent /\ scope' = "none" /\ fresh' = FALSE
      /\ window' = [w \in Windows |-> Absent] /\ prefs' = prefsDisk /\ saved' = savedDisk
      /\ found' = [o \in Options |-> Absent] /\ given' = {}
      /\ UNCHANGED <<runs, prefsDisk, savedDisk>>
  BY DEF End, diskVars
<1>2. found' \in Applied
  BY <1>1 DEF Applied
<1>3. TypeOK'
  BY <1>1, <1>2 DEF IInv, TypeOK
<1> QED BY <1>1, <1>3 DEF IInv, Settled, Scoped, Given, Faithful

LEMMA NextInv == IInv /\ [Next]_vars => IInv'
<1> SUFFICES ASSUME IInv, [Next]_vars PROVE IInv'
  OBVIOUS
<1>1. CASE UNCHANGED vars
  BY <1>1 DEF vars, runVars, diskVars, IInv, TypeOK, Settled, Scoped, Given, Faithful,
              Unrecorded, Recorded, OwedFields, Owed
<1> QED BY <1>1, StartStep, BeginRestoreStep, EndRestoreStep, EndStep, CreateWindowStep,
           UserStep, WriteStep DEF Next

-----------------------------------------------------------------------------
(* The theorems.                                                           *)

LEMMA Inductive == Spec => []IInv
  BY InitInv, NextInv, PTL DEF Spec

\* Over any number of runs that end anywhere, what InitializeRuntimeUiConfig,
\* the windows and the stores keep is of its type; the count of restores never
\* leaves 0 and 1.
THEOREM UiTypes == Spec => []TypeOK
<1>1. IInv => TypeOK
  BY DEF IInv
<1> QED BY <1>1, Inductive, PTL

\* RecordSidebarApplied tells the truth: no option counts as applied, in memory
\* or on disk, before a window got it and the startup restore is over.
THEOREM UiMarkerIsHonest == Spec => []MarkerIsHonest
<1>1. IInv => MarkerIsHonest
  <2> SUFFICES ASSUME IInv, NEW f \in OwedFields,
                      \/ prefs.applied[f] = state.desired[f]
                      \/ prefsDisk.applied[f] = state.desired[f]
               PROVE  f \in given /\ scope # "counts"
    BY DEF MarkerIsHonest, OwedFields
  <2>1. state # Absent /\ state.desired[f] # found[f]
    BY DEF OwedFields, Owed
  <2>2. Recorded
    BY <2>1 DEF IInv, Unrecorded
  <2> QED BY <2>1, <2>2 DEF IInv, Scoped, Given, Recorded
<1> QED BY <1>1, Inductive, PTL

\* "Changed fields must apply to every window in the startup restore batch."
THEOREM UiBatchGetsConfigured == Spec => BatchGetsConfigured
<1> DEFINE A == \A w \in Windows : Opens(w) /\ scope = "counts" =>
                  \A f \in Fields \cap Owed : window'[w][f] = state.desired[f]
<1>1. IInv /\ Next => A
  <2> SUFFICES ASSUME IInv, Next, NEW w \in Windows, Opens(w), scope = "counts",
                      NEW f \in Fields \cap Owed
               PROVE  window'[w][f] = state.desired[f]
    OBVIOUS
  <2>1. PICK restored \in BOOLEAN : CreateWindow(w, restored)
    <3>1. UNCHANGED window \/ window' = [u \in Windows |-> Absent]
          \/ (\E u \in Windows, r \in BOOLEAN : CreateWindow(u, r))
          \/ (\E u \in Windows : Resize(u) \/ Close(u))
      BY DEF Next, Start, BeginRestore, EndRestore, End, ChooseTheme, WritePreferences,
             WriteSession
    <3>2. ASSUME NEW u \in Windows, Resize(u) \/ Close(u) PROVE FALSE
      BY <3>2 DEF Opens, Resize, Close, IInv, TypeOK
    <3>3. ASSUME NEW u \in Windows, NEW r \in BOOLEAN, CreateWindow(u, r), u # w PROVE FALSE
      BY <3>3 DEF Opens, CreateWindow, IInv, TypeOK
    <3> QED BY <3>1, <3>2, <3>3 DEF Opens
  <2>2. state # Absent /\ state.depth = 1 /\ Unrecorded
    BY DEF Owed, IInv, Scoped, Recorded
  <2>3. Overrides(state, restored)
    BY <2>2 DEF Overrides
  <2>4. f \in state.changed
    BY <2>2 DEF Unrecorded, OwedFields
  <2> QED BY <2>1, <2>3, <2>4 DEF CreateWindow, IInv, TypeOK
<1>2. IInv /\ [Next]_vars => [A]_vars
  BY <1>1
<1>3. Spec => [][A]_vars
  BY <1>2, Inductive, PTL DEF Spec
<1> QED BY <1>3 DEF BatchGetsConfigured

\* "Then yield to native persistence."
THEOREM UiNativeStateKept == Spec => NativeStateKept
<1> DEFINE A == \A w \in Windows, restored \in BOOLEAN : CreateWindow(w, restored) =>
                  \A f \in Fields :
                    f \notin Owed \/ (scope # "counts" /\ (restored \/ f \in given))
                      => window'[w][f] = Native(w, restored)[f]
<1>1. IInv => A
  <2> SUFFICES ASSUME IInv, NEW w \in Windows, NEW restored \in BOOLEAN,
                      CreateWindow(w, restored), NEW f \in Fields,
                      f \notin Owed \/ (scope # "counts" /\ (restored \/ f \in given))
               PROVE  window'[w][f] = Native(w, restored)[f]
    OBVIOUS
  <2>1. Overrides(state, restored) => f \notin state.changed
    <3> SUFFICES ASSUME Overrides(state, restored), f \in state.changed PROVE FALSE
      OBVIOUS
    <3>1. state # Absent /\ Unrecorded /\ f \in Owed
      BY DEF Overrides, IInv, Recorded, Unrecorded, OwedFields
    <3>2. state.depth \in {0, 1}
      BY <3>1 DEF IInv, TypeOK, States
    <3>3. state.depth = 0 /\ ~restored /\ f \in given /\ ~state.initialized
      BY <3>1, <3>2 DEF IInv, Scoped, Overrides
    <3> QED BY <3>1, <3>3 DEF IInv, Given
  <2>2. window' = [window EXCEPT ![w] =
           [g \in Fields |-> IF g \in (IF Overrides(state, restored) THEN state.changed
                                      ELSE {})
                            THEN state.desired[g] ELSE Native(w, restored)[g]]]
    BY DEF CreateWindow
  <2> QED BY <2>1, <2>2 DEF IInv, TypeOK
<1>2. IInv /\ [Next]_vars => [A]_vars
  BY <1>1
<1>3. Spec => [][A]_vars
  BY <1>2, Inductive, PTL DEF Spec
<1> QED BY <1>3 DEF NativeStateKept

\* A run with the value that has reached its place before leaves the user's
\* choice alone.
THEOREM UiChoiceSurvivesRestart == Spec => ChoiceSurvivesRestart
<1> DEFINE A == up' /\ ~up /\ state' # Absent =>
                  \A o \in Options : state'.desired[o] = prefsDisk.reached[o] =>
                    prefs'.initial[o] = prefsDisk.initial[o]
<1>1. IInv /\ Next => A
  <2> SUFFICES ASSUME IInv, Next, up', ~up, state' # Absent, NEW o \in Options,
                      state'.desired[o] = prefsDisk.reached[o]
               PROVE  prefs'.initial[o] = prefsDisk.initial[o]
    OBVIOUS
  <2>1. Start
    BY DEF Next, BeginRestore, EndRestore, End, CreateWindow, Resize, Close, ChooseTheme,
           WritePreferences, WriteSession, runVars
  <2>2. PICK config \in Configs :
          /\ prefs' = InitialPrefs(prefsDisk, config, Changed(config, prefsDisk.applied))
          /\ state'.desired = config
    BY <2>1 DEF Start
  <2>3. o \notin Changed(config, prefsDisk.applied)
    BY <2>2 DEF Changed, IInv, Faithful
  <2> QED BY <2>2, <2>3, InitialPrefsType DEF IInv, TypeOK, Prefs
<1>2. IInv /\ [Next]_vars => [A]_vars
  BY <1>1
<1>3. Spec => [][A]_vars
  BY <1>2, Inductive, PTL DEF Spec
<1> QED BY <1>3 DEF ChoiceSurvivesRestart
=============================================================================
