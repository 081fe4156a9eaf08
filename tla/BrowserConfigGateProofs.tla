----------------------- MODULE BrowserConfigGateProofs -----------------------
(***************************************************************************)
(* Proofs about BrowserConfigGate for any processes, documents, command    *)
(* lines and number of calls: every invariant and action property that its *)
(* run checks, and that the gate uses the remembered selection as its      *)
(* register allows.                                                        *)
(*                                                                         *)
(* The inductive invariant says of each process where in the gate it may   *)
(* be with which line, snapshot and publication (Phased), what the value   *)
(* it recalled is worth (Recalled), and that a snapshot, once taken, is    *)
(* accepted and is never taken again (Resumes): so that whatever a         *)
(* launch leaves behind keeps the launch that accounts for it.             *)
(***************************************************************************)
EXTENDS BrowserConfigGate, TLAPS

\* Where the gate may be, by what the process is and has.
Phased(p) ==
    /\ step[p] # "idle" => line[p] \in Lines
    /\ step[p] = "idle" => calls[p] = 0 /\ storage[p] = Null /\ snapshot[p] = Null
    /\ step[p] \in {"ensure", "finish", "read", "load", "prepare", "install"}
         => storage[p] = Null /\ ~IsChild(line[p]) /\ ~OptsOut(line[p])
    /\ step[p] \in {"enter", "ensure", "finish", "read", "load", "done"}
         => snapshot[p] = storage[p]
    /\ step[p] \in {"ensure", "finish", "read"} => Discovers(p)
    /\ step[p] \in {"prepare", "install"} => snapshot[p] # Null
    /\ step[p] = "install" => Root(snapshot[p]) \in roots
    /\ step[p] \in {"remember", "flush"}
         => storage[p] # Null /\ Remembers(line[p], storage[p].document) /\ ~IsChild(line[p])
    /\ storage[p] # Null => snapshot[p] = storage[p]

\* What a process remembers of the register is worth something only where it
\* looked, and only while nobody wrote.
Recalled(p) ==
    /\ step[p] \in {"enter", "ensure", "finish", "read"} => recalled[p] = Nothing
    /\ step[p] = "load" =>
         /\ ~Discovers(p) => recalled[p] = Nothing
         /\ Discovers(p) /\ quiet[p] => recalled[p] = remembered

\* The conjuncts of the properties that speak of one process.
Runs(p) == Live(p) /\ storage[p] # Null =>
    line[p].root = Root(storage[p]) /\ Root(storage[p]) \in roots

Resumes(p) == snapshot[p] # Null =>
    LET s == snapshot[p]
        asked == line[p].environment
    IN /\ s.document.badUrls = {}
       /\ asked # "absent" => s.selected = asked
       /\ asked = "absent" /\ (~Discovers(p) \/ ~s.document.restore)
            => s.selected = s.document.default
       /\ asked = "absent" /\ Discovers(p) /\ quiet[p] /\ s.document.restore
            => s.selected = IF remembered \in DOMAIN s.document.roots
                            THEN remembered ELSE s.document.default

Good(p) == Phased(p) /\ Recalled(p) /\ Runs(p) /\ Resumes(p)

IInv == TypeOK /\ (\A p \in Processes : Good(p)) /\ LeftByAcceptedLaunches

-----------------------------------------------------------------------------
(* Command lines.                                                          *)

LEMMA LineType ==
    ASSUME NEW l \in Lines
    PROVE  IsLine(l) /\ l.config \in {"absent", "blank", "file"}
<1>1. CASE l \in Invocations
  BY <1>1, GateAssumption
<1>2. ASSUME NEW k \in Invocations, NEW r, l = [k EXCEPT !.root = r]
      PROVE  IsLine(l) /\ l.config \in {"absent", "blank", "file"}
  <2>1. IsLine(k) /\ k.config \in {"absent", "blank", "file"}
    BY GateAssumption
  <2>2. k = [type |-> k.type, config |-> k.config, environment |-> k.environment,
             root |-> k.root, incognito |-> k.incognito, around |-> k.around]
    BY <2>1 DEF IsLine
  <2>3. l = [type |-> k.type, config |-> k.config, environment |-> k.environment,
             root |-> r, incognito |-> k.incognito, around |-> k.around]
    BY <1>2, <2>2
  <2> QED BY <2>1, <2>3 DEF IsLine
<1> QED BY <1>1, <1>2 DEF Lines

\* Rewriting --user-data-dir leaves the other switches alone.
LEMMA LineRewritten ==
    ASSUME NEW l \in Lines, NEW s \in Snapshots
    PROVE  LET k == [l EXCEPT !.root = Root(s)]
           IN /\ k \in Lines /\ k.root = Root(s) /\ k.type = l.type
              /\ k.config = l.config /\ k.environment = l.environment
              /\ k.incognito = l.incognito
<1> DEFINE k == [l EXCEPT !.root = Root(s)]
<1>1. l = [type |-> l.type, config |-> l.config, environment |-> l.environment,
           root |-> l.root, incognito |-> l.incognito, around |-> l.around]
  BY LineType DEF IsLine
<1>2. k = [type |-> l.type, config |-> l.config, environment |-> l.environment,
           root |-> Root(s), incognito |-> l.incognito, around |-> l.around]
  BY <1>1
<1>3. k \in Lines
  <2>1. CASE l \in Invocations
    <3>1. \E i \in Invocations, t \in Snapshots : k = [i EXCEPT !.root = Root(t)]
      BY <2>1
    <3> HIDE DEF k
    <3> QED BY <3>1 DEF Lines
  <2>2. ASSUME NEW j \in Invocations, NEW r, l = [j EXCEPT !.root = r] PROVE k \in Lines
    <3>1. j = [type |-> j.type, config |-> j.config, environment |-> j.environment,
               root |-> j.root, incognito |-> j.incognito, around |-> j.around]
      BY GateAssumption DEF IsLine
    <3>2. [j EXCEPT !.root = Root(s)]
            = [type |-> j.type, config |-> j.config, environment |-> j.environment,
               root |-> Root(s), incognito |-> j.incognito, around |-> j.around]
      BY <3>1
    <3>3. l = [type |-> j.type, config |-> j.config, environment |-> j.environment,
               root |-> r, incognito |-> j.incognito, around |-> j.around]
      BY <2>2, <3>1
    <3>4. k = [j EXCEPT !.root = Root(s)]
      BY <1>2, <3>2, <3>3
    <3>5. \E i \in Invocations, t \in Snapshots : k = [i EXCEPT !.root = Root(t)]
      BY <3>4
    <3> HIDE DEF k
    <3> QED BY <3>5 DEF Lines
  <2> HIDE DEF k
  <2> QED BY <2>1, <2>2 DEF Lines
<1> QED BY <1>2, <1>3

-----------------------------------------------------------------------------
(* What steps leave alone.                                                 *)

\* A process keeps its part of the invariant while others move.
LEMMA GoodKept ==
    ASSUME NEW q \in Processes, Good(q),
           step'[q] = step[q], calls'[q] = calls[q], line'[q] = line[q],
           recalled'[q] = recalled[q], snapshot'[q] = snapshot[q], storage'[q] = storage[q],
           roots \subseteq roots', quiet'[q] => quiet[q] /\ remembered' = remembered
    PROVE  Good(q)'
<1>1. Phased(q)'
  BY DEF Good, Phased, Discovers, Root
<1>2. Recalled(q)'
  BY DEF Good, Recalled, Discovers
<1>3. Runs(q)'
  BY DEF Good, Runs, Live, Root
<1>4. Resumes(q)'
  BY DEF Good, Resumes, Discovers
<1> QED BY <1>1, <1>2, <1>3, <1>4 DEF Good

\* An action of process p.
LEMMA OthersKept ==
    ASSUME IInv, NEW p \in Processes,
           \A q \in Processes \ {p} :
             /\ step'[q] = step[q] /\ calls'[q] = calls[q] /\ line'[q] = line[q]
             /\ recalled'[q] = recalled[q] /\ snapshot'[q] = snapshot[q]
             /\ storage'[q] = storage[q]
             /\ quiet'[q] => quiet[q] /\ remembered' = remembered,
           roots \subseteq roots',
           Good(p)'
    PROVE  (\A q \in Processes : Good(q))'
<1>1. ASSUME NEW q \in Processes, q # p PROVE Good(q)'
  BY <1>1, GoodKept DEF IInv
<1> QED BY <1>1

\* Every snapshot and publication stays, and accounts for what it left.
LEMMA LeftKept ==
    ASSUME IInv,
           \A p \in Processes : snapshot[p] # Null => snapshot'[p] = snapshot[p],
           \A p \in Processes : storage[p] # Null =>
               /\ storage'[p] = storage[p]
               /\ line'[p].config = line[p].config /\ line'[p].incognito = line[p].incognito,
           \A r \in roots' \ roots : \E p \in Processes :
               snapshot[p] # Null /\ r = Root(snapshot[p]) /\ snapshot[p].document.badUrls = {},
           \A e \in survivors' \ (survivors \cup {Nothing}) : \E p \in Processes :
               /\ storage[p] # Null /\ storage[p].selected = e
               /\ Remembers(line[p], storage[p].document)
    PROVE  LeftByAcceptedLaunches'
<1>1. ASSUME NEW r \in roots'
      PROVE  \E p \in Processes : /\ snapshot'[p] # Null
                                  /\ r = Root(snapshot'[p])
                                  /\ snapshot'[p].document.badUrls = {}
  <2>1. \E p \in Processes :
          snapshot[p] # Null /\ r = Root(snapshot[p]) /\ snapshot[p].document.badUrls = {}
    BY DEF IInv, LeftByAcceptedLaunches
  <2> QED BY <2>1
<1>2. ASSUME NEW e \in survivors' \ {Nothing}
      PROVE  \E p \in Processes :
               /\ storage'[p] # Null /\ storage'[p].selected = e
               /\ line'[p].config = "absent" /\ ~line'[p].incognito
               /\ storage'[p].document.restore
  <2>1. PICK p \in Processes :
          /\ storage[p] # Null /\ storage[p].selected = e
          /\ line[p].config = "absent" /\ ~line[p].incognito /\ storage[p].document.restore
    BY DEF IInv, LeftByAcceptedLaunches, Remembers, Discovers
  <2> QED BY <2>1
<1> QED BY <1>1, <1>2 DEF LeftByAcceptedLaunches, Discovers, Root

\* A step of p that leaves files, register and roots alone, and of its own
\* state at most where it is.
LEMMA Moved ==
    ASSUME IInv, NEW p \in Processes, NEW s \in Steps, Goto(p, s),
           UNCHANGED <<register, roots, localVars>>,
           document' \in [Files -> Documents \cup {Template, Missing, Torn}],
           document'["explicit"] # Torn,
           Good(p)'
    PROVE  IInv'
<1>1. step' = [step EXCEPT ![p] = s] /\ step' \in [Processes -> Steps]
  BY DEF Goto, IInv, TypeOK
<1>2. /\ remembered' = remembered /\ survivors' = survivors /\ roots' = roots
      /\ calls' = calls /\ line' = line /\ recalled' = recalled
      /\ snapshot' = snapshot /\ storage' = storage /\ quiet' = quiet
  BY DEF register, localVars
<1>3. TypeOK'
  BY <1>1, <1>2 DEF IInv, TypeOK
<1>4. (\A q \in Processes : Good(q))'
  BY <1>1, <1>2, OthersKept
<1>5. LeftByAcceptedLaunches'
  BY <1>2, LeftKept
<1> QED BY <1>3, <1>4, <1>5 DEF IInv

-----------------------------------------------------------------------------
(* The steps of the gate.                                                  *)

LEMMA InitInv == Init => IInv
<1> SUFFICES ASSUME Init PROVE IInv
  OBVIOUS
<1>1. remembered = Nothing /\ survivors = {Nothing} /\ roots = {}
  BY DEF Init, Register!Init
<1>2. TypeOK
  BY <1>1, GateAssumption DEF Init, TypeOK, Steps, Files
<1>3. ASSUME NEW p \in Processes PROVE Good(p)
  BY <1>3 DEF Init, Good, Phased, Recalled, Runs, Live, Resumes
<1>4. LeftByAcceptedLaunches
  BY <1>1 DEF LeftByAcceptedLaunches
<1> QED BY <1>2, <1>3, <1>4 DEF IInv

LEMMA StartStep == ASSUME IInv, NEW p \in Processes, Start(p) PROVE IInv'
<1>1. PICK l \in Invocations : line' = [line EXCEPT ![p] = l]
  BY DEF Start
<1>2. /\ step[p] = "idle" /\ step' = [step EXCEPT ![p] = "enter"]
      /\ calls' = [calls EXCEPT ![p] = @ + 1]
      /\ recalled' = [recalled EXCEPT ![p] = Nothing]
      /\ quiet' = [quiet EXCEPT ![p] = TRUE]
      /\ UNCHANGED <<document, remembered, survivors, roots, snapshot, storage>>
  BY DEF Start, Call, At, Goto, sharedVars
<1>3. calls[p] = 0 /\ storage[p] = Null /\ snapshot[p] = Null
  BY <1>2 DEF IInv, Good, Phased
<1>4. TypeOK'
  <2>1. line' \in [Processes -> Lines \cup {Null}]
    BY <1>1 DEF IInv, TypeOK, Lines
  <2>2. calls' \in [Processes -> 0 .. Calls]
    BY <1>2, <1>3, GateAssumption DEF IInv, TypeOK
  <2> QED BY <1>2, <2>1, <2>2 DEF IInv, TypeOK, Steps
<1>5. Good(p)'
  <2>1. line'[p] = l /\ l \in Lines
    BY <1>1 DEF IInv, TypeOK, Lines
  <2>2. /\ step'[p] = "enter" /\ storage'[p] = Null /\ snapshot'[p] = Null
        /\ recalled'[p] = Nothing
    BY <1>2, <1>3 DEF IInv, TypeOK
  <2> QED BY <2>1, <2>2 DEF Good, Phased, Recalled, Runs, Live, Resumes
<1>6. (\A q \in Processes : Good(q))'
  BY <1>1, <1>2, <1>5, OthersKept DEF IInv, TypeOK
<1>7. LeftByAcceptedLaunches'
  BY <1>1, <1>2, <1>3, LeftKept DEF IInv, TypeOK
<1> QED BY <1>4, <1>6, <1>7 DEF IInv

LEMMA CallAgainStep == ASSUME IInv, NEW p \in Processes, CallAgain(p) PROVE IInv'
<1>1. /\ step[p] = "done" /\ step' = [step EXCEPT ![p] = "enter"]
      /\ calls[p] < Calls /\ calls' = [calls EXCEPT ![p] = @ + 1]
      /\ recalled' = [recalled EXCEPT ![p] = Nothing]
      /\ UNCHANGED <<document, remembered, survivors, roots, line, quiet, snapshot, storage>>
  BY DEF CallAgain, Call, At, Goto, sharedVars
<1>2. TypeOK'
  <2>1. calls' \in [Processes -> 0 .. Calls]
    BY <1>1, GateAssumption DEF IInv, TypeOK
  <2> QED BY <1>1, <2>1 DEF IInv, TypeOK, Steps
<1>3. Good(p)'
  <2>1. /\ step'[p] = "enter" /\ recalled'[p] = Nothing
    BY <1>1 DEF IInv, TypeOK
  <2> QED BY <1>1, <2>1 DEF IInv, Good, Phased, Recalled, Runs, Live, Resumes, Discovers, Root
<1>4. (\A q \in Processes : Good(q))'
  BY <1>1, <1>3, OthersKept DEF IInv, TypeOK
<1>5. LeftByAcceptedLaunches'
  BY <1>1, LeftKept
<1> QED BY <1>2, <1>4, <1>5 DEF IInv

LEMMA EnterStep == ASSUME IInv, NEW p \in Processes, Enter(p) PROVE IInv'
<1> DEFINE l == line[p]
<1>1. step[p] = "enter" /\ UNCHANGED <<document, register, roots, localVars>>
  BY DEF Enter, At, sharedVars, register
<1>2. /\ remembered' = remembered /\ roots' = roots /\ line' = line /\ recalled' = recalled
      /\ snapshot' = snapshot /\ storage' = storage /\ quiet' = quiet /\ document' = document
  BY <1>1 DEF register, localVars
<1>3. PICK s \in Steps :
        /\ Goto(p, s)
        /\ \/ s \in {"done", "rejected"}
           \/ /\ s \in {"load", "ensure"} /\ ~IsChild(l) /\ ~OptsOut(l) /\ ~Refused(p, l)
              /\ s = "ensure" => l.config = "absent"
              /\ s = "load" => l.config = "file"
  BY DEF Enter, Steps
<1>4. step'[p] = s
  BY <1>3 DEF Goto, IInv, TypeOK
<1>5. Good(p)'
  <2>1. storage[p] = snapshot[p] /\ recalled[p] = Nothing /\ Good(p)
    BY <1>1 DEF IInv, Good, Phased, Recalled
  <2>2. CASE s \in {"done", "rejected"}
    BY <1>1, <1>2, <1>4, <2>1, <2>2
    DEF Good, Phased, Recalled, Runs, Live, Resumes, Discovers, Root
  <2>3. CASE s \in {"load", "ensure"}
    <3>1. storage[p] = Null
      BY <1>3, <2>3 DEF Refused
    <3> QED BY <1>1, <1>2, <1>3, <1>4, <2>1, <2>3, <3>1
        DEF Good, Phased, Recalled, Runs, Live, Resumes, Discovers, IsChild, OptsOut
  <2> QED BY <1>3, <2>2, <2>3
<1> QED BY <1>1, <1>2, <1>3, <1>5, Moved DEF IInv, TypeOK

\* Ensure and Finish may write the discovered configuration.
LEMMA DiscoveryStep ==
    ASSUME IInv, NEW p \in Processes, Ensure(p) \/ Finish(p) PROVE IInv'
<1>1. UNCHANGED <<register, roots, localVars>> /\ step[p] \in {"ensure", "finish"}
  BY DEF Ensure, Finish, At
<1>2. /\ remembered' = remembered /\ roots' = roots /\ line' = line /\ recalled' = recalled
      /\ snapshot' = snapshot /\ storage' = storage /\ quiet' = quiet
  BY <1>1 DEF register, localVars
<1>3. PICK s \in {"finish", "read", "rejected"} : Goto(p, s)
  BY DEF Ensure, Finish
<1>4. step'[p] = s
  BY <1>3 DEF Goto, IInv, TypeOK, Steps
<1>5. PICK d \in Documents \cup {Template, Missing, Torn} :
        document' = document \/ document' = [document EXCEPT !["default"] = d]
  BY DEF Ensure, Finish, SetDocument, IInv, TypeOK, Files
<1>6. /\ document' \in [Files -> Documents \cup {Template, Missing, Torn}]
      /\ document'["explicit"] # Torn
  BY <1>5 DEF IInv, TypeOK, Files
<1>7. Good(p)'
  BY <1>1, <1>2, <1>4 DEF IInv, Good, Phased, Recalled, Runs, Live, Resumes, Discovers, Root
<1>8. s \in Steps
  BY DEF Steps
<1> QED BY <1>1, <1>3, <1>6, <1>7, <1>8, Moved

LEMMA ReadStep == ASSUME IInv, NEW p \in Processes, Read(p) PROVE IInv'
<1>1. /\ step[p] = "read" /\ step' = [step EXCEPT ![p] = "load"]
      /\ \/ recalled' = [recalled EXCEPT ![p] = remembered] /\ quiet' = quiet
         \/ recalled' = recalled /\ quiet' = [quiet EXCEPT ![p] = FALSE]
      /\ UNCHANGED <<document, remembered, survivors, roots, calls, line, snapshot, storage>>
  BY DEF Read, At, Goto, sharedVars
<1>2. TypeOK'
  BY <1>1 DEF IInv, TypeOK, Steps
<1>3. Good(p)'
  <2>1. step'[p] = "load" /\ (quiet'[p] => quiet'[p] = quiet[p] /\ recalled'[p] = remembered)
    BY <1>1 DEF IInv, TypeOK
  <2> QED BY <1>1, <2>1 DEF IInv, Good, Phased, Recalled, Runs, Live, Resumes, Discovers, Root
<1>4. (\A q \in Processes : Good(q))'
  BY <1>1, <1>3, OthersKept DEF IInv, TypeOK
<1>5. LeftByAcceptedLaunches'
  BY <1>1, LeftKept
<1> QED BY <1>2, <1>4, <1>5 DEF IInv

\* The document that passed and the selection made from it.
LEMMA LoadStep == ASSUME IInv, NEW p \in Processes, Load(p) PROVE IInv'
<1> DEFINE l == line[p]
           d == document[ConfigFile(l)]
           selected == Selected(l, d, recalled[p])
           s == [document |-> d, selected |-> selected]
<1>1. /\ step[p] = "load"
      /\ UNCHANGED <<document, remembered, survivors, roots, calls, line, recalled, storage,
                     quiet>>
  BY DEF Load, At, sharedVars
<1>2. Good(p) /\ snapshot[p] = Null /\ storage[p] = Null
  BY <1>1 DEF IInv, Good, Phased
<1>3. CASE /\ d \notin {Missing, Torn} /\ Acceptable(l, d, selected)
           /\ snapshot' = [snapshot EXCEPT ![p] = s]
           /\ Goto(p, "prepare")
  <2>1. d \in Documents \cup {Template}
    BY <1>3 DEF IInv, TypeOK, ConfigFile, Files
  <2>2. selected \in DOMAIN d.roots /\ d.badUrls = {}
    BY <1>3 DEF Acceptable
  <2>3. selected \in Environments
    BY <2>1, <2>2, GateAssumption
  <2>4. s \in Snapshots /\ s # Null
    BY <2>1, <2>2, <2>3, GateAssumption DEF Snapshots
  <2>5. /\ step' = [step EXCEPT ![p] = "prepare"] /\ step'[p] = "prepare"
        /\ snapshot'[p] = s /\ snapshot' \in [Processes -> Snapshots \cup {Null}]
        /\ \A q \in Processes \ {p} : snapshot'[q] = snapshot[q]
    <3> HIDE DEF s
    <3> QED BY <1>3, <2>4 DEF Goto, IInv, TypeOK
  <2>6. TypeOK'
    BY <1>1, <2>5 DEF IInv, TypeOK, Steps
  <2>7. Resumes(p)'
    <3>1. Nothing \notin DOMAIN d.roots
      BY <2>1, GateAssumption
    <3>2. l.environment # "absent" => selected = l.environment
      BY DEF Selected
    <3>3. l.environment = "absent" /\ (~Discovers(p) \/ ~d.restore) => selected = d.default
      BY <1>1, <1>2, <3>1 DEF Selected, Good, Recalled
    <3>4. l.environment = "absent" /\ Discovers(p) /\ quiet[p] /\ d.restore
            => selected = IF remembered \in DOMAIN d.roots THEN remembered ELSE d.default
      BY <1>1, <1>2 DEF Selected, Good, Recalled
    <3> HIDE DEF selected, d
    <3> QED BY <1>1, <2>2, <2>5, <3>2, <3>3, <3>4 DEF Resumes, Discovers
  <2>8. Good(p)'
    BY <1>1, <1>2, <2>4, <2>5, <2>7 DEF Good, Phased, Recalled, Runs, Live, Discovers
  <2>9. (\A q \in Processes : Good(q))'
    BY <1>1, <2>5, <2>8, OthersKept DEF IInv, TypeOK
  <2>10. LeftByAcceptedLaunches'
    BY <1>1, <1>2, <2>5, LeftKept
  <2> QED BY <2>6, <2>9, <2>10 DEF IInv
<1>4. CASE UNCHANGED snapshot /\ Goto(p, "rejected")
  <2>1. step'[p] = "rejected"
    BY <1>4 DEF Goto, IInv, TypeOK
  <2>2. UNCHANGED <<register, roots, localVars>>
    BY <1>1, <1>4 DEF register, localVars
  <2>3. Good(p)'
    BY <1>1, <1>2, <1>4, <2>1 DEF Good, Phased, Recalled, Runs, Live, Resumes
  <2> QED BY <1>1, <1>4, <2>2, <2>3, Moved DEF IInv, TypeOK, Steps
<1> QED BY <1>3, <1>4 DEF Load

\* The root that appears is the one of a snapshot that passed every check.
LEMMA PrepareStep == ASSUME IInv, NEW p \in Processes, Prepare(p) PROVE IInv'
<1> DEFINE root == Root(snapshot[p])
<1>1. /\ step[p] = "prepare"
      /\ UNCHANGED <<document, remembered, survivors, calls, line, recalled, snapshot,
                     storage, quiet>>
  BY DEF Prepare, At, register, localVars
<1>2. PICK s \in {"install", "rejected"} :
        /\ step' = [step EXCEPT ![p] = s] /\ roots' \in {roots, roots \cup {root}}
        /\ s = "install" => root \in roots'
  BY DEF Prepare, Goto
<1>3. Good(p) /\ snapshot[p] # Null /\ snapshot[p].document.badUrls = {}
  BY <1>1 DEF IInv, Good, Phased, Resumes
<1>4. TypeOK'
  BY <1>1, <1>2 DEF IInv, TypeOK, Steps
<1>5. Good(p)'
  <2>1. step'[p] = s /\ roots \subseteq roots'
    BY <1>2 DEF IInv, TypeOK
  <2> QED BY <1>1, <1>2, <1>3, <2>1 DEF Good, Phased, Recalled, Runs, Live, Resumes, Discovers, Root
<1>6. (\A q \in Processes : Good(q))'
  BY <1>1, <1>2, <1>5, OthersKept DEF IInv, TypeOK
<1>7. LeftByAcceptedLaunches'
  BY <1>1, <1>2, <1>3, LeftKept
<1> QED BY <1>4, <1>6, <1>7 DEF IInv

LEMMA InstallStep == ASSUME IInv, NEW p \in Processes, Install(p) PROVE IInv'
<1> DEFINE s == snapshot[p]
<1>1. /\ step[p] = "install"
      /\ line' = [line EXCEPT ![p].root = Root(s)]
      /\ storage' = [storage EXCEPT ![p] = s]
      /\ UNCHANGED <<document, remembered, survivors, roots, calls, recalled, snapshot, quiet>>
  BY DEF Install, At, sharedVars
<1>2. /\ Good(p) /\ s # Null /\ s \in Snapshots /\ Root(s) \in roots /\ storage[p] = Null
      /\ line[p] \in Lines /\ ~IsChild(line[p])
  BY <1>1 DEF IInv, TypeOK, Good, Phased
<1>3. line' = [line EXCEPT ![p] = [line[p] EXCEPT !.root = Root(s)]]
  BY <1>1
<1>4. /\ line'[p] \in Lines /\ line' \in [Processes -> Lines \cup {Null}]
      /\ line'[p].root = Root(s) /\ line'[p].type = line[p].type
      /\ line'[p].config = line[p].config /\ line'[p].environment = line[p].environment
      /\ line'[p].incognito = line[p].incognito
      /\ \A q \in Processes \ {p} : line'[q] = line[q]
  <2> HIDE DEF s
  <2>1. line'[p] = [line[p] EXCEPT !.root = Root(s)]
    BY <1>3 DEF IInv, TypeOK
  <2>2. line'[p] \in Lines
    BY <1>2, <2>1, LineRewritten
  <2> QED BY <1>2, <1>3, <2>1, <2>2, LineRewritten DEF IInv, TypeOK
<1>5. PICK t \in {"remember", "done"} :
        /\ step' = [step EXCEPT ![p] = t]
        /\ t = "remember" => Remembers(line[p], s.document)
  BY DEF Install, Goto
<1>6. TypeOK'
  BY <1>1, <1>2, <1>4, <1>5 DEF IInv, TypeOK, Steps
<1>7. Good(p)'
  <2>1. step'[p] = t /\ storage'[p] = s /\ snapshot'[p] = s
    BY <1>1, <1>5 DEF IInv, TypeOK
  <2>2. Phased(p)'
    BY <1>2, <1>4, <1>5, <2>1 DEF Phased, Remembers, IsChild
  <2>3. Recalled(p)'
    BY <2>1 DEF Recalled
  <2>4. Runs(p)'
    BY <1>1, <1>2, <1>4, <2>1 DEF Runs, Live, Root
  <2>5. Resumes(p)'
    BY <1>1, <1>2, <1>4, <2>1 DEF Good, Resumes, Discovers
  <2> QED BY <2>2, <2>3, <2>4, <2>5 DEF Good
<1>8. (\A q \in Processes : Good(q))'
  BY <1>1, <1>4, <1>5, <1>7, OthersKept DEF IInv, TypeOK
<1>9. LeftByAcceptedLaunches'
  BY <1>1, <1>2, <1>4, LeftKept DEF IInv, TypeOK
<1> QED BY <1>6, <1>8, <1>9 DEF IInv

\* The selection of a publication whose launch remembers it.
LEMMA RememberStep == ASSUME IInv, NEW p \in Processes, Remember(p) PROVE IInv'
<1>1. /\ step[p] = "remember"
      /\ UNCHANGED <<document, roots, calls, line, recalled, snapshot, storage>>
  BY DEF Remember, At
<1>2. /\ Good(p) /\ storage[p] # Null /\ storage[p] \in Snapshots
      /\ Remembers(line[p], storage[p].document)
      /\ storage[p].selected \in Environments
  BY <1>1 DEF IInv, TypeOK, Good, Phased, Runs, Live, Snapshots
<1>3. PICK s \in {"flush", "done"} : step' = [step EXCEPT ![p] = s]
  BY DEF Remember, Goto
<1>4. \/ /\ remembered' = storage[p].selected
         /\ survivors' = survivors \cup {storage[p].selected}
         /\ quiet' = [q \in Processes |-> FALSE]
      \/ UNCHANGED <<remembered, survivors, quiet>>
  BY DEF Remember, Register!Record, register
<1>5. TypeOK'
  BY <1>1, <1>2, <1>3, <1>4 DEF IInv, TypeOK, Steps
<1>6. \A q \in Processes : quiet'[q] => quiet[q] /\ remembered' = remembered
  BY <1>4
<1>7. Good(p)'
  <2>1. step'[p] = s
    BY <1>3 DEF IInv, TypeOK
  <2> QED BY <1>1, <1>2, <1>6, <2>1 DEF Good, Phased, Recalled, Runs, Live, Resumes, Discovers, Root
<1>8. (\A q \in Processes : Good(q))'
  BY <1>1, <1>3, <1>6, <1>7, OthersKept DEF IInv, TypeOK
<1>9. LeftByAcceptedLaunches'
  BY <1>1, <1>2, <1>4, LeftKept
<1> QED BY <1>5, <1>8, <1>9 DEF IInv

LEMMA FlushStep == ASSUME IInv, NEW p \in Processes, Flush(p) PROVE IInv'
<1>1. /\ step[p] = "flush" /\ step' = [step EXCEPT ![p] = "done"]
      /\ UNCHANGED <<document, roots, remembered, calls, line, recalled, snapshot, storage,
                     quiet>>
      /\ survivors' \in {survivors, {remembered}}
  BY DEF Flush, At, Goto, localVars, register, Register!MakeDurable
<1>2. TypeOK'
  BY <1>1 DEF IInv, TypeOK, Steps
<1>3. Good(p)'
  <2>1. step'[p] = "done"
    BY <1>1 DEF IInv, TypeOK
  <2> QED BY <1>1, <2>1 DEF IInv, Good, Phased, Recalled, Runs, Live, Resumes, Discovers, Root
<1>4. (\A q \in Processes : Good(q))'
  BY <1>1, <1>3, OthersKept DEF IInv, TypeOK
<1>5. LeftByAcceptedLaunches'
  BY <1>1, LeftKept DEF IInv, TypeOK
<1> QED BY <1>2, <1>4, <1>5 DEF IInv

LEMMA ExitStep == ASSUME IInv, NEW p \in Processes, Exit(p) PROVE IInv'
<1>1. Goto(p, "dead") /\ UNCHANGED <<document, register, roots, localVars>>
  BY DEF Exit, sharedVars, register
<1>2. step[p] # "idle" /\ step'[p] = "dead"
  BY <1>1 DEF Exit, Live, Goto, IInv, TypeOK
<1>3. Good(p)'
  BY <1>1, <1>2
  DEF IInv, Good, Phased, Recalled, Runs, Live, Resumes, Discovers, Root, register, localVars
<1> QED BY <1>1, <1>3, Moved DEF IInv, TypeOK, Steps

\* Everybody who runs is gone, the register may be set back and any root lost;
\* nobody lives whom a lost root would concern, and those that stay were
\* accounted for.
LEMMA PowerLossStep == IInv /\ PowerLoss => IInv'
<1> SUFFICES ASSUME IInv, PowerLoss PROVE IInv'
  OBVIOUS
<1>1. /\ step' = [p \in Processes |-> IF Live(p) THEN "dead" ELSE step[p]]
      /\ remembered' \in survivors /\ survivors' = {remembered'}
      /\ roots' \subseteq roots
      /\ quiet' = [p \in Processes |-> FALSE]
      /\ UNCHANGED <<calls, line, recalled, snapshot, storage>>
  BY DEF PowerLoss, Register!PowerLoss
<1>2. PICK d \in Leftovers(document["default"]) :
        document' = [document EXCEPT !["default"] = d]
  BY DEF PowerLoss, SetDocument
<1>3. d \in Documents \cup {Template, Missing, Torn}
  BY DEF Leftovers, IInv, TypeOK, Files
<1>4. TypeOK'
  BY <1>1, <1>2, <1>3 DEF IInv, TypeOK, Steps, Files
<1>5. ASSUME NEW p \in Processes PROVE Good(p)'
  <2>1. (step'[p] = "dead" /\ step[p] # "idle") \/ step'[p] = step[p]
    BY <1>1 DEF Live
  <2>2. step'[p] \in {"idle", "rejected", "dead"}
    BY <1>1 DEF Live
  <2>3. ~quiet'[p]
    BY <1>1
  <2> QED BY <1>1, <2>1, <2>2, <2>3
      DEF IInv, Good, Phased, Recalled, Runs, Live, Resumes, Discovers, Root
<1>6. LeftByAcceptedLaunches'
  BY <1>1, LeftKept
<1> QED BY <1>4, <1>5, <1>6 DEF IInv

LEMMA EditStep == ASSUME IInv, NEW f \in Files, Edit(f) PROVE IInv'
<1>1. PICK d \in Documents : document' = [document EXCEPT ![f] = d]
  BY DEF Edit, SetDocument
<1>2. UNCHANGED <<remembered, survivors, roots, step, calls, line, recalled, snapshot,
                  storage, quiet>>
  BY DEF Edit, register, localVars
<1>3. TypeOK'
  BY <1>1, <1>2, GateAssumption DEF IInv, TypeOK, Files
<1>4. (\A q \in Processes : Good(q))'
  BY <1>2, GoodKept DEF IInv
<1>5. LeftByAcceptedLaunches'
  BY <1>2, LeftKept
<1> QED BY <1>3, <1>4, <1>5 DEF IInv

LEMMA NextInv == IInv /\ [Next]_vars => IInv'
<1> SUFFICES ASSUME IInv, [Next]_vars PROVE IInv'
  OBVIOUS
<1>1. CASE UNCHANGED vars
  <2>1. UNCHANGED <<document, remembered, survivors, roots, step, calls, line, recalled,
                    snapshot, storage, quiet>>
    BY <1>1 DEF vars, sharedVars, localVars
  <2>2. TypeOK'
    BY <2>1 DEF IInv, TypeOK
  <2>3. (\A q \in Processes : Good(q))'
    BY <2>1, GoodKept DEF IInv
  <2>4. LeftByAcceptedLaunches'
    BY <2>1, LeftKept
  <2> QED BY <2>2, <2>3, <2>4 DEF IInv
<1>2. ASSUME NEW p \in Processes, Gate(p) PROVE IInv'
  BY <1>2, EnterStep, DiscoveryStep, ReadStep, LoadStep, PrepareStep, InstallStep,
     RememberStep, FlushStep DEF Gate
<1> QED BY <1>1, <1>2, StartStep, CallAgainStep, ExitStep, PowerLossStep, EditStep DEF Next

-----------------------------------------------------------------------------
(* The theorems.                                                           *)

LEMMA Inductive == Spec => []IInv
  BY InitInv, NextInv, PTL DEF Spec

\* What the gate, the files and the register hold stays of its type: only a
\* complete document is ever read as a configuration, and only the discovered
\* file is ever found half written.
THEOREM GateTypes == Spec => []TypeOK
<1>1. IInv => TypeOK
  BY DEF IInv
<1> QED BY <1>1, Inductive, PTL

\* InitializeExplicitBrowserConfig: whoever has published a configuration and
\* lives runs in the root of the environment it selects, and the root is there.
THEOREM GateRunsInSelectedRoot == Spec => []RunsInSelectedRoot
<1>1. IInv => RunsInSelectedRoot
  BY DEF IInv, Good, Runs, Live, RunsInSelectedRoot
<1> QED BY <1>1, Inductive, PTL

\* Roots and remembered selections are left by accepted launches only.
THEOREM GateLeftByAcceptedLaunches == Spec => []LeftByAcceptedLaunches
<1>1. IInv => LeftByAcceptedLaunches
  BY DEF IInv
<1> QED BY <1>1, Inductive, PTL

\* LoadRuntimeConfig's choice is the one the command line, the document and
\* the last recorded selection call for.
THEOREM GateSelectionResumesLast == Spec => []SelectionResumesLast
<1>1. IInv => SelectionResumesLast
  BY DEF IInv, Good, Resumes, SelectionResumesLast
<1> QED BY <1>1, Inductive, PTL

\* A child, an explicit configuration and a native --user-data-dir touch
\* neither the discovered configuration nor the remembered selection.
THEOREM GateOthersLeaveDefaultsAlone == Spec => OthersLeaveDefaultsAlone
<1> DEFINE A == \A p \in Processes :
                  /\ step'[p] \notin {step[p], "dead"}
                  /\ line'[p].type = "child" \/ line'[p].config # "absent"
                       \/ (OptsOut(line'[p]) /\ storage'[p] = Null)
                  => UNCHANGED <<document["default"], register>>
<1>1. IInv /\ Next => A
  <2> SUFFICES ASSUME IInv, Next, NEW p \in Processes,
                      step'[p] \notin {step[p], "dead"},
                      \/ line'[p].type = "child" \/ line'[p].config # "absent"
                      \/ OptsOut(line'[p]) /\ storage'[p] = Null
               PROVE  UNCHANGED <<document["default"], register>>
    OBVIOUS
  <2>1. Good(p) /\ step \in [Processes -> Steps]
    BY DEF IInv, TypeOK
  <2>2. ~(\E f \in Files : Edit(f)) /\ ~PowerLoss
    BY <2>1 DEF Edit, PowerLoss
  <2>3. PICK q \in Processes : Start(q) \/ CallAgain(q) \/ Gate(q) \/ Exit(q)
    BY <2>2 DEF Next
  <2>4. q = p
    <3>1. \E s \in Steps : Goto(q, s)
      BY <2>3 DEF Start, CallAgain, Call, Exit, Gate, Enter, Ensure, Finish, Read, Load,
                 Prepare, Install, Remember, Flush, Steps
    <3> QED BY <2>1, <3>1 DEF Goto
  <2>5. ~Exit(p)
    BY <2>1 DEF Exit, Goto
  <2>6. ~Ensure(p) /\ ~Finish(p)
    BY <2>1 DEF Ensure, Finish, At, Good, Phased, Discovers, IsChild, localVars
  <2>7. ~Remember(p) /\ ~Flush(p)
    BY <2>1 DEF Remember, Flush, At, Good, Phased, Remembers, IsChild, localVars
  <2> QED BY <2>3, <2>4, <2>5, <2>6, <2>7
      DEF Start, CallAgain, Call, Gate, Enter, Read, Load, Prepare, Install, sharedVars,
          register
<1>2. IInv /\ [Next]_vars => [A]_vars
  BY <1>1
<1>3. Spec => [][A]_vars
  BY <1>2, Inductive, PTL DEF Spec
<1> QED BY <1>3 DEF OthersLeaveDefaultsAlone

\* The gate uses the remembered selection as a register of environment names,
\* which user_config_state.cc implements: what the gate relies on is what the
\* state file provides.
THEOREM GateUsesRegister == Spec => Register!Spec
<1>1. Init => Register!Init
  BY DEF Init
<1>2. IInv /\ [Next]_vars => [Register!Next]_(Register!vars)
  <2> SUFFICES ASSUME IInv, Next, ~UNCHANGED <<remembered, survivors>> PROVE Register!Next
    BY DEF vars, sharedVars, Register!vars
  <2>1. PowerLoss \/ \E p \in Processes : Remember(p) \/ Flush(p)
    BY DEF Next, Gate, Start, CallAgain, Call, Exit, Edit, Enter, Ensure, Finish, Read, Load,
           Prepare, Install, sharedVars, register
  <2>2. ASSUME NEW p \in Processes, Remember(p) PROVE Register!Next
    <3>1. Register!Record(storage[p].selected)
      BY <2>2 DEF Remember, register
    <3>2. storage[p].selected \in Environments
      BY <2>2 DEF Remember, At, IInv, TypeOK, Good, Phased, Snapshots
    <3> QED BY <3>1, <3>2 DEF Register!Next
  <2>3. ASSUME NEW p \in Processes, Flush(p) PROVE Register!Next
    BY <2>3 DEF Flush, register, Register!Next
  <2> QED BY <2>1, <2>2, <2>3 DEF PowerLoss, Register!Next
<1> QED BY <1>1, <1>2, Inductive, PTL DEF Spec, Register!Spec
=============================================================================
