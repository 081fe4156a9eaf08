------------------------ MODULE BrowserHarnessProofs ------------------------
(***************************************************************************)
(* A proof, for any process ids and any number of launches, that a driver  *)
(* only ever signals its own browsers (SignalsStayOwn), although the       *)
(* kernel gives process ids away again.                                    *)
(*                                                                         *)
(* The invariant: a browser that a driver started and has not reaped still *)
(* has its process id (Owned). It holds because nobody but the driver      *)
(* reaps the browser, and it is enough because every step that signals     *)
(* comes while the driver holds the browser: in the script by the script's *)
(* order (Holding), in the cleanup by what it checked first (Cleaning).    *)
(***************************************************************************)
EXTENDS BrowserHarness, TLAPS

GroupPhases == {"peek", "peeked", "termed", "killed", "seen", "reap"}

\* The browsers that were started and not waited for before step i.
Held(k, i) ==
    CASE k = "upstream" -> IF i \in {2, 3} THEN {1} ELSE {}
      [] k = "startup" -> IF i % 2 = 0 THEN {i \div 2} ELSE {}
      [] k = "environments" ->
           IF i \in {2, 3} THEN {1} ELSE IF i \in {4, 5, 7} THEN {1, 2}
           ELSE IF i = 6 THEN {1, 2, 3} ELSE IF i = 8 THEN {2} ELSE {}
      [] k = "default" ->
           IF i \in {2, 3} THEN {1} ELSE IF i \in {5, 6, 8, 11} THEN {2}
           ELSE IF i = 7 THEN {2, 3} ELSE IF i \in {9, 10} THEN {2, 4} ELSE {}

Ops == {"launch", "show", "close", "refuse", "settle", "stop"}

Holds(b) == b \in Browsers /\ run.pid[b] # NoPid /\ run.code[b] = "none"

Owned == \A b \in Browsers : Holds(b) =>
            proc[run.pid[b]].own = b /\ proc[run.pid[b]].leader # "free"
Coded == \A p \in Pids : proc[p].leader = "zombie" => proc[p].code \in {"ok", "bad"}
Waited == \A b \in Browsers : run.code[b] # "none" => run.pid[b] # NoPid
Holding == run.phase \in {"script", "stopping", "stopped"} =>
            \A b \in Held(run.kind, run.at) : Holds(b)
Stopping == run.phase \in {"stopping", "stopped"} =>
            /\ run.at \in DOMAIN Script(run.kind)
            /\ Script(run.kind)[run.at].op = "stop"
Cleaning == run.phase \in GroupPhases =>
            /\ Holds(run.cur)
            /\ run.kind = "startup" => run.at \in DOMAIN Script("startup")
Smoking == run.phase \in {"terminate", "kill"} => Holds(1)

Sound ==
    /\ HarnessTypeOK
    /\ astray = FALSE
    /\ Owned
    /\ Coded
    /\ Waited

IInv ==
    /\ Sound
    /\ Holding
    /\ Stopping
    /\ Cleaning
    /\ Smoking

-----------------------------------------------------------------------------
(* The scripts.                                                            *)

\* The scripts, step by step.
LEMMA UpstreamScript ==
    /\ DOMAIN Script("upstream") = 1..3
    /\ Script("upstream")[1] = Do("launch", 1)
    /\ Script("upstream")[2] = Do("show", 1)
    /\ Script("upstream")[3] = Do("close", 1)
  BY DEF Script, SmokeScript, GateScript, TwoEnvironments, DefaultSelection

LEMMA EnvironmentsScript ==
    /\ DOMAIN Script("environments") = 1..8
    /\ Script("environments")[1] = Do("launch", 1)
    /\ Script("environments")[2] = Do("show", 1)
    /\ Script("environments")[3] = Do("launch", 2)
    /\ Script("environments")[4] = Do("show", 2)
    /\ Script("environments")[5] = Do("launch", 3)
    /\ Script("environments")[6] = Do("settle", 3)
    /\ Script("environments")[7] = Do("stop", 1)
    /\ Script("environments")[8] = Do("stop", 2)
  BY DEF Script, SmokeScript, GateScript, TwoEnvironments, DefaultSelection

LEMMA DefaultScript ==
    /\ DOMAIN Script("default") = 1..11
    /\ Script("default")[1] = Do("launch", 1)
    /\ Script("default")[2] = Do("show", 1)
    /\ Script("default")[3] = Do("stop", 1)
    /\ Script("default")[4] = Do("launch", 2)
    /\ Script("default")[5] = Do("show", 2)
    /\ Script("default")[6] = Do("launch", 3)
    /\ Script("default")[7] = Do("settle", 3)
    /\ Script("default")[8] = Do("launch", 4)
    /\ Script("default")[9] = Do("show", 4)
    /\ Script("default")[10] = Do("stop", 4)
    /\ Script("default")[11] = Do("stop", 2)
  BY DEF Script, SmokeScript, GateScript, TwoEnvironments, DefaultSelection

LEMMA StartupScript ==
    /\ DOMAIN Script("startup") = 1..(2 * Cases)
    /\ \A i \in 1..(2 * Cases) :
         /\ i % 2 = 1 => /\ Script("startup")[i].op = "launch"
                         /\ Script("startup")[i].browser = (i + 1) \div 2
         /\ i % 2 # 1 => /\ i % 2 = 0
                         /\ Script("startup")[i].op = "refuse"
                         /\ Script("startup")[i].browser = i \div 2
<1>1. DOMAIN Script("startup") = 1..(2 * Cases)
  BY DEF Script, SmokeScript, GateScript, TwoEnvironments, DefaultSelection
<1>2. ASSUME NEW i \in 1..(2 * Cases)
      PROVE  Script("startup")[i] =
         IF i % 2 = 1 THEN Do("launch", (i + 1) \div 2) ELSE Do("refuse", i \div 2)
  BY DEF Script, SmokeScript, GateScript, TwoEnvironments, DefaultSelection
<1>3. \A i \in 1..(2 * Cases) : i % 2 # 1 => i % 2 = 0
  BY HarnessAssumption
<1>4. ASSUME NEW i \in 1..(2 * Cases), i % 2 = 1
      PROVE  /\ Script("startup")[i].op = "launch"
             /\ Script("startup")[i].browser = (i + 1) \div 2
  <2>1. Script("startup")[i] = Do("launch", (i + 1) \div 2)
    BY <1>2, <1>4
  <2> QED BY <2>1 DEF Do
<1>5. ASSUME NEW i \in 1..(2 * Cases), i % 2 # 1
      PROVE  /\ Script("startup")[i].op = "refuse"
             /\ Script("startup")[i].browser = i \div 2
  <2>1. Script("startup")[i] = Do("refuse", i \div 2)
    BY <1>2, <1>5
  <2> QED BY <2>1 DEF Do
<1> QED BY <1>1, <1>3, <1>4, <1>5

LEMMA SomeBrowsers ==
    /\ {1, 2, 3, 4} \subseteq Browsers
    /\ 1..Cases \subseteq Browsers
    /\ Browsers \subseteq Nat \ {0}
  BY HarnessAssumption DEF Browsers

\* Every step of a script is about a browser a driver may start.
LEMMA ScriptBrowsers ==
    ASSUME NEW k \in Kinds, NEW i \in DOMAIN Script(k)
    PROVE  /\ i \in Nat \ {0}
           /\ Script(k)[i].browser \in Browsers
           /\ Script(k)[i].op \in Ops
<1>1. CASE k = "upstream"
  BY <1>1, UpstreamScript, SomeBrowsers DEF Do, Ops
<1>2. CASE k = "startup"
  <2>1. i \in 1..(2 * Cases)
    BY <1>2, StartupScript
  <2>2. i % 2 = 1 => (i + 1) \div 2 \in 1..Cases
    BY <2>1, HarnessAssumption
  <2>3. i % 2 # 1 => i \div 2 \in 1..Cases
    BY <2>1, HarnessAssumption
  <2> QED BY <1>2, <2>1, <2>2, <2>3, StartupScript, SomeBrowsers DEF Ops
<1>3. CASE k = "environments"
  BY <1>3, EnvironmentsScript, SomeBrowsers DEF Do, Ops
<1>4. CASE k = "default"
  BY <1>4, DefaultScript, SomeBrowsers, SMTT(60) DEF Do, Ops
<1> QED BY <1>1, <1>2, <1>3, <1>4 DEF Kinds

\* A step that is not a launch is about a browser the driver holds.
LEMMA ScriptHeld ==
    ASSUME NEW k \in Kinds, NEW i \in DOMAIN Script(k)
    PROVE  Script(k)[i].op # "launch" => Script(k)[i].browser \in Held(k, i)
<1>1. CASE k = "upstream"
  BY <1>1, UpstreamScript DEF Do, Held
<1>2. CASE k = "startup"
  BY <1>2, StartupScript, HarnessAssumption DEF Held
<1>3. CASE k = "environments"
  BY <1>3, EnvironmentsScript DEF Do, Held
<1>4. CASE k = "default"
  BY <1>4, DefaultScript, SMTT(60) DEF Do, Held
<1> QED BY <1>1, <1>2, <1>3, <1>4 DEF Kinds

\* What the driver holds after a step is what it held, with the browser a
\* launch started and without one that was waited for.
LEMMA ScriptNext ==
    ASSUME NEW k \in Kinds, NEW i \in DOMAIN Script(k)
    PROVE  LET step == Script(k)[i]
           IN /\ step.op = "launch" =>
                   Held(k, i + 1) \subseteq Held(k, i) \cup {step.browser}
              /\ step.op = "show" => Held(k, i + 1) \subseteq Held(k, i)
              /\ (step.op \in {"close", "settle", "stop"} /\ k # "startup") =>
                   Held(k, i + 1) \subseteq Held(k, i) \ {step.browser}
<1>1. CASE k = "upstream"
  BY <1>1, UpstreamScript DEF Do, Held
<1>2. CASE k = "startup"
  BY <1>2, StartupScript, HarnessAssumption DEF Held
<1>3. CASE k = "environments"
  BY <1>3, EnvironmentsScript DEF Do, Held
<1>4. CASE k = "default"
  BY <1>4, DefaultScript, SMTT(60) DEF Do, Held
<1> QED BY <1>1, <1>2, <1>3, <1>4 DEF Kinds

\* Only the startup gate waits for a refusal, and it does nothing else.
LEMMA ScriptKinds ==
    ASSUME NEW k \in Kinds, NEW i \in DOMAIN Script(k)
    PROVE  Script(k)[i].op \in IF k = "startup" THEN {"launch", "refuse"}
                               ELSE Ops \ {"refuse"}
<1>1. CASE k = "upstream"
  BY <1>1, UpstreamScript DEF Do, Ops
<1>2. CASE k = "startup"
  BY <1>2, StartupScript DEF Ops
<1>3. CASE k = "environments"
  BY <1>3, EnvironmentsScript DEF Do, Ops
<1>4. CASE k = "default"
  BY <1>4, DefaultScript, SMTT(60) DEF Do, Ops
<1> QED BY <1>1, <1>2, <1>3, <1>4 DEF Kinds

\* A script and a case of the startup gate start with no browser.
LEMMA StartsEmpty ==
    /\ \A k \in Kinds : Held(k, 1) = {}
    /\ \A b \in Nat : Held("startup", 2 * b + 1) = {}
  BY DEF Held, Kinds

-----------------------------------------------------------------------------
(* The steps.                                                              *)

\* Where the driver is in its script, it is at a step of it.
LEMMA AtStep ==
    ASSUME HarnessTypeOK, ~Over
    PROVE  /\ run.kind \in Kinds
           /\ run.at \in DOMAIN Script(run.kind)
           /\ Here = Script(run.kind)[run.at].browser
           /\ Here \in Browsers
           /\ Here \in Nat
           /\ Steps[run.at].op = Script(run.kind)[run.at].op
           /\ Held("startup", 2 * Here + 1) = {}
  BY ScriptBrowsers, SomeBrowsers, StartsEmpty DEF HarnessTypeOK, RunType, Over, Here, Steps

LEMMA NoProcessType == NoProcess \in Process
  BY DEF NoProcess, Process
LEMMA IdleType == Idle \in RunType
  BY DEF Idle, RunType, Kinds, Phases

\* Nothing is held, and nothing has been signalled, at the start.
LEMMA InitInv == HarnessInit => IInv
<1> SUFFICES ASSUME HarnessInit PROVE IInv
  OBVIOUS
<1>1. proc \in [Pids -> Process] /\ run \in RunType
  BY NoProcessType, IdleType DEF HarnessInit
<1>2. runs \in 0..MaxRuns
  BY HarnessAssumption DEF HarnessInit
<1>3. astray = FALSE /\ astray \in BOOLEAN
  BY DEF HarnessInit
<1>4. run.phase = "idle" /\ \A b \in Browsers : run.pid[b] = NoPid
  BY DEF HarnessInit, Idle
<1>5. \A p \in Pids : proc[p].leader = "free"
  BY DEF HarnessInit, NoProcess
<1>6. HarnessTypeOK
  BY <1>1, <1>2, <1>3 DEF HarnessTypeOK
<1>7. Owned /\ Coded /\ Waited
  <2>1. \A b \in Browsers : run.code[b] = "none"
    BY DEF HarnessInit, Idle
  <2> QED BY <1>4, <1>5, <2>1 DEF Owned, Coded, Waited, Holds
<1>8. Holding /\ Stopping /\ Cleaning /\ Smoking
  BY <1>4 DEF Holding, Stopping, Cleaning, Smoking, GroupPhases
<1> QED BY <1>3, <1>6, <1>7, <1>8 DEF IInv, Sound

\* A held browser has a process id, and no other held browser has it.
LEMMA HeldPids ==
    ASSUME Sound, NEW b \in Browsers, Holds(b)
    PROVE  /\ Pid(b) \in Pids
           /\ proc[Pid(b)].own = b
           /\ \A c \in Browsers \ {b} : Holds(c) => Pid(c) # Pid(b)
  BY DEF Sound, Owned, Holds, HarnessTypeOK, RunType, Pid

\* What a step leaves of a process as far as the invariant goes.
Kept(p) ==
    /\ proc'[p].own = proc[p].own
    /\ proc'[p].leader = proc[p].leader
    /\ proc'[p].code = proc[p].code

\* A step keeps Sound if what the driver still holds has kept its process.
LEMMA Keeps ==
    ASSUME Sound, run' \in RunType, proc' \in [Pids -> Process],
           UNCHANGED runs, astray' = FALSE, run'.pid = run.pid,
           \A b \in Browsers : Holds(b)' => Holds(b), Waited',
           \A p \in Pids : \/ Kept(p)
                            \/ /\ proc'[p].leader = "free"
                               /\ \A b \in Browsers : Holds(b)' => run.pid[b] # p
    PROVE  Sound'
<1>1. HarnessTypeOK'
  <2>1. runs' \in 0..MaxRuns
    BY DEF Sound, HarnessTypeOK
  <2>2. astray' \in BOOLEAN
    OBVIOUS
  <2> QED BY <2>1, <2>2 DEF HarnessTypeOK
<1>2. Owned'
  <2> SUFFICES ASSUME NEW b \in Browsers, Holds(b)'
               PROVE  (proc[run.pid[b]].own = b /\ proc[run.pid[b]].leader # "free")'
    BY DEF Owned
  <2>1. Holds(b) /\ run.pid[b] \in Pids
    BY HeldPids DEF Pid
  <2>2. Kept(run.pid[b])
    BY <2>1
  <2> QED BY <2>1, <2>2 DEF Sound, Owned, Kept
<1>3. Coded'
  BY DEF Sound, Coded, Kept
<1> QED BY <1>1, <1>2, <1>3 DEF Sound

\* A step that neither signals nor reaps.
LEMMA Still ==
    ASSUME Sound, run' \in RunType, UNCHANGED <<proc, runs, astray>>,
           run'.pid = run.pid, run'.code = run.code
    PROVE  Sound' /\ \A b : Holds(b)' <=> Holds(b)
<1>1. \A b : Holds(b)' <=> Holds(b)
  BY DEF Holds
<1>2. \A p \in Pids : Kept(p)
  BY DEF Kept
<1>3. proc' \in [Pids -> Process] /\ astray' = FALSE /\ Waited'
  BY DEF Sound, HarnessTypeOK, Waited
<1> QED BY <1>1, <1>2, <1>3, Keeps

\* A signal to a browser the driver holds.
LEMMA Signals ==
    ASSUME Sound, NEW b \in Browsers, Holds(b), NEW s \in {"term", "kill"},
           SignalLeader(b, s) \/ SignalGroup(b, s),
           run' \in RunType, UNCHANGED runs,
           run'.pid = run.pid, run'.code = run.code
    PROVE  Sound' /\ \A c : Holds(c)' <=> Holds(c)
<1>1. Pid(b) \in Pids /\ proc[Pid(b)].own = b
  BY HeldPids
<1>2. LeaderTold(Pid(b), s) \in {"no", "term", "kill"}
  BY <1>1 DEF LeaderTold, Sound, HarnessTypeOK, Process
<1>3. astray' = FALSE
  BY <1>1 DEF SignalLeader, SignalGroup, Sound
<1>4. proc' \in [Pids -> Process] /\ \A p \in Pids : Kept(p)
  <2>1. CASE SignalLeader(b, s)
    BY <2>1, <1>1, <1>2 DEF SignalLeader, Kept, Sound, HarnessTypeOK, Process
  <2>2. CASE SignalGroup(b, s)
    <3>1. (proc[Pid(b)].doomed \/ (s = "kill" /\ proc[Pid(b)].kin)) \in BOOLEAN
      OBVIOUS
    <3> DEFINE d == proc[Pid(b)].doomed \/ (s = "kill" /\ proc[Pid(b)].kin)
    <3>2. proc' = [proc EXCEPT ![Pid(b)] =
                     [@ EXCEPT !.told = LeaderTold(Pid(b), s), !.doomed = d]]
      BY <2>2, <1>1 DEF SignalGroup, Sound, HarnessTypeOK
    <3>3. d \in BOOLEAN
      BY <3>1
    <3> HIDE DEF d
    <3> DEFINE told == [proc[Pid(b)] EXCEPT !.told = LeaderTold(Pid(b), s), !.doomed = d]
    <3>4. told \in Process
      BY <3>3, <1>1, <1>2 DEF Sound, HarnessTypeOK, Process
    <3>5. /\ told.own = proc[Pid(b)].own
          /\ told.leader = proc[Pid(b)].leader
          /\ told.code = proc[Pid(b)].code
      BY <1>1 DEF Sound, HarnessTypeOK, Process
    <3>6. proc' = [proc EXCEPT ![Pid(b)] = told]
      BY <3>2
    <3> HIDE DEF told
    <3> QED BY <3>4, <3>5, <3>6, <1>1 DEF Kept, Sound, HarnessTypeOK
  <2> QED BY <2>1, <2>2
<1>5. (\A c : Holds(c)' <=> Holds(c)) /\ Waited'
  BY DEF Holds, Waited, Sound
<1> QED BY <1>3, <1>4, <1>5, Keeps

\* Waiting for a process gives its process id back, or leaves its group.
LEMMA ReapedType ==
    ASSUME HarnessTypeOK, NEW p \in Pids
    PROVE  /\ Reaped(p) \in [Pids -> Process]
           /\ Reaped(p)[p].leader = "free"
           /\ \A q \in Pids \ {p} : Reaped(p)[q] = proc[q]
<1>1. CASE proc[p].kin
  <2>1. Reaped(p) = [proc EXCEPT ![p] =
          [@ EXCEPT !.leader = "free", !.told = "no", !.code = "none"]]
    BY <1>1 DEF Reaped, HarnessTypeOK
  <2>2. [proc[p] EXCEPT !.leader = "free", !.told = "no", !.code = "none"] \in Process
    BY DEF HarnessTypeOK, Process
  <2> QED BY <2>1, <2>2 DEF HarnessTypeOK, Process
<1>2. CASE ~proc[p].kin
  <2>1. Reaped(p) = [proc EXCEPT ![p] = NoProcess]
    BY <1>2 DEF Reaped, HarnessTypeOK
  <2> QED BY <2>1, NoProcessType DEF HarnessTypeOK, NoProcess
<1> QED BY <1>1, <1>2

\* The driver waits for a browser it holds, and no longer holds it.
LEMMA Reaps ==
    ASSUME Sound, NEW b \in Browsers, Holds(b), NEW r \in RunType,
           r.pid = run.pid, r.code = run.code, Zombie(b),
           run' = [r EXCEPT !.code[b] = proc[Pid(b)].code],
           proc' = Reaped(Pid(b)), UNCHANGED <<runs, astray>>
    PROVE  /\ Sound'
           /\ \A c \in Browsers \ {b} : Holds(c) => Holds(c)'
           /\ run'.kind = r.kind /\ run'.at = r.at /\ run'.phase = r.phase
           /\ run'.cur = r.cur
<1>1. Pid(b) \in Pids /\ \A c \in Browsers \ {b} : Holds(c) => Pid(c) # Pid(b)
  BY HeldPids
<1>2. proc[Pid(b)].code \in {"ok", "bad"}
  BY <1>1 DEF Sound, Coded, Zombie
<1>3. [r.code EXCEPT ![b] = proc[Pid(b)].code] \in [Browsers -> {"none", "ok", "bad"}]
  BY <1>2 DEF RunType
<1>4. run' \in RunType /\ run'.pid = run.pid
  BY <1>3 DEF RunType
<1>5. /\ run'.kind = r.kind /\ run'.at = r.at /\ run'.phase = r.phase /\ run'.cur = r.cur
      /\ run'.code[b] # "none"
      /\ \A c \in Browsers \ {b} : run'.code[c] = run.code[c]
  BY <1>2 DEF RunType
<1>6. ~Holds(b)' /\ \A c \in Browsers \ {b} : Holds(c)' <=> Holds(c)
  BY <1>4, <1>5 DEF Holds
<1>7. /\ proc' \in [Pids -> Process] /\ proc'[Pid(b)].leader = "free"
      /\ \A q \in Pids \ {Pid(b)} : Kept(q)
  BY <1>1, ReapedType DEF Sound, Kept
<1>8. astray' = FALSE /\ Waited'
  BY <1>4, <1>5 DEF Sound, Waited, Holds
<1> QED BY <1>1, <1>4, <1>5, <1>6, <1>7, <1>8, Keeps DEF Pid

-----------------------------------------------------------------------------
(* The script keeps the invariant.                                         *)

\* A new driver holds nothing.
LEMMA BeginInv == ASSUME IInv, NEW k \in Kinds, Begin(k) PROVE IInv'
<1>1. run' \in RunType
  <2>1. "script" \in Phases
    BY DEF Phases
  <2> QED BY <2>1, IdleType DEF Begin, RunType
<1>2. /\ run'.kind = k /\ run'.at = 1 /\ run'.phase = "script"
      /\ \A b \in Browsers : run'.pid[b] = NoPid
  BY DEF Begin, Idle
<1>3. proc' = proc /\ astray' = FALSE /\ runs' \in 0..MaxRuns
  BY HarnessAssumption DEF Begin, IInv, Sound, HarnessTypeOK
<1>4. HarnessTypeOK'
  <2>1. astray' \in BOOLEAN
    BY <1>3
  <2> QED BY <1>1, <1>3, <2>1 DEF HarnessTypeOK, IInv, Sound
<1>5. Owned' /\ Coded' /\ Waited'
  <2>1. \A b \in Browsers : run'.code[b] = "none"
    BY DEF Begin, Idle
  <2> QED BY <1>2, <1>3, <2>1 DEF Owned, Coded, Waited, Holds, IInv, Sound
<1>6. Holding' /\ Stopping' /\ Cleaning' /\ Smoking'
  BY <1>2, StartsEmpty DEF Holding, Stopping, Cleaning, Smoking, GroupPhases
<1> QED BY <1>3, <1>4, <1>5, <1>6 DEF IInv, Sound

\* Going on in the script.
LEMMA AdvancedType ==
    ASSUME HarnessTypeOK
    PROVE  /\ Advanced \in RunType
           /\ Advanced.kind = run.kind /\ Advanced.at = run.at + 1
           /\ Advanced.phase = "script"
           /\ Advanced.pid = run.pid /\ Advanced.code = run.code
<1>1. run.at + 1 \in Nat \ {0} /\ "script" \in Phases
  BY DEF HarnessTypeOK, RunType, Phases
<1> QED BY <1>1 DEF HarnessTypeOK, RunType, Advanced

\* A failed step.
LEMMA AfterErrorType ==
    ASSUME HarnessTypeOK
    PROVE  /\ AfterError \in RunType
           /\ AfterError.phase = "clean"
           /\ AfterError.pid = run.pid /\ AfterError.code = run.code
<1>1. "clean" \in Phases /\ 1 \in Nat \ {0} /\ run \in RunType
  BY DEF Phases, HarnessTypeOK
<1>2. AfterError \in RunType
  BY <1>1 DEF RunType, AfterError
<1> QED BY <1>1, <1>2 DEF RunType, AfterError

\* The next case of the startup gate holds nothing.
LEMMA NextCaseType ==
    ASSUME HarnessTypeOK, ~Over
    PROVE  /\ NextCase \in RunType
           /\ NextCase.kind = run.kind /\ NextCase.phase = "script"
           /\ NextCase.pid = run.pid /\ NextCase.code = run.code
           /\ Held("startup", NextCase.at) = {}
<1>1. 2 * Here + 1 \in Nat \ {0} /\ "script" \in Phases
  BY AtStep DEF Phases
<1>2. NextCase.at = 2 * Here + 1
  BY DEF NextCase, HarnessTypeOK, RunType
<1> QED BY <1>1, <1>2, AtStep DEF HarnessTypeOK, RunType, NextCase

\* At a step, the driver holds the browser it is about, unless it starts it.
LEMMA AtHeld ==
    ASSUME IInv, ~Over, run.phase \in {"script", "stopping", "stopped"},
           Steps[run.at].op # "launch"
    PROVE  Here \in Browsers /\ Holds(Here)
<1>1. /\ run.kind \in Kinds /\ run.at \in DOMAIN Script(run.kind)
      /\ Here = Script(run.kind)[run.at].browser /\ Here \in Browsers
      /\ Script(run.kind)[run.at].op # "launch"
  BY AtStep DEF IInv, Sound
<1> QED BY <1>1, ScriptHeld DEF IInv, Holding

\* A launch takes a process id that no held browser has.
LEMMA LaunchInv == ASSUME IInv, Launch PROVE IInv'
<1> USE DEF IInv, Sound
<1>1. /\ run.kind \in Kinds /\ run.at \in DOMAIN Script(run.kind)
      /\ Here \in Browsers
      /\ Script(run.kind)[run.at].op = "launch"
      /\ Here = Script(run.kind)[run.at].browser
  BY AtStep DEF Launch, At
<1>2. PICK p \in Pids :
        /\ Free(p)
        /\ proc' = [proc EXCEPT ![p] =
             [NoProcess EXCEPT !.leader = "run", !.own = Here, !.image = "out"]]
        /\ run' = [Advanced EXCEPT !.pid[Here] = p, !.code[Here] = "none"]
  BY DEF Launch
<1>3. proc' \in [Pids -> Process]
  <2>1. [NoProcess EXCEPT !.leader = "run", !.own = Here, !.image = "out"] \in Process
    BY <1>1 DEF NoProcess, Process
  <2> QED BY <1>2, <2>1 DEF HarnessTypeOK
<1>4. run' \in RunType
  <2>1. [Advanced.pid EXCEPT ![Here] = p] \in [Browsers -> Pids \cup {NoPid}]
    BY AdvancedType, <1>1 DEF RunType
  <2>2. [Advanced.code EXCEPT ![Here] = "none"] \in [Browsers -> {"none", "ok", "bad"}]
    BY AdvancedType, <1>1 DEF RunType
  <2> QED BY <1>2, <2>1, <2>2, AdvancedType DEF RunType
<1>5. /\ run'.kind = run.kind /\ run'.at = run.at + 1 /\ run'.phase = "script"
      /\ run'.pid[Here] = p /\ run'.code[Here] = "none"
      /\ \A b \in Browsers \ {Here} : run'.pid[b] = run.pid[b] /\ run'.code[b] = run.code[b]
  BY <1>1, <1>2, AdvancedType DEF RunType
<1>6. HarnessTypeOK' /\ astray' = FALSE
  BY <1>3, <1>4 DEF HarnessTypeOK, Launch
<1>7. \A b \in Browsers : (Holds(b) \/ b = Here) => Holds(b)'
  BY <1>1, <1>5, HarnessAssumption DEF Holds
<1>8. \A b \in Browsers \ {Here} : Holds(b)' => Holds(b) /\ run.pid[b] \in Pids /\ run.pid[b] # p
  BY <1>2, <1>5 DEF Holds, Owned, HarnessTypeOK, RunType, Free
<1>9. Owned'
  <2> SUFFICES ASSUME NEW b \in Browsers, Holds(b)'
               PROVE  (proc[run.pid[b]].own = b /\ proc[run.pid[b]].leader # "free")'
    BY DEF Owned
  <2>1. CASE b = Here
    BY <2>1, <1>2, <1>5 DEF HarnessTypeOK, NoProcess
  <2>2. CASE b # Here
    BY <2>2, <1>2, <1>5, <1>8 DEF HarnessTypeOK, Owned
  <2> QED BY <2>1, <2>2
<1>10. Holding'
  <2>1. Held(run.kind, run.at + 1) \subseteq Held(run.kind, run.at) \cup {Here}
    BY <1>1, ScriptNext
  <2>2. run.phase = "script"
    BY DEF Launch, At
  <2> QED BY <2>1, <2>2, <1>1, <1>5, <1>7 DEF Holding, Holds
<1>11. Coded' /\ Waited'
  <2>1. Coded'
    BY <1>2 DEF Coded, HarnessTypeOK, NoProcess
  <2> QED BY <2>1, <1>5 DEF Waited
<1>12. Stopping' /\ Cleaning' /\ Smoking'
  BY <1>5 DEF Stopping, Cleaning, Smoking, GroupPhases
<1> QED BY <1>6, <1>9, <1>10, <1>11, <1>12

\* A window that is shown, a check that fails, a browser that must still run.
LEMMA ShowInv == ASSUME IInv, Show PROVE IInv'
<1>1. /\ run.kind \in Kinds /\ run.at \in DOMAIN Script(run.kind)
      /\ Script(run.kind)[run.at].op = "show" /\ run.phase = "script"
  BY AtStep DEF IInv, Sound, Show, At
<1>2. Held(run.kind, run.at + 1) \subseteq Held(run.kind, run.at)
  BY <1>1, ScriptNext
<1>3. Sound' /\ \A b : Holds(b)' <=> Holds(b)
  BY Still, AdvancedType DEF IInv, Sound, Show
<1>4. run'.kind = run.kind /\ run'.at = run.at + 1 /\ run'.phase = "script"
  BY AdvancedType DEF IInv, Sound, Show
<1> QED BY <1>1, <1>2, <1>3, <1>4 DEF IInv, Holding, Stopping, Cleaning, Smoking, GroupPhases

LEMMA RaiseInv == ASSUME IInv, Raise PROVE IInv'
<1>1. CASE run.kind = "startup"
  <2>1. ~Over
    BY <1>1 DEF Raise, At
  <2>2. run' = NextCase
    BY <1>1 DEF Raise
  <2>3. Sound' /\ \A b : Holds(b)' <=> Holds(b)
    BY <2>1, <2>2, Still, NextCaseType DEF IInv, Sound, Raise
  <2>4. run'.kind = "startup" /\ run'.phase = "script" /\ Held("startup", run'.at) = {}
    BY <1>1, <2>1, <2>2, NextCaseType DEF IInv, Sound
  <2> QED BY <2>3, <2>4 DEF IInv, Holding, Stopping, Cleaning, Smoking, GroupPhases
<1>2. CASE run.kind # "startup"
  <2>1. Sound' /\ run'.phase = "clean"
    BY <1>2, Still, AfterErrorType DEF IInv, Sound, Raise
  <2> QED BY <2>1 DEF IInv, Holding, Stopping, Cleaning, Smoking, GroupPhases
<1> QED BY <1>1, <1>2

LEMMA PeekRunningInv == ASSUME IInv, PeekRunning PROVE IInv'
<1>1. UNCHANGED <<proc, runs, astray>>
  BY DEF PeekRunning, Peeked
<1>2. CASE Zombie(Here)
  <2>1. Sound' /\ run'.phase = "clean"
    BY <1>1, <1>2, Still, AfterErrorType DEF IInv, Sound, PeekRunning
  <2> QED BY <2>1 DEF IInv, Holding, Stopping, Cleaning, Smoking, GroupPhases
<1>3. CASE ~Zombie(Here)
  <2>1. run' = [run EXCEPT !.phase = "stopping"]
    BY <1>3 DEF PeekRunning
  <2>2. /\ run' \in RunType /\ run'.pid = run.pid /\ run'.code = run.code
        /\ run'.phase = "stopping" /\ run'.at = run.at /\ run'.kind = run.kind
    BY <2>1 DEF IInv, Sound, HarnessTypeOK, RunType, Phases
  <2>3. Sound' /\ \A b : Holds(b)' <=> Holds(b)
    BY <1>1, <2>2, Still DEF IInv
  <2>4. /\ run.phase = "script" /\ run.at \in DOMAIN Script(run.kind)
        /\ Script(run.kind)[run.at].op = "stop"
    BY DEF PeekRunning, At, Over, Steps
  <2> QED BY <2>2, <2>3, <2>4 DEF IInv, Holding, Stopping, Cleaning, Smoking, GroupPhases
<1> QED BY <1>2, <1>3

LEMMA EndSessionInv == ASSUME IInv, EndSession PROVE IInv'
<1>1. /\ run' \in RunType /\ run'.pid = run.pid /\ run'.code = run.code
      /\ run'.phase = "stopped" /\ run'.at = run.at /\ run'.kind = run.kind
  BY DEF EndSession, Enter, IInv, Sound, HarnessTypeOK, RunType, Phases
<1>2. run.phase = "stopping"
  BY DEF EndSession
<1>3. ~Over /\ Steps[run.at].op = "stop"
  BY <1>2 DEF IInv, Stopping, Over, Steps
<1>4. Here \in Browsers /\ Holds(Here)
  BY <1>2, <1>3, AtHeld
<1>5. Sound' /\ \A b : Holds(b)' <=> Holds(b)
  BY <1>1, <1>4, Signals DEF EndSession, IInv
<1> QED BY <1>1, <1>2, <1>5 DEF IInv, Holding, Stopping, Cleaning, Smoking, GroupPhases

\* The driver waits for the browser its script is about.
LEMMA FinishInv == ASSUME IInv, Finish PROVE IInv'
<1> DEFINE b == Here
<1>1. /\ ~Over /\ run.phase \in {"script", "stopping", "stopped"}
      /\ Steps[run.at].op \in {"close", "settle", "refuse", "stop"}
  BY DEF Finish, Waiting, At, IInv, Stopping, Over, Steps
<1>2. b \in Browsers /\ Holds(b) /\ Zombie(b)
  BY <1>1, AtHeld DEF Finish
<1>3. /\ run.kind \in Kinds /\ run.at \in DOMAIN Script(run.kind)
      /\ Script(run.kind)[run.at].op = Steps[run.at].op
      /\ b = Script(run.kind)[run.at].browser
  BY <1>1, AtStep DEF IInv, Sound
<1>4. PICK next :
        /\ run' = [next EXCEPT !.code[b] = proc[Pid(b)].code]
        /\ \/ /\ run.kind = "startup"
              /\ next = NextCase \/ \E v \in {run.verdict, "failed"} :
                                      next = [NextCase EXCEPT !.verdict = v]
           \/ run.kind # "startup" /\ next = Advanced
           \/ run.kind # "startup" /\ next = AfterError
  <2>1. CASE run.kind = "startup"
    BY <2>1 DEF Finish
  <2>2. CASE run.kind # "startup"
    BY <2>2 DEF Finish
  <2> QED BY <2>1, <2>2
<1>5. /\ next \in RunType /\ next.pid = run.pid /\ next.code = run.code
      /\ \/ /\ next.kind = "startup" /\ next.phase = "script"
            /\ Held("startup", next.at) = {}
         \/ /\ next.kind = run.kind /\ next.phase = "script" /\ run.kind # "startup"
            /\ next.at = run.at + 1
         \/ next.phase = "clean"
  <2>1. CASE run.kind = "startup"
    <3>1. next = NextCase \/ \E v \in {run.verdict, "failed"} :
                                next = [NextCase EXCEPT !.verdict = v]
      BY <1>4, <2>1
    <3>2. /\ NextCase \in RunType /\ NextCase.pid = run.pid /\ NextCase.code = run.code
          /\ NextCase.kind = "startup" /\ NextCase.phase = "script"
          /\ Held("startup", NextCase.at) = {}
      BY <2>1, <1>1, NextCaseType DEF IInv, Sound
    <3>3. {run.verdict, "failed"} \subseteq {"none", "passed", "failed", "lost"}
      BY DEF IInv, Sound, HarnessTypeOK, RunType
    <3>4. CASE next = NextCase
      BY <3>2, <3>4
    <3>5. ASSUME NEW v \in {run.verdict, "failed"},
                 next = [NextCase EXCEPT !.verdict = v]
          PROVE  /\ next \in RunType /\ next.pid = run.pid /\ next.code = run.code
                 /\ next.kind = "startup" /\ next.phase = "script"
                 /\ next.at = NextCase.at
      <4> HIDE DEF b
      <4> QED BY <3>2, <3>3, <3>5 DEF RunType
    <3> QED BY <3>1, <3>2, <3>4, <3>5
  <2>2. CASE run.kind # "startup" /\ next = Advanced
    BY <2>2, AdvancedType DEF IInv, Sound
  <2>3. CASE next = AfterError
    BY <2>3, AfterErrorType DEF IInv, Sound
  <2> QED BY <1>4, <2>1, <2>2, <2>3
<1> HIDE DEF b
<1>6. /\ Sound'
      /\ \A c \in Browsers \ {b} : Holds(c) => Holds(c)'
      /\ run'.kind = next.kind /\ run'.at = next.at /\ run'.phase = next.phase
  <2>1. proc' = Reaped(Pid(b)) /\ UNCHANGED <<runs, astray>>
    BY DEF Finish, b
  <2> QED BY <2>1, <1>2, <1>4, <1>5, Reaps DEF IInv
<1>7. Holding'
  <2>1. CASE run.kind # "startup" /\ next.phase = "script" /\ next.at = run.at + 1
             /\ next.kind = run.kind
    <3>1. Steps[run.at].op # "refuse"
      BY <2>1, <1>3, ScriptKinds
    <3>2. Held(run.kind, run.at + 1) \subseteq Held(run.kind, run.at) \ {b}
      BY <2>1, <3>1, <1>1, <1>3, ScriptNext
    <3>3. \A c \in Held(run.kind, run.at) : Holds(c)
      BY <1>1 DEF IInv, Holding
    <3> QED BY <2>1, <3>2, <3>3, <1>6 DEF Holding, Holds
  <2>2. CASE next.kind = "startup" /\ Held("startup", next.at) = {}
    BY <2>2, <1>6 DEF Holding
  <2>3. CASE next.phase = "clean"
    BY <2>3, <1>6 DEF Holding
  <2> QED BY <1>5, <2>1, <2>2, <2>3
<1>8. Stopping' /\ Cleaning' /\ Smoking'
  BY <1>5, <1>6 DEF Stopping, Cleaning, Smoking, GroupPhases
<1> QED BY <1>6, <1>7, <1>8 DEF IInv

\* A refusal that does not come: the group of the case is terminated.
LEMMA CaseTimesOutInv == ASSUME IInv, CaseTimesOut PROVE IInv'
<1>1. ~Over /\ run.phase = "script" /\ Steps[run.at].op = "refuse"
  BY DEF CaseTimesOut, At
<1>2. Here \in Browsers /\ Here \in Nat \ {0} /\ Holds(Here)
  BY <1>1, AtHeld, SomeBrowsers
<1>3. /\ run' \in RunType /\ run'.pid = run.pid /\ run'.code = run.code
      /\ run'.phase = "peek" /\ run'.cur = Here /\ run'.at = run.at
      /\ run'.kind = run.kind
  BY <1>2 DEF CaseTimesOut, IInv, Sound, HarnessTypeOK, RunType, Phases
<1>4. Sound' /\ \A b : Holds(b)' <=> Holds(b)
  BY <1>3, Still DEF CaseTimesOut, IInv
<1>5. run.kind \in Kinds /\ run.at \in DOMAIN Script(run.kind)
  BY <1>1, AtStep DEF IInv, Sound
<1> QED BY <1>2, <1>3, <1>4, <1>5 DEF IInv, Holding, Stopping, Cleaning, Smoking, GroupPhases

LEMMA ConcludeInv == ASSUME IInv, Conclude PROVE IInv'
<1>1. run' \in RunType /\ run'.pid = run.pid /\ run'.code = run.code
      /\ run'.phase \in {"over", "clean"}
  <2>1. (IF run.verdict = "failed" THEN "failed" ELSE "passed")
           \in {"none", "passed", "failed", "lost"}
    OBVIOUS
  <2>2. (IF run.kind = "startup" THEN "over" ELSE "clean") \in Phases
    BY DEF Phases
  <2>3. run \in RunType /\ 1 \in Nat \ {0}
    BY DEF IInv, Sound, HarnessTypeOK
  <2> QED BY <2>1, <2>2, <2>3 DEF Conclude, RunType
<1>2. Sound'
  BY <1>1, Still DEF Conclude, IInv
<1> QED BY <1>1, <1>2 DEF IInv, Holding, Stopping, Cleaning, Smoking, GroupPhases

-----------------------------------------------------------------------------
(* The cleanup keeps the invariant.                                        *)

LEMMA NextOwnedInv == ASSUME IInv, NextOwned PROVE IInv'
<1>1. run \in RunType /\ run.phase = "clean" /\ run.kind # "startup"
  BY DEF NextOwned, CleansGroups, IInv, Sound, HarnessTypeOK
<1>2. run.cur + 1 \in Nat \ {0} /\ {"over", "peek"} \subseteq Phases
  BY <1>1 DEF RunType, Phases
<1>3. \/ \E v \in {"failed", run.verdict} :
             run' = [run EXCEPT !.phase = "over", !.verdict = v]
      \/ run' = [run EXCEPT !.cur = @ + 1]
      \/ run' = [run EXCEPT !.phase = "peek"] /\ Holds(run.cur)
  BY DEF NextOwned, Pid, Cur, Holds
<1>4. /\ run' \in RunType /\ run'.pid = run.pid /\ run'.code = run.code
      /\ run'.kind = run.kind
      /\ \/ run'.phase \in {"over", "clean"}
         \/ run'.phase = "peek" /\ run'.cur = run.cur /\ Holds(run.cur)
  <2>1. ASSUME NEW v \in {"failed", run.verdict},
               run' = [run EXCEPT !.phase = "over", !.verdict = v]
        PROVE  /\ run' \in RunType /\ run'.pid = run.pid /\ run'.code = run.code
               /\ run'.kind = run.kind /\ run'.phase = "over"
    BY <1>1, <1>2, <2>1 DEF RunType
  <2>2. CASE run' = [run EXCEPT !.cur = @ + 1]
    BY <1>1, <1>2, <2>2 DEF RunType
  <2>3. CASE run' = [run EXCEPT !.phase = "peek"] /\ Holds(run.cur)
    BY <1>1, <1>2, <2>3 DEF RunType
  <2> QED BY <1>3, <2>1, <2>2, <2>3
<1>5. Sound' /\ \A b : Holds(b)' <=> Holds(b)
  BY <1>4, Still DEF NextOwned, IInv
<1> QED BY <1>1, <1>4, <1>5 DEF IInv, Holding, Stopping, Cleaning, Smoking, GroupPhases

\* In the cleanup of a group the driver holds the browser it is about.
LEMMA CurHeld ==
    ASSUME IInv, run.phase \in GroupPhases
    PROVE  Cur \in Browsers /\ Holds(Cur) /\ run \in RunType
  BY DEF IInv, Cleaning, Cur, Holds, Sound, HarnessTypeOK

\* A step within the cleanup of a group.
LEMMA GroupStep ==
    ASSUME IInv, run.phase \in GroupPhases, Sound', \A b : Holds(b)' <=> Holds(b),
           run'.phase \in GroupPhases, run'.cur = run.cur, run'.kind = run.kind,
           run'.at = run.at
    PROVE  IInv'
  BY DEF IInv, Holding, Stopping, Cleaning, Smoking, GroupPhases

LEMMA PeekInv == ASSUME IInv, Peek PROVE IInv'
<1>1. run.phase \in GroupPhases
  BY DEF Peek, GroupPhases
<1>2. /\ run' \in RunType /\ run'.pid = run.pid /\ run'.code = run.code
      /\ run'.phase = "peeked" /\ run'.cur = run.cur /\ run'.kind = run.kind
      /\ run'.at = run.at
  <2>1. Zombie(Cur) \in BOOLEAN
    BY DEF Zombie
  <2>2. "peeked" \in Phases
    BY DEF Phases
  <2>3. run' = [run EXCEPT !.phase = "peeked", !.seen = Zombie(Cur)]
    BY DEF Peek
  <2> QED BY <1>1, <2>1, <2>2, <2>3, CurHeld DEF RunType
<1>3. Sound' /\ \A b : Holds(b)' <=> Holds(b)
  BY <1>2, Still DEF Peek, Peeked, IInv
<1> QED BY <1>1, <1>2, <1>3, GroupStep DEF GroupPhases

\* A step of the cleanup that changes the phase only.
LEMMA EnterType ==
    ASSUME HarnessTypeOK, NEW phase \in Phases, Enter(phase)
    PROVE  /\ run' \in RunType /\ run'.pid = run.pid /\ run'.code = run.code
           /\ run'.phase = phase /\ run'.cur = run.cur /\ run'.kind = run.kind
           /\ run'.at = run.at
  BY DEF Enter, HarnessTypeOK, RunType

\* A signal to the group in the cleanup.
LEMMA GroupSignal ==
    ASSUME IInv, run.phase \in GroupPhases, NEW s \in {"term", "kill"},
           NEW phase \in GroupPhases,
           SignalGroup(Cur, s), Enter(phase), UNCHANGED runs
    PROVE  IInv'
<1>1. phase \in Phases
  BY DEF GroupPhases, Phases
<1>2. /\ run' \in RunType /\ run'.pid = run.pid /\ run'.code = run.code
      /\ run'.phase = phase /\ run'.cur = run.cur /\ run'.kind = run.kind
      /\ run'.at = run.at
  BY <1>1, EnterType DEF IInv, Sound
<1>3. Sound' /\ \A b : Holds(b)' <=> Holds(b)
  BY <1>2, CurHeld, Signals DEF IInv
<1> QED BY <1>2, <1>3, GroupStep

LEMMA GroupSignalsInv == ASSUME IInv, Terminate \/ Overdue \/ KillRest PROVE IInv'
<1>1. CASE Terminate
  BY <1>1, GroupSignal DEF Terminate, GroupPhases
<1>2. CASE Overdue
  BY <1>2, GroupSignal DEF Overdue, GroupPhases
<1>3. CASE KillRest
  BY <1>3, GroupSignal DEF KillRest, GroupPhases
<1> QED BY <1>1, <1>2, <1>3

LEMMA SeeExitInv == ASSUME IInv, SeeExit PROVE IInv'
<1>1. run.phase \in GroupPhases /\ "seen" \in Phases
  BY DEF SeeExit, GroupPhases, Phases
<1>2. /\ run' \in RunType /\ run'.pid = run.pid /\ run'.code = run.code
      /\ run'.phase = "seen" /\ run'.cur = run.cur /\ run'.kind = run.kind
      /\ run'.at = run.at
  BY <1>1, EnterType DEF SeeExit, IInv, Sound
<1>3. Sound' /\ \A b : Holds(b)' <=> Holds(b)
  BY <1>2, Still DEF SeeExit, Peeked, IInv
<1> QED BY <1>1, <1>2, <1>3, GroupStep DEF GroupPhases

\* After a group is done with, the driver goes on to what it still holds.
LEMMA AfterGroupType ==
    ASSUME IInv, run.phase \in GroupPhases, NEW record \in {"yes", "lost"},
           NEW r, r = AfterGroup(record)
    PROVE  /\ r \in RunType /\ r.pid = run.pid /\ r.code = run.code
           /\ \/ r.phase = "clean"
              \/ /\ r.phase = "peek" /\ r.cur = run.cur /\ r.at = run.at
                 /\ r.kind = run.kind /\ record = "lost"
              \/ /\ r.phase = "script" /\ r.kind = "startup"
                 /\ Held("startup", r.at) = {}
<1>1. Cur \in Browsers /\ run \in RunType /\ Cur = run.cur
  BY CurHeld DEF Cur
<1>2. [run.forced EXCEPT ![Cur] = record] \in [Browsers -> {"no", "yes", "lost"}]
  BY <1>1 DEF RunType
<1>3. CASE run.kind # "startup"
  <2>1. r = [run EXCEPT !.forced[Cur] = record, !.phase = "clean", !.cur = @ + 1]
    BY <1>3 DEF AfterGroup
  <2>2. run.cur + 1 \in Nat \ {0} /\ "clean" \in Phases
    BY <1>1 DEF RunType, Phases
  <2> QED BY <1>1, <1>2, <2>1, <2>2 DEF RunType
<1>4. CASE run.kind = "startup" /\ record = "lost" /\ ~run.again
  <2>1. r = [run EXCEPT !.again = TRUE, !.phase = "peek"]
    BY <1>4 DEF AfterGroup
  <2>2. "peek" \in Phases /\ TRUE \in BOOLEAN
    BY DEF Phases
  <2> QED BY <1>1, <1>4, <2>1, <2>2 DEF RunType
<1>5. CASE run.kind = "startup" /\ ~(record = "lost" /\ ~run.again)
  <2>1. r = [NextCase EXCEPT !.forced[Cur] = record]
    BY <1>5 DEF AfterGroup
  <2>2. ~Over
    BY <1>5 DEF IInv, Cleaning, Over, Steps
  <2>3. /\ NextCase \in RunType /\ NextCase.pid = run.pid /\ NextCase.code = run.code
        /\ NextCase.kind = "startup" /\ NextCase.phase = "script"
        /\ Held("startup", NextCase.at) = {}
    BY <1>5, <2>2, NextCaseType DEF IInv, Sound
  <2>4. [NextCase.forced EXCEPT ![Cur] = record] \in [Browsers -> {"no", "yes", "lost"}]
    BY <1>1, <2>3 DEF RunType
  <2>5. /\ r \in RunType /\ r.pid = NextCase.pid /\ r.code = NextCase.code
        /\ r.kind = NextCase.kind /\ r.phase = NextCase.phase /\ r.at = NextCase.at
    BY <2>1, <2>3, <2>4 DEF RunType
  <2> QED BY <2>3, <2>5
<1> QED BY <1>3, <1>4, <1>5

LEMMA GiveUpInv == ASSUME IInv, GiveUp PROVE IInv'
<1>1. run.phase \in GroupPhases /\ run' = AfterGroup("lost")
  BY DEF GiveUp, GroupPhases
<1>2. /\ run' \in RunType /\ run'.pid = run.pid /\ run'.code = run.code
      /\ \/ run'.phase = "clean"
         \/ /\ run'.phase = "peek" /\ run'.cur = run.cur /\ run'.at = run.at
            /\ run'.kind = run.kind
         \/ /\ run'.phase = "script" /\ run'.kind = "startup"
            /\ Held("startup", run'.at) = {}
  BY <1>1, AfterGroupType
<1>3. Sound' /\ \A b : Holds(b)' <=> Holds(b)
  BY <1>2, Still DEF GiveUp, IInv
<1> QED BY <1>1, <1>2, <1>3 DEF IInv, Holding, Stopping, Cleaning, Smoking, GroupPhases

LEMMA ReapGroupInv == ASSUME IInv, ReapGroup PROVE IInv'
<1> DEFINE r == AfterGroup("yes")
<1>1. run.phase \in GroupPhases
  BY DEF ReapGroup, GroupPhases
<1>2. /\ r \in RunType /\ r.pid = run.pid /\ r.code = run.code
      /\ \/ r.phase = "clean"
         \/ r.phase = "script" /\ r.kind = "startup" /\ Held("startup", r.at) = {}
  BY <1>1, AfterGroupType
<1>3. run' = [r EXCEPT !.code[Cur] = proc[Pid(Cur)].code]
  BY DEF ReapGroup
<1> HIDE DEF r
<1>4. /\ Sound'
      /\ run'.kind = r.kind /\ run'.at = r.at /\ run'.phase = r.phase
  BY <1>1, <1>2, <1>3, CurHeld, Reaps DEF ReapGroup, IInv
<1> QED BY <1>2, <1>4 DEF IInv, Holding, Stopping, Cleaning, Smoking, GroupPhases

\* The cleanup of the smoke test.
LEMMA SmokePollInv == ASSUME IInv, SmokePoll PROVE IInv'
<1>1. run.phase = "clean" /\ 1 \in Browsers /\ run \in RunType
  BY SomeBrowsers DEF SmokePoll, IInv, Sound, HarnessTypeOK
<1>2. CASE Enter("over") /\ UNCHANGED <<proc, runs, astray>>
  <2>1. /\ run' \in RunType /\ run'.pid = run.pid /\ run'.code = run.code
        /\ run'.phase = "over"
    BY <1>2, EnterType DEF Phases, IInv, Sound
  <2>2. Sound'
    BY <1>2, <2>1, Still DEF IInv
  <2> QED BY <2>1, <2>2 DEF IInv, Holding, Stopping, Cleaning, Smoking, GroupPhases
<1>3. CASE /\ Holds(1) /\ SignalLeader(1, "term") /\ UNCHANGED runs
           /\ run' = [run EXCEPT !.phase = "terminate", !.forced[1] = "yes"]
  <2>1. [run.forced EXCEPT ![1] = "yes"] \in [Browsers -> {"no", "yes", "lost"}]
    BY <1>1 DEF RunType
  <2>2. "terminate" \in Phases
    BY DEF Phases
  <2>3. /\ run' \in RunType /\ run'.pid = run.pid /\ run'.code = run.code
        /\ run'.phase = "terminate"
    BY <1>1, <1>3, <2>1, <2>2 DEF RunType
  <2>4. Sound' /\ \A b : Holds(b)' <=> Holds(b)
    BY <1>1, <1>3, <2>3, Signals DEF IInv
  <2> QED BY <1>3, <2>3, <2>4 DEF IInv, Holding, Stopping, Cleaning, Smoking, GroupPhases
<1> QED BY <1>1, <1>2, <1>3 DEF SmokePoll, Holds, Pid

LEMMA SmokeReapInv == ASSUME IInv, SmokeReap PROVE IInv'
<1>1. run \in RunType /\ 1 \in Browsers /\ Holds(1) /\ Zombie(1)
  BY SomeBrowsers DEF SmokeReap, IInv, Sound, HarnessTypeOK, Holds, Pid
<1> DEFINE r == [run EXCEPT !.phase = "over"]
<1>2. /\ r \in RunType /\ r.pid = run.pid /\ r.code = run.code /\ r.phase = "over"
  BY <1>1 DEF RunType, Phases
<1>3. run' = [r EXCEPT !.code[1] = proc[Pid(1)].code]
  BY DEF SmokeReap
<1> HIDE DEF r
<1>4. Sound' /\ run'.phase = "over"
  BY <1>1, <1>2, <1>3, Reaps DEF SmokeReap, IInv
<1> QED BY <1>4 DEF IInv, Holding, Stopping, Cleaning, Smoking, GroupPhases

LEMMA SmokeOverdueInv == ASSUME IInv, SmokeOverdue PROVE IInv'
<1>1. 1 \in Browsers /\ Holds(1) /\ run.phase = "terminate"
  BY SomeBrowsers DEF SmokeOverdue, IInv, Smoking
<1>2. /\ run' \in RunType /\ run'.pid = run.pid /\ run'.code = run.code
      /\ run'.phase = "kill"
  BY EnterType DEF SmokeOverdue, Phases, IInv, Sound
<1>3. Sound' /\ \A b : Holds(b)' <=> Holds(b)
  BY <1>1, <1>2, Signals DEF SmokeOverdue, IInv
<1> QED BY <1>1, <1>2, <1>3 DEF IInv, Holding, Stopping, Cleaning, Smoking, GroupPhases

LEMMA SmokeGivesUpInv == ASSUME IInv, SmokeGivesUp PROVE IInv'
<1>1. run \in RunType /\ "over" \in Phases
  BY DEF IInv, Sound, HarnessTypeOK, Phases
<1>2. /\ run' \in RunType /\ run'.pid = run.pid /\ run'.code = run.code
      /\ run'.phase = "over"
  BY <1>1 DEF SmokeGivesUp, RunType
<1>3. Sound'
  BY <1>2, Still DEF SmokeGivesUp, IInv
<1> QED BY <1>2, <1>3 DEF IInv, Holding, Stopping, Cleaning, Smoking, GroupPhases

-----------------------------------------------------------------------------
(* The end of a driver, and the processes around it.                       *)

\* A driver that is gone holds nothing.
LEMMA GoneInv == ASSUME IInv, DriverGone PROVE IInv'
<1>1. proc \in [Pids -> Process] /\ HarnessTypeOK
  BY DEF IInv, Sound, HarnessTypeOK
<1>2. run' = Idle /\ run' \in RunType /\ proc' = [p \in Pids |-> Disowned(p)]
      /\ UNCHANGED <<runs, astray>>
  BY IdleType DEF DriverGone
<1>3. ASSUME NEW p \in Pids
      PROVE  Disowned(p) \in Process /\ Disowned(p).leader # "zombie"
  <2>1. CASE proc[p].leader = "zombie"
    <3>1. Reaped(p)[p] \in Process /\ Reaped(p)[p].leader = "free"
      BY <1>1, ReapedType
    <3> QED BY <2>1, <3>1 DEF Disowned
  <2>2. CASE proc[p].leader # "zombie"
    BY <1>1, <2>2 DEF Disowned, Process
  <2> QED BY <2>1, <2>2
<1>4. proc' \in [Pids -> Process] /\ \A p \in Pids : proc'[p].leader # "zombie"
  BY <1>2, <1>3
<1>5. astray' = FALSE /\ runs' \in 0..MaxRuns
  BY <1>1, <1>2 DEF IInv, Sound, HarnessTypeOK
<1>6. HarnessTypeOK'
  <2>1. astray' \in BOOLEAN
    BY <1>5
  <2> QED BY <1>2, <1>4, <1>5, <2>1 DEF HarnessTypeOK
<1>7. run'.phase = "idle" /\ \A b \in Browsers : run'.pid[b] = NoPid
  BY <1>2 DEF Idle
<1>8. Owned' /\ Coded' /\ Waited'
  <2>1. \A b \in Browsers : run'.code[b] = "none"
    BY <1>2 DEF Idle
  <2> QED BY <1>4, <1>7, <2>1 DEF Owned, Coded, Waited, Holds
<1> QED BY <1>5, <1>6, <1>7, <1>8 DEF IInv, Sound, Holding, Stopping, Cleaning, Smoking,
                                      GroupPhases

\* Processes that come and go leave a held browser its process id.
LEMMA Around ==
    ASSUME IInv, UNCHANGED <<run, runs, astray>>, NEW p \in Pids,
           NEW q \in Process, proc' = [proc EXCEPT ![p] = q],
           q.leader = "zombie" => q.code \in {"ok", "bad"},
           \/ q.own = proc[p].own /\ q.leader # "free"
           \/ proc[p].own = 0 \/ proc[p].leader = "free"
    PROVE  IInv'
<1>1. proc \in [Pids -> Process] /\ HarnessTypeOK
  BY DEF IInv, Sound, HarnessTypeOK
<1>2. HarnessTypeOK'
  BY <1>1 DEF HarnessTypeOK
<1>3. Coded'
  BY <1>1 DEF IInv, Sound, Coded
<1>4. Owned'
  <2> SUFFICES ASSUME NEW b \in Browsers, Holds(b)
               PROVE  proc'[run.pid[b]].own = b /\ proc'[run.pid[b]].leader # "free"
    BY DEF Owned, Holds
  <2>1. run.pid[b] \in Pids
    BY <1>1 DEF Holds, HarnessTypeOK, RunType
  <2>2. b # 0
    BY SomeBrowsers
  <2>3. proc[run.pid[b]].own = b /\ proc[run.pid[b]].leader # "free"
    BY DEF IInv, Sound, Owned
  <2> QED BY <1>1, <2>1, <2>2, <2>3
<1>5. astray' = FALSE /\ Waited'
  BY DEF IInv, Sound, Waited
<1>6. Holding' /\ Stopping' /\ Cleaning' /\ Smoking'
  BY DEF IInv, Holding, Stopping, Cleaning, Smoking, Holds
<1> QED BY <1>2, <1>3, <1>4, <1>5, <1>6 DEF IInv, Sound

LEMMA SurroundingsInv == ASSUME IInv, Surroundings PROVE IInv'
<1>1. proc \in [Pids -> Process] /\ HarnessTypeOK
  BY DEF IInv, Sound, HarnessTypeOK
<1>2. PICK p \in Pids : Exit(p) \/ Fork(p) \/ KinExit(p) \/ OtherStarts(p)
  BY DEF Surroundings
<1>3. CASE Exit(p)
  <2>1. UNCHANGED <<run, runs, astray>>
    BY <1>3 DEF Exit
  <2>2. PICK code \in {"ok", "bad"} :
           proc' = IF proc[p].own # 0
                   THEN [proc EXCEPT ![p].leader = "zombie", ![p].code = code]
                   ELSE Reaped(p)
    BY <1>3 DEF Exit
  <2>3. CASE proc[p].own # 0
    <3> DEFINE q == [proc[p] EXCEPT !.leader = "zombie", !.code = code]
    <3>1. /\ q \in Process /\ q.code \in {"ok", "bad"}
          /\ q.own = proc[p].own /\ q.leader # "free"
      BY <1>1 DEF Process
    <3>2. proc' = [proc EXCEPT ![p] = q]
      BY <1>1, <2>2, <2>3
    <3> HIDE DEF q
    <3> QED BY <2>1, <3>1, <3>2, Around
  <2>4. CASE proc[p].own = 0
    <3> DEFINE q == Reaped(p)[p]
    <3>1. q \in Process /\ q.leader = "free"
      BY <1>1, ReapedType
    <3>2. proc' = [proc EXCEPT ![p] = q]
      BY <1>1, <2>2, <2>4, ReapedType
    <3> HIDE DEF q
    <3> QED BY <2>1, <2>4, <3>1, <3>2, Around
  <2> QED BY <2>3, <2>4
<1>4. CASE Fork(p)
  <2> DEFINE q == [proc[p] EXCEPT !.kin = TRUE]
  <2>1. /\ q \in Process /\ q.own = proc[p].own /\ q.leader = proc[p].leader
    BY <1>1 DEF Process
  <2>2. /\ proc' = [proc EXCEPT ![p] = q] /\ UNCHANGED <<run, runs, astray>>
        /\ proc[p].leader = "run"
    BY <1>1, <1>4 DEF Fork
  <2> HIDE DEF q
  <2> QED BY <2>1, <2>2, Around
<1>5. CASE KinExit(p)
  <2>1. CASE proc[p].leader = "free"
    <3>1. proc' = [proc EXCEPT ![p] = NoProcess] /\ UNCHANGED <<run, runs, astray>>
      BY <1>5, <2>1 DEF KinExit
    <3>2. NoProcess \in Process /\ NoProcess.leader = "free"
      BY NoProcessType DEF NoProcess
    <3> QED BY <2>1, <3>1, <3>2, Around
  <2>2. CASE proc[p].leader # "free"
    <3> DEFINE q == [proc[p] EXCEPT !.kin = FALSE, !.doomed = FALSE]
    <3>1. /\ q \in Process /\ q.own = proc[p].own /\ q.leader = proc[p].leader
          /\ q.code = proc[p].code
      BY <1>1 DEF Process
    <3>2. proc' = [proc EXCEPT ![p] = q] /\ UNCHANGED <<run, runs, astray>>
      BY <1>5, <2>2 DEF KinExit
    <3>3. q.leader = "zombie" => q.code \in {"ok", "bad"}
      BY <3>1 DEF IInv, Sound, Coded
    <3> HIDE DEF q
    <3> QED BY <2>2, <3>1, <3>2, <3>3, Around
  <2> QED BY <2>1, <2>2
<1>6. CASE OtherStarts(p)
  <2> DEFINE q == [NoProcess EXCEPT !.leader = "run"]
  <2>1. q \in Process /\ q.leader = "run"
    BY NoProcessType DEF NoProcess, Process
  <2>2. /\ proc' = [proc EXCEPT ![p] = q] /\ UNCHANGED <<run, runs, astray>>
        /\ proc[p].leader = "free"
    BY <1>6 DEF OtherStarts, Free
  <2> HIDE DEF q
  <2> QED BY <2>1, <2>2, Around
<1> QED BY <1>2, <1>3, <1>4, <1>5, <1>6

-----------------------------------------------------------------------------

\* Every step of the drivers and of the processes around them.
LEMMA NextInv == ASSUME IInv, HarnessNext PROVE IInv'
<1>1. CASE \E k \in Kinds : Begin(k)
  BY <1>1, BeginInv
<1>2. CASE Launch \/ Show \/ Raise \/ PeekRunning \/ EndSession \/ Finish
           \/ CaseTimesOut \/ Conclude
  BY <1>2, LaunchInv, ShowInv, RaiseInv, PeekRunningInv, EndSessionInv, FinishInv,
     CaseTimesOutInv, ConcludeInv
<1>3. CASE NextOwned \/ Peek \/ Terminate \/ SeeExit \/ Overdue \/ KillRest
           \/ GiveUp \/ ReapGroup
  BY <1>3, NextOwnedInv, PeekInv, GroupSignalsInv, SeeExitInv, GiveUpInv, ReapGroupInv
<1>4. CASE SmokePoll \/ SmokeReap \/ SmokeOverdue \/ SmokeGivesUp
  BY <1>4, SmokePollInv, SmokeReapInv, SmokeOverdueInv, SmokeGivesUpInv
<1>5. CASE End \/ Die
  BY <1>5, GoneInv DEF End, Die
<1>6. CASE Surroundings
  BY <1>6, SurroundingsInv
<1> QED BY <1>1, <1>2, <1>3, <1>4, <1>5, <1>6 DEF HarnessNext, DriverStep

LEMMA StutterInv == ASSUME IInv, UNCHANGED harnessVars PROVE IInv'
<1>1. UNCHANGED <<proc, run, runs, astray>>
  BY DEF harnessVars
<1> QED BY <1>1 DEF IInv, Sound, HarnessTypeOK, Owned, Coded, Waited, Holding, Stopping, Cleaning,
                    Smoking, Holds

\* A driver's signals reach only the browsers it started and what those
\* started, for any process ids, any number of launches and of runs, and
\* wherever a driver dies.
THEOREM DriverSignals == HarnessSpec => []SignalsStayOwn
<1>1. IInv => SignalsStayOwn
  BY DEF IInv, Sound, SignalsStayOwn
<1>2. IInv /\ [HarnessNext]_harnessVars => IInv'
  BY NextInv, StutterInv
<1> QED BY <1>1, <1>2, InitInv, PTL DEF HarnessSpec

\* The drivers' state has its type.
THEOREM DriverTypes == HarnessSpec => []HarnessTypeOK
<1>1. IInv => HarnessTypeOK
  BY DEF IInv, Sound
<1>2. IInv /\ [HarnessNext]_harnessVars => IInv'
  BY NextInv, StutterInv
<1> QED BY <1>1, <1>2, InitInv, PTL DEF HarnessSpec
=============================================================================
