--------------------------- MODULE BrowserHarness ---------------------------
(***************************************************************************)
(* The four drivers that run a built browser and judge it:                 *)
(*   upstream      upstream_smoke.py: one browser, driven through X11      *)
(*   startup       startup_config_gate.py: browsers that must refuse to    *)
(*                 start, one after the other                              *)
(*   environments  environment_smoke.py: two environments and a second     *)
(*                 launch of one of them                                   *)
(*   default       default_config_smoke.py: the default configuration      *)
(*                                                                         *)
(* Every browser is started as the leader of a session of its own, so its  *)
(* process id is also its process group id. The kernel gives a process id  *)
(* away again once its process is reaped and its group is empty. A driver  *)
(* therefore looks at a browser without reaping it (waitid with WNOWAIT)   *)
(* as long as it may still have to signal it.                              *)
(*                                                                         *)
(* A step of a driver, a browser that exits, its descendants, processes of *)
(* others and the death of the driver interleave.                          *)
(***************************************************************************)
EXTENDS Naturals

CONSTANTS
    Pids,     \* process ids
    NoPid,
    Shared,   \* bound: process ids that others get too, and at which a
              \* browser's descendants are followed
    Cases,    \* launches the startup gate makes
    MaxRuns   \* bound: runs of a driver

ASSUME HarnessAssumption ==
    /\ NoPid \notin Pids
    /\ Shared \subseteq Pids
    /\ Cases \in Nat \ {0}
    /\ MaxRuns \in Nat

Kinds == {"upstream", "startup", "environments", "default"}
Browsers == 1..(IF Cases > 4 THEN Cases ELSE 4)

Do(op, b) == [op |-> op, browser |-> b]

\* What a driver does when nothing goes wrong: start a browser, wait for its
\* window, have it end through its window (close), by itself (settle, refuse)
\* or by the signal that ends the desktop session (stop).
SmokeScript == << Do("launch", 1), Do("show", 1), Do("close", 1) >>
GateScript ==
    [i \in 1..(2 * Cases) |->
       IF i % 2 = 1 THEN Do("launch", (i + 1) \div 2) ELSE Do("refuse", i \div 2)]
TwoEnvironments ==
    << Do("launch", 1), Do("show", 1), Do("launch", 2), Do("show", 2),
       Do("launch", 3), Do("settle", 3), Do("stop", 1), Do("stop", 2) >>
DefaultSelection ==
    << Do("launch", 1), Do("show", 1), Do("stop", 1),
       Do("launch", 2), Do("show", 2), Do("launch", 3), Do("settle", 3),
       Do("launch", 4), Do("show", 4), Do("stop", 4), Do("stop", 2) >>
Script(k) ==
    CASE k = "upstream" -> SmokeScript
      [] k = "startup" -> GateScript
      [] k = "environments" -> TwoEnvironments
      [] k = "default" -> DefaultSelection

VARIABLES
    proc,     \* the process that has a process id, and the rest of its group
    run,      \* the running driver
    runs,     \* bounded counter
    astray    \* history: a signal reached a process the driver did not start

harnessVars == <<proc, run, runs, astray>>

\* leader: the process itself, a zombie until its parent reaps it; own: the
\* browser of the driver it is; kin: some descendant lives in the group;
\* doomed: those descendants were sent SIGKILL; image: what it executes, an
\* output of a build or another file.
NoProcess == [leader |-> "free", own |-> 0, code |-> "none", told |-> "no",
              kin |-> FALSE, doomed |-> FALSE, image |-> "else"]
Process == [leader : {"free", "run", "zombie"}, own : {0} \cup Browsers,
            code : {"none", "ok", "bad"}, told : {"no", "term", "kill"},
            kin : BOOLEAN, doomed : BOOLEAN, image : {"out", "else"}]

Idle == [kind |-> "upstream", at |-> 1, phase |-> "idle", cur |-> 1,
         seen |-> FALSE, again |-> FALSE, verdict |-> "none",
         pid |-> [b \in Browsers |-> NoPid],
         code |-> [b \in Browsers |-> "none"],
         forced |-> [b \in Browsers |-> "no"]]
Phases == {"idle", "script", "stopping", "stopped", "clean", "peek", "peeked",
           "termed", "killed", "seen", "reap", "terminate", "kill", "over"}

RunType == [kind : Kinds, at : Nat \ {0}, phase : Phases, cur : Nat \ {0},
            seen : BOOLEAN, again : BOOLEAN,
            verdict : {"none", "passed", "failed", "lost"},
            pid : [Browsers -> Pids \cup {NoPid}],
            code : [Browsers -> {"none", "ok", "bad"}],
            forced : [Browsers -> {"no", "yes", "lost"}]]

HarnessTypeOK ==
    /\ proc \in [Pids -> Process]
    /\ run \in RunType
    /\ runs \in 0..MaxRuns
    /\ astray \in BOOLEAN

HarnessInit ==
    /\ proc = [p \in Pids |-> NoProcess]
    /\ run = Idle
    /\ runs = 0
    /\ astray = FALSE

-----------------------------------------------------------------------------
(* Process ids, signals and waiting.                                       *)

Free(p) == proc[p].leader = "free" /\ ~proc[p].kin
Alive(p) == proc[p].leader = "run" \/ proc[p].kin
Pid(b) == run.pid[b]
Zombie(b) == proc[Pid(b)].leader = "zombie"

\* waitpid: the process id is free once the group is empty too.
Reaped(p) == [proc EXCEPT ![p] =
    IF @.kin THEN [@ EXCEPT !.leader = "free", !.told = "no", !.code = "none"]
             ELSE NoProcess]

\* Slip: the look at the browser is a poll, which reaps it.
PolledAway(p) == IF proc[p].leader = "zombie" THEN Reaped(p) ELSE proc

\* waitid with WNOWAIT: the process table stays as it is.
Peeked(p) == proc

LeaderTold(p, signal) ==
    IF proc[p].leader = "run" /\ proc[p].told # "kill" THEN signal ELSE proc[p].told

\* kill and killpg. A signal to nobody is ProcessLookupError, which is passed.
SignalLeader(b, signal) ==
    /\ proc' = [proc EXCEPT ![Pid(b)].told = LeaderTold(Pid(b), signal)]
    /\ astray' = (astray \/ (Alive(Pid(b)) /\ proc[Pid(b)].own # b))
SignalGroup(b, signal) ==
    /\ proc' = [proc EXCEPT
         ![Pid(b)].told = LeaderTold(Pid(b), signal),
         ![Pid(b)].doomed = @ \/ (signal = "kill" /\ proc[Pid(b)].kin)]
    /\ astray' = (astray \/ (Alive(Pid(b)) /\ proc[Pid(b)].own # b))

Enter(phase) == run' = [run EXCEPT !.phase = phase]

-----------------------------------------------------------------------------
(* The script.                                                             *)

Steps == Script(run.kind)
Over == run.at \notin DOMAIN Steps
At(op) == run.phase = "script" /\ ~Over /\ Steps[run.at].op = op
Here == Steps[run.at].browser

\* What the driver does when a browser ended as it should, or a step failed:
\* the startup gate goes on with its next case, the others clean up.
Advanced == [run EXCEPT !.at = @ + 1, !.phase = "script"]
AfterError == [run EXCEPT !.verdict = "failed", !.phase = "clean", !.cur = 1]
NextCase == [run EXCEPT !.verdict = "failed", !.phase = "script",
                        !.at = 2 * Here + 1, !.again = FALSE]

Begin(k) ==
    /\ run.phase = "idle"
    /\ runs < MaxRuns
    /\ runs' = runs + 1
    /\ run' = [Idle EXCEPT !.kind = k, !.phase = "script"]
    /\ UNCHANGED <<proc, astray>>

\* Popen with start_new_session.
Launch ==
    /\ At("launch")
    /\ \E p \in Pids :
         /\ Free(p)
         /\ proc' = [proc EXCEPT ![p] =
              [NoProcess EXCEPT !.leader = "run", !.own = Here, !.image = "out"]]
         /\ run' = [Advanced EXCEPT !.pid[Here] = p, !.code[Here] = "none"]
    /\ UNCHANGED <<runs, astray>>

\* Its window, executable, title, lock and, for the smoke test, every page,
\* tab and sandbox check are as expected.
Show ==
    /\ At("show")
    /\ proc[Pid(Here)].leader = "run"
    /\ run' = Advanced
    /\ UNCHANGED <<proc, runs, astray>>

\* A wait that times out, a check that fails, a tool that is missing: raised
\* at any point of the script, the checks after its last step included.
Raise ==
    /\ run.phase \in {"script", "stopped"}
    /\ run.kind = "startup" => At("launch")
    /\ run' = IF run.kind = "startup" THEN NextCase ELSE AfterError
    /\ UNCHANGED <<proc, runs, astray>>

\* The browser is peeked at and must still run; then its leader alone is
\* told to end the session.
PeekRunning ==
    /\ At("stop")
    /\ run' = IF Zombie(Here) THEN AfterError
              ELSE [run EXCEPT !.phase = "stopping"]
    /\ proc' = Peeked(Pid(Here))
    /\ UNCHANGED <<runs, astray>>
EndSession ==
    /\ run.phase = "stopping"
    /\ SignalLeader(Here, "term")
    /\ Enter("stopped")
    /\ UNCHANGED runs

\* finish_naturally, or Popen.wait: the exit is reaped and its code judged.
Waiting == At("close") \/ At("settle") \/ At("refuse") \/ run.phase = "stopped"
ExitAccepted(code) == code = "ok"
Finish ==
    /\ Waiting
    /\ Zombie(Here)
    /\ LET code == proc[Pid(Here)].code
           outcomes ==
             IF run.kind = "startup"
             THEN {[NextCase EXCEPT !.verdict = v] :
                     v \in IF ExitAccepted(code) THEN {run.verdict, "failed"}
                                                 ELSE {"failed"}}
             ELSE {IF ExitAccepted(code) THEN Advanced ELSE AfterError}
       IN \E next \in outcomes : run' = [next EXCEPT !.code[Here] = code]
    /\ proc' = Reaped(Pid(Here))
    /\ UNCHANGED <<runs, astray>>

\* The startup gate's process.wait times out: it terminates the group.
CaseTimesOut ==
    /\ At("refuse")
    /\ run' = [run EXCEPT !.phase = "peek", !.cur = Here, !.verdict = "failed"]
    /\ UNCHANGED <<proc, runs, astray>>

\* The end of the try block. The startup gate has no cleanup left.
Conclude ==
    /\ run.phase = "script" /\ Over
    /\ run' = [run EXCEPT
         !.verdict = IF @ = "failed" THEN "failed" ELSE "passed",
         !.phase = IF run.kind = "startup" THEN "over" ELSE "clean",
         !.cur = 1]
    /\ UNCHANGED <<proc, runs, astray>>

-----------------------------------------------------------------------------
(* kill_group and terminate_group, on the browser run.cur.                 *)

Cur == run.cur
CleansGroups == run.kind \in {"environments", "default"}

\* The finally block takes the browsers it started one after the other and
\* skips those already reaped. A pass that needed force is no pass.
NextOwned ==
    /\ run.phase = "clean" /\ CleansGroups
    /\ run' =
         IF Cur \notin Browsers \/ (Cur \in Browsers /\ Pid(Cur) = NoPid)
         THEN [run EXCEPT !.phase = "over",
                 !.verdict = IF \E b \in Browsers : run.forced[b] = "yes"
                             THEN "failed" ELSE @]
         ELSE IF run.code[Cur] # "none" THEN [run EXCEPT !.cur = @ + 1]
         ELSE [run EXCEPT !.phase = "peek"]
    /\ UNCHANGED <<proc, runs, astray>>

Peek ==
    /\ run.phase = "peek"
    /\ run' = [run EXCEPT !.phase = "peeked", !.seen = Zombie(Cur)]
    /\ proc' = Peeked(Pid(Cur))
    /\ UNCHANGED <<runs, astray>>

Terminate ==
    /\ run.phase = "peeked"
    /\ SignalGroup(Cur, "term")
    /\ Enter(IF run.seen THEN "seen" ELSE "termed")
    /\ UNCHANGED runs

SeeExit ==
    /\ run.phase \in {"termed", "killed"}
    /\ Zombie(Cur)
    /\ proc' = Peeked(Pid(Cur))
    /\ Enter("seen")
    /\ UNCHANGED <<runs, astray>>

Overdue ==
    /\ run.phase = "termed"
    /\ SignalGroup(Cur, "kill")
    /\ Enter("killed")
    /\ UNCHANGED runs

\* Slip: the leader is reaped without the last signal to its group.
LeaderOnly ==
    /\ run.phase = "seen"
    /\ Enter("reap")
    /\ UNCHANGED <<proc, runs, astray>>

\* "The leader is still unreaped, so its process-group ID cannot have been
\* reused before this final descendant cleanup."
KillRest ==
    /\ run.phase = "seen"
    /\ SignalGroup(Cur, "kill")
    /\ Enter("reap")
    /\ UNCHANGED runs

\* The startup gate's own finally tries once more what was not reaped.
AfterGroup(record) ==
    IF run.kind # "startup"
    THEN [run EXCEPT !.forced[Cur] = record, !.phase = "clean", !.cur = @ + 1]
    ELSE IF record = "lost" /\ ~run.again
    THEN [run EXCEPT !.again = TRUE, !.phase = "peek"]
    ELSE [NextCase EXCEPT !.forced[Cur] = record]

GiveUp ==
    /\ run.phase = "killed"
    /\ run' = AfterGroup("lost")
    /\ UNCHANGED <<proc, runs, astray>>

ReapGroup ==
    /\ run.phase = "reap"
    /\ Zombie(Cur)
    /\ run' = [AfterGroup("yes") EXCEPT !.code[Cur] = proc[Pid(Cur)].code]
    /\ proc' = Reaped(Pid(Cur))
    /\ UNCHANGED <<runs, astray>>

-----------------------------------------------------------------------------
(* The cleanup of upstream_smoke.py: the browser's leader only.            *)

Smoke == run.kind = "upstream"

SmokePoll ==
    /\ run.phase = "clean" /\ Smoke
    /\ \/ /\ Pid(1) = NoPid \/ run.code[1] # "none"
          /\ Enter("over")
          /\ UNCHANGED <<proc, astray>>
       \/ /\ Pid(1) # NoPid /\ run.code[1] = "none"
          /\ proc[Pid(1)].leader = "run"
          /\ SignalLeader(1, "term")
          /\ run' = [run EXCEPT !.phase = "terminate", !.forced[1] = "yes"]
    /\ UNCHANGED runs

SmokeReap ==
    /\ run.phase \in {"clean", "terminate", "kill"} /\ Smoke
    /\ Pid(1) # NoPid /\ run.code[1] = "none"
    /\ Zombie(1)
    /\ run' = [run EXCEPT !.phase = "over", !.code[1] = proc[Pid(1)].code]
    /\ proc' = Reaped(Pid(1))
    /\ UNCHANGED <<runs, astray>>

SmokeOverdue ==
    /\ run.phase = "terminate"
    /\ SignalLeader(1, "kill")
    /\ Enter("kill")
    /\ UNCHANGED runs

\* The second wait raises out of the finally block: results.json is never
\* written.
SmokeGivesUp ==
    /\ run.phase = "kill"
    /\ run' = [run EXCEPT !.phase = "over", !.verdict = "lost"]
    /\ UNCHANGED <<proc, runs, astray>>

-----------------------------------------------------------------------------
(* The end of a driver, and everything around it.                          *)

\* A process whose parent is gone is reaped by init.
Disowned(p) ==
    IF proc[p].leader = "zombie" THEN Reaped(p)[p] ELSE [proc[p] EXCEPT !.own = 0]
DriverGone ==
    /\ run' = Idle
    /\ proc' = [p \in Pids |-> Disowned(p)]
    /\ UNCHANGED <<runs, astray>>

End == run.phase = "over" /\ DriverGone
Die == run.phase \notin {"idle", "over"} /\ DriverGone

\* A process exits by itself or because it was told to. Others' processes are
\* reaped by their own parents.
Exit(p) ==
    /\ proc[p].leader = "run"
    /\ \E code \in IF proc[p].told = "kill" THEN {"bad"} ELSE {"ok", "bad"} :
         proc' = IF proc[p].own # 0
                 THEN [proc EXCEPT ![p].leader = "zombie", ![p].code = code]
                 ELSE Reaped(p)
    /\ UNCHANGED <<run, runs, astray>>

\* A browser starts descendants, which end when they like, or when killed.
Fork(p) ==
    /\ p \in Shared
    /\ proc[p].leader = "run" /\ proc[p].own # 0
    /\ proc[p].told # "kill" /\ ~proc[p].kin
    /\ proc' = [proc EXCEPT ![p].kin = TRUE]
    /\ UNCHANGED <<run, runs, astray>>
KinExit(p) ==
    /\ proc[p].kin
    /\ proc' = [proc EXCEPT ![p] =
         IF @.leader = "free" THEN NoProcess
         ELSE [@ EXCEPT !.kin = FALSE, !.doomed = FALSE]]
    /\ UNCHANGED <<run, runs, astray>>

\* Bound: only while a driver runs; without one no process id is remembered.
OtherStarts(p) ==
    /\ p \in Shared /\ run.phase # "idle"
    /\ Free(p)
    /\ proc' = [proc EXCEPT ![p] = [NoProcess EXCEPT !.leader = "run"]]
    /\ UNCHANGED <<run, runs, astray>>

\* Every wait of a driver has a timeout, so it always has a step to take.
DriverStep ==
    \/ Launch \/ Show \/ Raise \/ PeekRunning \/ EndSession \/ Finish
    \/ CaseTimesOut \/ Conclude
    \/ NextOwned \/ Peek \/ Terminate \/ SeeExit \/ Overdue \/ KillRest
    \/ GiveUp \/ ReapGroup
    \/ SmokePoll \/ SmokeReap \/ SmokeOverdue \/ SmokeGivesUp
    \/ End

Surroundings == \E p \in Pids : Exit(p) \/ Fork(p) \/ KinExit(p) \/ OtherStarts(p)

HarnessNext == (\E k \in Kinds : Begin(k)) \/ DriverStep \/ Die \/ Surroundings

HarnessSpec == HarnessInit /\ [][HarnessNext]_harnessVars

-----------------------------------------------------------------------------

\* A signal only ever reaches a browser this driver started, or what that
\* browser started, although process ids are used again.
SignalsStayOwn == ~astray

\* When a driver reports that it terminated a browser's group and reaped the
\* leader, the descendants end too, also those that ignore SIGTERM.
ForcedGroup(p) ==
    \E b \in Browsers : run.forced[b] = "yes" /\ ~Smoke /\ Pid(b) = p
                        /\ proc[p].own = b /\ proc[p].kin
CleanupFinishes ==
    /\ run.phase # "idle" ~> run.phase = "idle"
    /\ \A p \in Shared : ForcedGroup(p) ~> ~proc[p].kin
=============================================================================
