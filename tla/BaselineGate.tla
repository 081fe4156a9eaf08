---------------------------- MODULE BaselineGate ----------------------------
(***************************************************************************)
(* From pinned sources to an accepted baseline: the tools of               *)
(* UpstreamBaseline build the browser, upstream_smoke.py drives it         *)
(* (BrowserHarness), a person reviews its evidence, and product.py         *)
(* `prepare` accepts the reviewed binary (verify_gate) before it changes   *)
(* the checkout. `build` then makes the product, on which the three other  *)
(* drivers of BrowserHarness run.                                          *)
(*                                                                         *)
(* There is no lock: a tool, a driver and a product.py stage run side by   *)
(* side. How prepare writes and verifies its files is ProductIntegration.  *)
(***************************************************************************)
EXTENDS BrowserHarness, UpstreamBaseline

CONSTANT MaxStages   \* bound: runs of product.py

ASSUME GateAssumption == MaxStages \in Nat

VARIABLES
    smoke,        \* upstream_smoke.py: the receipt it was given, whether a
                  \* build ran between its hash of the binary and the launch,
                  \* and the binary it really launched
    evidence,     \* the results.json files
    stage,        \* the running stage of product.py
    integration,  \* the pins and the gate of product-integration.json
    product,      \* the product's browser is built
    stages        \* bounded counter

gateVars == <<smoke, evidence, stage, integration, product, stages>>
vars == <<harnessVars, baselineVars, gateVars>>

NoSmoke == [at |-> "idle", receipt |-> {}, swapped |-> FALSE, ran |-> NoBinary]
Smokes == [at : {"idle", "checked", "started"},
           receipt : {{r} : r \in receipts} \cup {{}},
           swapped : BOOLEAN, ran : Binary]
Evidence == [verdict : {"passed", "failed"}, code : {"none", "ok", "bad"},
             forced : BOOLEAN, binary : Binary, ran : Binary, swapped : BOOLEAN]
NoStage == [job |-> "none", at |-> "idle", pin |-> [r \in Repos |-> "none"],
            gate |-> NoBinary]
NoIntegration == [pin |-> [r \in Repos |-> "none"], gate |-> NoBinary]

TypeOK ==
    /\ HarnessTypeOK
    /\ BaselineTypeOK
    /\ smoke \in Smokes
    /\ evidence \subseteq Evidence
    /\ stage \in [job : {"none", "prepare", "build"},
                  at : {"idle", "identity", "gate", "write", "compile"},
                  pin : [Repos -> Revisions], gate : Binary]
    /\ integration \in [pin : [Repos -> Revisions], gate : Binary]
    /\ product \in BOOLEAN
    /\ stages \in 0..MaxStages

Integrated == integration # NoIntegration

\* A machine on which nothing was fetched, or one on which a reviewed baseline
\* was accepted and the product was built from it.
FreshMachine ==
    /\ BaselineInit
    /\ evidence = {} /\ integration = NoIntegration
    /\ product = FALSE /\ stages = 0
InstalledMachine ==
    LET p == FirstPin
        pins == [r \in Repos |-> p]
        chrome == [from |-> p, deps |-> p, clean |-> TRUE, args |-> "baseline"]
    IN /\ pin = pins
       /\ repo = [r \in Repos |->
            [is |-> "head", head |-> p, dirty |-> r = "src"]]
       /\ python = TRUE /\ hooked = TRUE
       /\ gclient = "ours" /\ deps = p
       /\ out = [args |-> "product", ninja |-> TRUE, chrome |-> chrome]
       /\ receipts = {[pin |-> pins, deps |-> p, args |-> "baseline",
                       binary |-> chrome]}
       /\ tool = NoTool
       /\ acts = MaxActs
       /\ raced = FALSE /\ moved = FALSE
       /\ evidence = {[verdict |-> "passed", code |-> "ok", forced |-> FALSE,
                       binary |-> chrome, ran |-> chrome, swapped |-> FALSE]}
       /\ integration = [pin |-> pins, gate |-> chrome]
       /\ product = TRUE /\ stages = MaxStages

Init ==
    /\ HarnessInit
    /\ FreshMachine \/ InstalledMachine
    /\ smoke = NoSmoke /\ stage = NoStage

-----------------------------------------------------------------------------
(* upstream_smoke.py.                                                      *)

\* The receipt must be of the pins and the baseline arguments, and its hash
\* that of the binary; then the checkouts are verified, then the browser is
\* started.
SmokeCheck ==
    /\ run.phase = "idle" /\ smoke = NoSmoke
    /\ runs < MaxRuns
    /\ \E r \in receipts :
         /\ r.pin = pin
         /\ r.args = "baseline"
         /\ r.binary = out.chrome
         /\ smoke' = [NoSmoke EXCEPT !.at = "checked", !.receipt = {r}]
    /\ UNCHANGED <<harnessVars, baselineVars, evidence, stage, integration, product, stages>>

SmokeBegin ==
    /\ smoke.at = "checked"
    /\ Verified
    /\ \A r \in smoke.receipt : deps = r.deps
    /\ Begin("upstream")
    /\ smoke' = [smoke EXCEPT !.at = "started"]
    /\ UNCHANGED <<baselineVars, evidence, stage, integration, product, stages>>

SmokeRefuses ==
    /\ smoke.at = "checked"
    /\ smoke' = NoSmoke
    /\ UNCHANGED <<harnessVars, baselineVars, evidence, stage, integration, product, stages>>

\* The three drivers of the product. Bound: no upstream tool and no stage of
\* product.py is in the middle of something when a driver launches its browser,
\* or goes on before the driver ends; what they do in that time commutes with
\* every step of the driver.
ProductDriver == run.phase # "idle" /\ run.kind # "upstream"
Launched == ProductDriver \/ smoke.ran # NoBinary
ProductBegin ==
    /\ product
    /\ smoke = NoSmoke /\ tool = NoTool /\ stage = NoStage
    /\ \E k \in Kinds \ {"upstream"} : Begin(k)
    /\ UNCHANGED <<baselineVars, gateVars>>

\* Popen executes whatever is at the path now. Bound: process ids that only
\* drivers get are interchangeable.
LaunchBrowser ==
    /\ tool = NoTool /\ stage = NoStage
    /\ Launch
    /\ LET new == run'.pid[Here]
       IN new \notin Shared => new = CHOOSE p \in Pids \ Shared : Free(p)
    /\ smoke' = IF Smoke THEN [smoke EXCEPT !.ran = out.chrome] ELSE smoke
    /\ UNCHANGED <<baselineVars, evidence, stage, integration, product, stages>>

Drive ==
    /\ \/ Show \/ Raise \/ PeekRunning \/ EndSession \/ Finish
       \/ CaseTimesOut \/ Conclude
       \/ NextOwned \/ Peek \/ Terminate \/ SeeExit \/ Overdue \/ KillRest
       \/ GiveUp \/ ReapGroup
       \/ SmokePoll \/ SmokeReap \/ SmokeOverdue \/ SmokeGivesUp
    /\ UNCHANGED <<baselineVars, gateVars>>

\* results.json is written last, from the finally block.
EndRun ==
    /\ End
    /\ smoke' = NoSmoke
    /\ evidence' = evidence \cup
         {[verdict |-> run.verdict, code |-> run.code[1],
           forced |-> run.forced[1] = "yes", binary |-> r.binary,
           ran |-> smoke.ran, swapped |-> smoke.swapped] :
             r \in IF Smoke /\ run.verdict # "lost" THEN smoke.receipt ELSE {}}
    /\ UNCHANGED <<baselineVars, stage, integration, product, stages>>

DieRun ==
    /\ Die
    /\ smoke' = NoSmoke
    /\ UNCHANGED <<baselineVars, evidence, stage, integration, product, stages>>

Processes == Surroundings /\ UNCHANGED <<baselineVars, gateVars>>

-----------------------------------------------------------------------------
(* product.py prepare and build.                                           *)

\* Leaders that execute a built file. The kernel may hide what a browser's
\* sandboxed descendants execute: the scan passes over those.
LiveOutput == \E p \in Pids : proc[p].leader = "run" /\ proc[p].image = "out"

\* Bound: a run that stopped before it integrated anything changed nothing, and
\* is not followed by another.
StageScan(job) ==
    /\ stage = NoStage
    /\ stages < MaxStages /\ (stages > 0 => Integrated)
    /\ stages' = stages + 1
    /\ ~LiveOutput
    /\ job = "build" => Integrated
    /\ stage' = [NoStage EXCEPT !.job = job,
                                !.at = IF job = "build" THEN "compile" ELSE "identity"]
    /\ UNCHANGED <<harnessVars, baselineVars, smoke, evidence, integration, product>>

\* check_identity: both heads at the pins, depot_tools without local changes.
Identity ==
    /\ stage.at = "identity"
    /\ \A r \in Repos : repo[r].is = "head" /\ repo[r].head = pin[r]
    /\ ~repo["depot"].dirty
    /\ Integrated => integration.pin["src"] = pin["src"]
    /\ stage' = [stage EXCEPT !.at = "gate", !.pin = pin]
    /\ UNCHANGED <<harnessVars, baselineVars, smoke, evidence, integration, product, stages>>

\* Slip: the review is believed without the results it is about.
ReviewOnly(e, r) ==
    /\ r.pin = stage.pin
    /\ r.binary = e.binary
    /\ e.binary = out.chrome

\* verify_gate: the review names evidence and a build receipt of these pins;
\* both have the hash of the binary that is there now.
Accepted(e, r) ==
    /\ e.verdict = "passed" /\ e.code = "ok" /\ ~e.forced
    /\ r.pin = stage.pin
    /\ r.binary = e.binary
    /\ e.binary = out.chrome
AcceptGate ==
    /\ stage.at = "gate"
    /\ \E gate \in IF Integrated THEN {integration.gate}
                   ELSE {e.binary : e \in {e \in evidence :
                           \E r \in receipts : Accepted(e, r)}} :
         stage' = [stage EXCEPT !.at = "write", !.gate = gate]
    /\ DependenciesMatch
    /\ UNCHANGED <<harnessVars, baselineVars, smoke, evidence, integration, product, stages>>

\* check_changes refuses unrelated local changes; the product's files are
\* changes of src from here on.
Integrate ==
    /\ stage.at = "write"
    /\ Integrated \/ ~repo["src"].dirty
    /\ repo' = [repo EXCEPT !["src"].dirty = TRUE]
    /\ integration' = [pin |-> stage.pin, gate |-> stage.gate]
    /\ stage' = NoStage
    /\ raced' = (raced \/ tool.job = "build")
    /\ UNCHANGED <<harnessVars, pin, python, gclient, deps, hooked, out, receipts,
                   tool, acts, moved, smoke, evidence, product, stages>>

\* `gen` turns the baseline's arguments into the product's, `build` makes the
\* product's browser beside chrome.
BuildProduct ==
    /\ stage.at = "compile"
    /\ out.args \in {"absent", "baseline", "product"}
    /\ out' = [out EXCEPT !.args = "product", !.ninja = TRUE]
    /\ product' = TRUE
    /\ stage' = NoStage
    /\ raced' = (raced \/ tool.job = "build")
    /\ UNCHANGED <<harnessVars, checkoutVars, receipts, tool, acts, moved,
                   smoke, evidence, integration, stages>>

StageStops ==
    /\ stage # NoStage
    /\ stage' = NoStage
    /\ UNCHANGED <<harnessVars, baselineVars, smoke, evidence, integration, product, stages>>

-----------------------------------------------------------------------------
(* The tools beside them.                                                  *)

Others == UNCHANGED <<harnessVars, evidence, stage, integration, product, stages>>

\* A build that runs while the smoke test is between its hash and its launch.
CompileBaseline ==
    /\ ~Launched
    /\ Compile
    /\ smoke' = [smoke EXCEPT !.swapped = smoke.at # "idle"]
    /\ Others

\* Bound: when no run of a driver is left, the tools only go on beside
\* evidence that prepare may accept, and when the processes of the run, which
\* they do not look at, have ended.
Goes ==
    \/ runs < MaxRuns
    \/ /\ \E e \in evidence : e.verdict = "passed"
       /\ \A p \in Pids : proc[p] = NoProcess

Tools ==
    /\ ~Launched /\ Goes
    /\ \/ Fetch
       \/ \E job \in {"hooks", "gen", "build"} : StageBegin(job)
       \/ RunHooks \/ OpenArguments \/ WriteArguments \/ Generate \/ Record
       \/ Stop
       \/ Developer
    /\ UNCHANGED smoke /\ Others

\* Bound: product.py runs beside evidence only; without any, verify_gate refuses
\* before something is changed.
ProductStages ==
    /\ ~Launched
    /\ evidence # {}
    /\ \/ \E job \in {"prepare", "build"} : StageScan(job)
       \/ Identity \/ AcceptGate \/ Integrate \/ BuildProduct \/ StageStops

Driver == LaunchBrowser \/ Drive \/ EndRun
Next ==
    \/ SmokeCheck \/ SmokeBegin \/ SmokeRefuses \/ ProductBegin
    \/ Driver \/ DieRun \/ Processes
    \/ ProductStages
    \/ CompileBaseline \/ Tools

\* The kernel ends what was sent SIGKILL.
KernelKills ==
    /\ \E p \in Pids : (Exit(p) /\ proc[p].told = "kill") \/ (KinExit(p) /\ proc[p].doomed)
    /\ UNCHANGED <<baselineVars, gateVars>>

Spec ==
    /\ Init /\ [][Next]_vars
    \* Every wait of a driver has a timeout, so a driver that lives goes on.
    /\ WF_run(Driver)
    /\ WF_proc(KernelKills)

-----------------------------------------------------------------------------

\* The binary on which an accepted integration rests was really launched by a
\* smoke test that passed without force, and was built from the integration's
\* own pins, unmodified, with the baseline's arguments and dependencies:
\* unless the checkout or the arguments changed under a running build, a build
\* ran between the smoke test's hash and its launch, or a checkout was moved
\* by hand without its dependencies.
GateIsSmokedBaseline ==
    Integrated =>
      LET gate == integration.gate
      IN /\ \E e \in evidence :
              /\ e.verdict = "passed" /\ ~e.forced
              /\ e.binary = gate
              /\ e.ran = gate \/ e.swapped
         /\ \/ raced
            \/ /\ gate.from = integration.pin["src"]
               /\ gate.clean /\ gate.args = "baseline"
               /\ gate.deps = gate.from \/ moved

\* As long as nobody else touches the checkouts, `fetch` can be run again
\* however it ended: with docs/build-arch-linux.md:58, "An interrupted source
\* fetch can be retried. If Git reports a lock or the tool detects local
\* changes, inspect the failure". What has to be inspected is one thing at
\* most: a repository in which git init, git fetch or git checkout was cut
\* short, with nothing begun after it, or the .gclient of finished checkouts.
FetchRepeats ==
    (acts = 0 /\ ~Integrated /\ tool = NoTool) =>
        \/ Fetchable
        \/ /\ gclient = "absent"
           /\ \E r \in Repos : /\ repo[r].is \in {"init", "torn"}
                              /\ \A q \in Repos \ {r} : Passes(q)
        \/ gclient = "partial" /\ \A r \in Repos : repo[r].is = "head" /\ Unmodified(r)
=============================================================================
