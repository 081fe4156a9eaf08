------------------------- MODULE BaselineGateProofs -------------------------
(***************************************************************************)
(* Proofs about the way from pinned sources to an accepted baseline, for   *)
(* any pins, process ids, launches and bounds:                             *)
(*   - the composition drives its browsers as BrowserHarness does, so a    *)
(*     signal only reaches a driver's own browsers here too;               *)
(*   - the binary an integration rests on is the one that was smoke        *)
(*     tested, built from its pins (GateIsSmokedBaseline);                 *)
(*   - every variable keeps its type (TypeOK);                             *)
(*   - a fetch that ended anyhow leaves at most one thing a person has to  *)
(*     inspect before the next (FetchRepeats).                             *)
(*                                                                         *)
(* The second rests on what each tool knows at each of its steps: a build  *)
(* of the sources it verified (Building), fetch of the repository it is in *)
(* (Fetching, Synced), a receipt of its binary (ReceiptsSourced), the      *)
(* smoke test of the binary it hashed (Smoked), product.py of what it      *)
(* checked (Staged). The type invariant adds what the drivers, the         *)
(* receipts and the stages hold (Judged, Recorded), the last fact what a   *)
(* fetch has made by each of its steps, and in which order (Fetched,       *)
(* Ordered, Pinned).                                                       *)
(***************************************************************************)
EXTENDS BaselineGate, BrowserHarnessProofs

\* Every step of the composition is one of the harness or leaves it alone.
LEMMA NextDrives == [Next]_vars => [HarnessNext]_harnessVars
<1> SUFFICES ASSUME [Next]_vars PROVE [HarnessNext]_harnessVars
  OBVIOUS
<1>1. CASE SmokeCheck \/ SmokeRefuses
  BY <1>1 DEF SmokeCheck, SmokeRefuses
<1>2. CASE SmokeBegin \/ ProductBegin
  BY <1>2 DEF SmokeBegin, ProductBegin, HarnessNext, Kinds
<1>3. CASE Driver \/ DieRun \/ Processes
  BY <1>3 DEF Driver, LaunchBrowser, Drive, EndRun, DieRun, Processes, HarnessNext, DriverStep
<1>4. CASE ProductStages
  BY <1>4 DEF ProductStages, StageScan, Identity, AcceptGate, Integrate, BuildProduct, StageStops
<1>5. CASE CompileBaseline \/ Tools
  BY <1>5 DEF CompileBaseline, Tools, Others
<1>6. CASE UNCHANGED vars
  BY <1>6 DEF vars
<1> QED BY <1>1, <1>2, <1>3, <1>4, <1>5, <1>6 DEF Next

\* The composition implements the harness.
THEOREM GateDrives == Spec => HarnessSpec
<1>1. Init => HarnessInit
  BY DEF Init
<1> QED BY <1>1, NextDrives, PTL DEF Spec, HarnessSpec

\* A signal of a driver reaches only its own browsers, whatever tools, stages
\* of product.py and processes run beside it.
THEOREM GateSignals == Spec => []SignalsStayOwn
  BY GateDrives, DriverSignals, PTL

-----------------------------------------------------------------------------
(* The tools that make the baseline.                                       *)

RepoRecord == [is : {"absent", "empty", "foreign", "init", "origin", "torn", "head"},
               head : Revisions, dirty : BOOLEAN]

\* A binary of the pinned sources, as they are.
Sourced(b, p) ==
    \/ raced = TRUE
    \/ /\ b.from = p /\ b.clean /\ b.args = "baseline"
       /\ b.deps = b.from \/ moved = TRUE

\* While a build runs, what it verified is still so.
Building == tool.job = "build" =>
    /\ tool.at \in {"run", "record"}
    /\ tool.pin \in [Repos -> Pins] /\ tool.deps \in Pins /\ deps = tool.deps
    /\ repo["src"].is = "head"
    /\ \/ raced = TRUE
       \/ /\ repo["src"].head = tool.pin["src"] /\ ~repo["src"].dirty
          /\ out.args = "baseline"
          /\ tool.at = "record" =>
               /\ out.chrome.from = tool.pin["src"]
               /\ out.chrome.deps = deps
               /\ out.chrome.clean /\ out.chrome.args = "baseline"

\* fetch is at a repository that is in the state its step is for.
Fetching == tool.job = "fetch" =>
    /\ tool.pin \in [Repos -> Pins]
    /\ tool.at = "init" => repo[tool.repo].is \in {"empty", "foreign"}
    /\ tool.at = "remote" => repo[tool.repo].is = "init"
    /\ tool.at = "checkout" => repo[tool.repo].is \in {"origin", "torn"}
    /\ tool.at = "python" => tool.repo = "depot"
    /\ tool.at \in {"gclient", "config", "sync"} =>
         /\ repo["src"].is = "head"
         /\ moved = TRUE \/ repo["src"].head = tool.pin["src"]

\* The dependencies are those of the checkout, unless it was moved by hand.
Synced == deps \in Pins =>
    repo["src"].is = "head" /\ (moved = TRUE \/ deps = repo["src"].head)

ReceiptsSourced == \A r \in receipts : Sourced(r.binary, r.pin["src"])

BInv ==
    /\ BaselineTypeOK
    /\ Building
    /\ Fetching
    /\ Synced
    /\ ReceiptsSourced

\* What the proofs use of the types.
Typed ==
    /\ pin \in [Repos -> Pins]
    /\ repo \in [Repos -> RepoRecord]
    /\ out \in [args : Arguments, ninja : BOOLEAN, chrome : Binary]
    /\ receipts \subseteq Receipt
    /\ tool \in Tool
    /\ deps \in Dependencies
    /\ raced \in BOOLEAN /\ moved \in BOOLEAN

LEMMA TypedBaseline == BaselineTypeOK => Typed
  BY DEF BaselineTypeOK, Typed, RepoRecord
LEMMA NoToolType == NoTool \in Tool /\ NoTool.job = "none"
  BY DEF NoTool, Tool, Repos, Revisions, Dependencies
LEMMA SomePins == /\ Pins \subseteq Revisions /\ Revisions \subseteq Dependencies
                  /\ "none" \notin Pins /\ "torn" \notin Pins
  BY BaselineAssumption DEF Revisions, Dependencies

\* A step that only moves the tool on, within its job and repository.
LEMMA GotoType ==
    ASSUME tool \in Tool, NEW at \in {"idle", "dir", "init", "remote", "origin",
               "checkout", "python", "gclient", "config", "sync", "args", "write",
               "run", "record"}, Goto(at)
    PROVE  /\ tool' \in Tool /\ tool'.job = tool.job /\ tool'.repo = tool.repo
           /\ tool'.at = at /\ tool'.pin = tool.pin /\ tool'.deps = tool.deps
  BY DEF Goto, Tool

\* A tool that ends.
LEMMA ToolEnds ==
    ASSUME BInv, tool' = NoTool, UNCHANGED <<repo, deps, raced, moved, receipts>>
    PROVE  Building' /\ Fetching' /\ Synced' /\ ReceiptsSourced'
  BY NoToolType DEF BInv, Building, Fetching, Synced, ReceiptsSourced, Sourced

LEMMA FetchBeginInv == ASSUME BInv, FetchBegin PROVE BInv'
<1>1. Typed
  BY TypedBaseline DEF BInv
<1>2. /\ tool' \in Tool /\ tool'.job = "fetch" /\ tool'.repo = "depot"
      /\ tool'.at = "dir" /\ tool'.pin = pin
  <2>1. pin \in [Repos -> Revisions]
    BY <1>1, SomePins DEF Typed
  <2> QED BY <2>1, NoToolType DEF FetchBegin, NoTool, Tool
<1>3. BaselineTypeOK'
  BY <1>2 DEF FetchBegin, BInv, BaselineTypeOK, checkoutVars
<1>4. Building' /\ Fetching'
  BY <1>1, <1>2 DEF Building, Fetching, FetchBegin, Typed, checkoutVars
<1>5. Synced' /\ ReceiptsSourced'
  BY DEF FetchBegin, checkoutVars, BInv, Synced, ReceiptsSourced, Sourced
<1> QED BY <1>3, <1>4, <1>5 DEF BInv

\* The steps of fetch that change a repository.
LEMMA RepoType ==
    ASSUME Typed, NEW r \in Repos, NEW q \in RepoRecord, repo' = [repo EXCEPT ![r] = q]
    PROVE  /\ repo' \in [Repos -> RepoRecord] /\ repo'[r] = q
           /\ \A s \in Repos \ {r} : repo'[s] = repo[s]
  BY DEF Typed

LEMMA IsType ==
    ASSUME Typed, NEW what \in {"absent", "empty", "foreign", "init", "origin", "torn",
                                     "head"},
           Is(what)
    PROVE  /\ repo' \in [Repos -> RepoRecord] /\ repo'[R].is = what
           /\ repo'[R].head = repo[R].head /\ repo'[R].dirty = repo[R].dirty
           /\ \A s \in Repos \ {R} : repo'[s] = repo[s]
<1> DEFINE q == [repo[R] EXCEPT !.is = what]
<1>1. R \in Repos
  BY DEF Typed, Tool, R
<1>2. q \in RepoRecord /\ q.is = what /\ q.head = repo[R].head /\ q.dirty = repo[R].dirty
  BY <1>1 DEF Typed, RepoRecord
<1>3. repo' = [repo EXCEPT ![R] = q]
  BY <1>1 DEF Is, Typed
<1> HIDE DEF q
<1> QED BY <1>1, <1>2, <1>3, RepoType

LEMMA MakeDirectoryInv == ASSUME BInv, MakeDirectory PROVE BInv'
<1>1. Typed /\ R \in Repos /\ tool.job = "fetch" /\ R = tool.repo
  BY TypedBaseline DEF BInv, Typed, Tool, MakeDirectory, Running, R
<1>2. CASE repo[R].is \in {"absent", "empty"} /\ Is("empty") /\ Goto("init")
  <2>1. /\ repo' \in [Repos -> RepoRecord] /\ repo'[R].is = "empty"
        /\ \A s \in Repos \ {R} : repo'[s] = repo[s]
    BY <1>1, <1>2, IsType
  <2>2. /\ tool' \in Tool /\ tool'.job = "fetch" /\ tool'.repo = R
        /\ tool'.at = "init" /\ tool'.pin = tool.pin
    BY <1>1, <1>2, GotoType DEF Typed
  <2>3. BaselineTypeOK'
    BY <2>1, <2>2 DEF MakeDirectory, BInv, BaselineTypeOK, RepoRecord
  <2>4. Building' /\ Fetching'
    BY <1>1, <2>1, <2>2 DEF Building, Fetching, BInv
  <2>5. Synced' /\ ReceiptsSourced'
    BY <1>1, <1>2, <2>1 DEF MakeDirectory, BInv, Synced, ReceiptsSourced, Sourced, Repos
  <2> QED BY <2>3, <2>4, <2>5 DEF BInv
<1>3. CASE UNCHANGED repo /\ Goto("origin")
  <2>2. /\ tool' \in Tool /\ tool'.job = "fetch" /\ tool'.repo = R
        /\ tool'.at = "origin" /\ tool'.pin = tool.pin
    BY <1>1, <1>3, GotoType DEF Typed
  <2>3. BaselineTypeOK'
    BY <1>3, <2>2 DEF MakeDirectory, BInv, BaselineTypeOK
  <2>4. Building' /\ Fetching'
    BY <1>1, <2>2 DEF Building, Fetching, BInv
  <2>5. Synced' /\ ReceiptsSourced'
    BY <1>3 DEF MakeDirectory, BInv, Synced, ReceiptsSourced, Sourced
  <2> QED BY <2>3, <2>4, <2>5 DEF BInv
<1> QED BY <1>2, <1>3 DEF MakeDirectory

\* The steps that create a repository, until it has its remote.
LEMMA GitInv == ASSUME BInv, GitInit \/ AddRemote PROVE BInv'
<1>1. /\ Typed /\ R \in Repos /\ tool.job = "fetch" /\ R = tool.repo
      /\ repo[R].is \in {"empty", "foreign", "init"}
      /\ UNCHANGED <<pin, python, gclient, deps, hooked, out, receipts, acts, raced, moved>>
  BY TypedBaseline DEF BInv, Typed, Tool, GitInit, AddRemote, Running, R, Fetching
<1>2. PICK what \in {"init", "origin"}, at \in {"remote", "origin"} :
         Is(what) /\ Goto(at) /\ (at = "remote" => what = "init")
  BY DEF GitInit, AddRemote
<1>3. /\ repo' \in [Repos -> RepoRecord] /\ repo'[R].is = what
      /\ \A s \in Repos \ {R} : repo'[s] = repo[s]
  BY <1>1, <1>2, IsType
<1>4. /\ tool' \in Tool /\ tool'.job = "fetch" /\ tool'.repo = R
      /\ tool'.at = at /\ tool'.pin = tool.pin
  BY <1>1, <1>2, GotoType DEF Typed
<1>5. BaselineTypeOK'
  BY <1>1, <1>3, <1>4 DEF BInv, BaselineTypeOK, RepoRecord
<1>6. Building' /\ Fetching'
  BY <1>1, <1>2, <1>3, <1>4 DEF Building, Fetching, BInv
<1>7. Synced' /\ ReceiptsSourced'
  BY <1>1, <1>3 DEF BInv, Synced, ReceiptsSourced, Sourced, Repos
<1> QED BY <1>5, <1>6, <1>7 DEF BInv

\* The next repository, or what comes after the last.
LEMMA NextRepoType ==
    ASSUME Typed, NextRepo
    PROVE  /\ tool' \in Tool /\ tool'.job = tool.job /\ tool'.repo = tool.repo
           /\ tool'.pin = tool.pin
           /\ \/ tool'.at = "python" /\ tool.repo = "depot"
              \/ tool'.at = "gclient" /\ tool.repo = "src"
  BY DEF Typed, NextRepo, Tool, Repos, R

LEMMA CheckOriginInv == ASSUME BInv, CheckOrigin PROVE BInv'
<1>1. /\ Typed /\ tool.job = "fetch" /\ R = tool.repo
      /\ UNCHANGED <<pin, repo, python, gclient, deps, hooked, out, receipts, acts,
                     raced, moved>>
  BY TypedBaseline DEF BInv, CheckOrigin, Running, R, checkoutVars
<1>2. /\ tool' \in Tool /\ tool'.job = "fetch" /\ tool'.repo = R /\ tool'.pin = tool.pin
      /\ \/ tool'.at = "checkout" /\ repo[R].is \in {"origin", "torn"}
         \/ tool'.at = "python" /\ R = "depot"
         \/ /\ tool'.at = "gclient" /\ R = "src"
            /\ repo[R].is = "head" /\ repo[R].head = tool.pin[R]
  <2>1. CASE repo[R].is \in {"origin", "torn"} /\ Goto("checkout")
    BY <1>1, <2>1, GotoType DEF Typed
  <2>2. CASE repo[R].is = "head" /\ repo[R].head = tool.pin[R] /\ NextRepo
    BY <1>1, <2>2, NextRepoType
  <2> QED BY <2>1, <2>2 DEF CheckOrigin
<1>3. BaselineTypeOK'
  BY <1>1, <1>2 DEF BInv, BaselineTypeOK
<1>4. Building' /\ Fetching'
  BY <1>1, <1>2 DEF Building, Fetching, BInv
<1>5. Synced' /\ ReceiptsSourced'
  BY <1>1 DEF BInv, Synced, ReceiptsSourced, Sourced
<1> QED BY <1>3, <1>4, <1>5 DEF BInv

\* A repository that is checked out had no checkout, so no dependencies.
LEMMA CheckoutInv == ASSUME BInv, Checkout PROVE BInv'
<1>1. /\ Typed /\ R \in Repos /\ tool.job = "fetch" /\ R = tool.repo
      /\ tool.pin \in [Repos -> Pins] /\ repo[R].is \in {"origin", "torn"}
      /\ UNCHANGED <<pin, python, gclient, deps, hooked, out, receipts, acts, raced, moved>>
  BY TypedBaseline DEF BInv, Typed, Tool, Checkout, Running, R, Fetching
<1>2. ASSUME NEW served \in Pins, served = tool.pin[R], NextRepo,
             repo' = [repo EXCEPT ![R] = [is |-> "head", head |-> served, dirty |-> FALSE]]
      PROVE  BInv'
  <2>1. [is |-> "head", head |-> served, dirty |-> FALSE] \in RepoRecord
    BY SomePins DEF RepoRecord
  <2>2. /\ repo' \in [Repos -> RepoRecord]
        /\ repo'[R].is = "head" /\ repo'[R].head = tool.pin[R]
        /\ \A s \in Repos \ {R} : repo'[s] = repo[s]
    BY <1>1, <1>2, <2>1, RepoType
  <2>3. /\ tool' \in Tool /\ tool'.job = "fetch" /\ tool'.repo = R /\ tool'.pin = tool.pin
        /\ \/ tool'.at = "python" /\ R = "depot"
           \/ tool'.at = "gclient" /\ R = "src"
    BY <1>1, <1>2, NextRepoType
  <2>4. BaselineTypeOK'
    BY <1>1, <2>2, <2>3 DEF BInv, BaselineTypeOK, RepoRecord
  <2>5. Building' /\ Fetching'
    BY <1>1, <2>2, <2>3 DEF Building, Fetching, BInv
  <2>6. Synced' /\ ReceiptsSourced'
    BY <1>1, <2>2 DEF BInv, Synced, ReceiptsSourced, Sourced, Repos
  <2> QED BY <2>4, <2>5, <2>6 DEF BInv
<1>3. CASE Is("torn") /\ tool' = NoTool
  <2>1. /\ repo' \in [Repos -> RepoRecord] /\ repo'[R].is = "torn"
        /\ \A s \in Repos \ {R} : repo'[s] = repo[s]
    BY <1>1, <1>3, IsType
  <2>2. BaselineTypeOK'
    BY <1>1, <1>3, <2>1, NoToolType DEF BInv, BaselineTypeOK, RepoRecord
  <2>3. Building' /\ Fetching'
    BY <1>3, NoToolType DEF Building, Fetching
  <2>4. Synced' /\ ReceiptsSourced'
    BY <1>1, <2>1 DEF BInv, Synced, ReceiptsSourced, Sourced, Repos
  <2> QED BY <2>2, <2>3, <2>4 DEF BInv
<1> QED BY <1>2, <1>3 DEF Checkout, Accepts

LEMMA BootstrapPythonInv == ASSUME BInv, BootstrapPython PROVE BInv'
<1>1. /\ Typed /\ tool.job = "fetch"
      /\ UNCHANGED <<pin, repo, gclient, deps, hooked, out, receipts, acts, raced, moved>>
      /\ python' = TRUE
  BY TypedBaseline DEF BInv, BootstrapPython, Running
<1>2. /\ tool' \in Tool /\ tool'.job = "fetch" /\ tool'.repo = "src"
      /\ tool'.at = "dir" /\ tool'.pin = tool.pin
  BY <1>1 DEF BootstrapPython, Typed, Tool, Repos
<1>3. BaselineTypeOK'
  BY <1>1, <1>2 DEF BInv, BaselineTypeOK
<1>4. Building' /\ Fetching'
  BY <1>1, <1>2 DEF Building, Fetching, BInv
<1>5. Synced' /\ ReceiptsSourced'
  BY <1>1 DEF BInv, Synced, ReceiptsSourced, Sourced
<1> QED BY <1>3, <1>4, <1>5 DEF BInv

LEMMA ConfigInv == ASSUME BInv, OpenConfig \/ WriteConfig PROVE BInv'
<1>1. /\ Typed /\ tool.job = "fetch" /\ tool.at \in {"gclient", "config"}
      /\ UNCHANGED <<pin, repo, python, deps, hooked, out, receipts, acts, raced, moved>>
      /\ gclient' \in {"absent", "partial", "ours", "other"}
  BY TypedBaseline DEF BInv, OpenConfig, WriteConfig, Running
<1>2. /\ tool' \in Tool /\ tool'.job = "fetch" /\ tool'.at \in {"sync", "config"}
      /\ tool'.pin = tool.pin
  BY <1>1, GotoType DEF OpenConfig, WriteConfig, Typed
<1>3. BaselineTypeOK'
  BY <1>1, <1>2 DEF BInv, BaselineTypeOK
<1>4. Building' /\ Fetching'
  BY <1>1, <1>2 DEF Building, Fetching, BInv
<1>5. Synced' /\ ReceiptsSourced'
  BY <1>1 DEF BInv, Synced, ReceiptsSourced, Sourced
<1> QED BY <1>3, <1>4, <1>5 DEF BInv

LEMMA SyncInv == ASSUME BInv, Sync PROVE BInv'
<1>1. /\ Typed /\ tool' = NoTool /\ deps' \in {tool.pin["src"], "torn"}
      /\ tool.pin["src"] \in Pins
      /\ repo["src"].is = "head" /\ (moved = TRUE \/ repo["src"].head = tool.pin["src"])
      /\ UNCHANGED <<pin, repo, python, gclient, hooked, out, receipts, acts, raced, moved>>
  BY TypedBaseline DEF BInv, Sync, Running, Fetching, Repos
<1>2. BaselineTypeOK'
  BY <1>1, NoToolType, SomePins DEF BInv, BaselineTypeOK, Dependencies
<1>3. Building' /\ Fetching'
  BY <1>1, NoToolType DEF Building, Fetching
<1>4. Synced' /\ ReceiptsSourced'
  BY <1>1, SomePins DEF BInv, Synced, ReceiptsSourced, Sourced
<1> QED BY <1>2, <1>3, <1>4 DEF BInv

-----------------------------------------------------------------------------
(* upstream.py                                                             *)

LEMMA StageBeginInv ==
    ASSUME BInv, NEW job \in {"hooks", "gen", "build"}, StageBegin(job) PROVE BInv'
<1>1. /\ Typed /\ deps \in Pins
      /\ repo["src"].is = "head" /\ repo["src"].head = pin["src"] /\ ~repo["src"].dirty
      /\ job = "build" => out.args = "baseline"
      /\ UNCHANGED <<pin, repo, python, gclient, deps, hooked, out, receipts, acts,
                     raced, moved>>
  BY TypedBaseline DEF BInv, StageBegin, Verified, DependenciesMatch, Unmodified, Ready, Repos, checkoutVars
<1>2. pin \in [Repos -> Revisions] /\ pin \in [Repos -> Pins] /\ deps \in Dependencies
  BY <1>1, SomePins DEF Typed
<1>3. /\ tool' \in Tool /\ tool'.job = job /\ tool'.pin = pin /\ tool'.deps = deps
      /\ job # "gen" => tool'.at = "run"
  BY <1>2, NoToolType DEF StageBegin, NoTool, Tool
<1>4. BaselineTypeOK'
  BY <1>1, <1>3 DEF BInv, BaselineTypeOK
<1>5. Building' /\ Fetching'
  BY <1>1, <1>2, <1>3 DEF Building, Fetching
<1>6. Synced' /\ ReceiptsSourced'
  BY <1>1 DEF BInv, Synced, ReceiptsSourced, Sourced
<1> QED BY <1>4, <1>5, <1>6 DEF BInv

\* Hooks and build files are no part of the sources.
LEMMA GenerateInv ==
    ASSUME BInv, RunHooks \/ OpenArguments \/ WriteArguments \/ Generate PROVE BInv'
<1>1. /\ Typed /\ tool.job \in {"hooks", "gen"}
      /\ UNCHANGED <<pin, repo, python, gclient, deps, receipts, acts, raced, moved>>
      /\ hooked' \in BOOLEAN
  BY TypedBaseline DEF BInv, RunHooks, OpenArguments, WriteArguments, Generate, Running,
                       checkoutVars, BaselineTypeOK
<1>2. tool' \in Tool /\ tool'.job \in {"hooks", "gen", "none"}
  BY <1>1, GotoType, NoToolType
  DEF RunHooks, OpenArguments, WriteArguments, Generate, Typed
<1>3. out' \in [args : Arguments, ninja : BOOLEAN, chrome : Binary]
  BY <1>1 DEF RunHooks, OpenArguments, WriteArguments, Generate, Typed, Arguments
<1>4. BaselineTypeOK'
  BY <1>1, <1>2, <1>3 DEF BInv, BaselineTypeOK
<1>5. Building' /\ Fetching'
  BY <1>2 DEF Building, Fetching
<1>6. Synced' /\ ReceiptsSourced'
  BY <1>1 DEF BInv, Synced, ReceiptsSourced, Sourced
<1> QED BY <1>4, <1>5, <1>6 DEF BInv

LEMMA CompileInv == ASSUME BInv, Compile PROVE BInv'
<1>1. /\ Typed /\ tool.job = "build"
      /\ UNCHANGED <<pin, repo, python, gclient, deps, hooked, receipts, acts, raced, moved>>
  BY TypedBaseline DEF BInv, Compile, Running, checkoutVars
<1>2. /\ tool' \in Tool /\ tool'.job = "build" /\ tool'.at = "record"
      /\ tool'.pin = tool.pin /\ tool'.deps = tool.deps
  BY <1>1, GotoType DEF Compile, Typed
<1>3. PICK clean \in BOOLEAN :
        /\ raced = TRUE \/ clean = ~repo["src"].dirty
        /\ out' = [out EXCEPT !.chrome = [from |-> repo["src"].head, deps |-> deps,
                                          clean |-> clean, args |-> out.args]]
  BY <1>1 DEF Compile, Typed, Repos, RepoRecord
<1>4. /\ out' \in [args : Arguments, ninja : BOOLEAN, chrome : Binary]
      /\ out'.args = out.args
      /\ out'.chrome = [from |-> repo["src"].head, deps |-> deps, clean |-> clean,
                        args |-> out.args]
  <2>1. [from |-> repo["src"].head, deps |-> deps, clean |-> clean, args |-> out.args]
           \in Binary
    BY <1>1 DEF Typed, Binary, Repos, RepoRecord
  <2> QED BY <1>1, <1>3, <2>1 DEF Typed
<1>5. BaselineTypeOK'
  BY <1>1, <1>2, <1>4 DEF BInv, BaselineTypeOK
<1>6. Building' /\ Fetching'
  BY <1>1, <1>2, <1>3, <1>4 DEF BInv, Building, Fetching
<1>7. Synced' /\ ReceiptsSourced'
  BY <1>1 DEF BInv, Synced, ReceiptsSourced, Sourced
<1> QED BY <1>5, <1>6, <1>7 DEF BInv

\* A receipt names the pins that were verified before the build, and the
\* binary is still of them.
LEMMA RecordInv == ASSUME BInv, Record PROVE BInv'
<1>1. /\ Typed /\ tool.job = "build" /\ tool.at = "record" /\ tool' = NoTool
      /\ UNCHANGED <<pin, repo, python, gclient, deps, hooked, out, acts, raced, moved>>
  BY TypedBaseline DEF BInv, Record, Running, checkoutVars
<1> DEFINE r == [pin |-> tool.pin, deps |-> tool.deps, args |-> out.args,
                 binary |-> out.chrome]
<1>2. r \in Receipt
  BY <1>1 DEF BInv, Building, Typed, Receipt
<1>3. receipts' = receipts \cup {r}
  BY DEF Record
<1>4. Sourced(r.binary, r.pin["src"])
  BY <1>1 DEF BInv, Building, Synced, Sourced
<1> HIDE DEF r
<1>5. BaselineTypeOK'
  BY <1>1, <1>2, <1>3, NoToolType DEF BInv, BaselineTypeOK
<1>6. Building' /\ Fetching'
  BY <1>1, NoToolType DEF Building, Fetching
<1>7. Synced' /\ ReceiptsSourced'
  BY <1>1, <1>3, <1>4 DEF BInv, Synced, ReceiptsSourced, Sourced
<1> QED BY <1>5, <1>6, <1>7 DEF BInv

LEMMA StopInv == ASSUME BInv, Stop PROVE BInv'
<1>1. BaselineTypeOK'
  BY NoToolType DEF Stop, BInv, BaselineTypeOK, checkoutVars
<1>2. tool' = NoTool /\ UNCHANGED <<repo, deps, raced, moved, receipts>>
  BY DEF Stop, checkoutVars
<1> QED BY <1>1, <1>2, ToolEnds DEF BInv

-----------------------------------------------------------------------------
(* The developer and product.py beside the tools.                          *)

\* An edit of the sources or arguments while a build runs is noted.
LEMMA Edits ==
    ASSUME BInv, BaselineTypeOK', UNCHANGED <<deps, receipts, tool>>,
           repo'["src"].is = repo["src"].is,
           \A r \in Repos : repo[r].is # "absent" /\ repo[r].is # "empty"
                            => repo'[r].is = repo[r].is,
           \A r \in Repos : repo[r].is = "empty" => repo'[r].is \in {"empty", "foreign"},
           moved = TRUE => moved' = TRUE, raced = TRUE => raced' = TRUE,
           \/ repo'["src"].head = repo["src"].head
           \/ moved' = TRUE,
           \/ raced' = TRUE \/ tool.job # "build"
           \/ UNCHANGED <<repo, out>>
    PROVE  BInv'
<1>1. tool \in Tool
  BY DEF BInv, BaselineTypeOK
<1>2. Building'
  BY DEF BInv, Building
<1>3. Fetching'
  BY <1>1 DEF BInv, Fetching, Tool
<1>4. Synced' /\ ReceiptsSourced'
  BY DEF BInv, Synced, ReceiptsSourced, Sourced
<1> QED BY <1>2, <1>3, <1>4 DEF BInv

LEMMA DeveloperInv == ASSUME BInv, Developer PROVE BInv'
<1>1. /\ Typed /\ raced \in BOOLEAN /\ moved \in BOOLEAN /\ Repos = {"depot", "src"}
      /\ Act /\ UNCHANGED <<python, deps, hooked, receipts, tool>>
      /\ acts' \in 0..MaxActs
  <2>1. Act /\ UNCHANGED <<python, deps, hooked, receipts, tool>>
    BY DEF Developer, EditSource, ChangePin, MoveHead, Clutter, EditArguments, EditConfig,
           checkoutVars
  <2>2. acts' \in 0..MaxActs
    BY <2>1, BaselineAssumption DEF Act, BInv, BaselineTypeOK
  <2> QED BY <2>1, <2>2, TypedBaseline DEF BInv, Typed, Repos
<1>2. ASSUME NEW r \in Repos, EditSource(r) PROVE BInv'
  <2> DEFINE q == [repo[r] EXCEPT !.dirty = ~@]
  <2>1. q \in RepoRecord /\ q.is = repo[r].is /\ q.head = repo[r].head
    BY <1>1 DEF Typed, RepoRecord
  <2>2. repo' = [repo EXCEPT ![r] = q]
    BY <1>1, <1>2 DEF EditSource, Typed
  <2> HIDE DEF q
  <2>3. /\ repo' \in [Repos -> RepoRecord]
        /\ \A s \in Repos : repo'[s].is = repo[s].is /\ repo'[s].head = repo[s].head
    BY <1>1, <2>1, <2>2, RepoType
  <2>4. /\ raced' \in BOOLEAN /\ (raced = TRUE => raced' = TRUE)
        /\ (tool.job = "build" => raced' = TRUE)
    BY <1>1, <1>2 DEF EditSource, NotesRace
  <2>5. BaselineTypeOK'
    BY <1>1, <1>2, <2>3, <2>4 DEF EditSource, BInv, BaselineTypeOK, RepoRecord
  <2> QED BY <1>1, <1>2, <2>3, <2>4, <2>5, Edits DEF EditSource, Repos
<1>3. ASSUME NEW r \in Repos, ChangePin(r) PROVE BInv'
  <2>1. pin' \in [Repos -> Pins]
    BY <1>1, <1>3 DEF ChangePin, Typed
  <2>2. BaselineTypeOK'
    BY <1>1, <1>3, <2>1 DEF ChangePin, BInv, BaselineTypeOK
  <2> QED BY <1>1, <1>3, <2>2, Edits DEF ChangePin
<1>4. CASE MoveHead
  <2>1. PICK p \in Pins : /\ repo' = [repo EXCEPT !["src"].head = p]
                          /\ pin' = [pin EXCEPT !["src"] = p]
    BY <1>4 DEF MoveHead
  <2> DEFINE q == [repo["src"] EXCEPT !.head = p]
  <2>2. q \in RepoRecord /\ q.is = repo["src"].is
    BY <1>1, SomePins DEF Typed, RepoRecord
  <2>3. repo' = [repo EXCEPT !["src"] = q]
    BY <1>1, <2>1 DEF Typed
  <2> HIDE DEF q
  <2>4. /\ repo' \in [Repos -> RepoRecord]
        /\ \A s \in Repos : repo'[s].is = repo[s].is
    BY <1>1, <2>2, <2>3, RepoType
  <2>5. /\ raced' \in BOOLEAN /\ (raced = TRUE => raced' = TRUE)
        /\ (tool.job = "build" => raced' = TRUE) /\ moved' = TRUE /\ moved' \in BOOLEAN
        /\ pin' \in [Repos -> Pins]
    BY <1>1, <1>4, <2>1 DEF MoveHead, NotesRace, Typed
  <2>6. BaselineTypeOK'
    BY <1>1, <1>4, <2>4, <2>5 DEF MoveHead, BInv, BaselineTypeOK, RepoRecord
  <2> QED BY <1>1, <1>4, <2>4, <2>5, <2>6, Edits DEF MoveHead, Repos
<1>5. ASSUME NEW r \in Repos, Clutter(r) PROVE BInv'
  <2> DEFINE q == [repo[r] EXCEPT !.is = "foreign"]
  <2>1. q \in RepoRecord /\ q.is = "foreign" /\ q.head = repo[r].head
    BY <1>1 DEF Typed, RepoRecord
  <2>2. repo' = [repo EXCEPT ![r] = q] /\ repo[r].is \in {"absent", "empty"}
        /\ UNCHANGED <<raced, moved, out>>
    BY <1>1, <1>5 DEF Clutter, Typed
  <2> HIDE DEF q
  <2>3. /\ repo' \in [Repos -> RepoRecord]
        /\ \A s \in Repos \ {r} : repo'[s] = repo[s]
        /\ repo'[r].is = "foreign" /\ repo'[r].head = repo[r].head
    BY <1>1, <2>1, <2>2, RepoType
  <2>4. BaselineTypeOK'
    BY <1>1, <1>5, <2>3 DEF Clutter, BInv, BaselineTypeOK, RepoRecord
  <2>5. Building'
    BY <1>1, <2>2, <2>3 DEF BInv, Building
  <2>6. Fetching'
    <3>1. tool \in Tool
      BY <1>1 DEF Typed
    <3> QED BY <1>1, <3>1, <2>2, <2>3 DEF BInv, Fetching, Tool
  <2>7. Synced' /\ ReceiptsSourced'
    BY <1>1, <2>2, <2>3 DEF BInv, Synced, ReceiptsSourced, Sourced
  <2> QED BY <2>4, <2>5, <2>6, <2>7 DEF BInv
<1>6. CASE EditArguments
  <2>1. /\ out' \in [args : Arguments, ninja : BOOLEAN, chrome : Binary]
        /\ UNCHANGED checkoutVars /\ UNCHANGED moved
    BY <1>1, <1>6 DEF EditArguments, Typed, Arguments
  <2>2. /\ raced' \in BOOLEAN /\ (raced = TRUE => raced' = TRUE)
        /\ (tool.job = "build" => raced' = TRUE)
    BY <1>1, <1>6 DEF EditArguments, NotesRace
  <2>3. BaselineTypeOK'
    BY <1>1, <2>1, <2>2 DEF BInv, BaselineTypeOK, checkoutVars
  <2> QED BY <1>1, <2>1, <2>2, <2>3, Edits DEF checkoutVars
<1>7. CASE EditConfig
  <2>1. BaselineTypeOK'
    BY <1>1, <1>7 DEF EditConfig, BInv, BaselineTypeOK
  <2> QED BY <1>1, <1>7, <2>1, Edits DEF EditConfig
<1> QED BY <1>2, <1>3, <1>4, <1>5, <1>6, <1>7 DEF Developer

\* prepare and build of the product change the checkout and the arguments.
LEMMA ProductInv == ASSUME BInv, Integrate \/ BuildProduct PROVE BInv'
<1>1. Typed /\ Repos = {"depot", "src"}
  BY TypedBaseline DEF BInv, Repos
<1>2. /\ raced' \in BOOLEAN /\ (raced = TRUE => raced' = TRUE)
      /\ (tool.job = "build" => raced' = TRUE)
  BY <1>1 DEF Integrate, BuildProduct, Typed
<1>3. CASE Integrate
  <2> DEFINE q == [repo["src"] EXCEPT !.dirty = TRUE]
  <2>1. q \in RepoRecord /\ q.is = repo["src"].is /\ q.head = repo["src"].head
    BY <1>1 DEF Typed, RepoRecord
  <2>2. repo' = [repo EXCEPT !["src"] = q]
    BY <1>1, <1>3 DEF Integrate, Typed
  <2> HIDE DEF q
  <2>3. /\ repo' \in [Repos -> RepoRecord]
        /\ \A s \in Repos : repo'[s].is = repo[s].is /\ repo'[s].head = repo[s].head
    BY <1>1, <2>1, <2>2, RepoType
  <2>4. BaselineTypeOK'
    BY <1>2, <1>3, <2>3 DEF Integrate, BInv, BaselineTypeOK, RepoRecord
  <2> QED BY <1>1, <1>2, <1>3, <2>3, <2>4, Edits DEF Integrate
<1>4. CASE BuildProduct
  <2>1. out' \in [args : Arguments, ninja : BOOLEAN, chrome : Binary]
    BY <1>1, <1>4 DEF BuildProduct, Typed, Arguments
  <2>2. BaselineTypeOK'
    BY <1>2, <1>4, <2>1 DEF BuildProduct, BInv, BaselineTypeOK, checkoutVars
  <2> QED BY <1>1, <1>2, <1>4, <2>2, Edits DEF BuildProduct, checkoutVars
<1> QED BY <1>3, <1>4

LEMMA BUnchanged == ASSUME BInv, UNCHANGED baselineVars PROVE BInv'
  BY DEF baselineVars, BInv, BaselineTypeOK, Building, Fetching, Synced, ReceiptsSourced,
         Sourced

\* Every step of the composition keeps what is known of the baseline.
LEMMA BaselineStep == ASSUME BInv, [Next]_vars PROVE BInv'
<1>1. CASE \/ SmokeCheck \/ SmokeBegin \/ SmokeRefuses \/ ProductBegin
           \/ Driver \/ DieRun \/ Processes \/ UNCHANGED vars
  <2>1. UNCHANGED baselineVars
    BY <1>1 DEF SmokeCheck, SmokeBegin, SmokeRefuses, ProductBegin, Driver, LaunchBrowser,
                Drive, EndRun, DieRun, Processes, vars
  <2> QED BY <2>1, BUnchanged
<1>2. CASE ProductStages
  <2>1. CASE Integrate \/ BuildProduct
    BY <2>1, ProductInv
  <2>2. CASE UNCHANGED baselineVars
    BY <2>2, BUnchanged
  <2> QED BY <1>2, <2>1, <2>2 DEF ProductStages, StageScan, Identity, AcceptGate, StageStops
<1>3. CASE CompileBaseline
  BY <1>3, CompileInv DEF CompileBaseline
<1>4. CASE Tools
  BY <1>4, FetchBeginInv, MakeDirectoryInv, GitInv, CheckOriginInv, CheckoutInv,
     BootstrapPythonInv, ConfigInv, SyncInv, StageBeginInv, GenerateInv, RecordInv,
     StopInv, DeveloperInv
  DEF Tools, Fetch
<1> QED BY <1>1, <1>2, <1>3, <1>4 DEF Next

-----------------------------------------------------------------------------
(* The gate.                                                               *)

\* The smoke test is of the binary it hashed, unless a build replaced it
\* before the launch.
Smoked ==
    /\ smoke \in [at : {"idle", "checked", "started"}, receipt : SUBSET Receipt,
                  swapped : BOOLEAN, ran : Binary]
    /\ smoke.at = "checked" => run.phase = "idle"
    /\ smoke.at = "started" => run.kind = "upstream"
    /\ smoke.receipt # {} => smoke.at # "idle"
    /\ \A r \in smoke.receipt :
         \/ smoke.swapped = TRUE
         \/ /\ out.chrome = r.binary
            /\ smoke.at = "started" /\ run.pid[1] # NoPid => smoke.ran = r.binary

\* Evidence of a browser that ended well is of the binary it names.
Evident == \A e \in evidence :
    e.verdict = "passed" /\ e.code = "ok" => e.swapped = TRUE \/ e.ran = e.binary

\* A binary that may be accepted for a pin.
Gated(g, p) ==
    /\ \E e \in evidence : /\ e.verdict = "passed" /\ ~e.forced /\ e.binary = g
                           /\ e.ran = g \/ e.swapped = TRUE
    /\ Sourced(g, p)

Staged ==
    /\ stage \in [job : {"none", "prepare", "build"},
                  at : {"idle", "identity", "gate", "write", "compile"},
                  pin : [Repos -> Revisions], gate : Binary]
    /\ stage.at = "gate" /\ Integrated => stage.pin["src"] = integration.pin["src"]
    /\ stage.at = "write" => Gated(stage.gate, stage.pin["src"])

Accepting ==
    /\ integration \in [pin : [Repos -> Revisions], gate : Binary]
    /\ Integrated => Gated(integration.gate, integration.pin["src"])

GInv == Smoked /\ Evident /\ Staged /\ Accepting

LEMMA BinaryType == NoBinary \in Binary
  BY SomePins DEF NoBinary, Binary, Revisions, Dependencies, Arguments
LEMMA NoSmokeType ==
    /\ NoSmoke \in [at : {"idle", "checked", "started"}, receipt : SUBSET Receipt,
                    swapped : BOOLEAN, ran : Binary]
    /\ NoSmoke.at = "idle" /\ NoSmoke.receipt = {} /\ NoSmoke.swapped = FALSE
  BY BinaryType DEF NoSmoke
LEMMA NoStageType ==
    /\ NoStage \in [job : {"none", "prepare", "build"},
                    at : {"idle", "identity", "gate", "write", "compile"},
                    pin : [Repos -> Revisions], gate : Binary]
    /\ NoStage.at = "idle"
  BY BinaryType DEF NoStage, Revisions

\* What was noted stays noted, and only a build replaces the binary.
LEMMA Noted ==
    ASSUME BInv, [Next]_vars
    PROVE  /\ raced = TRUE => raced' = TRUE
           /\ moved = TRUE => moved' = TRUE
           /\ out'.chrome = out.chrome \/ CompileBaseline
<1>1. Typed
  BY TypedBaseline DEF BInv
<1>2. CASE \/ SmokeCheck \/ SmokeBegin \/ SmokeRefuses \/ ProductBegin
           \/ Driver \/ DieRun \/ Processes \/ UNCHANGED vars
  BY <1>2 DEF SmokeCheck, SmokeBegin, SmokeRefuses, ProductBegin, Driver, LaunchBrowser,
              Drive, EndRun, DieRun, Processes, vars, baselineVars
<1>3. CASE ProductStages
  BY <1>1, <1>3 DEF ProductStages, StageScan, Identity, AcceptGate, Integrate, BuildProduct,
              StageStops, baselineVars, checkoutVars, Typed
<1>4. CASE CompileBaseline
  BY <1>4 DEF CompileBaseline, Compile
<1>5. CASE Tools
  <2>1. CASE Fetch
    BY <2>1 DEF Fetch, FetchBegin, MakeDirectory, GitInit, AddRemote, CheckOrigin,
                Checkout, BootstrapPython, OpenConfig, WriteConfig, Sync
  <2>2. CASE \/ \E job \in {"hooks", "gen", "build"} : StageBegin(job)
             \/ RunHooks \/ OpenArguments \/ WriteArguments \/ Generate \/ Record \/ Stop
    BY <1>1, <2>2 DEF StageBegin, RunHooks, OpenArguments, WriteArguments, Generate, Record,
                      Stop, Typed
  <2>3. CASE Developer
    BY <1>1, <2>3 DEF Developer, EditSource, ChangePin, MoveHead, Clutter, EditArguments,
                      EditConfig, NotesRace, Typed
  <2> QED BY <1>5, <2>1, <2>2, <2>3 DEF Tools
<1> QED BY <1>2, <1>3, <1>4, <1>5 DEF Next

\* More evidence and more notes take nothing back.
LEMMA GatedStays ==
    ASSUME evidence \subseteq evidence', raced = TRUE => raced' = TRUE,
           moved = TRUE => moved' = TRUE
    PROVE  \A g, p : Gated(g, p) => Gated(g, p)'
  BY DEF Gated, Sourced

\* Evidence is only added.
LEMMA EvidenceStays == [Next]_vars => evidence \subseteq evidence'
<1> SUFFICES ASSUME [Next]_vars PROVE evidence \subseteq evidence'
  OBVIOUS
<1>1. CASE SmokeCheck \/ SmokeBegin \/ SmokeRefuses \/ ProductBegin \/ UNCHANGED vars
  BY <1>1 DEF SmokeCheck, SmokeBegin, SmokeRefuses, ProductBegin, vars, gateVars
<1>2. CASE Driver \/ DieRun \/ Processes
  BY <1>2 DEF Driver, LaunchBrowser, Drive, EndRun, DieRun, Processes, gateVars
<1>3. CASE ProductStages
  BY <1>3 DEF ProductStages, StageScan, Identity, AcceptGate, Integrate, BuildProduct,
              StageStops
<1>4. CASE CompileBaseline \/ Tools
  BY <1>4 DEF CompileBaseline, Tools, Others
<1> QED BY <1>1, <1>2, <1>3, <1>4 DEF Next

\* The driver's steps keep what it launched and what it is.
LEMMA DriveKeeps ==
    ASSUME HarnessTypeOK, Drive
    PROVE  /\ run'.pid = run.pid /\ run'.kind = run.kind /\ run.phase # "idle"
<1>1. run \in RunType
  BY DEF HarnessTypeOK
<1>2. CASE Show \/ PeekRunning \/ EndSession \/ CaseTimesOut \/ Conclude
  BY <1>1, <1>2 DEF Show, PeekRunning, EndSession, CaseTimesOut, Conclude, Advanced,
                    AfterError, Enter, At, RunType
<1>3. CASE Raise
  BY <1>1, <1>3 DEF Raise, AfterError, NextCase, RunType
<1>4. CASE Finish
  <2>1. run.phase # "idle"
    BY <1>4 DEF Finish, Waiting, At
  <2>2. NextCase.pid = run.pid /\ NextCase.kind = run.kind
    BY <1>1 DEF NextCase, RunType
  <2>3. Advanced.pid = run.pid /\ Advanced.kind = run.kind
    BY <1>1 DEF Advanced, RunType
  <2>4. AfterError.pid = run.pid /\ AfterError.kind = run.kind
    BY <1>1 DEF AfterError, RunType
  <2>5. CASE run.kind = "startup"
    <3>1. PICK v \in {run.verdict, "failed"} :
            run' = [[NextCase EXCEPT !.verdict = v] EXCEPT !.code[Here] = proc[Pid(Here)].code]
      BY <1>4, <2>5 DEF Finish
    <3> QED BY <3>1, <2>1, <2>2 DEF NextCase
  <2>6. CASE run.kind # "startup"
    <3>1. PICK next \in {Advanced, AfterError} :
            run' = [next EXCEPT !.code[Here] = proc[Pid(Here)].code]
      BY <1>4, <2>6 DEF Finish
    <3>2. CASE next = Advanced
      BY <3>1, <3>2, <2>1, <2>3 DEF Advanced
    <3>3. CASE next = AfterError
      BY <3>1, <3>3, <2>1, <2>4 DEF AfterError
    <3> QED BY <3>2, <3>3
  <2> QED BY <2>5, <2>6
<1>5. CASE NextOwned \/ Peek \/ Terminate \/ SeeExit \/ Overdue \/ KillRest
  BY <1>1, <1>5 DEF NextOwned, Peek, Terminate, SeeExit, Overdue, KillRest, Enter, RunType
<1>6. ASSUME NEW record
      PROVE  AfterGroup(record).pid = run.pid /\ AfterGroup(record).kind = run.kind
  BY <1>1 DEF AfterGroup, NextCase, RunType
<1>7. CASE GiveUp
  BY <1>6, <1>7 DEF GiveUp
<1>8. CASE ReapGroup
  <2>1. run' = [AfterGroup("yes") EXCEPT !.code[Cur] = proc[Pid(Cur)].code]
    BY <1>8 DEF ReapGroup
  <2>2. /\ AfterGroup("yes").pid = run.pid /\ AfterGroup("yes").kind = run.kind
    BY <1>6
  <2> QED BY <1>1, <1>8, <2>1, <2>2 DEF ReapGroup, AfterGroup, NextCase, RunType
<1>9. CASE SmokePoll \/ SmokeReap \/ SmokeOverdue \/ SmokeGivesUp
  BY <1>1, <1>9 DEF SmokePoll, SmokeReap, SmokeOverdue, SmokeGivesUp, Enter, RunType
<1> QED BY <1>2, <1>3, <1>4, <1>5, <1>7, <1>8, <1>9 DEF Drive

\* The smoke test's own steps.
LEMMA SmokedStep == ASSUME IInv, BInv, Smoked, [Next]_vars PROVE Smoked'
<1>1. /\ smoke \in [at : {"idle", "checked", "started"}, receipt : SUBSET Receipt,
                    swapped : BOOLEAN, ran : Binary]
      /\ Typed /\ run \in RunType /\ HarnessTypeOK
  BY TypedBaseline DEF Smoked, IInv, Sound, HarnessTypeOK, BInv
<1>2. CASE SmokeCheck
  <2>1. PICK r \in receipts :
          /\ r.binary = out.chrome
          /\ smoke' = [NoSmoke EXCEPT !.at = "checked", !.receipt = {r}]
    BY <1>2 DEF SmokeCheck
  <2>2. /\ smoke' \in [at : {"idle", "checked", "started"}, receipt : SUBSET Receipt,
                       swapped : BOOLEAN, ran : Binary]
        /\ smoke'.at = "checked" /\ smoke'.receipt = {r}
    <3>1. {r} \in SUBSET Receipt
      BY <1>1 DEF Typed
    <3> QED BY <2>1, <3>1, NoSmokeType DEF NoSmoke
  <2>3. run'.phase = "idle" /\ out'.chrome = out.chrome
    BY <1>2 DEF SmokeCheck, harnessVars, baselineVars
  <2> QED BY <2>1, <2>2, <2>3 DEF Smoked
<1>3. CASE SmokeBegin
  <2>1. /\ smoke' \in [at : {"idle", "checked", "started"}, receipt : SUBSET Receipt,
                       swapped : BOOLEAN, ran : Binary]
        /\ smoke'.at = "started" /\ smoke'.receipt = smoke.receipt
        /\ smoke'.swapped = smoke.swapped
    BY <1>1, <1>3 DEF SmokeBegin
  <2>2. run'.kind = "upstream" /\ run'.pid[1] = NoPid /\ out' = out
    BY <1>3, SomeBrowsers DEF SmokeBegin, Begin, Idle, baselineVars
  <2> QED BY <2>1, <2>2 DEF Smoked
<1>4. CASE SmokeRefuses \/ EndRun \/ DieRun
  <2>1. smoke' = NoSmoke
    BY <1>4 DEF SmokeRefuses, EndRun, DieRun
  <2> QED BY <2>1, NoSmokeType DEF Smoked
<1>5. CASE ProductBegin
  <2>1. smoke = NoSmoke /\ smoke' = smoke
    BY <1>5 DEF ProductBegin, gateVars
  <2> QED BY <2>1, NoSmokeType DEF Smoked
<1>6. CASE LaunchBrowser
  <2>1. /\ run.phase = "script" /\ run'.kind = run.kind /\ out' = out
        /\ smoke' = IF run.kind = "upstream" THEN [smoke EXCEPT !.ran = out.chrome]
                                            ELSE smoke
    <3>1. /\ run.phase = "script" /\ out' = out
          /\ smoke' = IF run.kind = "upstream" THEN [smoke EXCEPT !.ran = out.chrome]
                                              ELSE smoke
          /\ \E p \in Pids : run' = [Advanced EXCEPT !.pid[Here] = p, !.code[Here] = "none"]
      BY <1>6 DEF LaunchBrowser, Launch, At, Smoke, baselineVars
    <3> QED BY <3>1, <1>1, AdvancedType DEF RunType
  <2>2. out.chrome \in Binary
    BY <1>1 DEF Typed
  <2>3. /\ smoke' \in [at : {"idle", "checked", "started"}, receipt : SUBSET Receipt,
                       swapped : BOOLEAN, ran : Binary]
        /\ smoke'.at = smoke.at /\ smoke'.receipt = smoke.receipt
        /\ smoke'.swapped = smoke.swapped
        /\ run.kind = "upstream" => smoke'.ran = out.chrome
    BY <1>1, <2>1, <2>2
  <2> QED BY <2>1, <2>3 DEF Smoked
<1>7. CASE Drive
  <2>1. /\ run'.pid = run.pid /\ run'.kind = run.kind /\ run.phase # "idle"
    BY <1>1, <1>7, DriveKeeps
  <2>2. smoke' = smoke /\ out' = out
    BY <1>7 DEF Drive, gateVars, baselineVars
  <2> QED BY <2>1, <2>2 DEF Smoked
<1>8. CASE Processes \/ ProductStages \/ Tools \/ UNCHANGED vars
  <2>1. run' = run /\ smoke' = smoke
    BY <1>8 DEF Processes, Surroundings, Exit, Fork, KinExit, OtherStarts, ProductStages,
                StageScan, Identity, AcceptGate, Integrate, BuildProduct, StageStops,
                Tools, Others, vars, gateVars, harnessVars
  <2>2. out'.chrome = out.chrome \/ CompileBaseline
    BY Noted
  <2>3. CASE CompileBaseline
    BY <1>8, <2>1, <2>3 DEF CompileBaseline, Smoked
  <2> QED BY <2>1, <2>2, <2>3 DEF Smoked
<1>9. CASE CompileBaseline
  <2>1. run' = run /\ smoke' = [smoke EXCEPT !.swapped = smoke.at # "idle"]
    BY <1>9 DEF CompileBaseline, Others, harnessVars
  <2>2. (smoke.at # "idle") \in BOOLEAN
    OBVIOUS
  <2>3. /\ smoke' \in [at : {"idle", "checked", "started"}, receipt : SUBSET Receipt,
                       swapped : BOOLEAN, ran : Binary]
        /\ smoke'.at = smoke.at /\ smoke'.receipt = smoke.receipt
        /\ smoke'.swapped = (smoke.at # "idle")
    BY <1>1, <2>1, <2>2
  <2> QED BY <2>1, <2>3 DEF Smoked
<1> QED BY <1>2, <1>3, <1>4, <1>5, <1>6, <1>7, <1>8, <1>9 DEF Next, Driver

\* What a finished smoke test writes down is of the binary it hashed.
LEMMA EvidentStep == ASSUME IInv, Smoked, Evident, [Next]_vars PROVE Evident'
<1>1. CASE EndRun
  <2>1. run.phase = "over"
    BY <1>1 DEF EndRun, End
  <2>2. SUFFICES ASSUME NEW e \in evidence', e \notin evidence,
                        e.verdict = "passed", e.code = "ok"
                 PROVE  e.swapped = TRUE \/ e.ran = e.binary
    BY DEF Evident
  <2>3. PICK r \in smoke.receipt :
          e = [verdict |-> run.verdict, code |-> run.code[1],
               forced |-> run.forced[1] = "yes", binary |-> r.binary,
               ran |-> smoke.ran, swapped |-> smoke.swapped]
    BY <1>1, <2>2 DEF EndRun
  <2>4. smoke.at = "started"
    BY <2>1, <2>3 DEF Smoked
  <2>5. run.pid[1] # NoPid
    BY <2>2, <2>3, SomeBrowsers DEF IInv, Sound, Waited
  <2> QED BY <2>3, <2>4, <2>5 DEF Smoked
<1>2. CASE UNCHANGED evidence
  BY <1>2 DEF Evident
<1>3. EndRun \/ UNCHANGED evidence
  <2>1. CASE SmokeCheck \/ SmokeBegin \/ SmokeRefuses \/ ProductBegin \/ UNCHANGED vars
    BY <2>1 DEF SmokeCheck, SmokeBegin, SmokeRefuses, ProductBegin, vars, gateVars
  <2>2. CASE Driver \/ DieRun \/ Processes
    BY <2>2 DEF Driver, LaunchBrowser, Drive, DieRun, Processes, gateVars
  <2>3. CASE ProductStages
    BY <2>3 DEF ProductStages, StageScan, Identity, AcceptGate, Integrate, BuildProduct,
                StageStops
  <2>4. CASE CompileBaseline \/ Tools
    BY <2>4 DEF CompileBaseline, Tools, Others
  <2> QED BY <2>1, <2>2, <2>3, <2>4 DEF Next
<1> QED BY <1>1, <1>2, <1>3

StageSet == [job : {"none", "prepare", "build"},
             at : {"idle", "identity", "gate", "write", "compile"},
             pin : [Repos -> Revisions], gate : Binary]

\* A step that forgets no gate keeps the integration it leaves alone.
LEMMA AcceptingKept ==
    ASSUME Accepting, UNCHANGED integration, \A g, p : Gated(g, p) => Gated(g, p)'
    PROVE  Accepting'
<1>1. PICK g, p : g = integration.gate /\ p = integration.pin["src"]
  OBVIOUS
<1>2. Integrated' <=> Integrated
  BY DEF Integrated
<1>3. Integrated => Gated(g, p)
  BY <1>1 DEF Accepting
<1>4. Integrated => Gated(g, p)'
  BY <1>3
<1>5. integration'.gate = g /\ integration'.pin["src"] = p
  BY <1>1
<1>6. ASSUME Gated(g, p)' PROVE Gated(integration.gate, integration.pin["src"])'
  BY <1>5, <1>6 DEF Gated, Sourced
<1>7. integration' \in [pin : [Repos -> Revisions], gate : Binary]
  BY DEF Accepting
<1> QED BY <1>2, <1>4, <1>6, <1>7 DEF Accepting

\* A step that starts no stage and changes no integration.
LEMMA StageKept ==
    ASSUME BInv, Staged, Accepting, [Next]_vars, UNCHANGED integration,
           stage' = stage \/ stage' = NoStage
    PROVE  Staged' /\ Accepting'
<1>1. \A g, p : Gated(g, p) => Gated(g, p)'
  BY Noted, EvidenceStays, GatedStays
<1>2. CASE stage' = stage
  <2>1. Staged'
    BY <1>1, <1>2 DEF Staged, Integrated, Gated, Sourced
  <2>2. Accepting'
    BY <1>1, AcceptingKept
  <2> QED BY <2>1, <2>2
<1>3. CASE stage' = NoStage
  <2>1. Staged'
    BY <1>3, NoStageType DEF Staged
  <2>2. Accepting'
    BY <1>1, AcceptingKept
  <2> QED BY <2>1, <2>2
<1> QED BY <1>2, <1>3

\* product.py goes from the pins it found to the binary it accepted for them.
LEMMA StagedStep ==
    ASSUME BInv, Evident, Staged, Accepting, [Next]_vars PROVE Staged' /\ Accepting'
<1>1. \A g, p : Gated(g, p) => Gated(g, p)'
  BY Noted, EvidenceStays, GatedStays
<1>2. stage \in StageSet /\ Typed
  BY TypedBaseline DEF Staged, StageSet, BInv
<1>3. ASSUME UNCHANGED integration, stage' \in StageSet, stage'.at \notin {"gate", "write"}
      PROVE  Staged' /\ Accepting'
  <2>1. Accepting'
    BY <1>1, <1>3, AcceptingKept
  <2> QED BY <1>3, <2>1 DEF Staged, StageSet
<1>4. ASSUME NEW job \in {"prepare", "build"}, StageScan(job)
      PROVE  Staged' /\ Accepting'
  <2>1. UNCHANGED integration /\ stage' \in StageSet
        /\ stage'.at \in {"compile", "identity"}
    BY <1>4, NoStageType DEF StageScan, StageSet, NoStage
  <2> QED BY <2>1, <1>3
<1>5. CASE Identity
  <2>1. pin \in [Repos -> Revisions]
    BY <1>2, SomePins DEF Typed
  <2>2. /\ stage' = [stage EXCEPT !.at = "gate", !.pin = pin]
        /\ UNCHANGED <<integration, pin>>
        /\ Integrated => integration.pin["src"] = pin["src"]
    BY <1>5 DEF Identity, baselineVars
  <2>3. stage' \in StageSet /\ stage'.at = "gate" /\ stage'.pin = pin
    BY <1>2, <2>1, <2>2 DEF StageSet
  <2>4. Accepting'
    BY <1>1, <2>2, AcceptingKept
  <2> QED BY <2>2, <2>3, <2>4 DEF Staged, StageSet, Integrated
<1>6. CASE AcceptGate
  <2>1. stage.at = "gate" /\ UNCHANGED <<integration, evidence, raced, moved>>
    BY <1>6 DEF AcceptGate, baselineVars
  <2>2. PICK gate :
          /\ gate \in IF Integrated THEN {integration.gate}
                      ELSE {e.binary : e \in {e \in evidence :
                              \E r \in receipts : Accepted(e, r)}}
          /\ stage' = [stage EXCEPT !.at = "write", !.gate = gate]
    BY <1>6 DEF AcceptGate
  <2>3. Gated(gate, stage.pin["src"]) /\ (gate \in Binary \/ Integrated)
    <3>1. CASE Integrated
      BY <2>1, <2>2, <3>1 DEF Staged, Accepting
    <3>2. CASE ~Integrated
      <4>1. PICK e \in evidence, r \in receipts : gate = e.binary /\ Accepted(e, r)
        BY <2>2, <3>2
      <4>2. Sourced(r.binary, r.pin["src"])
        BY DEF BInv, ReceiptsSourced
      <4>3. e.swapped = TRUE \/ e.ran = e.binary
        BY <4>1 DEF Evident, Accepted
      <4>4. r.binary \in Binary
        BY <1>2 DEF Typed, Receipt
      <4> QED BY <4>1, <4>2, <4>3, <4>4 DEF Gated, Accepted
    <3> QED BY <3>1, <3>2
  <2>4. gate \in Binary
    <3>1. CASE Integrated
      BY <2>2, <3>1 DEF Accepting
    <3> QED BY <2>3, <3>1
  <2>5. stage' \in StageSet /\ stage'.at = "write" /\ stage'.gate = gate
        /\ stage'.pin = stage.pin
    BY <1>2, <2>2, <2>4 DEF StageSet
  <2>6. Accepting'
    BY <1>1, <2>1, AcceptingKept
  <2> QED BY <1>1, <2>3, <2>5, <2>6 DEF Staged, StageSet, Gated, Sourced
<1>7. CASE Integrate
  <2>1. /\ stage.at = "write" /\ stage' = NoStage
        /\ integration' = [pin |-> stage.pin, gate |-> stage.gate]
    BY <1>7 DEF Integrate
  <2>2. Gated(stage.gate, stage.pin["src"])
    BY <2>1 DEF Staged
  <2>3. integration' \in [pin : [Repos -> Revisions], gate : Binary]
    BY <1>2, <2>1 DEF StageSet
  <2>4. integration'.gate = stage.gate /\ integration'.pin = stage.pin
    BY <2>1
  <2>5. Accepting'
    BY <1>1, <2>2, <2>3, <2>4 DEF Accepting, Gated, Sourced
  <2> QED BY <2>1, <2>5, NoStageType DEF Staged
<1>8. CASE BuildProduct \/ StageStops
  <2>1. UNCHANGED integration /\ stage' = NoStage
    BY <1>8 DEF BuildProduct, StageStops
  <2> QED BY <2>1, StageKept
<1>9. CASE \/ SmokeCheck \/ SmokeBegin \/ SmokeRefuses \/ ProductBegin
           \/ Driver \/ DieRun \/ Processes \/ UNCHANGED vars
  <2>1. UNCHANGED <<integration, stage>>
    BY <1>9 DEF SmokeCheck, SmokeBegin, SmokeRefuses, ProductBegin, Driver, LaunchBrowser,
                Drive, EndRun, DieRun, Processes, vars, gateVars
  <2> QED BY <2>1, StageKept
<1>10. CASE CompileBaseline \/ Tools
  <2>1. UNCHANGED <<integration, stage>>
    BY <1>10 DEF CompileBaseline, Tools, Others
  <2> QED BY <2>1, StageKept
<1> QED BY <1>4, <1>5, <1>6, <1>7, <1>8, <1>9, <1>10 DEF Next, ProductStages

-----------------------------------------------------------------------------
(* The theorem.                                                            *)

LEMMA Sets == /\ FirstPin \in Pins
              /\ "depot" \in Repos /\ "src" \in Repos
              /\ {"absent", "partial", "baseline", "product", "other"} = Arguments
  BY BaselineAssumption DEF FirstPin, Repos, Arguments

\* Nothing is claimed of a fresh machine; an installed one is as its last
\* integration left it.
LEMMA InitGate == Init => BInv /\ GInv
<1> SUFFICES ASSUME Init PROVE BInv /\ GInv
  OBVIOUS
<1>1. smoke = NoSmoke /\ stage = NoStage /\ tool = NoTool /\ raced = FALSE /\ moved = FALSE
  BY DEF Init, FreshMachine, InstalledMachine, BaselineInit
<1>2. Smoked
  BY <1>1, NoSmokeType DEF Smoked
<1>3. Staged
  BY <1>1, NoStageType DEF Staged
<1>4. Building /\ Fetching
  BY <1>1, NoToolType DEF Building, Fetching
<1>5. CASE FreshMachine
  <2>1. pin \in [Repos -> Pins]
    BY <1>5, Sets DEF FreshMachine, BaselineInit
  <2>2. repo \in [Repos -> RepoRecord]
    BY <1>5 DEF FreshMachine, BaselineInit, RepoRecord, Revisions
  <2>3. out \in [args : Arguments, ninja : BOOLEAN, chrome : Binary]
    BY <1>5, BinaryType DEF FreshMachine, BaselineInit, Arguments
  <2>4. acts \in 0..MaxActs
    BY <1>5, BaselineAssumption DEF FreshMachine, BaselineInit
  <2>5. /\ deps = "none" /\ receipts = {} /\ gclient = "absent"
        /\ python \in BOOLEAN /\ hooked \in BOOLEAN
        /\ raced \in BOOLEAN /\ moved \in BOOLEAN
    BY <1>5 DEF FreshMachine, BaselineInit
  <2>6. BaselineTypeOK
    BY <1>1, <2>1, <2>2, <2>3, <2>4, <2>5, NoToolType
    DEF BaselineTypeOK, RepoRecord, Dependencies
  <2>7. Synced /\ ReceiptsSourced
    BY <2>5, SomePins DEF Synced, ReceiptsSourced
  <2>8. Evident
    BY <1>5 DEF FreshMachine, Evident
  <2>9. Accepting
    <3>1. integration = NoIntegration
      BY <1>5 DEF FreshMachine
    <3>2. NoIntegration \in [pin : [Repos -> Revisions], gate : Binary]
      BY BinaryType DEF NoIntegration, Revisions
    <3> QED BY <3>1, <3>2 DEF Accepting, Integrated
  <2> QED BY <1>2, <1>3, <1>4, <2>6, <2>7, <2>8, <2>9 DEF BInv, GInv
<1>6. CASE InstalledMachine
  <2> DEFINE p == FirstPin
             pins == [r \in Repos |-> p]
             chrome == [from |-> p, deps |-> p, clean |-> TRUE, args |-> "baseline"]
             rcpt == [pin |-> pins, deps |-> p, args |-> "baseline", binary |-> chrome]
             seen == [verdict |-> "passed", code |-> "ok", forced |-> FALSE,
                      binary |-> chrome, ran |-> chrome, swapped |-> FALSE]
  <2>1. /\ pin = pins /\ repo = [r \in Repos |->
                                   [is |-> "head", head |-> p, dirty |-> r = "src"]]
        /\ python = TRUE /\ hooked = TRUE /\ gclient = "ours" /\ deps = p
        /\ out = [args |-> "product", ninja |-> TRUE, chrome |-> chrome]
        /\ receipts = {rcpt} /\ acts = MaxActs /\ evidence = {seen}
        /\ integration = [pin |-> pins, gate |-> chrome]
    BY <1>6 DEF InstalledMachine
  <2>2. p \in Pins /\ p \in Revisions /\ p \in Dependencies
    BY Sets, SomePins
  <2>3. chrome \in Binary
    BY <2>2, Sets DEF Binary
  <2>4. pins \in [Repos -> Pins] /\ pins["src"] = p /\ pins \in [Repos -> Revisions]
    BY <2>2, Sets
  <2>5. rcpt \in Receipt
    BY <2>2, <2>3, <2>4, Sets DEF Receipt
  <2>6. repo \in [Repos -> RepoRecord] /\ repo["src"].is = "head" /\ repo["src"].head = p
    <3>1. \A r \in Repos : (r = "src") \in BOOLEAN
      OBVIOUS
    <3>2. \A r \in Repos : [is |-> "head", head |-> p, dirty |-> r = "src"] \in RepoRecord
      BY <2>2, <3>1 DEF RepoRecord
    <3> QED BY <2>1, <3>2, Sets
  <2>7. out \in [args : Arguments, ninja : BOOLEAN, chrome : Binary]
    BY <2>1, <2>3, Sets
  <2>8. Sourced(chrome, p)
    BY DEF Sourced
  <2> HIDE DEF pins, chrome
  <2>9. BaselineTypeOK
    <3>1. acts \in 0..MaxActs
      BY <2>1, BaselineAssumption
    <3>2. python \in BOOLEAN /\ hooked \in BOOLEAN /\ raced \in BOOLEAN /\ moved \in BOOLEAN
      BY <1>1, <2>1
    <3> HIDE DEF rcpt
    <3> QED BY <1>1, <2>1, <2>2, <2>4, <2>5, <2>6, <2>7, <3>1, <3>2, NoToolType
        DEF BaselineTypeOK, RepoRecord
  <2>10. Synced
    BY <2>1, <2>6 DEF Synced
  <2>11. ReceiptsSourced
    BY <2>1, <2>4, <2>8 DEF ReceiptsSourced
  <2>12. Evident
    BY <2>1 DEF Evident
  <2>13. Accepting
    <3>1. integration.gate = chrome /\ integration.pin["src"] = p
      BY <2>1, <2>4
    <3>2. integration \in [pin : [Repos -> Revisions], gate : Binary]
      BY <2>1, <2>3, <2>4
    <3>3. Gated(chrome, p)
      BY <2>1, <2>8 DEF Gated
    <3> QED BY <3>1, <3>2, <3>3 DEF Accepting
  <2> QED BY <1>2, <1>3, <1>4, <2>9, <2>10, <2>11, <2>12, <2>13 DEF BInv, GInv
<1> QED BY <1>5, <1>6 DEF Init

\* The binary an integration rests on was launched by a smoke test that passed
\* without force, and was built from the integration's own pins: for any pins
\* and bounds, whatever dies, is repeated or is edited in between.
THEOREM GateRestsOnSmokedBaseline == Spec => []GateIsSmokedBaseline
<1> DEFINE GateInv == IInv /\ BInv /\ GInv
<1>1. Init => GateInv
  BY InitGate, InitInv DEF Init
<1>2. GateInv /\ [Next]_vars => GateInv'
  <2> SUFFICES ASSUME IInv, BInv, GInv, [Next]_vars PROVE GateInv'
    OBVIOUS
  <2>1. IInv'
    BY NextDrives, NextInv, StutterInv
  <2>2. BInv'
    BY BaselineStep
  <2>3. GInv'
    BY SmokedStep, EvidentStep, StagedStep DEF GInv
  <2> QED BY <2>1, <2>2, <2>3
<1>3. GateInv => GateIsSmokedBaseline
  <2> SUFFICES ASSUME GInv, Integrated PROVE GateIsSmokedBaseline
    BY DEF GateIsSmokedBaseline
  <2>1. Gated(integration.gate, integration.pin["src"])
    BY DEF GInv, Accepting
  <2> QED BY <2>1 DEF Gated, Sourced, GateIsSmokedBaseline
<1> QED BY <1>1, <1>2, <1>3, PTL DEF Spec

-----------------------------------------------------------------------------
(* The type invariant of the composition.                                  *)

\* A driver that cleans up or is over has a verdict.
Judged == run.phase \in {"clean", "terminate", "kill", "over"} \cup GroupPhases =>
            run.verdict # "none"

LEMMA JudgedStep ==
    ASSUME HarnessTypeOK, Judged, [HarnessNext]_harnessVars PROVE Judged'
<1>1. run \in RunType
  BY DEF HarnessTypeOK
<1>2. CASE run' = run
  BY <1>2 DEF Judged
<1>3. CASE (\E k \in Kinds : Begin(k)) \/ End \/ Die
  <2>1. CASE End \/ Die
    BY <2>1 DEF End, Die, DriverGone, Idle, Judged, GroupPhases
  <2>2. ASSUME NEW k \in Kinds, Begin(k) PROVE Judged'
    <3>1. run'.phase = "script"
      BY <2>2 DEF Begin, Idle
    <3> QED BY <3>1 DEF Judged, GroupPhases
  <2> QED BY <1>3, <2>1, <2>2
<1>4. CASE Launch \/ Show \/ EndSession
  <2>1. run'.phase \in {"script", "stopped"}
    BY <1>1, <1>4 DEF Launch, Show, EndSession, Advanced, Enter, RunType
  <2> QED BY <2>1 DEF Judged, GroupPhases
<1>5. ASSUME run'.phase = "script" \/ run'.verdict = "failed" PROVE Judged'
  BY <1>5 DEF Judged, GroupPhases
<1>6. AfterError.verdict = "failed" /\ NextCase.phase = "script"
  BY <1>1 DEF AfterError, NextCase, RunType
<1>7. CASE Raise \/ CaseTimesOut
  BY <1>1, <1>5, <1>6, <1>7 DEF Raise, CaseTimesOut, RunType
<1>8. CASE PeekRunning
  <2>1. run'.phase = "stopping" \/ run' = AfterError
    BY <1>1, <1>8 DEF PeekRunning, RunType
  <2> QED BY <1>5, <1>6, <2>1 DEF Judged, GroupPhases
<1>9. CASE Finish
  <2>1. /\ Advanced \in [DOMAIN run -> UNION {{Advanced[f]} : f \in DOMAIN run}]
        /\ Advanced.phase = "script"
    BY <1>1 DEF Advanced, RunType
  <2>2. PICK next :
          /\ run' = [next EXCEPT !.code[Here] = proc[Pid(Here)].code]
          /\ \/ next = Advanced \/ next = AfterError
             \/ \E v \in {run.verdict, "failed"} : next = [NextCase EXCEPT !.verdict = v]
    BY <1>9 DEF Finish
  <2>3. run'.phase = "script" \/ run'.verdict = "failed"
    BY <1>1, <2>2 DEF Advanced, AfterError, NextCase, RunType
  <2> QED BY <1>5, <2>3
<1>10. CASE Conclude
  <2>1. run'.verdict = IF run.verdict = "failed" THEN "failed" ELSE "passed"
    BY <1>1, <1>10 DEF Conclude, RunType
  <2> QED BY <2>1 DEF Judged
<1>11. CASE \/ NextOwned \/ Peek \/ Terminate \/ SeeExit \/ Overdue \/ KillRest
            \/ SmokePoll \/ SmokeReap \/ SmokeOverdue \/ SmokeGivesUp
  <2>1. run.phase \in {"clean", "terminate", "kill"} \cup GroupPhases
    BY <1>11 DEF NextOwned, Peek, Terminate, SeeExit, Overdue, KillRest, SmokePoll,
                 SmokeReap, SmokeOverdue, SmokeGivesUp, GroupPhases
  <2>2. run'.verdict \in {run.verdict, "failed", "lost"}
    BY <1>1, <1>11 DEF NextOwned, Peek, Terminate, SeeExit, Overdue, KillRest, SmokePoll,
                       SmokeReap, SmokeOverdue, SmokeGivesUp, Enter, RunType
  <2> QED BY <2>1, <2>2 DEF Judged
<1>12. CASE GiveUp \/ ReapGroup
  <2>1. run.verdict # "none"
    BY <1>12 DEF Judged, GiveUp, ReapGroup, GroupPhases
  <2>2. ASSUME NEW record
        PROVE  AfterGroup(record).verdict \in {run.verdict, "failed"}
    BY <1>1 DEF AfterGroup, NextCase, RunType
  <2>3. run'.verdict \in {run.verdict, "failed"}
    <3>1. CASE GiveUp
      BY <2>2, <3>1 DEF GiveUp
    <3>2. CASE ReapGroup
      <4>1. run' = [AfterGroup("yes") EXCEPT !.code[Cur] = proc[Pid(Cur)].code]
        BY <3>2 DEF ReapGroup
      <4> QED BY <1>1, <4>1 DEF AfterGroup, NextCase, RunType
    <3> QED BY <1>12, <3>1, <3>2
  <2> QED BY <2>1, <2>3 DEF Judged
<1> QED BY <1>2, <1>3, <1>4, <1>7, <1>8, <1>9, <1>10, <1>11, <1>12
        DEF HarnessNext, DriverStep, Surroundings, Exit, Fork, KinExit, OtherStarts,
            harnessVars

\* What is written down, and the bounded counter.
Recorded ==
    /\ smoke.receipt \in {{r} : r \in receipts} \cup {{}}
    /\ evidence \subseteq Evidence
    /\ product \in BOOLEAN
    /\ stages \in 0..MaxStages

\* Receipts are only added.
LEMMA ReceiptsStay == [Next]_vars => receipts \subseteq receipts'
<1> SUFFICES ASSUME [Next]_vars PROVE receipts \subseteq receipts'
  OBVIOUS
<1>1. CASE \/ SmokeCheck \/ SmokeBegin \/ SmokeRefuses \/ ProductBegin
           \/ Driver \/ DieRun \/ Processes \/ UNCHANGED vars
  BY <1>1 DEF SmokeCheck, SmokeBegin, SmokeRefuses, ProductBegin, Driver, LaunchBrowser,
              Drive, EndRun, DieRun, Processes, vars, baselineVars
<1>2. CASE ProductStages
  BY <1>2 DEF ProductStages, StageScan, Identity, AcceptGate, Integrate, BuildProduct,
              StageStops, baselineVars
<1>3. CASE CompileBaseline
  BY <1>3 DEF CompileBaseline, Compile
<1>4. CASE Tools
  BY <1>4 DEF Tools, Fetch, FetchBegin, MakeDirectory, GitInit, AddRemote, CheckOrigin,
              Checkout, BootstrapPython, OpenConfig, WriteConfig, Sync, StageBegin,
              RunHooks, OpenArguments, WriteArguments, Generate, Record, Stop, Developer,
              EditSource, ChangePin, MoveHead, Clutter, EditArguments, EditConfig
<1> QED BY <1>1, <1>2, <1>3, <1>4 DEF Next

LEMMA RecordedStep ==
    ASSUME IInv, Judged, Smoked, Recorded, [Next]_vars PROVE Recorded'
<1>1. receipts \subseteq receipts'
  BY ReceiptsStay
<1>2. smoke'.receipt \in {{r} : r \in receipts'} \cup {{}}
  <2>1. smoke'.receipt = smoke.receipt \/ smoke'.receipt = {}
          \/ \E r \in receipts : smoke'.receipt = {r}
    <3>1. CASE SmokeCheck
      BY <3>1 DEF SmokeCheck, NoSmoke
    <3>2. CASE SmokeBegin
      BY <3>2 DEF SmokeBegin, Smoked
    <3>3. CASE SmokeRefuses \/ EndRun \/ DieRun
      BY <3>3 DEF SmokeRefuses, EndRun, DieRun, NoSmoke
    <3>4. CASE LaunchBrowser
      BY <3>4 DEF LaunchBrowser, Smoked
    <3>5. CASE ProductBegin \/ Drive \/ Processes \/ ProductStages \/ Tools \/ UNCHANGED vars
      BY <3>5 DEF ProductBegin, Drive, Processes, ProductStages, StageScan, Identity,
                  AcceptGate, Integrate, BuildProduct, StageStops, Tools, vars, gateVars
    <3>6. CASE CompileBaseline
      BY <3>6 DEF CompileBaseline, Smoked
    <3> QED BY <3>1, <3>2, <3>3, <3>4, <3>5, <3>6 DEF Next, Driver
  <2> QED BY <1>1, <2>1 DEF Recorded
<1>3. evidence' \subseteq Evidence
  <2>1. CASE EndRun
    <3>1. run \in RunType /\ 1 \in Browsers /\ run.phase = "over"
      BY <2>1, SomeBrowsers DEF IInv, Sound, HarnessTypeOK, EndRun, End
    <3>2. /\ run.code[1] \in {"none", "ok", "bad"} /\ (run.forced[1] = "yes") \in BOOLEAN
          /\ run.verdict \in {"passed", "failed", "lost"}
      BY <3>1 DEF RunType, Judged
    <3>3. /\ smoke.receipt \subseteq Receipt /\ smoke.ran \in Binary
          /\ smoke.swapped \in BOOLEAN
      BY DEF Smoked
    <3>4. ASSUME NEW e \in evidence', e \notin evidence PROVE e \in Evidence
      <4>1. PICK r \in smoke.receipt :
              /\ run.verdict # "lost"
              /\ e = [verdict |-> run.verdict, code |-> run.code[1],
                      forced |-> run.forced[1] = "yes", binary |-> r.binary,
                      ran |-> smoke.ran, swapped |-> smoke.swapped]
        BY <2>1, <3>4 DEF EndRun
      <4>2. r.binary \in Binary
        BY <3>3 DEF Receipt
      <4> QED BY <3>2, <3>3, <4>1, <4>2 DEF Evidence
    <3> QED BY <3>4 DEF Recorded
  <2>2. CASE ~EndRun
    <3>1. UNCHANGED evidence
      BY <2>2 DEF Next, SmokeCheck, SmokeBegin, SmokeRefuses, ProductBegin, Driver,
                  LaunchBrowser, Drive, DieRun, Processes, ProductStages, StageScan,
                  Identity, AcceptGate, Integrate, BuildProduct, StageStops,
                  CompileBaseline, Tools, Others, vars, gateVars
    <3> QED BY <3>1 DEF Recorded
  <2> QED BY <2>1, <2>2
<1>4. product' \in BOOLEAN /\ stages' \in 0..MaxStages
  <2>1. ASSUME NEW job \in {"prepare", "build"}, StageScan(job)
        PROVE  product' \in BOOLEAN /\ stages' \in 0..MaxStages
    BY <2>1, GateAssumption DEF StageScan, Recorded
  <2>2. CASE BuildProduct
    BY <2>2 DEF BuildProduct, Recorded
  <2>3. CASE UNCHANGED <<product, stages>>
    BY <2>3 DEF Recorded
  <2> QED BY <2>1, <2>2, <2>3
          DEF Next, SmokeCheck, SmokeBegin, SmokeRefuses, ProductBegin, Driver,
              LaunchBrowser, Drive, EndRun, DieRun, Processes, ProductStages, Identity,
              AcceptGate, Integrate, StageStops, CompileBaseline, Tools, Others, vars,
              gateVars
<1> QED BY <1>2, <1>3, <1>4 DEF Recorded

LEMMA InitRecorded == Init => Judged /\ Recorded
<1> SUFFICES ASSUME Init PROVE Judged /\ Recorded
  OBVIOUS
<1>1. Judged /\ smoke.receipt = {}
  BY DEF Init, HarnessInit, Idle, Judged, GroupPhases, NoSmoke
<1>2. CASE FreshMachine
  <2>1. evidence = {} /\ product = FALSE /\ stages = 0
    BY <1>2 DEF FreshMachine
  <2>2. 0 \in 0..MaxStages
    BY GateAssumption
  <2> QED BY <1>1, <2>1, <2>2 DEF Recorded
<1>3. CASE InstalledMachine
  <2>1. [from |-> FirstPin, deps |-> FirstPin, clean |-> TRUE, args |-> "baseline"]
           \in Binary
    BY Sets, SomePins DEF Binary
  <2>2. evidence \subseteq Evidence
    BY <1>3, <2>1 DEF InstalledMachine, Evidence
  <2> QED BY <1>1, <1>3, <2>2, GateAssumption DEF InstalledMachine, Recorded
<1> QED BY <1>2, <1>3, <1>1 DEF Init

\* Every variable of the composition keeps its type.
THEOREM GateTypes == Spec => []TypeOK
<1> DEFINE TInv == IInv /\ BInv /\ GInv /\ Judged /\ Recorded
<1>1. Init => TInv
  BY InitGate, InitInv, InitRecorded DEF Init
<1>2. TInv /\ [Next]_vars => TInv'
  <2> SUFFICES ASSUME IInv, BInv, GInv, Judged, Recorded, [Next]_vars PROVE TInv'
    OBVIOUS
  <2>1. IInv'
    BY NextDrives, NextInv, StutterInv
  <2>2. BInv'
    BY BaselineStep
  <2>3. GInv'
    BY SmokedStep, EvidentStep, StagedStep DEF GInv
  <2>4. Judged' /\ Recorded'
    BY NextDrives, JudgedStep, RecordedStep DEF IInv, Sound, GInv
  <2> QED BY <2>1, <2>2, <2>3, <2>4
<1>3. TInv => TypeOK
  <2> SUFFICES ASSUME IInv, BInv, GInv, Recorded PROVE TypeOK
    OBVIOUS
  <2>1. smoke \in Smokes
    BY DEF GInv, Smoked, Recorded, Smokes
  <2> QED BY <2>1 DEF TypeOK, IInv, Sound, BInv, GInv, Staged, Accepting, Recorded
<1> QED BY <1>1, <1>2, <1>3, PTL DEF Spec

-----------------------------------------------------------------------------
(* Fetching again.                                                         *)

\* fetch begins src when depot_tools is checked out, and .gclient when src is.
Ordered ==
    /\ repo["src"].is # "absent" => repo["depot"].is = "head"
    /\ gclient # "absent" => repo["src"].is = "head"
    /\ tool.job = "fetch" =>
         /\ tool.at = "python" \/ tool.repo = "src" => repo["depot"].is = "head"
         /\ tool.at \in {"gclient", "config", "sync"} => tool.repo = "src"

\* As long as nobody else touches the checkouts, they are what fetch made of
\* them, at the pins and one after the other.
Fetched == (acts = 0 /\ ~Integrated) =>
    /\ \A r \in Repos : repo[r].is # "foreign" /\ (repo[r].is = "head" => Unmodified(r))
    /\ gclient # "other"
    /\ tool.job = "fetch" => tool.pin = pin
    /\ Ordered

\* An integration rests on pins.
Pinned ==
    /\ stage.at \in {"gate", "write"} => stage.pin \in [Repos -> Pins]
    /\ Integrated => integration.pin \in [Repos -> Pins]

LEMMA PinnedIntegrates ==
    ASSUME NEW i, i.pin \in [Repos -> Pins] PROVE i # NoIntegration
<1>1. i.pin["src"] # "none"
  BY SomePins DEF Repos
<1> QED BY <1>1 DEF NoIntegration, Repos

LEMMA PinnedStep ==
    ASSUME BInv, Staged, Accepting, Pinned, [Next]_vars
    PROVE  Pinned' /\ (Integrated => Integrated')
<1>1. pin \in [Repos -> Pins] /\ stage \in StageSet
  BY TypedBaseline DEF BInv, Typed, Staged, StageSet
<1>2. ASSUME UNCHANGED integration,
             stage' = stage \/ stage'.at \notin {"gate", "write"}
      PROVE  Pinned' /\ (Integrated => Integrated')
  BY <1>2 DEF Pinned, Integrated
<1>3. ASSUME NEW job \in {"prepare", "build"}, StageScan(job)
      PROVE  Pinned' /\ (Integrated => Integrated')
  <2>1. UNCHANGED integration /\ stage'.at \in {"compile", "identity"}
    BY <1>3 DEF StageScan, NoStage
  <2> QED BY <1>2, <2>1
<1>4. CASE Identity
  <2>1. UNCHANGED integration /\ stage'.pin = pin
    BY <1>1, <1>4 DEF Identity, StageSet
  <2> QED BY <1>1, <2>1 DEF Pinned, Integrated
<1>5. CASE AcceptGate
  <2>1. UNCHANGED integration /\ stage.at = "gate" /\ stage'.pin = stage.pin
    BY <1>1, <1>5 DEF AcceptGate, StageSet
  <2> QED BY <2>1 DEF Pinned, Integrated
<1>6. CASE Integrate
  <2>1. /\ integration'.pin = stage.pin /\ stage.pin \in [Repos -> Pins]
        /\ stage'.at = "idle"
    BY <1>6 DEF Integrate, Pinned, NoStage
  <2>2. Integrated'
    BY <2>1, PinnedIntegrates DEF Integrated
  <2> QED BY <2>1, <2>2 DEF Pinned
<1>7. CASE BuildProduct \/ StageStops
  <2>1. UNCHANGED integration /\ stage'.at = "idle"
    BY <1>7 DEF BuildProduct, StageStops, NoStage
  <2> QED BY <1>2, <2>1
<1>8. CASE ~ProductStages
  <2>1. UNCHANGED <<integration, stage>>
    BY <1>8 DEF Next, SmokeCheck, SmokeBegin, SmokeRefuses, ProductBegin, Driver,
                LaunchBrowser, Drive, EndRun, DieRun, Processes, CompileBaseline, Tools,
                Others, vars, gateVars
  <2> QED BY <1>2, <2>1
<1> QED BY <1>3, <1>4, <1>5, <1>6, <1>7, <1>8 DEF ProductStages

\* A step of the developer counts.
LEMMA DeveloperCounts == ASSUME BInv, Developer PROVE acts' # 0
<1>1. acts \in Nat /\ acts' = acts + 1
  BY BaselineAssumption DEF BInv, BaselineTypeOK, Developer, EditSource, ChangePin, MoveHead,
         Clutter, EditArguments, EditConfig, Act
<1> QED BY <1>1

\* Every step of fetch keeps the order.
LEMMA FetchKeepsOrder == ASSUME BInv, Ordered, Fetch PROVE Ordered'
<1>1. Typed /\ R \in Repos /\ R = tool.repo /\ Repos = {"depot", "src"} /\ Fetching
  BY TypedBaseline DEF BInv, Typed, Tool, R, Repos
<1>2. CASE FetchBegin
  BY <1>2 DEF FetchBegin, Ordered, NoTool, checkoutVars
<1>3. CASE MakeDirectory
  <2>1. CASE repo[R].is \in {"absent", "empty"} /\ Is("empty") /\ Goto("init")
    <3>1. /\ repo'[R].is = "empty" /\ \A s \in Repos \ {R} : repo'[s] = repo[s]
      BY <1>1, <2>1, IsType
    <3>2. tool'.job = "fetch" /\ tool'.repo = R /\ tool'.at = "init"
      BY <1>1, <1>3, <2>1, GotoType DEF Typed, MakeDirectory, Running
    <3> QED BY <1>1, <1>3, <2>1, <3>1, <3>2 DEF MakeDirectory, Running, Ordered
  <2>2. CASE UNCHANGED repo /\ Goto("origin")
    <3>1. tool'.job = "fetch" /\ tool'.repo = R /\ tool'.at = "origin"
      BY <1>1, <1>3, <2>2, GotoType DEF Typed, MakeDirectory, Running
    <3> QED BY <1>1, <1>3, <2>2, <3>1 DEF MakeDirectory, Running, Ordered
  <2> QED BY <1>3, <2>1, <2>2 DEF MakeDirectory
<1>4. CASE GitInit \/ AddRemote
  <2>1. PICK what \in {"init", "origin"}, at \in {"remote", "origin"} : Is(what) /\ Goto(at)
    BY <1>4 DEF GitInit, AddRemote
  <2>2. /\ repo'[R].is = what /\ \A s \in Repos \ {R} : repo'[s] = repo[s]
    BY <1>1, <2>1, IsType
  <2>3. tool.job = "fetch" /\ repo[R].is \in {"empty", "foreign", "init"} /\ gclient' = gclient
    BY <1>1, <1>4 DEF GitInit, AddRemote, Running, Fetching
  <2>4. tool'.job = "fetch" /\ tool'.repo = R /\ tool'.at = at
    BY <1>1, <2>1, <2>3, GotoType DEF Typed
  <2> QED BY <1>1, <2>2, <2>3, <2>4 DEF Ordered
<1>5. CASE CheckOrigin
  <2>1. tool.job = "fetch" /\ UNCHANGED <<repo, gclient>>
    BY <1>5 DEF CheckOrigin, Running, checkoutVars
  <2>2. CASE Goto("checkout")
    <3>1. tool'.job = "fetch" /\ tool'.repo = R /\ tool'.at = "checkout"
      BY <1>1, <2>1, <2>2, GotoType DEF Typed
    <3> QED BY <1>1, <2>1, <3>1 DEF Ordered
  <2>3. CASE repo[R].is = "head" /\ NextRepo
    BY <1>1, <2>1, <2>3, NextRepoType DEF Ordered
  <2> QED BY <1>5, <2>2, <2>3 DEF CheckOrigin
<1>6. CASE Checkout
  <2>1. /\ tool.job = "fetch" /\ repo[R].is \in {"origin", "torn"} /\ gclient' = gclient
    BY <1>1, <1>6 DEF Checkout, Running, Fetching
  <2>2. ASSUME NEW served \in Pins, NextRepo,
               repo' = [repo EXCEPT ![R] = [is |-> "head", head |-> served, dirty |-> FALSE]]
        PROVE  Ordered'
    <3>1. [is |-> "head", head |-> served, dirty |-> FALSE] \in RepoRecord
      BY SomePins DEF RepoRecord
    <3>2. /\ repo'[R].is = "head" /\ \A s \in Repos \ {R} : repo'[s] = repo[s]
      BY <1>1, <2>2, <3>1, RepoType
    <3> QED BY <1>1, <2>1, <2>2, <3>2, NextRepoType DEF Ordered
  <2>3. CASE Is("torn") /\ tool' = NoTool
    <3>1. /\ repo'[R].is = "torn" /\ \A s \in Repos \ {R} : repo'[s] = repo[s]
      BY <1>1, <2>3, IsType
    <3> QED BY <1>1, <2>1, <2>3, <3>1, NoToolType DEF Ordered
  <2> QED BY <1>6, <2>2, <2>3 DEF Checkout
<1>7. CASE BootstrapPython
  <2>1. tool'.at = "dir" /\ tool.job = "fetch" /\ tool.at = "python" /\ UNCHANGED <<repo, gclient>>
    BY <1>1, <1>7 DEF BootstrapPython, Running, Typed, Tool
  <2> QED BY <2>1 DEF Ordered
<1>8. CASE OpenConfig \/ WriteConfig
  <2>1. PICK at \in {"config", "sync"} : Goto(at)
    BY <1>8 DEF OpenConfig, WriteConfig
  <2>2. /\ tool.job = "fetch" /\ tool.at \in {"gclient", "config"} /\ repo' = repo
    BY <1>8 DEF OpenConfig, WriteConfig, Running
  <2>3. tool'.job = "fetch" /\ tool'.repo = R /\ tool'.at = at
    BY <1>1, <2>1, <2>2, GotoType DEF Typed
  <2> QED BY <1>1, <2>2, <2>3 DEF Ordered, Fetching
<1>9. CASE Sync
  BY <1>9, NoToolType DEF Sync, Ordered
<1> QED BY <1>2, <1>3, <1>4, <1>5, <1>6, <1>7, <1>8, <1>9 DEF Fetch

\* fetch makes no checkout but the pinned one, unmodified.
LEMMA FetchKeepsPins ==
    ASSUME BInv, Fetched, Fetch, UNCHANGED integration PROVE Fetched'
<1> SUFFICES ASSUME acts = 0, ~Integrated
             PROVE  (/\ \A r \in Repos : repo[r].is # "foreign"
                                         /\ (repo[r].is = "head" => Unmodified(r))
                     /\ gclient # "other"
                     /\ tool.job = "fetch" => tool.pin = pin
                     /\ Ordered)'
  <2>1. acts' = acts
    BY DEF Fetch, FetchBegin, MakeDirectory, GitInit, AddRemote, CheckOrigin, Checkout,
           BootstrapPython, OpenConfig, WriteConfig, Sync
  <2> QED BY <2>1 DEF Fetched, Integrated
<1>1. /\ Typed /\ R \in Repos /\ pin' = pin
      /\ \A r \in Repos : repo[r].is # "foreign" /\ (repo[r].is = "head" => Unmodified(r))
      /\ gclient # "other"
      /\ tool.job = "fetch" => tool.pin = pin
      /\ Ordered
  BY TypedBaseline
  DEF BInv, Typed, Tool, R, Fetched, Fetch, FetchBegin, MakeDirectory, GitInit, AddRemote,
      CheckOrigin, Checkout, BootstrapPython, OpenConfig, WriteConfig, Sync, checkoutVars
<1>2. gclient' # "other"
  BY <1>1 DEF Fetch, FetchBegin, MakeDirectory, GitInit, AddRemote, CheckOrigin, Checkout,
              BootstrapPython, OpenConfig, WriteConfig, Sync, checkoutVars
<1>3. tool'.job = "fetch" => tool'.pin = pin'
  <2>1. CASE FetchBegin
    BY <1>1, <2>1 DEF FetchBegin, NoTool
  <2>3. CASE tool' = NoTool
    BY <2>3, NoToolType
  <2>4. CASE ~FetchBegin /\ tool' # NoTool
    <3>1. tool.job = "fetch" /\ tool'.pin = tool.pin
      BY <1>1, <2>4 DEF Fetch, MakeDirectory, GitInit, AddRemote, CheckOrigin, Checkout,
                        BootstrapPython, OpenConfig, WriteConfig, Sync, Running, Goto,
                        NextRepo, Typed, Tool
    <3> QED BY <1>1, <3>1
  <2> QED BY <2>1, <2>3, <2>4
<1>4. \A r \in Repos : repo'[r].is # "foreign" /\ (repo'[r].is = "head" => Unmodified(r)')
  <2>1. CASE UNCHANGED repo
    BY <1>1, <2>1 DEF Unmodified
  <2>2. ASSUME NEW what \in {"empty", "init", "origin", "torn"}, Is(what)
        PROVE  \A r \in Repos : repo'[r].is # "foreign"
                                /\ (repo'[r].is = "head" => Unmodified(r)')
    <3>1. /\ repo'[R].is = what
          /\ \A s \in Repos \ {R} : repo'[s] = repo[s]
      BY <1>1, <2>2, IsType
    <3> QED BY <1>1, <3>1 DEF Unmodified
  <2>3. ASSUME tool.job = "fetch", NEW served, Accepts(served),
               repo' = [repo EXCEPT ![R] = [is |-> "head", head |-> served, dirty |-> FALSE]]
        PROVE  \A r \in Repos : repo'[r].is # "foreign"
                                /\ (repo'[r].is = "head" => Unmodified(r)')
    <3>1. repo' = [repo EXCEPT ![R] = [is |-> "head", head |-> pin[R], dirty |-> FALSE]]
      BY <1>1, <2>3 DEF Accepts
    <3>2. pin[R] \in Revisions
      BY <1>1, SomePins DEF Typed
    <3>3. [is |-> "head", head |-> pin[R], dirty |-> FALSE] \in RepoRecord
      BY <3>2 DEF RepoRecord
    <3>4. /\ repo'[R] = [is |-> "head", head |-> pin[R], dirty |-> FALSE]
          /\ \A s \in Repos \ {R} : repo'[s] = repo[s]
      BY <1>1, <3>1, <3>3, RepoType
    <3> QED BY <1>1, <3>4 DEF Unmodified
  <2> QED BY <2>1, <2>2, <2>3
          DEF Fetch, FetchBegin, MakeDirectory, GitInit, AddRemote, CheckOrigin, Checkout,
              BootstrapPython, OpenConfig, WriteConfig, Sync, Running, checkoutVars
<1>5. Ordered'
  BY <1>1, FetchKeepsOrder
<1> QED BY <1>2, <1>3, <1>4, <1>5

LEMMA FetchedStep ==
    ASSUME BInv, Staged, Accepting, Pinned, Fetched, [Next]_vars PROVE Fetched'
<1>1. Integrated => Integrated'
  BY PinnedStep
<1>2. ASSUME UNCHANGED <<pin, repo, gclient, acts>>,
             tool' = tool \/ tool'.job # "fetch"
      PROVE  Fetched'
  BY <1>1, <1>2 DEF Fetched, Ordered, Unmodified
<1>3. CASE Tools
  <2>1. CASE Fetch
    BY <1>3, <2>1, FetchKeepsPins DEF Tools, Others
  <2>2. CASE Developer
    BY <2>2, DeveloperCounts DEF Fetched
  <2>3. ASSUME NEW job \in {"hooks", "gen", "build"}, StageBegin(job) PROVE Fetched'
    <3>1. tool'.job # "fetch" /\ UNCHANGED <<pin, repo, gclient, acts>>
      BY <2>3 DEF StageBegin, NoTool, checkoutVars
    <3> QED BY <1>2, <3>1
  <2>4. CASE \/ RunHooks \/ OpenArguments \/ WriteArguments \/ Generate
             \/ Record \/ Stop
    <3>1. UNCHANGED <<pin, repo, gclient, acts>>
      BY <2>4 DEF RunHooks, OpenArguments, WriteArguments, Generate, Record, Stop,
                  checkoutVars
    <3>2. tool'.job # "fetch"
      BY <2>4, TypedBaseline, NoToolType
      DEF RunHooks, OpenArguments, WriteArguments, Generate, Record, Stop, Running, Goto,
          BInv, Typed, Tool
    <3> QED BY <1>2, <3>1, <3>2
  <2> QED BY <1>3, <2>1, <2>2, <2>3, <2>4 DEF Tools
<1>4. CASE CompileBaseline
  <2>1. tool'.job = "build" /\ UNCHANGED <<pin, repo, gclient, acts>>
    BY <1>4, TypedBaseline
    DEF CompileBaseline, Compile, Running, Goto, BInv, Typed, Tool, checkoutVars
  <2> QED BY <1>2, <2>1
<1>5. CASE Integrate
  <2>1. integration'.pin = stage.pin /\ stage.pin \in [Repos -> Pins]
    BY <1>5 DEF Integrate, Pinned
  <2> QED BY <2>1, PinnedIntegrates DEF Fetched, Integrated
<1>6. CASE ProductStages /\ ~Integrate
  BY <1>2, <1>6 DEF ProductStages, StageScan, Identity, AcceptGate, BuildProduct, StageStops,
                    baselineVars, checkoutVars
<1>7. CASE \/ SmokeCheck \/ SmokeBegin \/ SmokeRefuses \/ ProductBegin
           \/ Driver \/ DieRun \/ Processes \/ UNCHANGED vars
  <2>1. UNCHANGED baselineVars
    BY <1>7 DEF SmokeCheck, SmokeBegin, SmokeRefuses, ProductBegin, Driver, LaunchBrowser,
                Drive, EndRun, DieRun, Processes, vars
  <2> QED BY <1>2, <2>1 DEF baselineVars
<1> QED BY <1>3, <1>4, <1>5, <1>6, <1>7 DEF Next

LEMMA InitFetched == Init => Pinned /\ Fetched
<1> SUFFICES ASSUME Init PROVE Pinned /\ Fetched
  OBVIOUS
<1>1. stage.at = "idle"
  BY DEF Init, NoStage
<1>2. CASE FreshMachine
  BY <1>1, <1>2 DEF FreshMachine, BaselineInit, Pinned, Fetched, Ordered, Integrated, NoTool, Repos
<1>3. CASE InstalledMachine
  <2>1. integration.pin = [r \in Repos |-> FirstPin]
    BY <1>3 DEF InstalledMachine
  <2>2. integration.pin \in [Repos -> Pins]
    BY <2>1, Sets
  <2> QED BY <1>1, <2>2, PinnedIntegrates DEF Pinned, Fetched, Integrated
<1> QED BY <1>2, <1>3 DEF Init

\* As long as nobody else touches the checkouts, at most one thing has to be
\* inspected before fetch is run again, however it ended: for any pins, whatever
\* builds and stages run beside it.
THEOREM FetchCanBeRepeated == Spec => []FetchRepeats
<1> DEFINE FInv == IInv /\ BInv /\ GInv /\ Pinned /\ Fetched
<1>1. Init => FInv
  BY InitGate, InitInv, InitFetched DEF Init
<1>2. FInv /\ [Next]_vars => FInv'
  <2> SUFFICES ASSUME IInv, BInv, GInv, Pinned, Fetched, [Next]_vars PROVE FInv'
    OBVIOUS
  <2>1. IInv'
    BY NextDrives, NextInv, StutterInv
  <2>2. BInv'
    BY BaselineStep
  <2>3. GInv'
    BY SmokedStep, EvidentStep, StagedStep DEF GInv
  <2>4. Pinned' /\ Fetched'
    BY PinnedStep, FetchedStep DEF GInv
  <2> QED BY <2>1, <2>2, <2>3, <2>4
<1>3. FInv => FetchRepeats
  <2> SUFFICES ASSUME BInv, Fetched, acts = 0, ~Integrated PROVE FetchRepeats
    BY DEF FetchRepeats
  <2>1. /\ Repos = {"depot", "src"} /\ gclient \in {"absent", "partial", "ours", "other"}
        /\ \A r \in Repos : repo[r].is \in {"absent", "empty", "foreign", "init", "origin",
                                           "torn", "head"}
    BY TypedBaseline DEF BInv, BaselineTypeOK, Typed, RepoRecord, Repos
  <2>2. /\ gclient # "other"
        /\ \A r \in Repos : Passes(r) \/ repo[r].is \in {"init", "torn"}
    BY <2>1 DEF Fetched, Passes
  <2>3. CASE gclient # "absent"
    <3>1. \A r \in Repos : repo[r].is = "head" /\ Unmodified(r)
      BY <2>1, <2>3 DEF Fetched, Ordered
    <3> QED BY <2>1, <2>2, <3>1 DEF FetchRepeats, Fetchable, Passes
  <2>4. CASE gclient = "absent" /\ ~Passes("depot")
    <3>1. repo["src"].is = "absent"
      BY <2>1, <2>2, <2>4 DEF Fetched, Ordered
    <3> QED BY <2>1, <2>2, <2>4, <3>1 DEF FetchRepeats, Passes
  <2>5. CASE gclient = "absent" /\ Passes("depot")
    BY <2>1, <2>2, <2>5 DEF FetchRepeats, Fetchable
  <2> QED BY <2>3, <2>4, <2>5
<1> QED BY <1>1, <1>2, <1>3, PTL DEF Spec
=============================================================================
