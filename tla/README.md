# A verification of mb in TLA+

mb is a Chromium-based browser for Linux. Chromium is fetched and patched; the
code of this repository is the part that is mb's own: a startup gate that finds
a configuration, selects an *environment* (a profile directory of its own) and
remembers it, the application of the configured user interface, a sidebar, and
Python tools that stage, brand and build the patched browser.

The hard part is that a browser start is not alone. A second start overlaps the
first, a process is killed between two system calls, the machine loses power, the
user edits the configuration meanwhile, and the browser writes its preferences
and its session when it likes. The tools have the same trouble: nothing locks the
checkout, the build output or the generated files, they die and are run again,
and the browsers they drive hang, fork and exit when they like. The modules here
model the startup path and the tools under exactly these conditions.

## Inventory

| Component | State it keeps | Operations | What is hard |
|---|---|---|---|
| `browser/user_config_state.cc` | `config.toml`, `state.toml`, temporary state files | ensure the default configuration, read and write the remembered environment | every system call may fail, be overtaken, or be the last; process ids and with them temporary names come back |
| `config/config_file.cc` | none | read and parse a configuration | reads a file others are writing |
| `browser/browser_config_gate.cc` | the published configuration, `--user-data-dir` on the command line | one startup decision in about twelve ordered checks | order of checks and effects; edits between two of them; a second call |
| `config/runtime_config.cc` | none | selection of an environment | precedence, stale names |
| `browser/environment_paths.cc` | environment directories | lexical resolution, audit, preparation | two launches in one tree, bind mounts, symbolic links; the audit is no snapshot |
| `browser/runtime_ui_config.cc`, patch 0010 | per-profile state, "last applied" dictionary | override windows at startup, record what was applied | two stores written asynchronously; batches of restored windows |
| `config/config.cc` | none | text to configuration | boundary values, conflicting key bindings |
| `app/startup_arguments.cc`, patch 0007 | none | rewrite `argv` | two parsers that must agree |
| `app/control_main.cc` | none | `mbctl`: validate, list, path | none: it writes nothing |
| `browser/runtime_shortcuts.cc`, `runtime_ui_actions.h`, patches 0011, 0013 | none | look up key, close button, startup URLs | none |
| `browser/browser_window_adapter.cc`, `ui/sidebar/`, patch 0004 | the menu and its hover lock | commands on tabs by handle, resolved when used | callbacks of the menu |
| `ui/new_tab/`, patches 0003, 0006 | none | a static page | none |
| `tools/product.py`, `packaging/arch/` | the patched source tree, a receipt | prepare, verify, gen, build, stage | crash between two files; user edits to be preserved |
| `tools/branding.py`, `branding_assets.py`, `branding_strings.py` | three managed output directories, each with a marker | check, generate | two programs in one directory; death before the marker; files of the developer's in the way |
| `tools/build_control.py` | a binary | generate branding, compile | runs beside `prepare` |
| `tools/bootstrap.py` | checkouts, `.gclient` | fetch, resumable | death between two commands |
| `tools/upstream.py` | the baseline output, build receipts | verify, hooks, gen, build | edits between what is verified and what is compiled |
| `tools/upstream_smoke.py`, `product_smoke.py`, `startup_config_gate.py`, `environment_smoke.py`, `default_config_smoke.py` | running browsers, evidence | launch, wait, judge, signal, reap | process ids that come back; browsers and descendants that do not end; evidence about another binary |
| `tools/check_upstream.py`, `grit_resource_ids.py` | none | compare pins, renumber ids | none |
| other patches, test runner and server, `third_party/tomlplusplus` | | | not part of the program's own state |

How they interact: `BasicStartupComplete` (patch 0008) calls the gate in every
process. The gate calls `user_config_state` (default configuration, remembered
environment), then `LoadRuntimeConfig`, which calls `config_file`, the parser and
`AuditEnvironmentPaths`, then `PrepareEnvironmentRoot`; it rewrites
`--user-data-dir`, publishes the configuration for the life of the process and,
last, writes the remembered environment. Later `PostProfileInit` and the creation
of each window hand the published configuration to `runtime_ui_config`. Launches
share the file system and nothing else; there is no lock anywhere.

The tools form a chain. `bootstrap.py` fetches the pinned checkouts, `upstream.py`
builds the unmodified baseline from them, `upstream_smoke.py` drives that browser
and leaves evidence, a person reviews it, and `product.py prepare` accepts the
review, has the three generators render the branding, and stages everything into
the checkout; `product.py build` makes the product, on which the other drivers
run. What one hands to the next is a file and the hash in it.

What makes each component correct is what its properties below say; what could
go wrong, line by line, is the list of hazards in `PROJECT.json`.

## Modules

| Module | Models |
|---|---|
| `UserConfigState` | `user_config_state.cc` and `config_file.cc`, one system call a step |
| `RememberedSelection` | what the state file promises: an atomic register |
| `UserConfigStateProofs` | theorems about `UserConfigState` |
| `BrowserConfigGate` | the gate and `runtime_config.cc`, over whole files; uses `RememberedSelection` |
| `EnvironmentPaths` | `environment_paths.cc`, one `openat` or `mkdirat` a step |
| `RuntimeUiConfig` | `runtime_ui_config.cc` and the hooks of patch 0010 |
| `BrowserConfigGateProofs`, `EnvironmentPathsProofs`, `RuntimeUiConfigProofs` | theorems about them |
| `ProductIntegration` | `prepare`, `verify` and `build` of `product.py`, and `stage_release.py` |
| `ProductIntegrationProofs` | theorems about `ProductIntegration` |
| `BrowserHarness` | the four drivers, their browsers, process ids, signals and process groups |
| `UpstreamBaseline` | `bootstrap.py fetch` and the stages of `upstream.py` |
| `BaselineGate` | composes the two with the evidence, the review gate and the stages of `product.py` |
| `BrowserHarnessProofs`, `BaselineGateProofs` | theorems about them |
| `ManagedOutput` | the three generators and the two programs that run them |
| `ManagedOutputProofs` | theorems about `ManagedOutput` |
| `MC…` | values of the constants for TLC, symmetry |

Definitions whose comment begins with "Slip" are not part of any specification:
each is a plausible mistake in the operation next to it, kept to show that a
property notices it.

### UserConfigState

A launch goes through `ensure, check` (`EnsureDefaultConfig`), `write, sync,
close, discard, syncDir` (`WriteAll`, `FinishCreatedFile` and the directory
`fsync`, for either file), `read, reading` (`ReadRememberedEnvironment`), `load,
loading` (`LoadConfigFile`), `choose`, `temp`, `rename`
(`WriteRememberedEnvironment`). Every step has the code's error path: a failed
`config.toml` ends the launch, a failed state file does not. A launch makes at
most one file of each kind, so files are named by the launch; names are what the
code goes by, and they are separate: a temporary name is a process id and an
attempt, and process ids are reused. The text of a file is a length; only a
complete one parses.

The disk: a directory operation is visible at once and survives a power loss
only from the next `fsync` of the directory on; until then any version since the
last one may be what is left (`configDisk`, `stateDisk`). A file keeps at least
the part it had at its last `fsync`. This is weaker than what usual file systems
give. `Exit` ends a process between any two steps, `PowerLoss` all of them.

Not modelled: the directories above the files (they are `EnvironmentPaths`'
subject; opening them is part of a step that may fail), and that a power loss may
take one of them, made by the first launch and never synchronized in its parent,
with all that is in it; the size limits (a
failure like any other), signals (`EINTR` is a repeated call), and a `umask`
that takes the owner's own bits, which `docs/environments.md` excludes.

### RememberedSelection

The register: `Record` replaces the value, `MakeDurable` makes the current value
the only one that survives, `PowerLoss` picks a survivor. `UserConfigState`
implements it under the mapping "the content of the file `state.toml` names",
with an incomplete file mapped to a value the register does not have, so that a
torn file would be a step the register cannot make.

### BrowserConfigGate

One action per phase of `InitializeExplicitBrowserConfig`: `Enter` (child,
opt-out and refusals, in the order of the source), `Ensure`/`Finish`, `Read`,
`Load` (parse, audit, selection, URLs and the check of `--user-data-dir`, none
of which changes anything), `Prepare`, `Install`, `Remember`/`Flush`. A document
is what the gate distinguishes: roots, default, `restore_last_environment`, bad
URLs. The user may move another document into either file at any step, and a
process may enter the gate again with the command line the first call rewrote.
The state file is the register, which `UserConfigState` justifies; a default
document being written is `Torn` and does not load.

A power loss ends all processes and leaves of the register what it may. By the
rule for directories above, it also takes any of the roots, because
`environment_paths.cc` never synchronizes a directory it makes one in, and it
tears or takes a default configuration a launch wrote. So an environment can be
remembered whose root is gone, and the properties say what holds then:
`RunsInSelectedRoot`, that the launch which resumes it has made the root again
before it publishes anything.

### EnvironmentPaths

Directories are nodes of a graph and paths are sequences of names, so a bind
mount is a second name of a node. `AuditOpen` and `CreateOpen` are one round of
`Walk`'s loop each, `Mkdir` and `Reopen` the rest of a round that creates. What a
directory is found to be (private, a tolerable ancestor, unsafe, or something
`O_DIRECTORY | O_NOFOLLOW` does not open) does not change while launches run:
others than the user cannot change it by the checks themselves, and the user
doing so is outside the model. `Trees` and `Requests` are the initial trees and
configurations; two assumptions say what is true of any: a given tree hangs
together without the directories launches are yet to make, and the components of
a path that passes are names. `Route` follows a path through a tree, for the
properties.

### RuntimeUiConfig

One profile over several runs of the browser. `state` is the C++ `State`;
`CreateWindow` is `OverrideInitialSidebarConfig`, the construction of the native
controller and `DidInitializeSidebarConfig`, which `BrowserWindowFeatures::Init`
calls in a row, so `initialization_pending` needs no variable. `scope` is the
`ScopedInitialUiConfigRestore`. Chromium's own part is external: it gives a
restored window its saved state and any other the profile's preferences, and
writes preferences and session to disk at any time or not at all before a run
ends. The two sidebar options are handled alike and separately, so `Fields` is a
parameter; the theme goes by the same dictionary.

### ProductIntegration

The developer's machine: the sources in `mb/` (`wanted`), the Chromium checkout
(`tree`), the integration receipt, the release output and the build receipts. A
file is copied from `mb/`, or it is an upstream file some patch edits; a
patch is both a copied source and the reason an upstream file changes, and a
version of it may stop naming that file. `prepare` refuses patches that name no
file at all (`ReadPatches`). Bytes and their hash are one value.

`prepare` is `ReadPatches`, `ReadSources` (the two times it reads `mb/`),
`Check`, `Retire` per file, `Write` and `Replace` per file (the temporary and
the rename), and `WriteReceipt`, which lists `mb/` a third time. `Interrupt` ends
it anywhere, as a kill or a failed call. The order of files within one phase is
left open. `StartBuild` is `verify` and the choice of targets, `Compile` one
target, `FinishBuild` the build receipt; `StageRelease` is `validate_receipt` and
the copies. The developer changes a source, or edits, deletes or resets a file
of the checkout, at any moment; one `prepare` and one build run at a time, also
beside each other. `history` remembers for the properties who interfered with
what, and no action of the tools reads it.

`check_changes`, `verify` and the stager's validation with its copies are one
step each: the model does not interleave edits with the reading of single files
there. The scan for running browsers, the review gate, pins and dependency
revisions are in `BaselineGate`. Left out: free space, the choice of the debug
profile and the test stages. A build is taken to recompile what changed, and
different checkouts to give different binaries.

### BrowserHarness

A process id has a leader and perhaps descendants in its group; it is free again
once the leader is reaped and the group empty. A browser exits, forks and loses
descendants at any time, and others take free ids while a driver runs. A driver
is a script (`Script`) of launches and waits and a cleanup: `kill_group` and
`terminate_group` are `Peek`, `Terminate`, `SeeExit`, `Overdue`, `KillRest`,
`GiveUp` and `ReapGroup`, one signal or wait each; the smoke test's own cleanup,
of the leader only, is `SmokePoll` to `SmokeGivesUp`. Every wait has a timeout in
the code, so wherever a driver waits it also has a step that gives up (`Raise`,
`CaseTimesOut`, `Overdue`, `GiveUp`). `Die` ends a driver anywhere; its browsers
then belong to nobody.

`astray` remembers a signal that reached a process other than the browser it was
for. What a driver types into a window or reads of pages, titles, locks and
preferences is one check that passes (`Show`, or no `Raise`) or fails. Time has
no length.

### UpstreamBaseline

`fetch` is one action per command: the directory, `git init`, `git remote add`,
the checks of an existing checkout, fetch and checkout, the Python bootstrap, the
two halves of writing `.gclient` in place, and the sync. The stages of
`upstream.py` are `StageBegin` (its verification), what they run, and the build
receipt. `Stop` ends any of them anywhere: a check, a failed command or a kill.
The developer edits and moves checkouts, changes pins, arguments and `.gclient`.
Git, gclient, gn and ninja are outside; a command has its effect or fails, with
two exceptions. A stopped sync may leave the nested checkouts between two lists.
A stopped `git fetch` or `git checkout` leaves the repository *torn*: a lock, or
files of the revision, and no `HEAD`. `ensure_repo` looks at `HEAD` only and goes
on with such a repository, where Git may refuse (`Stop`) or finish; that is the
case `docs/build-arch-linux.md:58` leaves to a person. By hand only Chromium's
checkout is moved, together with its pin; the history variable `moved` notes it.

### BaselineGate

One machine: a tool, a driver and a stage of `product.py` at a time, side by
side. The smoke test is checked (`SmokeCheck`, `SmokeBegin`) before its browser
is launched from whatever is at the path then; `results.json` is written when it
ends. `prepare` is the scan, the identity check, `AcceptGate` (`verify_gate`) and
`Integrate`; the person's review is taken to approve any evidence. `build` is one
step here. How the files are staged is `ProductIntegration`. Receipts are of
this baseline's shape; the verification of a product's receipt before a driver
launches it is reduced to a product being built, since the drivers' own steps do
not depend on it.

### ManagedOutput

A directory maps names to the version of the manifest an output was generated
from, or to nothing, a file of the developer's, or something not regular. An
output whose name is fixed stands for all of them, the .desktop file for the one
whose name comes from the manifest. A program goes through its directories:
`Load` (`load_manifest`), `Digest` (the second read for the receipt of the
strings), `Check`, then `OpenTemporary` and `Replace` per file, `RemoveStale`,
and the marker. `branding_assets.py` checks before it reads, the other two read
before they check. A program that raises unlinks its temporary, one that dies
leaves it (`stray`).

## Runs

| Run | Instance | Shows |
|---|---|---|
| `state_concurrent` | 3 launches, 2 process ids, 2 attempts, one-write documents | the state file under concurrency, reuse of ids and power loss: `AcknowledgedSurvives`, `RenameInstallsOwnFile`, `TemporariesAccountedFor` |
| `state_implements_register` | 2 launches, two-write documents, 2 environments, user edits, fairness | the refinement `ImplementsRegister`, `StateAlwaysComplete`, `ReadsAreWhole`, `CreatedConfigSurvives`, `ExistingConfigKept`, `LaunchReturns` |
| `config_usable` | 2 launches | **violated**: see below |
| `startup_gate` | 2 processes, 11 command lines, 2 calls each; 3 documents and the template, each of which the user may move into place | `RunsInSelectedRoot`, `LeftByAcceptedLaunches`, `SelectionResumesLast`, `OthersLeaveDefaultsAlone` |
| `gate_published` | the same | **violated**: see below |
| `environment_roots` | 2 launches, 7 configurations of 2 environments, 8 trees | `RootsKeptApart`, `PreparedIsWherePathLeads`, `MadeOnlyForAuditedSelection`, `LaunchesTolerateEachOther` |
| `runtime_ui` | 3 runs, 2 windows, 2 values, one sidebar option and the theme | `MarkerIsHonest`, `BatchGetsConfigured`, `NativeStateKept`, `ChoiceSurvivesRestart` |
| `product_release` | 2 patches with an upstream file each, 2 versions, 2 targets; 2 steps of the developer, 2 prepares, 2 builds | `EditsKept`, `CompletedPrepareVerifies`, `InterruptedPrepareRepeats`, `VerifiedIsCurrentSource`, `PackagedFromIntegration` |
| `product_verify` | the same and a copied source; 1 step of the developer, no builds | **violated**: see below |
| `product_binary` | the same | **violated**: see below |
| `baseline_gate` | 2 pins, 1 edit, 2 stages of `product.py`, 1 run of a driver, 3 process ids of which others take one, 2 cases of the startup gate; from a fresh machine or an installed one | `GateIsSmokedBaseline`, `SignalsStayOwn`, `FetchRepeats`, `CleanupFinishes` |
| `managed_output` | 2 valid manifests with different .desktop names and an invalid one, 2 programs, 2 edits, 1 other step of the developer | `OthersKept`, `CalmRunIsWhole`, `InterruptedRunRepeats` |

Why the bounds are enough. *Launches*: a name collision needs the process that
left the name, the one that reuses it and a third that renames in between; the
rest needs two. *Attempts*: with two process ids and two attempts every name can
be taken; with one attempt the exhausted case is the usual one. *Size*: two writes
make a torn document, one is enough where tearing is not the question.
*Documents*: one that moves a root, one that drops restoring, one with a bad URL
in the environment that is not selected. *Trees*: each kind of obstacle and each
place a second name can have above, at and below a root. *Runs* of the browser:
a value is applied, changed, and changed back. *Values*: configured and chosen
values only have to be different. *Prepares*: the second meets what the first
left, complete or not, and *two steps of the developer* fall before, between and
into them. *Patches*: `prepare` needs one that changes a file, so it takes a
second for one to be deleted, or to stop naming its file, and the file to be put
back. A patch is itself copied as a source; another source is only copied, and
is in `product_verify`. `product_release` looks at a *view* of the state (`Seen`)
that forgets which tree the sandbox was built of: no step and no property asks
more of it than whether it is there. The theorems below hold without any of
these bounds, and without the view.

In `baseline_gate`, *process ids*: a reused id needs the browser that had it and
another process that takes it; the third is for a second browser beside. One run
of a driver is enough for `SignalsStayOwn`, since a driver remembers nothing of
an earlier one. *Cases*: the startup gate's cases are alike and one follows the
other. *Stages*: one `prepare` integrates and a second meets its integration, or
a `build` does. The machine starts fresh, or with an accepted baseline and the
product, so that both ends of the chain are reached within one run of a driver.
One step of the developer is any edit, or a checkout moved with its pin. Six
reductions keep it small and are named where they are: no tool is in the
middle of something while a driver is past its launch (`Launched`), tools go on
after the last driver only beside evidence that may be accepted and when its
processes have ended (`Goes`), `product.py` runs beside evidence only
(`ProductStages`) and not again when it stopped without effect (`StageScan`),
descendants are followed at shared ids only (`Shared`), and ids that only
drivers get are interchangeable (`LaunchBrowser`). The theorems assume none of
the numbers. In `managed_output`, two programs are
enough for one to follow or overtake the other, two versions for a stale name,
two edits for a change and its undoing, or an invalid manifest in between.

No run checks for deadlock: launches and tools end, and nothing obliges another to
start.

Fairness is assumed in two runs. In `baseline_gate` it is weak fairness of the
driver, which is never without a step because each of its waits has a timeout in
the code, and of the kernel's end of what was sent `SIGKILL`. No browser is
obliged to end by itself or on `SIGTERM`. `CleanupFinishes` then says that every
driver which is not killed ends, and that no descendant outlives a group the
driver reports as terminated and reaped; it does not say so of groups it had to
give up on, or of the smoke test, which only signals the leader.

In `state_implements_register` it is weak
fairness of the steps of each process: the kernel runs a process that can run,
and no step of the code waits for another process. Starting, dying, losing power
and editing are never obliged. `LaunchReturns` needs nothing more: it says that
exhausted names, short writes and files changing underneath never keep a launch
in a loop.

### Violated statements

* `EnsuredConfigIsUsable` — "The template contains a usable personal
  environment" (`user_config_state.h:37`). `config.toml` is created under its
  final name and written in place, and a later launch checks only owner and mode
  of what it finds. A launch that overlaps the first start, or any launch after
  one that died while writing, loads an empty or partial document and is
  rejected; after a death this stays so until the user removes the file. The
  state file is written through a temporary and has no such behaviour.
* `PublishedOnlyForExplicitConfig` — "Null for children and browser processes
  without explicit --config" (`browser_config_gate.h:18`). The code discovers,
  creates, loads and publishes the default configuration and remembers the
  selection; the header describes an earlier gate. `docs/configuration.md`
  describes the present one.
* `VerifyChecksProductSource` — "`product.py verify` checks those files and
  current product source" (`docs/product-integration.md:51`). `prepare` reads the
  patches, then all of `mb/`, and at the end the names in `mb/`, each for itself,
  and renders icons and writes files in between. A patch edited after the first
  read is applied in its old version and recorded in its new one, and `verify`
  accepts the checkout. If no source changes during a `prepare`, the statement
  holds (`VerifiedIsCurrentSource`).
* `RecordedBinaryIsOfItsBuild` — "A successful browser build records the renamed
  ELF hash" (`docs/product-integration.md:54`). So does a successful build with
  `--targets` that leave the browser out: it hashes the binary an earlier build
  made, perhaps of another integration, and the stager takes the receipt. For
  builds of the default targets the package is of its integration
  (`PackagedFromIntegration`).

What holds with a proviso is worth reading with it. A killed `prepare` can be
repeated (`InterruptedPrepareRepeats`) on unchanged sources and if it left no
temporary file; otherwise the next one refuses, and a person has to clean up. An
edit of the checkout is kept (`EditsKept`) if it was there when `prepare` looked.
The accepted baseline is the smoked one (`GateIsSmokedBaseline`) unless something
was edited while a build compiled it, a build ran between the smoke test's hash
of the binary and its launch, or a checkout was moved by hand without gclient:
then its dependencies are of another revision, which `verify_dependencies`
cannot see. `fetch` can be repeated (`FetchRepeats`) unless it died between
`git init` and `git remote add`, inside `git fetch` or `git checkout`, or inside
the write of `.gclient`: then one repository, or the `.gclient`, has to be
looked at, and never more than one thing, since each is begun when the one before
is finished. A launch that restores takes the default (`SelectionResumesLast`)
when the environment remembered last is not configured any more. A generator
refuses its own directory (`InterruptedRunRepeats`) after a run that was cut
short before the first marker, in `branding` also when that run was to introduce
the .desktop name, and in `strings` whenever outputs and receipt may differ.
After two runs that overlapped it may refuse too, or a .desktop file no marker
lists may stay and be staged (`CalmRunIsWhole`). Each of these needs a person.

## Proofs

Every invariant and every action property that a run checks, and the refinement,
is also a theorem, for every value of the constants that the modules' named
assumptions allow. Hardly one of them is inductive; what has to be said besides,
and why, is below, component by component.

### The configuration and the remembered selection

`UserConfigStateProofs`, for any sets of launches, process ids and environments
and any number of attempts and writes:

| Theorem | States |
|---|---|
| `TypeCorrect` | `Spec => []TypeOK` |
| `RenameIsOwn` | `Spec => []RenameInstallsOwnFile` |
| `NoTemporaryLeaks` | `Spec => []TemporariesAccountedFor` |
| `StateNeverTorn` | `Spec => []StateAlwaysComplete` |
| `ReadersSeeWholeStates` | `Spec => []ReadsAreWhole` |
| `AcknowledgedWritesSurvive` | `Spec => []AcknowledgedSurvives` |
| `StateFileIsRegister` | `Spec => ImplementsRegister` |
| `CreatedConfigIsDurable` | `Spec => []CreatedConfigSurvives` |
| `ExistingConfigIsKept` | `Spec => ExistingConfigKept` |

Assumed: the markers of `config.toml` are no launches, at least one write and one
attempt, at least one environment, and no environment called like one of the
three marks for "nothing", "unreadable" and "malformed" (an environment name is
portable, the marks are not). The argument goes in four layers, each proved with
the ones before it:

1. `Typed`: the type invariant. It carries the one arithmetic fact that matters,
   that `WriteAll` never writes past the document.
2. `Ownership`: a temporary name leads to the file of the live launch that holds
   it or of a dead one, in the present directory and in every version that may
   survive. `O_EXCL` gives it, and the rule that no two live processes share an
   id keeps it; `RenameInstallsOwnFile` and `TemporariesAccountedFor` follow.
3. `Durability`: a file a launch has synchronized is complete and synchronized
   from then on, and `state.toml` leads only to such files in every version of
   the directory. It needs layer 2: a rename goes by name, and must move the file
   that was synchronized. `StateAlwaysComplete` and `ReadsAreWhole` follow.
4. `Acknowledgement`: the versions that may survive are no older than the last
   acknowledged rename, in the order of renames. `AcknowledgedSurvives` follows.

The refinement uses layer 3 (the content of `state.toml` is always a value of
the register, and the selection of a launch whose file is in place no longer
changes) and maps every action to a step of the register or a stutter. The
theorems on `config.toml` say of the versions of its directory, in layer 3's
terms, whose file they may lead to once a launch reported it created.

### The gate

`BrowserConfigGateProofs`, for any processes, documents, command lines and number
of calls:

| Theorem | States |
|---|---|
| `GateTypes` | `Spec => []TypeOK` |
| `GateRunsInSelectedRoot` | `Spec => []RunsInSelectedRoot` |
| `GateLeftByAcceptedLaunches` | `Spec => []LeftByAcceptedLaunches` |
| `GateSelectionResumesLast` | `Spec => []SelectionResumesLast` |
| `GateOthersLeaveDefaultsAlone` | `Spec => OthersLeaveDefaultsAlone` |
| `GateUsesRegister` | the gate uses the remembered selection as `RememberedSelection` allows |

Assumed: `GateAssumption`, that documents are not called like the marks for a
missing or torn one, that their roots belong to environments, and that `--config`
is absent, blank or a file. The invariant says of each process where in the gate
it may be with which line, snapshot and publication (`Phased`), what the value it
recalled is worth (`Recalled`), and that an accepted snapshot is never taken
again (`Resumes`), so that whatever a launch left keeps the launch that accounts
for it. A power loss may take any root, so `RunsInSelectedRoot` is about the
processes that live: each has made its root itself before it installed anything
(`Phased`), and no process outlives a power loss. `GateUsesRegister` closes the
composition: every step of the gate is a step of the register or leaves it alone,
and `StateFileIsRegister` says that the files behave as that register.

### Environment roots

`EnvironmentPathsProofs`, for any launches, environments, components, depth,
configurations and initial trees:

| Theorem | States |
|---|---|
| `EnvironmentTypes` | `Spec => []TypeOK` |
| `PreparedRootIsConfigured` | `Spec => []PreparedIsWherePathLeads` |
| `EnvironmentsKeptApart` | `Spec => []RootsKeptApart` |
| `OnlyAuditedSelectionIsMade` | `Spec => []MadeOnlyForAuditedSelection` |
| `LaunchesDoNotInterfere` | `Spec => []LaunchesTolerateEachOther` |

Assumed: `PathAssumption`, `TreeAssumption` and `RequestAssumption`, described
above. The question the audit raises is that it is no snapshot: while one launch
walks, another makes directories. The answer has three parts. `RouteGrows`:
launches only add to the tree, so a path goes on to lead where it led. `Joined`:
a made directory has one name, so two paths that meet in one parted from a
*found* directory and went on by the same components; hence every alias shows at
a found directory already (`MeetingIsClash`). `SoundStays`: so whether a request
is sound is decided by what was found, and no launch changes it for another. The
invariant `PInv` then follows each launch: what it inspected is still as it found
it (`Traced`), and an audit that ends well has shown the request sound
(`RootAudited`).

What a path leads to is defined by recursion. The library's induction theorems
take an operator as a parameter, but its theorem on minimal elements does not:
`Least` derives from it that a set of numbers has a least one, and `Stepwise`
from that the induction along a path which `RouteSteps`, `RouteGrows` and
`Joined` use.

### The user interface

`RuntimeUiConfigProofs`, for any options, values, windows and number of runs:

| Theorem | States |
|---|---|
| `UiTypes` | `Spec => []TypeOK` |
| `UiMarkerIsHonest` | `Spec => []MarkerIsHonest` |
| `UiBatchGetsConfigured` | `Spec => BatchGetsConfigured` |
| `UiNativeStateKept` | `Spec => NativeStateKept` |
| `UiChoiceSurvivesRestart` | `Spec => ChoiceSurvivesRestart` |

Assumed: `OptionsAssumption`, that the theme is no sidebar option and the mark for
"absent" no value and no state. A configuration is either wholly unrecorded, in
memory and on disk, or wholly recorded (`Unrecorded`, `Recorded`); the scope
object and the depth agree (`Scoped`), and what a window was given is what is
owed from the first window on (`Given`).

### The product

`ProductIntegrationProofs`, for any sources, patches, targets and bounds:

| Theorem | States |
|---|---|
| `TypeCorrect` | `Spec => []TypeOK` |
| `PreparePreservesEdits` | `Spec => EditsKept` |
| `VerifyMeansCurrentSources` | `Spec => []VerifiedIsCurrentSource` |
| `CompletionIsVerified` | `Spec => []CompletedPrepareVerifies` |
| `InterruptionIsRepeatable` | `Spec => []InterruptedPrepareRepeats` |
| `PackageIsOfItsIntegration` | `Spec => []PackagedFromIntegration` |

Assumed: sources and upstream files have different names, every patch edits one
upstream file of its own, and no version is called like a missing, pristine or
edited file. The inductive invariant says what a running `prepare` carries from
its reads to its writes (`Carried`), that past the check a person's work among
the files it may touch is newer than the check (`Guarded`; `CheckFindsWork` is
the lemma that the check establishes it), and that a payload or receipt with
which no source change raced is the payload of one state of the sources
(`Matched`). `EditsKept` follows from the second part, the meaning of `verify`
from the third: the receipt's file set and hashes pin that state down. What an
undisturbed `prepare` has left at each of its steps (`Undisturbed`) gives the
completed and the interrupted run, and what binaries were compiled from
(`Compiled`) gives the package.

### The tools

`BrowserHarnessProofs`, `BaselineGateProofs` and `ManagedOutputProofs`, for any
process ids, cases, runs, pins, manifests and steps of the developer:

| Theorem | States |
|---|---|
| `DriverSignals` | `HarnessSpec => []SignalsStayOwn` |
| `DriverTypes` | `HarnessSpec => []HarnessTypeOK` |
| `GateDrives` | `Spec => HarnessSpec`: the composition drives browsers as `BrowserHarness` says |
| `GateSignals` | `Spec => []SignalsStayOwn`, from the two |
| `GateRestsOnSmokedBaseline` | `Spec => []GateIsSmokedBaseline` |
| `GateTypes` | `Spec => []TypeOK` of `BaselineGate` |
| `FetchCanBeRepeated` | `Spec => []FetchRepeats` |
| `ManagedTypes` | `Spec => []TypeOK` of `ManagedOutput` |
| `ManagedKeepsOthers` | `Spec => OthersKept` |
| `CalmReadsOneManifest` | `Spec => []CalmRunIsWhole` |
| `InterruptedRunCanRepeat` | `Spec => []InterruptedRunRepeats` |

Assumed: "no process id" is none, there is at least one case and one pin,
versions of the manifest and pins are not called like the marks for absent or
torn, and a .desktop file has no name of a fixed output. `SignalsStayOwn` needs,
for every phase of a driver, that the browser it is about to signal is launched
and not reaped (`Holding`, `Stopping`, `Cleaning`, `Smoking`), and that a process
id a driver remembers without an exit code still has the leader it launched or
the zombie of it (`Owned`), which is what `WNOWAIT` is for.
`GateIsSmokedBaseline` rests on what the receipts, a running build, a running
smoke test and its evidence each say of the binary, unless one of the named
exceptions happened. The types add what was judged and recorded (`Judged`,
`Recorded`), and `FetchRepeats` what a `fetch` has made by each of its commands
and in which order (`Fetched`, `Ordered`, `Pinned`).

`OthersKept` rests on `Checked`: past its check, whatever a generator found of
the developer's under a name it may touch is listed by the marker it read
(`AcceptedIsOwned` is the lemma about the three checks), however files and
markers change afterwards. The other two need an account of every generated file
(`MInv`): while no runs have overlapped it is in the marker, or of a run that
was cut short, or of the one program at work there (`Listed`, `Alone`, `Held`),
and a calm program has made every directory behind it whole (`Calm`).

### Only model-checked

Liveness (`LaunchReturns`, `CleanupFinishes`) is out of this prover's reach and
stays with TLC. So are the four violated statements, each a behaviour TLC shows.
That the modules are about the code is no theorem either: `PROJECT.json` names
the lines of every definition.

## Plan

Done: the modules above, and a theorem for each of their safety properties. What
is left:

1. An abstract specification of what `environment_paths.cc` promises the gate (a
   launch audits and prepares at one moment, or is refused for the tree it
   found), with `EnvironmentPaths` shown to implement it and `BrowserConfigGate`
   shown to use it, as `RememberedSelection` is between `UserConfigState` and the
   gate. Its content is in `EnvironmentPathsProofs` already, as invariants.
2. `check_changes`, `verify` and the stager reading file by file beside an edit,
   which are one step each now.

## Not modelled

* `config.cc` and `startup_arguments.cc`: functions of one text, without state.
  The modules take their results, a document or a rejection and a command line,
  as inputs. Their boundaries are a matter of text, which the unit tests
  enumerate better than a model of it would.
* `runtime_shortcuts.cc`, `runtime_ui_actions.h` and `control_main.cc` read a
  configuration that does not change and write nothing.
* The sidebar and its window adapter: what makes them hard, the callbacks of a
  menu, is decided by the order of Chromium's calls, which this repository does
  not contain. The adapter resolves a tab's handle when it is used.
* Rendering of texts, icons and pages, the native patches that only remove or
  rename, downloads, `check_upstream.py`, `grit_resource_ids.py`, the test page
  server, the runner of the test binary, and the TOML library.
