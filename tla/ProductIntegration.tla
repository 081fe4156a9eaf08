------------------------- MODULE ProductIntegration -------------------------
(***************************************************************************)
(* The product overlay and the release made of it: product.py `prepare`,   *)
(* `verify` and `build`, and the Arch stager stage_release.py.             *)
(*                                                                         *)
(* `prepare` copies the product sources of mb/ into the Chromium checkout, *)
(* patches upstream files there, and writes a receipt of what it staged.   *)
(* `build` verifies the checkout against that receipt and compiles for     *)
(* hours; the stager packages a build its receipt vouches for. None of     *)
(* them takes a lock, any of them can be killed, and the developer edits   *)
(* the sources and the checkout while they run.                            *)
(*                                                                         *)
(* A file's bytes and its SHA-256 are one value here: a version of the     *)
(* sources, the pinned upstream blob, or an edit nobody recorded.          *)
(***************************************************************************)
EXTENDS Naturals, FiniteSets

CONSTANTS
    Modules,      \* files of mb/ that are copied as they are
    Patches,      \* files of mb/patches: copied too, and applied upstream
    Upstream,     \* Chromium files some patch names
    PatchedFile,  \* the upstream file a patch edits
    Versions,     \* contents the developer gives a source file
    Touching,     \* versions of a patch that still name its upstream file
    Targets,      \* what the default `build` compiles
    MaxActs,      \* bound: steps of the developer
    MaxPrepares,  \* bound: runs of prepare
    MaxBuilds     \* bound: runs of build

ASSUME FilesAssumption ==
    /\ Modules \cap Patches = {}
    /\ (Modules \cup Patches) \cap Upstream = {}
    /\ PatchedFile \in [Patches -> Upstream]
    /\ \A p, q \in Patches : PatchedFile[p] = PatchedFile[q] => p = q
    /\ Touching \subseteq Versions
    /\ "chrome" \in Targets
    /\ Versions \cap {"absent", "pristine", "edit"} = {}

ASSUME BoundsAssumption ==
    MaxActs \in Nat /\ MaxPrepares \in Nat /\ MaxBuilds \in Nat

Sources == Modules \cup Patches

\* The files of the checkout the overlay owns or patches. The overlay's own
\* are not tracked by Chromium's Git.
Dest == Sources \cup Upstream

Absent == "absent"
Pristine == "pristine"
Edit == "edit"
Contents == Versions \cup {Absent, Pristine, Edit}

\* What a file of the checkout is when neither prepare nor anyone else has
\* touched it.
Untouched(n) == IF n \in Upstream THEN Pristine ELSE Absent

NoReceipt == [stamp |-> 0, files |-> << >>, sources |-> {}]
NoOutput == << >>
NoPackage == [chrome |-> NoOutput]
NoName == "none"

VARIABLES
    wanted,    \* the product sources in the repository's mb/
    tree,      \* the checkout's files
    stray,     \* a `.product-` temporary file lies in the checkout
    receipt,   \* .build/product-integration.json
    prep,      \* the running prepare
    out,       \* the release output directory: what each target was built of
    build,     \* the running build
    built,     \* the successful build receipts under .build/logs
    package,   \* the staged Arch package
    acts, prepares, builds,  \* bounded counters
    history    \* what the properties remember; no step of the code reads it

vars == <<wanted, tree, stray, receipt, prep, out, build, built, package,
          acts, prepares, builds, history>>

Idle == [phase |-> "idle"]

-----------------------------------------------------------------------------
(* What prepare computes before it changes anything.                       *)

\* A Python dictionary updated with another, which wins.
Merged(d, e) == [n \in DOMAIN d \cup DOMAIN e |->
                    IF n \in DOMAIN e THEN e[n] ELSE d[n]]

\* The source files that exist.
Present(ws) == {s \in DOMAIN ws : ws[s] # Absent}

\* patch_payload: the upstream files the patches name, each the pinned blob
\* with the patch applied.
PatchPayload(ws) ==
    LET live == {p \in Patches : ws[p] \in Touching}
    IN  [u \in {PatchedFile[p] : p \in live} |->
            ws[CHOOSE p \in live : PatchedFile[p] = u]]

\* generated_payload: every file of mb/ as it is.
SourcePayload(ws) == [s \in Present(ws) |-> ws[s]]

\* retired_payload: what the previous receipt staged and this payload does
\* not. Files Git tracks go back to the pinned blob, the others are moved out.
Retired(previous, payload) == DOMAIN previous \ DOMAIN payload
Moves(previous, payload) == Retired(previous, payload) \ Upstream

\* Slip: files of retired patches stay as they are.
RestoresNothing(previous, payload) == << >>

Restores(previous, payload) ==
    [u \in Retired(previous, payload) \cap Upstream |-> Pristine]

\* The files `git diff HEAD` and `git ls-files --others` name.
Changed == {n \in Dest : tree[n] # Untouched(n)}

\* Slip: contents are not compared; or the intended result is not accepted.
RecognisedAnything(payload, original, previous, n) == TRUE
RecognisedOldOnly(payload, original, previous, n) ==
    \/ tree[n] = Absent /\ n \notin original
    \/ n \in DOMAIN previous /\ tree[n] = previous[n]
    \/ n \in original /\ tree[n] = Pristine

\* check_changes(payload, original, previous): nothing unrelated has changed,
\* no upstream file is missing, and every file is one prepare recognises.
Recognised(payload, original, previous, n) ==
    \/ tree[n] = Absent /\ n \notin original
    \/ n \in DOMAIN previous /\ tree[n] = previous[n]
    \/ n \in DOMAIN payload /\ tree[n] = payload[n]
    \/ n \in original /\ tree[n] = Pristine

CheckChanges(payload, original, previous) ==
    LET allowed == DOMAIN payload \cup DOMAIN previous
    IN  /\ Changed \subseteq allowed
        /\ ~stray
        /\ \A n \in allowed : Recognised(payload, original, previous, n)

\* Slip: only the sources that still exist are compared.
VerifyPresentSources ==
    \A s \in Present(wanted) :
        s \in DOMAIN receipt.files /\ receipt.files[s] = wanted[s]

\* verify_product_sources: the sources are the files the receipt lists, with
\* the bytes it recorded for them.
VerifyProductSources ==
    /\ Present(wanted) = receipt.sources
    /\ \A s \in Present(wanted) :
         s \in DOMAIN receipt.files /\ receipt.files[s] = wanted[s]

\* verify(): the receipt exists and names the staged files, the sources are
\* those it was made of, and nothing else in the checkout has changed.
Verifies ==
    /\ receipt # NoReceipt
    /\ \A n \in DOMAIN receipt.files : tree[n] = receipt.files[n]
    /\ VerifyProductSources
    /\ CheckChanges(<< >>, {}, receipt.files)
-----------------------------------------------------------------------------
(* The developer, at any time.                                             *)

\* A source file is edited, added or deleted.
ChangeSource(s, v) ==
    /\ acts < MaxActs
    /\ wanted[s] # v
    /\ wanted' = [wanted EXCEPT ![s] = v]
    /\ acts' = acts + 1
    /\ history' = [history EXCEPT !.steady = FALSE, !.raced = TRUE]
    /\ UNCHANGED <<tree, stray, receipt, prep, out, build, built, package,
                   prepares, builds>>

\* A file of the checkout is edited, deleted, or put back as upstream has it.
ChangeTree(n, c) ==
    /\ acts < MaxActs
    /\ c \in {Edit, Absent, Untouched(n)} \ {tree[n]}
    /\ tree' = [tree EXCEPT ![n] = c]
    /\ acts' = acts + 1
    /\ history' = [history EXCEPT !.steady = FALSE, !.quiet = FALSE,
                                  !.late = @ \cup {n}]
    /\ UNCHANGED <<wanted, stray, receipt, prep, out, build, built, package,
                   prepares, builds>>

\* The leftover of a killed prepare is removed by hand: no tool does it.
RemoveStray ==
    /\ acts < MaxActs
    /\ stray
    /\ prep.phase # "replace"
    /\ stray' = FALSE
    /\ acts' = acts + 1
    /\ history' = [history EXCEPT !.steady = FALSE]
    /\ UNCHANGED <<wanted, tree, receipt, prep, out, build, built, package,
                   prepares, builds>>
-----------------------------------------------------------------------------
(* prepare                                                                 *)

\* prepare reads the previous receipt, then the patches, and ends there unless
\* they change at least one file.
ReadPatches ==
    /\ prep = Idle
    /\ prepares < MaxPrepares
    /\ DOMAIN PatchPayload(wanted) # {}
    /\ prep' = [phase |-> "patched", previous |-> receipt.files,
                patched |-> PatchPayload(wanted)]
    /\ prepares' = prepares + 1
    /\ history' = [history EXCEPT !.steady = TRUE, !.raced = FALSE,
                                  !.last = "none"]
    /\ UNCHANGED <<wanted, tree, stray, receipt, out, build, built, package,
                   acts, builds>>

\* generated_payload reads mb/ again, after the patches were applied in a
\* scratch repository. The payload is what is to be staged from here on.
ReadSources ==
    /\ prep.phase = "patched"
    /\ LET payload == Merged(SourcePayload(wanted), prep.patched)
       IN  prep' = [phase    |-> "check",
                    previous |-> prep.previous,
                    patched  |-> DOMAIN prep.patched,
                    payload  |-> payload,
                    restores |-> Restores(prep.previous, payload),
                    todo     |-> Moves(prep.previous, payload),
                    writing  |-> NoName]
    /\ UNCHANGED <<wanted, tree, stray, receipt, out, build, built, package,
                   acts, prepares, builds, history>>

\* payload | restores: what prepare writes.
Staged == Merged(prep.payload, prep.restores)

Validated ==
    CheckChanges(Staged,
                 prep.patched \cup DOMAIN prep.restores, prep.previous)

\* The check precedes every move and every write; a refused prepare changes
\* nothing.
Check ==
    /\ prep.phase = "check"
    /\ \/ /\ Validated
          /\ prep' = [prep EXCEPT !.phase = "retire"]
          /\ history' = [history EXCEPT !.late = {}, !.last = "started"]
       \/ /\ ~Validated
          /\ prep' = Idle
          /\ history' = [history EXCEPT !.last = "refused"]
    /\ UNCHANGED <<wanted, tree, stray, receipt, out, build, built, package,
                   acts, prepares, builds>>

\* A retired file is moved to the dated archive, if it is still there.
Retire(n) ==
    /\ prep.phase = "retire"
    /\ n \in prep.todo
    /\ tree' = [tree EXCEPT ![n] = Absent]
    /\ prep' = [prep EXCEPT !.todo = @ \ {n}]
    /\ history' = [history EXCEPT !.quiet = @ /\ tree[n] = Absent]
    /\ UNCHANGED <<wanted, stray, receipt, out, build, built, package, acts,
                   prepares, builds>>

StartWriting ==
    /\ prep.phase = "retire"
    /\ prep.todo = {}
    /\ prep' = [prep EXCEPT !.phase = "write",
                            !.todo = DOMAIN Staged]
    /\ UNCHANGED <<wanted, tree, stray, receipt, out, build, built, package,
                   acts, prepares, builds, history>>

\* write_payload leaves a file alone that has the bytes already, and writes
\* the others to a temporary file beside them first.
Write(n) ==
    /\ prep.phase = "write"
    /\ n \in prep.todo
    /\ \/ /\ tree[n] = Staged[n]
          /\ prep' = [prep EXCEPT !.todo = @ \ {n}]
          /\ UNCHANGED stray
       \/ /\ tree[n] # Staged[n]
          /\ prep' = [prep EXCEPT !.phase = "replace", !.writing = n]
          /\ stray' = TRUE
    /\ UNCHANGED <<wanted, tree, receipt, out, build, built, package, acts,
                   prepares, builds, history>>

\* The temporary file replaces the destination, whatever is there by now.
Replace ==
    /\ prep.phase = "replace"
    /\ tree' = [tree EXCEPT ![prep.writing] = Staged[prep.writing]]
    /\ stray' = FALSE
    /\ prep' = [prep EXCEPT !.phase = "write", !.todo = @ \ {prep.writing},
                            !.writing = NoName]
    /\ history' = [history EXCEPT !.quiet = FALSE]
    /\ UNCHANGED <<wanted, receipt, out, build, built, package, acts,
                   prepares, builds>>

\* Slip: the restored upstream files are listed as staged.
ReceiptOfEverything ==
    /\ prep.phase = "write"
    /\ prep.todo = {}
    /\ receipt' = [stamp |-> prepares, files |-> Staged,
                   sources |-> Present(wanted)]
    /\ prep' = Idle
    /\ history' = [history EXCEPT !.last = "completed",
                                  !.racedReceipt = history.raced]
    /\ UNCHANGED <<wanted, tree, stray, out, build, built, package, acts,
                   prepares, builds>>

\* The receipt is written last, in one rename. It lists the files as they
\* were read, and the names of the sources as they are now.
WriteReceipt ==
    /\ prep.phase = "write"
    /\ prep.todo = {}
    /\ receipt' = [stamp   |-> prepares,
                   files   |-> prep.payload,
                   sources |-> Present(wanted)]
    /\ prep' = Idle
    /\ history' = [history EXCEPT !.last = "completed",
                                  !.racedReceipt = history.raced]
    /\ UNCHANGED <<wanted, tree, stray, out, build, built, package, acts,
                   prepares, builds>>

\* prepare is killed, or a call of it fails; a temporary file stays.
Interrupt ==
    /\ prep # Idle
    /\ prep' = Idle
    /\ history' = [history EXCEPT !.last = IF @ = "started" THEN "interrupted"
                                                            ELSE "refused"]
    /\ UNCHANGED <<wanted, tree, stray, receipt, out, build, built, package,
                   acts, prepares, builds>>
-----------------------------------------------------------------------------
(* build, and the stager                                                   *)

\* run_build_stage verifies, then compiles the targets it was asked for: the
\* default ones or those of --targets.
StartBuild(ts) ==
    /\ build = Idle
    /\ builds < MaxBuilds
    /\ Verifies
    /\ build' = [phase |-> "compile", targets |-> ts, todo |-> ts,
                 integration |-> receipt]
    /\ builds' = builds + 1
    /\ history' = [history EXCEPT !.quiet = TRUE]
    /\ UNCHANGED <<wanted, tree, stray, receipt, prep, out, built, package,
                   acts, prepares>>

\* A target is compiled of the checkout as it is at that moment.
Compile(t) ==
    /\ build # Idle
    /\ t \in build.todo
    /\ out' = [out EXCEPT ![t] = tree]
    /\ build' = [build EXCEPT !.todo = @ \ {t}]
    /\ UNCHANGED <<wanted, tree, stray, receipt, prep, built, package, acts,
                   prepares, builds, history>>

\* The compiler succeeded. The build receipt holds the integration that was
\* verified at the start, the hash of the integration receipt as it is now,
\* and the hash of the browser binary in the output directory. Without a
\* binary to hash no receipt is written. `quiet` is the properties' note that
\* nothing in the checkout changed since the build verified it.
FinishBuild ==
    /\ build # Idle
    /\ build.todo = {}
    /\ built' = IF out["chrome"] = NoOutput THEN built
                ELSE built \cup {[integration |-> build.integration,
                                  current     |-> receipt,
                                  binary      |-> out["chrome"],
                                  targets     |-> build.targets,
                                  quiet       |-> history.quiet]}
    /\ build' = Idle
    /\ UNCHANGED <<wanted, tree, stray, receipt, prep, out, package, acts,
                   prepares, builds, history>>

\* The compiler failed, or the build was killed: its receipt, if any, has a
\* nonzero exit code, which the stager refuses. What it compiled stays.
FailBuild ==
    /\ build # Idle
    /\ build' = Idle
    /\ UNCHANGED <<wanted, tree, stray, receipt, prep, out, built, package,
                   acts, prepares, builds, history>>

\* Slip: the binary in the output directory is not hashed.
ValidWithoutHash(b) ==
    /\ Verifies
    /\ b.integration = receipt
    /\ b.current = receipt

\* validate_receipt: a successful build of the integration that verifies now,
\* whose binary is still the one in the output directory.
ValidReceipt(b) ==
    /\ Verifies
    /\ b.integration = receipt
    /\ b.current = receipt
    /\ out["chrome"] = b.binary

\* stage_release: the validated output becomes the package.
StageRelease(b) ==
    /\ b \in built
    /\ ValidReceipt(b)
    /\ \A t \in Targets : out[t] # NoOutput
    /\ package' = [receipt |-> b, chrome |-> out["chrome"],
                   integration |-> receipt]
    /\ UNCHANGED <<wanted, tree, stray, receipt, prep, out, build, built, acts,
                   prepares, builds, history>>
-----------------------------------------------------------------------------
Init ==
    /\ wanted \in [Sources -> Touching]
    /\ tree = [n \in Dest |-> Untouched(n)]
    /\ stray = FALSE
    /\ receipt = NoReceipt
    /\ prep = Idle
    /\ out = [t \in Targets |-> NoOutput]
    /\ build = Idle
    /\ built = {}
    /\ package = NoPackage
    /\ acts = 0 /\ prepares = 0 /\ builds = 0
    /\ history = [steady |-> FALSE, raced |-> FALSE, racedReceipt |-> FALSE,
                  late |-> {}, quiet |-> FALSE, last |-> "none"]

Developer ==
    \/ \E s \in Sources, v \in Versions \cup {Absent} : ChangeSource(s, v)
    \/ \E n \in Dest, c \in Contents : ChangeTree(n, c)
    \/ RemoveStray

Prepare ==
    \/ ReadPatches \/ ReadSources \/ Check \/ StartWriting
    \/ \E n \in Dest : Retire(n) \/ Write(n)
    \/ Replace \/ WriteReceipt \/ Interrupt

BuildAndStage ==
    \/ \E ts \in SUBSET Targets \ {{}} : StartBuild(ts)
    \/ \E t \in Targets : Compile(t)
    \/ FinishBuild \/ FailBuild
    \/ \E b \in built : StageRelease(b)

Next == Developer \/ Prepare \/ BuildAndStage

Spec == Init /\ [][Next]_vars
-----------------------------------------------------------------------------
(* Properties.                                                             *)

\* Every variable keeps to its values, and prepare's phase has the parts it
\* works on.
TypeOK ==
    /\ wanted \in [Sources -> Versions \cup {Absent}]
    /\ tree \in [Dest -> Contents]
    /\ stray \in BOOLEAN
    /\ receipt.stamp \in 0..MaxPrepares
    /\ receipt.sources \subseteq Sources
    /\ DOMAIN receipt.files \subseteq Dest
    /\ \A n \in DOMAIN receipt.files : receipt.files[n] \in Versions
    /\ prep.phase \in {"idle", "patched", "check", "retire", "write", "replace"}
    /\ prep.phase = "replace" => stray /\ prep.writing \in prep.todo
    /\ prep.phase \in {"retire", "write"} => prep.todo \subseteq Dest
    /\ \A t \in Targets : out[t] = NoOutput \/ out[t] \in [Dest -> Contents]
    /\ build = Idle \/ build.todo \subseteq build.targets
    /\ \A b \in built : b.integration.stamp \in 1..MaxPrepares

\* What only a person can have put in the checkout: bytes no receipt, patch or
\* source has, or an upstream file taken away.
PersonsWork(n) == tree[n] = Edit \/ (n \in Upstream /\ tree[n] = Absent)

\* prepare never overwrites or moves an edit of the checkout it does not
\* recognise (product.py:391), whatever the receipts, crashes and source
\* changes before it. An edit made after the check of this very prepare is
\* beyond the claim: the code looks once.
EditsKept ==
    [][\A n \in Dest :
         (prep # Idle /\ prep' # prep /\ PersonsWork(n) /\ n \notin history.late)
            => tree'[n] = tree[n]]_vars

\* A prepare that completes with nobody interfering leaves a checkout that
\* verify accepts, whatever earlier prepares left there: what is no longer
\* staged is moved out, what is no longer patched is put back.
CompletedPrepareVerifies ==
    (prep = Idle /\ history.last = "completed" /\ history.steady) => Verifies

\* A prepare that was killed anywhere can be run again on the same sources:
\* its check takes the half-staged checkout, unless a temporary file is there.
InterruptedPrepareRepeats ==
    (prep = Idle /\ history.last = "interrupted" /\ history.steady /\ ~stray)
    => LET patched  == PatchPayload(wanted)
           payload  == Merged(SourcePayload(wanted), patched)
           restores == Restores(receipt.files, payload)
       IN  CheckChanges(Merged(payload, restores),
                        DOMAIN patched \cup DOMAIN restores, receipt.files)

\* What the checkout is when exactly the product sources of today are staged.
StagedFromSources ==
    LET payload == Merged(SourcePayload(wanted), PatchPayload(wanted))
    IN  tree = [n \in Dest |-> IF n \in DOMAIN payload THEN payload[n]
                                                       ELSE Untouched(n)]

\* verify accepts a checkout only if it is what the product sources make of
\* it, provided no source changed while the receipt's prepare ran.
VerifiedIsCurrentSource ==
    (Verifies /\ ~history.racedReceipt) => StagedFromSources

\* The same without the proviso, as docs/product-integration.md:51 has it:
\* "`product.py verify` checks those files and current product source". The
\* patches and the list of sources are read at other moments than the files.
VerifyChecksProductSource == Verifies => StagedFromSources

\* The checkout an integration receipt describes.
Integrated(r) == [n \in Dest |-> IF n \in DOMAIN r.files THEN r.files[n]
                                                         ELSE Untouched(n)]

\* The browser in a package was compiled of the integration that the checkout
\* held when it was packaged, if its build compiled the default targets and
\* the checkout stayed as it was verified until the build ended. Other builds,
\* prepares and edits before and after it do not get into the package.
PackagedFromIntegration ==
    (package # NoPackage /\ package.receipt.quiet
       /\ package.receipt.targets = Targets)
    => package.chrome = Integrated(package.integration)

\* docs/product-integration.md:54: "A successful browser build records the
\* renamed ELF hash": the binary a build receipt records was compiled of the
\* integration the receipt names. A build of other --targets records a binary
\* it did not compile.
RecordedBinaryIsOfItsBuild ==
    \A b \in built : b.quiet => b.binary = Integrated(b.integration)
=============================================================================
