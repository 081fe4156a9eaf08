---------------------------- MODULE ManagedOutput ---------------------------
(***************************************************************************)
(* The generators that turn mb/branding.toml into build inputs, and the    *)
(* two programs that run them:                                             *)
(*   branding   branding.py: fixed files and one .desktop file, whose name *)
(*              comes from the manifest                                    *)
(*   assets     branding_assets.py: rasterized icons, fixed names          *)
(*   strings    branding_strings.py: message catalogs, fixed names, with a *)
(*              receipt that holds their digests                           *)
(*   prepare    product.py: all three, then reads the trees it will stage  *)
(*   control    build_control.py: branding, then compiles with its header  *)
(*                                                                         *)
(* A generator owns the files its marker lists. It checks the directory,   *)
(* then replaces one file after the other and the marker last. There is no *)
(* lock: two programs, the developer's edits and the death of a program    *)
(* interleave.                                                             *)
(***************************************************************************)
EXTENDS Naturals, Sequences

CONSTANTS
    Versions,     \* what the manifest may hold
    Valid,        \* those load_manifest accepts
    DesktopName,  \* the .desktop file of a version
    MaxRuns,      \* bound: programs started
    MaxEdits,     \* bound: edits of the manifest
    MaxActs       \* bound: other steps of the developer

Desktops == {DesktopName[v] : v \in Versions}
Names == {"output", "note"} \cup Desktops
Others == {"absent", "user", "odd"}   \* nothing, a file, or not a regular file

ASSUME ManagedAssumption ==
    /\ Valid \subseteq Versions
    /\ Versions \cap (Others \cup {"none"}) = {}
    /\ Desktops \cap {"output", "note"} = {}
    /\ MaxRuns \in Nat /\ MaxEdits \in Nat /\ MaxActs \in Nat

Dirs == {"branding", "assets", "strings"}
Programs == {"prepare", "control"}
Plan(r) == IF r = "prepare" THEN <<"branding", "assets", "strings">> ELSE <<"branding">>
Planned(d, v) == {"output"} \cup (IF d = "branding" THEN {DesktopName[v]} ELSE {})

VARIABLES
    manifest,    \* mb/branding.toml
    files,       \* what each directory holds under a name: the version an
                 \* output was generated from, or one of Others
    stray,       \* what a program that ended left there: its temporary file,
                 \* or for assets an empty subdirectory
    marker,      \* the names the marker lists, and for strings the version
                 \* whose digests and the version whose SHA-256 it records
    job,         \* the running programs
    starts, edits, acts,   \* bounded counters
    overlapped,  \* history: two programs ran at once
    cut          \* history: versions whose outputs a program left unfinished

vars == <<manifest, files, stray, marker, job, starts, edits, acts, overlapped, cut>>

Marker(names, v, sha) == [names |-> names, digests |-> v, manifest |-> sha]
NoMarker == Marker({}, "none", "none")
Empty == [n \in Names |-> "absent"]
NoJob == [at |-> "idle", step |-> 1, version |-> "none", sha |-> "none", todo |-> {},
          temp |-> FALSE, old |-> {}, found |-> {}, calm |-> FALSE]
Job == [at : {"idle", "load", "digest", "check", "write", "stale", "marker", "read"},
        step : 1..4, version : Valid \cup {"none"}, sha : Versions \cup {"none"},
        todo : SUBSET Names, temp : BOOLEAN, old : SUBSET Names,
        found : SUBSET Names, calm : BOOLEAN]

TypeOK ==
    /\ manifest \in Versions
    /\ files \in [Dirs -> [Names -> Valid \cup Others]]
    /\ stray \in [Dirs -> BOOLEAN]
    /\ marker \in [Dirs -> [names : SUBSET Names, digests : Valid \cup {"none"},
                            manifest : Versions \cup {"none"}]]
    /\ job \in [Programs -> Job]
    /\ starts \in 0..MaxRuns /\ edits \in 0..MaxEdits /\ acts \in 0..MaxActs
    /\ overlapped \in BOOLEAN
    /\ cut \in [Dirs -> SUBSET Valid]

\* Nothing was generated yet, or everything from the present manifest.
Fresh ==
    /\ files = [d \in Dirs |-> Empty]
    /\ marker = [d \in Dirs |-> NoMarker]
Generated ==
    /\ files = [d \in Dirs |-> [n \in Names |->
                  IF n \in Planned(d, manifest) THEN manifest ELSE "absent"]]
    /\ marker = [d \in Dirs |->
         LET v == IF d = "strings" THEN manifest ELSE "none"
         IN Marker(Planned(d, manifest), v, v)]

Init ==
    /\ manifest \in Valid
    /\ Fresh \/ Generated
    /\ stray = [d \in Dirs |-> FALSE]
    /\ job = [r \in Programs |-> NoJob]
    /\ starts = 0 /\ edits = 0 /\ acts = 0
    /\ overlapped = FALSE
    /\ cut = [d \in Dirs |-> {}]

-----------------------------------------------------------------------------

Dir(r) == Plan(r)[job[r].step]
Mine(r) == Planned(Dir(r), job[r].version)
Idle(r) == job[r].at = "idle"
Quiet == \A r \in Programs : Idle(r)
Touched(d) == {n \in Names : files[d][n] \in {"user", "odd"}}

\* branding and strings read the manifest first; assets checks first and has
\* branding.generate read it into a scratch directory.
First(d) == IF d = "assets" THEN "check" ELSE "load"
AfterLoad(d) == CASE d = "branding" -> "check"
                  [] d = "assets" -> "write"
                  [] d = "strings" -> "digest"
Enter(r, at) == job' = [job EXCEPT ![r].at = at]

Begin(r) ==
    /\ Idle(r)
    /\ starts < MaxRuns
    /\ starts' = starts + 1
    /\ job' = [s \in Programs |->
         IF s = r THEN [NoJob EXCEPT !.at = "load", !.calm = Quiet]
                  ELSE [job[s] EXCEPT !.calm = FALSE]]
    /\ overlapped' = (overlapped \/ ~Quiet)
    /\ UNCHANGED <<manifest, files, stray, marker, edits, acts, cut>>

\* Slip: the manifest is not validated.
AnyManifest == TRUE

\* load_manifest; an invalid manifest raises, see Fail.
Loads == manifest \in Valid
Load(r) ==
    /\ job[r].at = "load"
    /\ Loads
    /\ job' = [job EXCEPT ![r].version = manifest, ![r].at = AfterLoad(Dir(r)),
                          ![r].todo = Planned(Dir(r), manifest)]
    /\ UNCHANGED <<manifest, files, stray, marker, starts, edits, acts, overlapped, cut>>

\* branding_strings.prepare hashes the manifest it read before, once more.
Digest(r) ==
    /\ job[r].at = "digest"
    /\ job' = [job EXCEPT ![r].sha = manifest, ![r].at = "check"]
    /\ UNCHANGED <<manifest, files, stray, marker, starts, edits, acts, overlapped, cut>>

IsEmpty(d) ==
    /\ marker[d] = NoMarker /\ files[d] = Empty /\ ~stray[d]
    /\ \A r \in Programs : job[r].at \in {"write", "marker"} /\ Dir(r) = d => ~job[r].temp

\* Slip: a name the marker does not list may be there.
BrandingOwnsPlan(planned) == marker["branding"] # NoMarker

\* Slip: what the marker lists must still be there.
BrandingOwnsPresent(planned) ==
    /\ marker["branding"] # NoMarker
    /\ \A n \in marker["branding"].names : files["branding"][n] \notin {"absent", "odd"}
    /\ \A n \in planned \ marker["branding"].names : files["branding"][n] = "absent"

BrandingAccepts(planned) ==
    /\ marker["branding"] # NoMarker
    /\ \A n \in planned \cup marker["branding"].names : files["branding"][n] # "odd"
    /\ \A n \in planned \ marker["branding"].names : files["branding"][n] = "absent"

AssetsAccept(planned) ==
    /\ marker["assets"] # NoMarker
    /\ marker["assets"].names = planned
    /\ \A n \in planned : files["assets"][n] # "odd"

\* Every entry of the directory counts here, a temporary file too.
StringsAccept(planned) ==
    /\ marker["strings"] # NoMarker
    /\ ~stray["strings"]
    /\ \A n \in Names : files["strings"][n] =
         IF n \in planned THEN marker["strings"].digests ELSE "absent"

\* check_managed_directory and check_output.
Accepts(d, planned) ==
    \/ IsEmpty(d)
    \/ d = "branding" /\ BrandingAccepts(planned)
    \/ d = "assets" /\ AssetsAccept(planned)
    \/ d = "strings" /\ StringsAccept(planned)

Check(r) ==
    /\ job[r].at = "check"
    /\ Accepts(Dir(r), IF Dir(r) = "assets" THEN {"output"} ELSE Mine(r))
    /\ job' = [job EXCEPT
         ![r].at = IF Dir(r) = "assets" THEN "load" ELSE "write",
         ![r].old = marker[Dir(r)].names,
         ![r].found = Touched(Dir(r))]
    /\ UNCHANGED <<manifest, files, stray, marker, starts, edits, acts, overlapped, cut>>

\* atomic_write: a temporary file beside the destination, then os.replace.
OpenTemporary(r) ==
    /\ job[r].at \in {"write", "marker"}
    /\ ~job[r].temp
    /\ job' = [job EXCEPT ![r].temp = TRUE]
    /\ UNCHANGED <<manifest, files, stray, marker, starts, edits, acts, overlapped, cut>>

Replace(r) ==
    /\ job[r].at = "write" /\ job[r].temp
    /\ \E n \in job[r].todo :
         /\ files' = [files EXCEPT ![Dir(r)][n] = job[r].version]
         /\ job' = [job EXCEPT ![r].temp = FALSE, ![r].todo = @ \ {n},
                               ![r].at = IF job[r].todo = {n} THEN "stale" ELSE "write"]
    /\ UNCHANGED <<manifest, stray, marker, starts, edits, acts, overlapped, cut>>

\* Slip: outputs of the last manifest stay.
KeepStale(r) ==
    /\ job[r].at = "stale"
    /\ Enter(r, "marker")
    /\ UNCHANGED <<manifest, files, stray, marker, starts, edits, acts, overlapped, cut>>

\* Owned outputs that are no longer planned go: branding has one, the .desktop
\* file of another name.
RemoveStale(r) ==
    /\ job[r].at = "stale"
    /\ files' = [files EXCEPT ![Dir(r)] = [n \in Names |->
         IF n \in job[r].old \ Mine(r) THEN "absent" ELSE @[n]]]
    /\ Enter(r, "marker")
    /\ UNCHANGED <<manifest, stray, marker, starts, edits, acts, overlapped, cut>>

Recorded(r) ==
    IF Dir(r) = "strings" THEN Marker(Mine(r), job[r].version, job[r].sha)
                          ELSE Marker(Mine(r), "none", "none")

\* The marker, and the next generator of the program.
ReplaceMarker(r) ==
    /\ job[r].at = "marker" /\ job[r].temp
    /\ marker' = [marker EXCEPT ![Dir(r)] = Recorded(r)]
    /\ job' = [job EXCEPT ![r] =
         [NoJob EXCEPT !.calm = job[r].calm, !.step = job[r].step + 1,
            !.at = IF job[r].step = Len(Plan(r)) THEN "read"
                   ELSE First(Plan(r)[job[r].step + 1])]]
    /\ UNCHANGED <<manifest, files, stray, starts, edits, acts, overlapped, cut>>

\* generated_payload reads the trees; build_control reads the manifest again
\* for the name of its binary and compiles with the header.
Read(r) ==
    /\ job[r].at = "read"
    /\ Loads
    /\ job' = [job EXCEPT ![r] = NoJob]
    /\ UNCHANGED <<manifest, files, stray, marker, starts, edits, acts, overlapped, cut>>

\* A program that dies leaves its temporary file; one that raises (a check, the
\* manifest, git, the renderer, a full disk) unlinks it, but assets keeps the
\* subdirectory it was made in.
Unfinished(r) ==
    /\ job[r].at \in {"write", "stale", "marker"}
    /\ job[r].temp \/ job[r].todo # Mine(r)
LeavesUnfinished(r) ==
    cut' = IF Unfinished(r) THEN [cut EXCEPT ![Dir(r)] = @ \cup {job[r].version}]
                            ELSE cut
Fail(r) ==
    /\ ~Idle(r)
    /\ job' = [job EXCEPT ![r] = NoJob]
    /\ stray' = IF job[r].temp /\ Dir(r) = "assets"
                THEN [stray EXCEPT !["assets"] = TRUE] ELSE stray
    /\ LeavesUnfinished(r)
    /\ UNCHANGED <<manifest, files, marker, starts, edits, acts, overlapped>>
Die(r) ==
    /\ job[r].temp
    /\ job' = [job EXCEPT ![r] = NoJob]
    /\ stray' = [stray EXCEPT ![Dir(r)] = TRUE]
    /\ LeavesUnfinished(r)
    /\ UNCHANGED <<manifest, files, marker, starts, edits, acts, overlapped>>

-----------------------------------------------------------------------------
(* The developer.                                                          *)

Disturbed == job' = [r \in Programs |-> [job[r] EXCEPT !.calm = FALSE]]
Act == acts < MaxActs /\ acts' = acts + 1 /\ Disturbed

EditManifest ==
    /\ edits < MaxEdits /\ edits' = edits + 1
    /\ Disturbed
    /\ \E v \in Versions \ {manifest} : manifest' = v
    /\ UNCHANGED <<files, stray, marker, starts, acts, overlapped, cut>>

PutFile(d) ==
    /\ Act
    /\ \E n \in Names, what \in {"user", "odd"} :
         files' = [files EXCEPT ![d][n] = what]
    /\ UNCHANGED <<manifest, stray, marker, starts, edits, overlapped, cut>>

RemoveDirectory(d) ==
    /\ Quiet
    /\ Act
    /\ files' = [files EXCEPT ![d] = Empty]
    /\ stray' = [stray EXCEPT ![d] = FALSE]
    /\ marker' = [marker EXCEPT ![d] = NoMarker]
    /\ cut' = [cut EXCEPT ![d] = {}]
    /\ UNCHANGED <<manifest, starts, edits, overlapped>>

Generator(r) ==
    \/ Begin(r) \/ Load(r) \/ Digest(r) \/ Check(r)
    \/ OpenTemporary(r) \/ Replace(r) \/ RemoveStale(r) \/ ReplaceMarker(r)
    \/ Read(r) \/ Fail(r) \/ Die(r)
Developer == EditManifest \/ \E d \in Dirs : PutFile(d) \/ RemoveDirectory(d)

Next == (\E r \in Programs : Generator(r)) \/ Developer
Spec == Init /\ [][Next]_vars

-----------------------------------------------------------------------------

\* A program never overwrites or removes a file of the developer that was there
\* when it checked the directory, unless the marker it checked lists the name;
\* in strings not even then.
Past(r, d) == job[r].at \in {"load", "write", "stale", "marker"} /\ Dir(r) = d
MayReplace(r, d, n) ==
    /\ Past(r, d)
    /\ n \in job[r].found => n \in job[r].old /\ d # "strings"
OthersKept ==
    [][\A d \in Dirs : \A n \in Touched(d) :
         files'[d][n] = files[d][n]
         \/ acts' # acts
         \/ \E r \in Programs : MayReplace(r, d, n)]_vars

\* What a program that was alone, with nobody editing anything, is about to
\* read is of one manifest, and the markers list it exactly; nothing else
\* generated is there if no run ever was cut short or overlapped another.
CalmRunIsWhole ==
    \A r \in Programs : (job[r].at = "read" /\ job[r].calm) =>
        \A i \in DOMAIN Plan(r) :
            LET d == Plan(r)[i]
                planned == Planned(d, manifest)
            IN /\ \A n \in planned : files[d][n] = manifest
               /\ marker[d].names = planned
               /\ d = "strings" => marker[d].digests = manifest /\ marker[d].manifest = manifest
               /\ \/ overlapped \/ cut[d] # {}
                  \/ \A n \in Names \ planned : files[d][n] \in Others

\* While the developer's files are not in the way and no two runs overlapped, a
\* generator refuses its own directory only after a run was cut short there:
\* assets only before its first marker, branding only then or when that run
\* was to introduce the .desktop name the manifest asks for.
Blocked(d) ==
    /\ cut[d] # {}
    /\ CASE d = "assets" -> marker[d] = NoMarker
         [] d = "branding" ->
              \/ marker[d] = NoMarker
              \/ \E v \in cut[d] : /\ DesktopName[v] = DesktopName[manifest]
                                   /\ DesktopName[v] \notin marker[d].names
         [] d = "strings" -> TRUE
InterruptedRunRepeats ==
    (Quiet /\ ~overlapped /\ manifest \in Valid) =>
        \A d \in Dirs :
            Touched(d) # {} \/ Accepts(d, Planned(d, manifest)) \/ Blocked(d)
=============================================================================
