-------------------------- MODULE UpstreamBaseline --------------------------
(***************************************************************************)
(* The unmodified Chromium baseline: bootstrap.py `fetch`, which creates   *)
(* the pinned checkouts, and the stages of upstream.py, which run hooks,   *)
(* generate build files and build out/mb-debug/chrome with a receipt.      *)
(*                                                                         *)
(* A tool can die at any step, and the developer edits the checkouts, the  *)
(* build arguments, .gclient and the pins at any time. Git and gclient are *)
(* outside: a command of theirs has its effect, fails without one or, when *)
(* it is stopped midway, leaves what it worked on torn. A binary and its   *)
(* SHA-256 are one value: what it was compiled from.                       *)
(***************************************************************************)
EXTENDS Naturals

CONSTANTS
    Pins,     \* revisions upstream-version.toml may name
    MaxActs   \* bound: steps of the developer

ASSUME BaselineAssumption ==
    /\ Pins # {}
    /\ Pins \cap {"none", "torn"} = {}
    /\ MaxActs \in Nat

Repos == {"depot", "src"}
Arguments == {"absent", "partial", "baseline", "product", "other"}
Revisions == Pins \cup {"none"}
Dependencies == Pins \cup {"none", "torn"}

Binary == [from : Revisions, deps : Dependencies, clean : BOOLEAN, args : Arguments]
NoBinary == [from |-> "none", deps |-> "none", clean |-> FALSE, args |-> "absent"]
Receipt == [pin : [Repos -> Pins], deps : Pins, args : Arguments,
            binary : Binary]

VARIABLES
    pin,       \* mb/upstream-version.toml
    repo,      \* .build/depot_tools and .build/chromium/src; torn when it
               \* has no HEAD but a lock or files of a stopped Git command
    python,    \* depot_tools/python-bin is there
    gclient,   \* .build/chromium/.gclient
    deps,      \* the revision whose dependencies .gclient_entries lists;
               \* torn when the nested checkouts differ from that list
    hooked,    \* the hooks ran
    out,       \* out/mb-debug: args.gn, build.ninja and chrome
    receipts,  \* the successful build receipts under .build/logs
    tool,      \* the running tool
    acts,      \* bounded counter
    raced,     \* history: something was edited while a build compiled it
    moved      \* history: the developer moved src without gclient

checkoutVars == <<pin, repo, python, gclient, deps, hooked>>
baselineVars == <<pin, repo, python, gclient, deps, hooked, out, receipts,
                  tool, acts, raced, moved>>

NoTool == [job |-> "none", repo |-> "depot", at |-> "idle",
           pin |-> [r \in Repos |-> "none"], deps |-> "none"]
Tool == [job : {"none", "fetch", "hooks", "gen", "build"}, repo : Repos,
         at : {"idle", "dir", "init", "remote", "origin", "checkout", "python",
               "gclient", "config", "sync", "args", "write", "run", "record"},
         pin : [Repos -> Revisions], deps : Dependencies]

BaselineTypeOK ==
    /\ pin \in [Repos -> Pins]
    /\ repo \in [Repos -> [is : {"absent", "empty", "foreign", "init", "origin", "torn", "head"},
                           head : Revisions, dirty : BOOLEAN]]
    /\ python \in BOOLEAN /\ hooked \in BOOLEAN
    /\ gclient \in {"absent", "partial", "ours", "other"}
    /\ deps \in Dependencies
    /\ out \in [args : Arguments, ninja : BOOLEAN, chrome : Binary]
    /\ receipts \subseteq Receipt
    /\ tool \in Tool
    /\ acts \in 0..MaxActs
    /\ raced \in BOOLEAN /\ moved \in BOOLEAN

\* A machine on which nothing was fetched; which revision the pins name first
\* makes no difference.
FirstPin == CHOOSE p \in Pins : TRUE
BaselineInit ==
    /\ pin = [r \in Repos |-> FirstPin]
    /\ repo = [r \in Repos |-> [is |-> "absent", head |-> "none", dirty |-> FALSE]]
    /\ python = FALSE /\ hooked = FALSE
    /\ gclient = "absent" /\ deps = "none"
    /\ out = [args |-> "absent", ninja |-> FALSE, chrome |-> NoBinary]
    /\ receipts = {}
    /\ tool = NoTool
    /\ acts = 0
    /\ raced = FALSE /\ moved = FALSE

-----------------------------------------------------------------------------
(* bootstrap.py fetch. A step that finds something else than it needs      *)
(* raises: the tool stops there, see Stop.                                 *)

Running(job, at) == tool.job = job /\ tool.at = at
Goto(at) == tool' = [tool EXCEPT !.at = at]
R == tool.repo
Is(what) == repo' = [repo EXCEPT ![R].is = what]

FetchBegin ==
    /\ tool = NoTool
    /\ tool' = [NoTool EXCEPT !.job = "fetch", !.at = "dir", !.pin = pin]
    /\ UNCHANGED <<checkoutVars, out, receipts, acts, raced, moved>>

\* "Refusing to initialize a nonempty directory".
MakeDirectory ==
    /\ Running("fetch", "dir")
    /\ repo[R].is # "foreign"
    /\ IF repo[R].is \in {"absent", "empty"}
       THEN Is("empty") /\ Goto("init")
       ELSE UNCHANGED repo /\ Goto("origin")
    /\ UNCHANGED <<pin, python, gclient, deps, hooked, out, receipts, acts, raced, moved>>

GitInit ==
    /\ Running("fetch", "init")
    /\ Is("init") /\ Goto("remote")
    /\ UNCHANGED <<pin, python, gclient, deps, hooked, out, receipts, acts, raced, moved>>

AddRemote ==
    /\ Running("fetch", "remote")
    /\ Is("origin") /\ Goto("origin")
    /\ UNCHANGED <<pin, python, gclient, deps, hooked, out, receipts, acts, raced, moved>>

NextRepo ==
    tool' = [tool EXCEPT !.at = IF R = "depot" THEN "python" ELSE "gclient"]

\* A HEAD that is there must be the pin, without local changes. Nothing but
\* HEAD is looked at: a torn repository passes for one to be fetched.
CheckOrigin ==
    /\ Running("fetch", "origin")
    /\ \/ repo[R].is \in {"origin", "torn"} /\ Goto("checkout")
       \/ /\ repo[R].is = "head"
          /\ repo[R].head = tool.pin[R] /\ ~repo[R].dirty
          /\ NextRepo
    /\ UNCHANGED <<checkoutVars, out, receipts, acts, raced, moved>>

\* Slip: the tag is trusted.
AcceptsAny(served) == TRUE

\* git fetch, the comparison of what the remote serves under the tag with the
\* pin, and git checkout, which moves HEAD last. Stopped midway, git fetch
\* leaves a lock, and git checkout a lock or files of the revision without a
\* HEAD. In a repository found torn they may refuse, which is Stop, or go on.
Accepts(served) == served = tool.pin[R]
Checkout ==
    /\ Running("fetch", "checkout")
    /\ \/ /\ \E served \in Pins :
               /\ Accepts(served)
               /\ repo' = [repo EXCEPT ![R] = [is |-> "head", head |-> served, dirty |-> FALSE]]
          /\ NextRepo
       \/ Is("torn") /\ tool' = NoTool
    /\ UNCHANGED <<pin, python, gclient, deps, hooked, out, receipts, acts, raced, moved>>

BootstrapPython ==
    /\ Running("fetch", "python")
    /\ python' = TRUE
    /\ tool' = [tool EXCEPT !.repo = "src", !.at = "dir"]
    /\ UNCHANGED <<pin, repo, gclient, deps, hooked, out, receipts, acts, raced, moved>>

\* .gclient is written in place: opened, then filled.
OpenConfig ==
    /\ Running("fetch", "gclient")
    /\ \/ gclient = "ours" /\ Goto("sync") /\ UNCHANGED gclient
       \/ gclient = "absent" /\ Goto("config") /\ gclient' = "partial"
    /\ UNCHANGED <<pin, repo, python, deps, hooked, out, receipts, acts, raced, moved>>
WriteConfig ==
    /\ Running("fetch", "config")
    /\ gclient' = "ours" /\ Goto("sync")
    /\ UNCHANGED <<pin, repo, python, deps, hooked, out, receipts, acts, raced, moved>>

\* gclient lists the entries when it is done; stopped before, it leaves the
\* nested checkouts between the old list and the new one.
Sync ==
    /\ Running("fetch", "sync")
    /\ \/ deps' = tool.pin["src"]
       \/ deps # "none" /\ deps' = "torn"
    /\ tool' = NoTool
    /\ UNCHANGED <<pin, repo, python, gclient, hooked, out, receipts, acts, raced, moved>>

-----------------------------------------------------------------------------
(* upstream.py hooks, gen and build.                                       *)

Unmodified(r) == repo[r].head = pin[r] /\ ~repo[r].dirty

\* Slip: only the two checkouts are verified.
VerifiedHeads ==
    /\ \A r \in Repos : repo[r].is = "head" /\ Unmodified(r)
    /\ python

\* verify_dependencies: the nested checkouts are as .gclient_entries lists
\* them, whichever revision that list is of.
DependenciesMatch == deps \in Pins

\* verify(): both checkouts at their pin and unmodified, and the nested ones.
Verified ==
    /\ \A r \in Repos : repo[r].is = "head" /\ Unmodified(r)
    /\ python
    /\ DependenciesMatch

Ready(job) == job = "build" => out.ninja /\ out.args = "baseline"
StageBegin(job) ==
    /\ tool = NoTool
    /\ Verified
    /\ Ready(job)
    /\ tool' = [NoTool EXCEPT !.job = job, !.pin = pin, !.deps = deps,
                              !.at = IF job = "gen" THEN "args" ELSE "run"]
    /\ UNCHANGED <<checkoutVars, out, receipts, acts, raced, moved>>

RunHooks ==
    /\ Running("hooks", "run")
    /\ hooked' = TRUE
    /\ tool' = NoTool
    /\ UNCHANGED <<pin, repo, python, gclient, deps, out, receipts, acts, raced, moved>>

\* "Refusing to replace different build arguments"; a new args.gn is written
\* in place.
OpenArguments ==
    /\ Running("gen", "args")
    /\ \/ out.args = "baseline" /\ Goto("run") /\ UNCHANGED out
       \/ /\ out.args = "absent" /\ Goto("write")
          /\ out' = [out EXCEPT !.args = "partial"]
    /\ UNCHANGED <<checkoutVars, receipts, acts, raced, moved>>
WriteArguments ==
    /\ Running("gen", "write")
    /\ out' = [out EXCEPT !.args = "baseline"] /\ Goto("run")
    /\ UNCHANGED <<checkoutVars, receipts, acts, raced, moved>>
Generate ==
    /\ Running("gen", "run")
    /\ hooked
    /\ out' = [out EXCEPT !.ninja = TRUE]
    /\ tool' = NoTool
    /\ UNCHANGED <<checkoutVars, receipts, acts, raced, moved>>

\* The binary is of what the compiler found; an edit made and taken back
\* meanwhile may or may not be in it.
Compile ==
    /\ Running("build", "run")
    /\ \E clean \in {~repo["src"].dirty} \cup (IF raced THEN {FALSE} ELSE {}) :
         out' = [out EXCEPT !.chrome =
           [from |-> repo["src"].head, deps |-> deps, clean |-> clean, args |-> out.args]]
    /\ Goto("record")
    /\ UNCHANGED <<checkoutVars, receipts, acts, raced, moved>>

\* The receipt: the identities verified before the build, the arguments and
\* the binary found after it.
Record ==
    /\ Running("build", "record")
    /\ receipts' = receipts \cup
         {[pin |-> tool.pin, deps |-> tool.deps, args |-> out.args, binary |-> out.chrome]}
    /\ tool' = NoTool
    /\ UNCHANGED <<checkoutVars, out, acts, raced, moved>>

\* The tool raises, a command of it fails, or it is killed.
Stop ==
    /\ tool # NoTool
    /\ tool' = NoTool
    /\ UNCHANGED <<checkoutVars, out, receipts, acts, raced, moved>>

-----------------------------------------------------------------------------
(* The developer.                                                          *)

Act == acts < MaxActs /\ acts' = acts + 1
NotesRace == raced' = (raced \/ tool.job = "build")

EditSource(r) ==
    /\ Act
    /\ repo[r].is = "head"
    /\ repo' = [repo EXCEPT ![r].dirty = ~@]
    /\ NotesRace
    /\ UNCHANGED <<pin, python, gclient, deps, hooked, out, receipts, tool, moved>>

ChangePin(r) ==
    /\ Act
    /\ \E p \in Pins \ {pin[r]} : pin' = [pin EXCEPT ![r] = p]
    /\ UNCHANGED <<repo, python, gclient, deps, hooked, out, receipts, tool, raced, moved>>

\* Chromium's checkout is moved to another revision by hand, and the pins name
\* it.
MoveHead ==
    /\ Act
    /\ repo["src"].is = "head" /\ ~repo["src"].dirty
    /\ \E p \in Pins \ {repo["src"].head} :
         /\ repo' = [repo EXCEPT !["src"].head = p]
         /\ pin' = [pin EXCEPT !["src"] = p]
    /\ moved' = TRUE
    /\ NotesRace
    /\ UNCHANGED <<python, gclient, deps, hooked, out, receipts, tool>>

EditArguments ==
    /\ Act
    /\ out.args # "absent"
    /\ \E a \in {"absent", "other", "baseline"} \ {out.args} :
         out' = [out EXCEPT !.args = a]
    /\ NotesRace
    /\ UNCHANGED <<checkoutVars, receipts, tool, moved>>

EditConfig ==
    /\ Act
    /\ \E g \in {"absent", "other"} \ {gclient} : gclient' = g
    /\ UNCHANGED <<pin, repo, python, deps, hooked, out, receipts, tool, raced, moved>>

Clutter(r) ==
    /\ Act
    /\ repo[r].is \in {"absent", "empty"}
    /\ repo' = [repo EXCEPT ![r].is = "foreign"]
    /\ UNCHANGED <<pin, python, gclient, deps, hooked, out, receipts, tool, raced, moved>>

Developer ==
    \/ \E r \in Repos : EditSource(r) \/ ChangePin(r) \/ Clutter(r)
    \/ MoveHead
    \/ EditArguments
    \/ EditConfig

Fetch ==
    \/ FetchBegin \/ MakeDirectory \/ GitInit \/ AddRemote \/ CheckOrigin
    \/ Checkout \/ BootstrapPython \/ OpenConfig \/ WriteConfig \/ Sync
Stages ==
    \/ \E job \in {"hooks", "gen", "build"} : StageBegin(job)
    \/ RunHooks \/ OpenArguments \/ WriteArguments \/ Generate
    \/ Compile \/ Record

BaselineNext == Fetch \/ Stages \/ Stop \/ Developer
BaselineSpec == BaselineInit /\ [][BaselineNext]_baselineVars

-----------------------------------------------------------------------------

\* The checks a new `fetch` makes of a repository, and all of them. One that
\* is torn passes bootstrap.py's, and meets those of Git.
Passes(r) ==
    \/ repo[r].is \in {"absent", "empty", "origin"}
    \/ repo[r].is = "head" /\ Unmodified(r)

Fetchable == (\A r \in Repos : Passes(r)) /\ gclient \in {"absent", "ours"}

=============================================================================
