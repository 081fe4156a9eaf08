------------------------ MODULE MCBrowserConfigGate -------------------------
(* Small instances of BrowserConfigGate for TLC. *)
EXTENDS BrowserConfigGate, TLC

Personal == "personal"
Work == "work"
MCEnvironments == {Personal, Work}

\* Two roots for "personal", so that an edit may move it.
Doc(directories, default, restore, bad) ==
  [roots |-> directories, default |-> default, restore |-> restore,
   badUrls |-> bad]
MCTemplate == Doc(Personal :> "/p", Personal, TRUE, {})
Both == Doc(Personal :> "/p" @@ Work :> "/w", Personal, TRUE, {})
Moved == Doc(Personal :> "/q" @@ Work :> "/w", Work, FALSE, {})
BadUrl == Doc(Personal :> "/p" @@ Work :> "/w", Personal, TRUE, {Work})
\* The user may also go back to a document like the template, which does not
\* have an environment another one had when it was remembered.
MCDocuments == {Both, Moved, BadUrl, MCTemplate}

Normal == [type |-> "browser", config |-> "absent", environment |-> "absent",
           root |-> "absent", incognito |-> FALSE, around |-> "usual"]
MCInvocations ==
  { Normal,
    [Normal EXCEPT !.environment = Work],
    [Normal EXCEPT !.environment = Work, !.incognito = TRUE],
    [Normal EXCEPT !.environment = Work, !.root = "/p"],
    [Normal EXCEPT !.environment = "blank"],
    [Normal EXCEPT !.root = "/n"],
    [Normal EXCEPT !.config = "file", !.root = "/p"],
    [Normal EXCEPT !.config = "file", !.environment = Work],
    [Normal EXCEPT !.around = "CHROME_USER_DATA_DIR"],
    [Normal EXCEPT !.around = "no HOME"],
    [Normal EXCEPT !.type = "child", !.root = "/p"] }

Interchangeable == Permutations(Processes)
=============================================================================
