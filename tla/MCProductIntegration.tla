------------------------ MODULE MCProductIntegration ------------------------
\* Two patches of an upstream file each, with or without a copied source; the
\* second version of a patch no longer names its file. One patch can thus be
\* retired, and its file put back, while the other goes on: a prepare needs a
\* patch that changes something.
EXTENDS ProductIntegration, TLC

CONSTANTS startup, sidebar, browser, view

OneFileEach == startup :> browser @@ sidebar :> view

\* The two patches are alike, each with its file.
Alike == {startup :> sidebar @@ sidebar :> startup @@ browser :> view @@ view :> browser}

\* Of the sandbox that was built, a package asks only whether it is there
\* (StageRelease), and so do the properties: states that differ in what it was
\* built of are one.
Seen == <<wanted, tree, stray, receipt, prep, out["chrome"],
          out["chrome_sandbox"] = NoOutput, build, built, package, acts,
          prepares, builds, history>>
=============================================================================
