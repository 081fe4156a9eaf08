-------------------------- MODULE MCManagedOutput ---------------------------
(* ManagedOutput for TLC: two valid manifests with different .desktop names *)
(* and an invalid one.                                                      *)
EXTENDS ManagedOutput

MCDesktopName == [v \in Versions |-> IF v = "two" THEN "b.desktop" ELSE "a.desktop"]
=============================================================================
