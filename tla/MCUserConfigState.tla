------------------------- MODULE MCUserConfigState --------------------------
(* Small instances of UserConfigState for TLC. *)
EXTENDS UserConfigState, TLC

Interchangeable == Permutations(Launches) \cup Permutations(Pids)
=============================================================================
