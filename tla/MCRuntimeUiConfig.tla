-------------------------- MODULE MCRuntimeUiConfig --------------------------
(* Small instances of RuntimeUiConfig for TLC. *)
EXTENDS RuntimeUiConfig, TLC

Interchangeable == Permutations(Windows) \cup Permutations(Values)
=============================================================================
