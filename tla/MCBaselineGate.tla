--------------------------- MODULE MCBaselineGate ---------------------------
(* BaselineGate for TLC.                                                   *)
EXTENDS BaselineGate, TLC

CONSTANTS p1, p2, p3   \* model values
MCPids == {p1, p2, p3}
MCShared == {p1}
=============================================================================
