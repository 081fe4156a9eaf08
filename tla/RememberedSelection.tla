------------------------- MODULE RememberedSelection -------------------------
(***************************************************************************)
(* What the callers of user_config_state.cc are promised of the remembered *)
(* environment: one register, replaced as a whole, that a power loss may   *)
(* set back, but not past the last value it was told to make durable.      *)
(***************************************************************************)
CONSTANTS Environments, Nothing

VARIABLES
  remembered,  \* the environment recorded last, or Nothing
  survivors    \* the values a power loss may leave

vars == <<remembered, survivors>>

Init == remembered = Nothing /\ survivors = {Nothing}

Record(e) ==
  /\ remembered' = e
  /\ survivors' = survivors \cup {e}

MakeDurable ==
  /\ survivors' = {remembered}
  /\ UNCHANGED remembered

PowerLoss ==
  /\ remembered' \in survivors
  /\ survivors' = {remembered'}

Next == (\E e \in Environments : Record(e)) \/ MakeDurable \/ PowerLoss

Spec == Init /\ [][Next]_vars
=============================================================================
