----------------------------- MODULE MCSessions -----------------------------
(* An instance of Sessions for TLC: one hook event for each kind of status *)
(* the store treats differently.                                           *)
EXTENDS Sessions

MCHookEvents == {<<"PreToolUse", "">>, <<"SessionEnd", "">>}
=============================================================================
