--------------------------- MODULE MCPluginAlarms ---------------------------
(***************************************************************************)
(* Every plugin, with delays of the administrator, some of them invalid;   *)
(* the valid ones are sorted.                                              *)
(***************************************************************************)
EXTENDS PluginAlarms

MCExplored == {"reboot", "cpu", "expiry", "access", "network"}
MCDelays == {<<2, 90>>, <<20, 40>>, <<0, 100>>, <<5, 101>>, <<>>}

=============================================================================
