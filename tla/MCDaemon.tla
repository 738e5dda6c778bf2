------------------------------ MODULE MCDaemon ------------------------------
(***************************************************************************)
(* Spans of one, two and four units of time, the last one longer than the  *)
(* retention, a run long enough to report after one, and one priority for  *)
(* each level and each refusal; two ticks in a life of the daemon, so that *)
(* a run may follow another.                                               *)
(***************************************************************************)
EXTENDS Daemon

MCPriorities == {5, 20, 60, 95, 101}
MCSpans == [low |-> 4, medium |-> 2, critical |-> 1]

=============================================================================
