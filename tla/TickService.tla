----------------------------- MODULE TickService -----------------------------
(***************************************************************************)
(* What the sitter promises about its ticks, whatever threads, mutexes and *)
(* callbacks are used to keep the promise: a tick stays pending until a    *)
(* gathering run serves it, runs never overlap, no run starts without a    *)
(* pending tick or once the service is closing, and a closing service ends *)
(* after the run in progress.  SitterWorker is shown to implement it.      *)
(***************************************************************************)
EXTENDS Naturals

VARIABLES
    phase,    \* "up", "closing" (no run starts any more) or "down"
    pending,  \* ticks no run has served yet
    busy      \* whether a run is in progress

vars == <<phase, pending, busy>>

Init ==
    /\ phase = "up"
    /\ pending = 0
    /\ busy = FALSE

Tick ==
    /\ phase = "up"
    /\ pending' = pending + 1
    /\ UNCHANGED <<phase, busy>>

\* One run serves every tick that was pending when it was decided: the ticks
\* that arrived in between stay pending for the next one.
Begin ==
    /\ phase = "up"
    /\ ~busy
    /\ \E n \in 1..pending : pending' = pending - n
    /\ busy' = TRUE
    /\ UNCHANGED phase

End ==
    /\ busy
    /\ busy' = FALSE
    /\ UNCHANGED <<phase, pending>>

\* A stop request, or the death of the worker, which also cuts its run short.
Close ==
    /\ phase = "up"
    /\ phase' = "closing"
    /\ pending' = 0
    /\ busy' \in {busy, FALSE}

Halt ==
    /\ phase = "closing"
    /\ ~busy
    /\ phase' = "down"
    /\ UNCHANGED <<pending, busy>>

Next == Tick \/ Begin \/ End \/ Close \/ Halt

Fairness ==
    /\ WF_vars(Begin)
    /\ WF_vars(End)
    /\ WF_vars(Halt)

SafeSpec == Init /\ [][Next]_vars

Spec == SafeSpec /\ Fairness

=============================================================================
