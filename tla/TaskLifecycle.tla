--------------------------- MODULE TaskLifecycle ----------------------------
(***************************************************************************)
(* What a client of the image tasks is promised: the phases of a task as   *)
(* list_tasks and stop_task show them (services/image_task_service.py,     *)
(* docs/update-notes-2026-07-09.md).                                       *)
(*                                                                         *)
(* A task runs until it succeeds, fails, times out, is stopped, or its     *)
(* service is restarted.  Only a task that timed out may be continued.  A  *)
(* task that ended is shown unchanged until it is forgotten.               *)
(***************************************************************************)
CONSTANT Keys

VARIABLE phase

Ended == {"success", "failed", "timeout", "stopped", "restarted"}
Phases == {"none", "running"} \cup Ended

\* The moves a task can make.
Moves == ({"running"} \X Ended)
         \cup {<<"none", "running">>, <<"timeout", "running">>}
         \cup (Ended \X {"none"})

Init == phase = [k \in Keys |-> "none"]

\* One request may move several tasks: a list expires some and forgets others.
Next ==
    /\ phase' \in [Keys -> Phases]
    /\ \A k \in Keys : phase'[k] # phase[k] => <<phase[k], phase'[k]>> \in Moves

Spec == Init /\ [][Next]_phase
=============================================================================
