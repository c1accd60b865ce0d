---------------------------- MODULE MCTaskCycle ----------------------------
(* Instances of TaskCycle for TLC: two votes, a task that kills the process  *)
(* and one with an unknown command.                                          *)
EXTENDS TaskCycle

CONSTANTS v1, v2, bad, unknown, worker

OneWorker == {worker}
MixedKind == (v1 :> "vote") @@ (v2 :> "vote") @@ (bad :> "poison") @@ (unknown :> "other")
MixedTasks == {v1, v2, bad, unknown}
=============================================================================
