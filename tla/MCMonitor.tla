------------------------------ MODULE MCMonitor ------------------------------
(* An instance of Monitor: a task, an error and a result that answer it in  *)
(* any order, and a payload that is too short.                              *)
EXTENDS Monitor

CONSTANTS task, result, error, short

MCMessages == {task, result, error, short}

MCFormOf == (task :> "task") @@ (result :> "result") @@ (error :> "error") @@ (short :> "short")

MCTaskOf == [m \in MCMessages |-> "A"]

=============================================================================
