--------------------------- MODULE MCTaskPipeline ---------------------------
(* Instances of TaskPipeline: the deliveries of each kind are given by the *)
(* cfg, and so are the deliveries that repeat one task id.                 *)
EXTENDS TaskPipeline

CONSTANTS SingleTasks, BatchTasks, Repeated

MCTasks   == SingleTasks \cup BatchTasks
MCWorkers == {w \in {"batch", "single"} : (IF w = "batch" THEN BatchTasks ELSE SingleTasks) # {}}
MCKind    == [t \in MCTasks |-> IF t \in BatchTasks THEN "batch" ELSE "single"]
MCId      == [t \in MCTasks |-> IF t \in Repeated THEN "repeated" ELSE t]

\* deliveries of one kind are interchangeable when all or none of them repeat
MCSymmetry == Permutations(SingleTasks) \cup Permutations(BatchTasks)

=============================================================================
