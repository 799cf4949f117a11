----------------------------- MODULE TaskLedger -----------------------------
(***************************************************************************)
(* What the task path of a compute node promises, without its queues,      *)
(* workers and batches: each delivery is declined or held, a held task is  *)
(* answered at most once, and none is dropped while the node is open.      *)
(* TaskPipeline implements this specification.                             *)
(***************************************************************************)
CONSTANT Tasks

VARIABLES
    ledger,   \* the fate of each delivery
    open      \* the node's loop is running

Fates == {"new", "declined", "held", "answered", "lost"}

LedgerTypeOK ==
    /\ ledger \in [Tasks -> Fates]
    /\ open \in BOOLEAN

Init ==
    /\ ledger = [t \in Tasks |-> "new"]
    /\ open = TRUE

Move(t, from, to) ==
    /\ ledger[t] = from
    /\ ledger' = [ledger EXCEPT ![t] = to]

Decline(t) == open /\ Move(t, "new", "declined") /\ UNCHANGED open

Hold(t) == open /\ Move(t, "new", "held") /\ UNCHANGED open

Answer(t) == open /\ Move(t, "held", "answered") /\ UNCHANGED open

\* the loop ends; a task whose answer could not be published may end it
Stop ==
    /\ open
    /\ open' = FALSE
    /\ UNCHANGED ledger \/ \E t \in Tasks : Move(t, "held", "lost")

\* held tasks are only ever dropped after that, several at a time
Drop(S) ==
    /\ ~open
    /\ \A t \in S : ledger[t] = "held"
    /\ ledger' = [t \in Tasks |-> IF t \in S THEN "lost" ELSE ledger[t]]
    /\ UNCHANGED open

Next ==
    \/ \E t \in Tasks : Decline(t) \/ Hold(t) \/ Answer(t)
    \/ Stop
    \/ \E S \in SUBSET Tasks : Drop(S)

Spec == Init /\ [][Next]_<<ledger, open>>

=============================================================================
