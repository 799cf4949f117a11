-------------------------- MODULE AcceptanceLedger --------------------------
(***************************************************************************)
(* What the link between a node and its client promises gossipsub, without *)
(* channels, commands and replies: of the messages it holds for validation *)
(* the oldest one is reported next, and none is passed over while the node *)
(* is open. P2PLink and Monitor implement this specification.              *)
(***************************************************************************)
EXTENDS Integers, SequencesExt

CONSTANT Messages

VARIABLES
    arrived,   \* the messages held for validation, ever, in order
    reports,   \* those whose acceptance was told, in order
    open       \* the node has not stopped

Init ==
    /\ arrived = <<>>
    /\ reports = <<>>
    /\ open = TRUE

Arrive(m) ==
    /\ open
    /\ m \notin Range(arrived)
    /\ arrived' = Append(arrived, m)
    /\ UNCHANGED <<reports, open>>

\* the oldest message that waits for it
Report ==
    /\ open
    /\ Len(reports) < Len(arrived)
    /\ reports' = Append(reports, arrived[Len(reports) + 1])
    /\ UNCHANGED <<arrived, open>>

\* the messages that still wait are never reported
Close ==
    /\ open
    /\ open' = FALSE
    /\ UNCHANGED <<arrived, reports>>

Next == (\E m \in Messages : Arrive(m)) \/ Report \/ Close

Spec == Init /\ [][Next]_<<arrived, reports, open>>

=============================================================================
