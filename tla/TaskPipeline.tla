---------------------------- MODULE TaskPipeline ----------------------------
(***************************************************************************)
(* The path of a task through one compute node: the select! loop of        *)
(* compute/src/node.rs, the two workflow workers of                        *)
(* compute/src/workers/workflow.rs, and the tokio channels between them.   *)
(*                                                                         *)
(*   message_rx --> node --workflow_{batch,single}_tx--> worker            *)
(*                   ^                                     |               *)
(*                   +----------- publish channel ---------+               *)
(*                                                                         *)
(* All workers share one bounded publish channel, each worker has a        *)
(* bounded workflow channel, and the node's loop is sequential: while it   *)
(* awaits room in a workflow channel it does not read the publish channel. *)
(* A "task" here is one delivery of a task message; two deliveries may     *)
(* carry the same task id.                                                 *)
(***************************************************************************)
EXTENDS Integers, FiniteSets, SequencesExt, Selection

CONSTANTS
    Tasks,          \* deliveries of task messages that reach message_rx
    Kind,           \* the worker each one goes to: "batch" or "single"
    Id,             \* the task id each one carries
    Workers,        \* the workers this node has, as its models need them
    WorkflowCap,    \* WORKFLOW_CHANNEL_BUFSIZE
    PublishCap,     \* PUBLISH_CHANNEL_BUFSIZE
    BatchSize,      \* DKN_BATCH_SIZE
    NoTask          \* the node's hand when it holds no task

MAX_BATCH_SIZE == 8

ASSUME TasksAssumption    == IsFiniteSet(Tasks) /\ NoTask \notin Tasks
ASSUME WorkersAssumption  == Workers # {} /\ Workers \subseteq {"batch", "single"}
ASSUME KindAssumption     == Kind \in [Tasks -> Workers]
ASSUME IdAssumption       == DOMAIN Id = Tasks
ASSUME CapAssumption      == WorkflowCap \in Nat \ {0} /\ PublishCap \in Nat \ {0}
ASSUME BatchSizeAssumption == BatchSize \in 0 .. MAX_BATCH_SIZE

VARIABLES
    inbox,      \* deliveries the node has not looked at yet
    taken,      \* deliveries the node decided to compute
    pc,         \* where the node's run() is
    hand,       \* the task the node is sending or publishing
    pending,    \* pending_tasks_batch, pending_tasks_single: sets of task ids
    completed,  \* completed_tasks_batch, completed_tasks_single
    answers,    \* tasks whose result or error went out on the results topic
    cancelled,  \* the cancellation token
    queue,      \* the workflow channel of each worker
    phase,      \* where each worker's run loop is
    held,       \* tasks a worker took from its channel and not yet executed
    outbox,     \* executed tasks whose publish_tx.send has not gone through
    publish     \* the publish channel, shared by the workers

nodeVars   == <<inbox, taken, pc, hand, pending, completed, answers>>
workerVars == <<phase, held, outbox>>
vars       == <<inbox, taken, pc, hand, pending, completed, answers, cancelled,
                queue, phase, held, outbox, publish>>

Init ==
    /\ inbox = Tasks
    /\ taken = {}
    /\ pc = "select"
    /\ hand = NoTask
    /\ pending = [w \in Workers |-> {}]
    /\ completed = [w \in Workers |-> 0]
    /\ answers = <<>>
    /\ cancelled = FALSE
    /\ queue = [w \in Workers |-> <<>>]
    /\ phase = [w \in Workers |-> "recv"]
    /\ held = [w \in Workers |-> {}]
    /\ outbox = [w \in Workers |-> {}]
    /\ publish = <<>>

-----------------------------------------------------------------------------
(* Where a task can be between the decision to compute it and its answer.  *)

InHand     == {hand} \ {NoTask}
InQueue    == UNION {Range(queue[w]) : w \in Workers}
InWorker   == UNION {held[w] : w \in Workers}
InOutbox   == UNION {outbox[w] : w \in Workers}
InPublish  == Range(publish)
Answered   == Range(answers)

InFlight   == InHand \cup InQueue \cup InWorker \cup InOutbox \cup InPublish

\* the node still accepts work: run() has not left its loop
Running    == pc \notin {"closing", "stopped"}

\* tasks handed to worker w whose result the node has not received yet
Awaiting(w) ==
    {t \in InFlight : Kind[t] = w} \ (IF pc \in {"publishing", "retrying"} THEN InHand ELSE {})

-----------------------------------------------------------------------------
(* The node: one branch of select! at a time.                              *)

\* handle_compute finds the task expired, filtered out, or invalid
Decline(t) ==
    /\ pc = "select"
    /\ t \in inbox
    /\ inbox' = inbox \ {t}
    /\ UNCHANGED <<taken, pc, hand, pending, completed, answers, cancelled,
                   queue, workerVars, publish>>

\* the task id becomes pending before the send that may block
TakeTask(t) ==
    /\ pc = "select"
    /\ t \in inbox
    /\ inbox' = inbox \ {t}
    /\ taken' = taken \cup {t}
    /\ pending' = [pending EXCEPT ![Kind[t]] = @ \cup {Id[t]}]
    /\ hand' = t
    /\ pc' = "sending"
    /\ UNCHANGED <<completed, answers, cancelled, queue, workerVars, publish>>

\* MUTANT: try_send, the error of a full channel being logged
SendTaskDropsWhenFull ==
    LET w == Kind[hand] IN
    /\ pc = "sending"
    /\ phase[w] # "exited"
    /\ queue' = IF Len(queue[w]) < WorkflowCap
                THEN [queue EXCEPT ![w] = Append(@, hand)] ELSE queue
    /\ hand' = NoTask
    /\ pc' = "select"
    /\ UNCHANGED <<inbox, taken, pending, completed, answers, cancelled,
                   workerVars, publish>>

\* MUTANT: an unbounded workflow channel
SendTaskUnbounded ==
    LET w == Kind[hand] IN
    /\ pc = "sending"
    /\ phase[w] # "exited"
    /\ queue' = [queue EXCEPT ![w] = Append(@, hand)]
    /\ hand' = NoTask
    /\ pc' = "select"
    /\ UNCHANGED <<inbox, taken, pending, completed, answers, cancelled,
                   workerVars, publish>>

SendTask ==
    LET w == Kind[hand] IN
    /\ pc = "sending"
    /\ phase[w] # "exited"
    /\ Len(queue[w]) < WorkflowCap
    /\ queue' = [queue EXCEPT ![w] = Append(@, hand)]
    /\ hand' = NoTask
    /\ pc' = "select"
    /\ UNCHANGED <<inbox, taken, pending, completed, answers, cancelled,
                   workerVars, publish>>

\* the worker's receiver is gone: the error is logged and the task forgotten
SendTaskFails ==
    /\ pc = "sending"
    /\ phase[Kind[hand]] = "exited"
    /\ hand' = NoTask
    /\ pc' = "select"
    /\ UNCHANGED <<inbox, taken, pending, completed, answers, cancelled, queue,
                   workerVars, publish>>

\* MUTANT: the pending entry of a batch result is removed from the single set
TakeResultWrongSet ==
    /\ pc = "select"
    /\ publish # <<>>
    /\ LET t == Head(publish) IN
         /\ completed' = [completed EXCEPT ![Kind[t]] = @ + 1]
         /\ pending' = [w \in Workers |->
                           IF w = "single" THEN pending[w] \ {Id[t]} ELSE pending[w]]
         /\ hand' = t
    /\ publish' = Tail(publish)
    /\ pc' = "publishing"
    /\ UNCHANGED <<inbox, taken, answers, cancelled, queue, workerVars>>

\* MUTANT: a result counts as completed only if its id was still pending
TakeResultCountsIds ==
    /\ pc = "select"
    /\ publish # <<>>
    /\ LET t == Head(publish) IN
         /\ completed' = IF Id[t] \in pending[Kind[t]]
                         THEN [completed EXCEPT ![Kind[t]] = @ + 1] ELSE completed
         /\ pending' = [pending EXCEPT ![Kind[t]] = @ \ {Id[t]}]
         /\ hand' = t
    /\ publish' = Tail(publish)
    /\ pc' = "publishing"
    /\ UNCHANGED <<inbox, taken, answers, cancelled, queue, workerVars>>

TakeResult ==
    /\ pc = "select"
    /\ publish # <<>>
    /\ LET t == Head(publish) IN
         /\ completed' = [completed EXCEPT ![Kind[t]] = @ + 1]
         /\ pending' = [pending EXCEPT ![Kind[t]] = @ \ {Id[t]}]
         /\ hand' = t
    /\ publish' = Tail(publish)
    /\ pc' = "publishing"
    /\ UNCHANGED <<inbox, taken, answers, cancelled, queue, workerVars>>

\* node.publish goes through, for the result or for the error that replaces it
Publish ==
    /\ pc \in {"publishing", "retrying"}
    /\ answers' = Append(answers, hand)
    /\ hand' = NoTask
    /\ pc' = "select"
    /\ UNCHANGED <<inbox, taken, pending, completed, cancelled, queue,
                   workerVars, publish>>

\* an error message is published instead
PublishFails ==
    /\ pc = "publishing"
    /\ pc' = "retrying"
    /\ UNCHANGED <<inbox, taken, hand, pending, completed, answers, cancelled,
                   queue, workerVars, publish>>

\* the payload could not be built, or the error message was refused as well:
\* the ? operators of handle_publish and of run() end the loop
RunFails ==
    /\ pc \in {"publishing", "retrying"}
    /\ hand' = NoTask
    /\ pc' = "closing"
    /\ UNCHANGED <<inbox, taken, pending, completed, answers, cancelled, queue,
                   workerVars, publish>>

\* MUTANT: a select! branch for Some(..) only, which None disables
PublishClosedIgnored ==
    /\ pc = "select"
    /\ publish = <<>>
    /\ \A w \in Workers : phase[w] = "exited"
    /\ UNCHANGED vars

\* publish_rx.recv() gives None once every worker dropped its sender
PublishClosed ==
    /\ pc = "select"
    /\ publish = <<>>
    /\ \A w \in Workers : phase[w] = "exited"
    /\ pc' = "closing"
    /\ UNCHANGED <<inbox, taken, hand, pending, completed, answers, cancelled,
                   queue, workerVars, publish>>

SeeCancelled ==
    /\ pc = "select"
    /\ cancelled
    /\ pc' = "closing"
    /\ UNCHANGED <<inbox, taken, hand, pending, completed, answers, cancelled,
                   queue, workerVars, publish>>

\* MUTANT: shutdown() joins the workers before it lets go of their channels
CloseAfterWorkers ==
    /\ pc = "closing"
    /\ \A w \in Workers : phase[w] = "exited"
    /\ publish' = <<>>
    /\ pc' = "stopped"
    /\ UNCHANGED <<inbox, taken, hand, pending, completed, answers, cancelled,
                   queue, workerVars>>

\* shutdown() closes publish_rx and the node is dropped, with its receivers
\* (what they hold is lost) and its workflow senders
Close ==
    /\ pc = "closing"
    /\ publish' = <<>>
    /\ pc' = "stopped"
    /\ UNCHANGED <<inbox, taken, hand, pending, completed, answers, cancelled,
                   queue, workerVars>>

\* a termination signal
Cancel ==
    /\ ~cancelled
    /\ cancelled' = TRUE
    /\ UNCHANGED <<nodeVars, queue, workerVars, publish>>

-----------------------------------------------------------------------------
(* The workers.                                                            *)

\* MUTANT: run_series takes the newest task first
SeriesRecvNewest ==
    /\ "single" \in Workers
    /\ phase["single"] = "recv"
    /\ queue["single"] # <<>>
    /\ held' = [held EXCEPT !["single"] = {Last(queue["single"])}]
    /\ queue' = [queue EXCEPT !["single"] = Front(@)]
    /\ phase' = [phase EXCEPT !["single"] = "exec"]
    /\ UNCHANGED <<nodeVars, cancelled, outbox, publish>>

\* run_series: one task at a time
SeriesRecv ==
    /\ "single" \in Workers
    /\ phase["single"] = "recv"
    /\ queue["single"] # <<>>
    /\ held' = [held EXCEPT !["single"] = {Head(queue["single"])}]
    /\ queue' = [queue EXCEPT !["single"] = Tail(@)]
    /\ phase' = [phase EXCEPT !["single"] = "exec"]
    /\ UNCHANGED <<nodeVars, cancelled, outbox, publish>>

\* MUTANT: every recv_many asks for a whole batch
BatchLimitIgnoresHeld == BatchSize

BatchLimit == BatchSize - Cardinality(held["batch"])

\* MUTANT: the second recv_many of a batch leaves its tasks in the channel
BatchRecvPeeks ==
    LET q == queue["batch"]
        n == Min({BatchLimit, Len(q)}) IN
    /\ "batch" \in Workers
    /\ phase["batch"] \in {"recv", "window"}
    /\ n > 0
    /\ held' = [held EXCEPT !["batch"] = @ \cup Range(SubSeq(q, 1, n))]
    /\ queue' = IF phase["batch"] = "window" THEN queue
                ELSE [queue EXCEPT !["batch"] = SubSeq(q, n + 1, Len(q))]
    /\ phase' = [phase EXCEPT !["batch"] = "window"]
    /\ UNCHANGED <<nodeVars, cancelled, outbox, publish>>

\* run_batch: recv_many for the room left, then a short sleep for latecomers
BatchRecv ==
    LET q == queue["batch"]
        n == Min({BatchLimit, Len(q)}) IN
    /\ "batch" \in Workers
    /\ phase["batch"] \in {"recv", "window"}
    /\ n > 0
    /\ held' = [held EXCEPT !["batch"] = @ \cup Range(SubSeq(q, 1, n))]
    /\ queue' = [queue EXCEPT !["batch"] = SubSeq(q, n + 1, Len(q))]
    /\ phase' = [phase EXCEPT !["batch"] = "window"]
    /\ UNCHANGED <<nodeVars, cancelled, outbox, publish>>

\* MUTANT: the loop collects until the batch is full
BatchStartFull ==
    /\ "batch" \in Workers
    /\ phase["batch"] = "window"
    /\ BatchLimit = 0
    /\ phase' = [phase EXCEPT !["batch"] = "exec"]
    /\ UNCHANGED <<nodeVars, cancelled, queue, held, outbox, publish>>

\* the collecting loop ends with a full batch or an empty channel
BatchStart ==
    /\ "batch" \in Workers
    /\ phase["batch"] = "window"
    /\ BatchLimit = 0 \/ queue["batch"] = <<>>
    /\ phase' = [phase EXCEPT !["batch"] = "exec"]
    /\ UNCHANGED <<nodeVars, cancelled, queue, held, outbox, publish>>

\* execute() is done with t and starts to send its output
Finish(w, t) ==
    /\ phase[w] = "exec"
    /\ t \in held[w]
    /\ held' = [held EXCEPT ![w] = @ \ {t}]
    /\ outbox' = [outbox EXCEPT ![w] = @ \cup {t}]
    /\ UNCHANGED <<nodeVars, cancelled, queue, phase, publish>>

\* MUTANT: the join! waits for one output more than there are
LeaveOutboxLate(w, t) ==
    /\ outbox' = [outbox EXCEPT ![w] = @ \ {t}]
    /\ phase' = [phase EXCEPT ![w] = IF held[w] = {} /\ outbox[w] = {} THEN "recv" ELSE @]

\* MUTANT: the worker goes on when every member is done, whoever still sends its output
LeaveOutboxEarly(w, t) ==
    /\ outbox' = [outbox EXCEPT ![w] = @ \ {t}]
    /\ phase' = [phase EXCEPT ![w] = IF held[w] = {} THEN "recv" ELSE @]

\* the join! of a batch ends with its last member; a series of one likewise
LeaveOutbox(w, t) ==
    /\ outbox' = [outbox EXCEPT ![w] = @ \ {t}]
    /\ phase' = [phase EXCEPT ![w] = IF held[w] = {} /\ outbox[w] = {t} THEN "recv" ELSE @]

SendOutput(w, t) ==
    /\ t \in outbox[w]
    /\ pc # "stopped"
    /\ Len(publish) < PublishCap
    /\ publish' = Append(publish, t)
    /\ LeaveOutbox(w, t)
    /\ UNCHANGED <<nodeVars, cancelled, queue, held>>

\* MUTANT: the output is kept and the send tried again
SendOutputRetries(w, t) ==
    /\ t \in outbox[w]
    /\ pc = "stopped"
    /\ UNCHANGED vars

\* the publish channel is closed: the output is dropped
SendOutputFails(w, t) ==
    /\ t \in outbox[w]
    /\ pc = "stopped"
    /\ LeaveOutbox(w, t)
    /\ UNCHANGED <<nodeVars, cancelled, queue, held, publish>>

\* MUTANT: an empty channel is taken for a closed one (try_recv)
ExitWhenEmpty(w) ==
    /\ phase[w] = "recv"
    /\ queue[w] = <<>>
    /\ phase' = [phase EXCEPT ![w] = "exited"]
    /\ UNCHANGED <<nodeVars, cancelled, queue, held, outbox, publish>>

\* recv gives None (recv_many gives 0) when the sender is dropped and the
\* channel drained; recv_many with limit 0 gives 0 at once
Exit(w) ==
    /\ phase[w] = "recv"
    /\ \/ pc = "stopped" /\ queue[w] = <<>>
       \/ w = "batch" /\ BatchLimit = 0
    /\ phase' = [phase EXCEPT ![w] = "exited"]
    /\ queue' = [queue EXCEPT ![w] = <<>>]
    /\ UNCHANGED <<nodeVars, cancelled, held, outbox, publish>>

-----------------------------------------------------------------------------
NodeStep ==
    \/ SendTask \/ SendTaskFails \/ TakeResult
    \/ Publish \/ PublishFails \/ RunFails
    \/ PublishClosed \/ SeeCancelled \/ Close

WorkerStep ==
    \/ SeriesRecv \/ BatchRecv \/ BatchStart
    \/ \E w \in Workers :
         \/ \E t \in Tasks : Finish(w, t) \/ SendOutput(w, t) \/ SendOutputFails(w, t)
         \/ Exit(w)

Arrival == \E t \in Tasks : Decline(t) \/ TakeTask(t)

Next == NodeStep \/ WorkerStep \/ Arrival \/ Cancel

Spec == Init /\ [][Next]_vars

\* tokio polls a task that was woken; the branches of select! are polled in
\* random order and Tasks is finite, so a ready branch is not passed for ever.
\* Finish is fair because an execution ends, with a result or an error.
Fairness ==
    /\ WF_vars(SendTask \/ SendTaskFails)
    /\ WF_vars(TakeResult)
    /\ WF_vars(Publish \/ PublishFails \/ RunFails)
    /\ WF_vars(PublishClosed)
    /\ WF_vars(SeeCancelled)
    /\ WF_vars(Close)
    /\ WF_vars(SeriesRecv)
    /\ WF_vars(BatchRecv)
    /\ WF_vars(BatchStart)
    /\ \A w \in Workers :
         /\ \A t \in Tasks :
              /\ WF_vars(Finish(w, t))
              /\ WF_vars(SendOutput(w, t))
              /\ WF_vars(SendOutputFails(w, t))
         /\ WF_vars(Exit(w))

FairSpec == Spec /\ Fairness

-----------------------------------------------------------------------------
(* Properties.                                                             *)

\* Types, and the capacities of the channels (workflow.rs:42, node.rs:33).
TypeOK ==
    /\ inbox \subseteq Tasks
    /\ taken \subseteq Tasks
    /\ pc \in {"select", "sending", "publishing", "retrying", "closing", "stopped"}
    /\ hand \in Tasks \cup {NoTask}
    /\ hand # NoTask <=> pc \in {"sending", "publishing", "retrying"}
    /\ pending \in [Workers -> SUBSET Range(Id)]
    /\ completed \in [Workers -> Nat]
    /\ answers \in Seq(Tasks)
    /\ cancelled \in BOOLEAN
    /\ queue \in [Workers -> Seq(Tasks)]
    /\ \A w \in Workers : Len(queue[w]) <= WorkflowCap
    /\ phase \in [Workers -> {"recv", "window", "exec", "exited"}]
    /\ held \in [Workers -> SUBSET Tasks]
    /\ outbox \in [Workers -> SUBSET Tasks]
    /\ publish \in Seq(Tasks)
    /\ Len(publish) <= PublishCap

\* The parts of OnePlace.
NoRepeats ==
    /\ IsInjective(publish) /\ IsInjective(answers)
    /\ \A w \in Workers : IsInjective(queue[w])

PlacesDisjoint ==
    /\ InHand \cap (InQueue \cup InWorker \cup InOutbox \cup InPublish \cup Answered) = {}
    /\ InQueue \cap (InWorker \cup InOutbox \cup InPublish \cup Answered) = {}
    /\ InWorker \cap (InOutbox \cup InPublish \cup Answered) = {}
    /\ InOutbox \cap (InPublish \cup Answered) = {}
    /\ InPublish \cap Answered = {}

OnlyTaken ==
    /\ InFlight \cup Answered \subseteq taken
    /\ taken \cap inbox = {}

RightWorker ==
    \A w \in Workers : \A t \in Range(queue[w]) \cup held[w] \cup outbox[w] : Kind[t] = w

\* A task is never in two hands: the node's, a workflow channel, a worker, the
\* publish channel and the answers sent share no task, so each task is
\* executed at most once and answered at most once, by the worker its model
\* calls for (the moves of node.rs:280-300, 405-425 and workflow.rs:75-240).
OnePlace == NoRepeats /\ PlacesDisjoint /\ OnlyTaken /\ RightWorker

\* The pending sets a pong reports (pingpong.rs:73) are the ids still owed while
\* the node runs: no id stays behind, and an id that one delivery carries is
\* there until the node receives its result. Deliveries that share an id share
\* its entry, which the first result removes (node.rs:283, 295, 411, 415).
PendingIsOwed ==
    (Running /\ BatchSize > 0) => \A w \in Workers :
        /\ pending[w] \subseteq {Id[t] : t \in Awaiting(w)}
        /\ \A t \in Awaiting(w) :
              (\A u \in taken \ {t} : Id[u] # Id[t]) => Id[t] \in pending[w]

\* Every task of a kind the node took is completed or still awaited: the
\* completed counters of the diagnostics (node.rs:410-415, 515-520) miss none
\* and count none twice.
CompletedTally ==
    (Running /\ BatchSize > 0) => \A w \in Workers :
        Cardinality({t \in taken : Kind[t] = w}) = completed[w] + Cardinality(Awaiting(w))

Limit(w) == IF w = "single" THEN 1 ELSE BatchSize

\* What the asserts of run_batch say (workflow.rs:127-131), and run_series' one
\* at a time: a worker that executes has a task, it never has more than its
\* limit, and it collects no new task while an output of the last batch waits
\* to be sent (the join! of workflow.rs:133-208 is a barrier).
WorkerLimits ==
    \A w \in Workers :
        /\ Cardinality(held[w] \cup outbox[w]) <= Limit(w)
        /\ held[w] \cup outbox[w] = {} <=> phase[w] \in {"recv", "exited"}
        /\ phase[w] = "window" => outbox[w] = {}
        /\ w = "single" => phase[w] # "window"

\* The tasks of the single worker, in the order of the path they take: answered,
\* being published, in the publish channel, with the worker, in its channel, and
\* being sent to it.
SeriesPath ==
    LET handIf(at) == SetToSeq(IF pc \in at THEN InHand ELSE {})
    IN  Only(answers \o handIf({"publishing", "retrying"}) \o publish
               \o SetToSeq(held["single"] \cup outbox["single"])
               \o queue["single"] \o handIf({"sending"}),
             {t \in Tasks : Kind[t] = "single"})

\* Series tasks never overtake each other: while the node runs, tasks join
\* their path at its end and none leaves it (run_series, workflow.rs:75-86).
SeriesInOrder ==
    [][("single" \in Workers /\ Running') => IsPrefix(SeriesPath, SeriesPath')]_vars

Batchables == {t \in Tasks : Kind[t] = "batch"}

\* The places a batch task comes through, in the reverse order; one that was not taken
\* yet is behind them all.
Place(t) ==
    CASE t \in Answered                                    -> 0
      [] t \in InHand /\ pc \in {"publishing", "retrying"} -> 1
      [] t \in InPublish                                   -> 2
      [] t \in InWorker \cup InOutbox                      -> 3
      [] t \in InQueue                                     -> 4
      [] t \in InHand /\ pc = "sending"                    -> 5
      [] OTHER                                             -> 6

Before(s, t, u) == \E i, j \in DOMAIN s : i < j /\ s[i] = t /\ s[j] = u

AheadOf(t, u) ==
    \/ Place(t) < Place(u)
    \/ \E s \in {answers, publish, queue["batch"]} : Before(s, t, u)

\* Batch tasks overtake each other only inside a batch: while the node runs, a task that
\* is behind another one stays behind it up to the answers, unless the worker has
\* collected both and is done with neither. No later batch gets past an output that
\* waits for room (recv_many and the join! of run_batch, workflow.rs:103-210).
BatchesInOrder ==
    [][("batch" \in Workers /\ BatchSize > 0 /\ Running') =>
          \A t, u \in Batchables :
              AheadOf(t, u) => AheadOf(t, u)' \/ {t, u} \subseteq held'["batch"]]_vars

\* The node waits for room in the channel of a worker that waits for room in
\* the publish channel, which only the node drains (node.rs:284, 296, 405 and
\* workflow.rs:238): neither can move again.
CircularWait ==
    /\ pc = "sending"
    /\ Len(queue[Kind[hand]]) = WorkflowCap
    /\ Len(publish) = PublishCap
    /\ phase[Kind[hand]] = "exec"
    /\ held[Kind[hand]] = {}

\* The circular wait is for good: no step of another task, no further delivery and no
\* termination signal brings the node out of it (node.rs:284, 296, 400-463).
CircularWaitLasts == [][CircularWait => CircularWait']_vars

\* What the steps of the node and of a worker wait for.
NodeReady ==
    \/ pc = "select" /\ (publish # <<>> \/ cancelled \/ \A w \in Workers : phase[w] = "exited")
    \/ pc = "sending" /\ (phase[Kind[hand]] = "exited" \/ Len(queue[Kind[hand]]) < WorkflowCap)
    \/ pc \in {"publishing", "retrying", "closing"}

WorkerReady(w) ==
    \/ phase[w] = "recv" /\ (queue[w] # <<>> \/ pc = "stopped" \/ (w = "batch" /\ BatchLimit = 0))
    \/ phase[w] = "window"
    \/ phase[w] = "exec" /\ held[w] # {}
    \/ outbox[w] # {} /\ (pc = "stopped" \/ Len(publish) < PublishCap)

WaitsForNode(w) ==
    /\ phase[w] = "exec" /\ held[w] = {} /\ outbox[w] # {}
    /\ Len(publish) = PublishCap /\ pc # "stopped"

\* A worker that has a task, in hand or in its channel, can go on or waits for the
\* node to make room in the publish channel, and for nothing else, be the node there
\* or not; and work that is owed goes on somewhere, up to the circular wait
\* (workflow.rs:75-240, node.rs:400-463).
NobodyWaitsInVain ==
    /\ \A w \in Workers :
          (queue[w] # <<>> \/ held[w] \cup outbox[w] # {}) => WorkerReady(w) \/ WaitsForNode(w)
    /\ (Running /\ InFlight # {} /\ ~CircularWait) =>
          NodeReady \/ \E w \in Workers : WorkerReady(w)

\* "This function will block until the channel is closed" (workflow.rs:73, 89):
\* a worker ends only after the node dropped its sender, with nothing in hand.
WorkerEndsWithChannel ==
    [][\A w \in Workers : (phase[w] # "exited" /\ phase'[w] = "exited") =>
          pc = "stopped" /\ queue[w] = <<>> /\ held[w] \cup outbox[w] = {}]_vars

\* A taken task is answered, unless the node stops or enters the circular wait.
TakenIsAnswered ==
    \A t \in Tasks :
        t \in taken ~> (t \in Answered \/ ~Running \/ CircularWait)

\* A cancelled node stops, unless it waits in a circle: the token is seen at the
\* next select!, and closing waits for no worker (node.rs:462, 482-493).
CancelledStops == cancelled ~> (pc = "stopped" \/ CircularWait)

\* Once the node is gone both workers end, whatever is queued and however full
\* the publish channel was, so that task_tracker.wait() can return (main.rs:129).
StoppedEndsWorkers ==
    (pc = "stopped") ~> (\A w \in Workers : phase[w] = "exited")

\* A node left without workers does not run on: their publish channel gives None
\* and the loop ends, cancelled or not (node.rs:421-424).
NodeEndsWithWorkers ==
    (\A w \in Workers : phase[w] = "exited") ~> (pc = "stopped")

-----------------------------------------------------------------------------
(* The fate of each delivery, read off the channels: TaskLedger.           *)

Fate(t) ==
    CASE t \in inbox    -> "new"
      [] t \in Answered -> "answered"
      [] t \in InFlight -> "held"
      [] t \in taken \ (Answered \cup InFlight) -> "lost"
      [] OTHER -> "declined"

FateMap == [t \in Tasks |-> Fate(t)]

Ledger == INSTANCE TaskLedger WITH ledger <- FateMap, open <- Running

\* While the node runs no taken task is dropped and none is answered twice.
KeepsLedger == Ledger!Spec

=============================================================================
