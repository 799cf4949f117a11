-------------------------------- MODULE Monitor --------------------------------
(***************************************************************************)
(* The network monitor (monitor/src/main.rs, monitor/src/node.rs): it      *)
(* accepts every gossip message, records the tasks and results among them  *)
(* and prints the tasks without a result. It runs over the same client and *)
(* commander as the compute node, so the client's side is that of P2PLink; *)
(* the receiver of requests is dropped at once, and with it each request.  *)
(***************************************************************************)
EXTENDS Integers, FiniteSets, SequencesExt

CONSTANTS
    Messages,   \* gossip messages the swarm may yield
    FormOf,     \* what the data of each is
    TaskOf,     \* the id of the task it is about
    MsgCap,     \* MSG_CHANNEL_BUFSIZE
    None        \* no event

\* of the topics task and results: a task, its result, the error that answers it
\* instead, data that does not parse, a payload too short to hold a signature
Forms == {"task", "result", "error", "unparsable", "short"}

ASSUME FormAssumption == FormOf \in [Messages -> Forms] /\ DOMAIN TaskOf = Messages
ASSUME CapAssumption == MsgCap \in Nat \ {0} /\ None \notin Messages

VARIABLES
    stage, job, awaits,                        \* the monitor, as the node in P2PLink
    cancelled, cmds, reply, client, event, msgs, reqs,
    topics, arrived, asked, reports, responses,
    tasks,      \* ids of the recorded tasks
    results,    \* ids of the recorded results
    report,     \* the pending tasks printed last
    accepted    \* history: messages the swarm accepted on behalf of the monitor

swarmVars == <<topics, arrived, asked, reports, responses>>
linkVars == <<stage, job, awaits, cancelled, cmds, reply, client, event, msgs, reqs, swarmVars>>
bookVars == <<tasks, results, report, accepted>>
vars == <<linkVars, bookVars>>

Link == INSTANCE P2PLink
        WITH Requests <- {}, SpecRequests <- {}, Topics <- <<"task", "results">>, RpcNodes <- 0

Init ==
    /\ Link!Init
    /\ tasks = {} /\ results = {}
    /\ report = {}
    /\ accepted = {}

\* the process is there
Alive == stage \notin {"exited", "failed"}

-----------------------------------------------------------------------------
(* The monitor's loop.                                                     *)

Begin(commands) == Link!Begin(commands) /\ UNCHANGED <<reqs, bookVars>>

\* MUTANT: the data is parsed before the acceptance
TakeMessageParsesFirst ==
    /\ Link!AtSelect
    /\ msgs # <<>>
    /\ msgs' = Tail(msgs)
    /\ Begin(IF FormOf[Head(msgs)] \in {"task", "result"}
             THEN <<Link!ValidateMessage(Head(msgs))>> ELSE <<>>)

\* the acceptance comes first, whatever the message is
TakeMessage ==
    /\ Link!AtSelect
    /\ msgs # <<>>
    /\ msgs' = Tail(msgs)
    /\ Begin(<<Link!ValidateMessage(Head(msgs))>>)

Pending == tasks \ results

PrintTasks ==
    /\ Link!AtSelect
    /\ report' = Pending
    /\ UNCHANGED <<linkVars, tasks, results, accepted>>

PrintPeers ==
    /\ Link!AtSelect
    /\ Begin(<<Link!PeerCounts>>)
    /\ UNCHANGED msgs

\* MUTANT: the client is not told to shut down
SeeCancelledQuietly ==
    /\ Link!AtSelect
    /\ cancelled
    /\ Link!Closing(Link!Unsubscribes)
    /\ UNCHANGED <<awaits, reply, bookVars>>

SeeCancelled ==
    /\ Link!AtSelect
    /\ cancelled
    /\ Link!Closing(Append(Link!Unsubscribes, Link!Shutdown))
    /\ UNCHANGED <<awaits, reply, bookVars>>

SendCommand == Link!SendCommand /\ UNCHANGED bookVars

\* MUTANT: a result takes its task off the list, and is not kept
RecordTicksOff(m) ==
    /\ tasks' = CASE FormOf[m] = "task"   -> tasks \cup {TaskOf[m]}
                  [] FormOf[m] = "result" -> tasks \ {TaskOf[m]}
                  [] OTHER                -> tasks
    /\ UNCHANGED results
    /\ accepted' = accepted \cup {m}

\* handle_message after the acceptance: an answer with an error does not parse as
\* a result, and is not recorded
Record(m) ==
    /\ tasks' = IF FormOf[m] = "task" THEN tasks \cup {TaskOf[m]} ELSE tasks
    /\ results' = IF FormOf[m] = "result" THEN results \cup {TaskOf[m]} ELSE results
    /\ accepted' = accepted \cup {m}

\* a validation that fails leaves handle_message; the other errors end main
Continue ==
    /\ Link!Replied
    /\ LET c == Head(job)
       IN  /\ c # Link!Shutdown
           /\ reply = "error" => c.op = "validate"
           /\ IF c.op = "validate" /\ reply = "ok"
              THEN FormOf[c.arg] # "short" /\ Record(c.arg)
              ELSE UNCHANGED <<tasks, results, accepted>>
    /\ job' = Tail(job)
    /\ stage' = IF stage = "starting" /\ job' = <<>> THEN "running" ELSE stage
    /\ UNCHANGED <<cancelled, cmds, client, event, msgs, reqs, swarmVars, report>>

\* main ends with an error of a subscribe or unsubscribe, or with the panic of a
\* slice of a payload; the runtime drops the client, and all channels are gone
Fail ==
    /\ Link!Replied
    /\ \/ reply = "error" /\ Head(job).op \in {"subscribe", "unsubscribe"}
       \/ reply = "ok" /\ Head(job).op = "validate" /\ FormOf[Head(job).arg] = "short"
    /\ stage' = "failed"
    /\ job' = <<>>
    /\ client' = "ended"
    /\ event' = None
    /\ msgs' = <<>>
    /\ UNCHANGED <<cancelled, cmds, reqs, swarmVars, bookVars>>

\* shutdown() prints one final time, whatever still waits in the channel
Stop ==
    /\ Link!Stop
    /\ report' = Pending
    /\ UNCHANGED <<tasks, results, accepted>>

\* main waits for the client, and for the task of the signals
Exit ==
    /\ stage = "stopped"
    /\ client = "ended"
    /\ cancelled
    /\ stage' = "exited"
    /\ UNCHANGED <<job, awaits, cancelled, cmds, reply, client, event, msgs, reqs,
                   swarmVars, bookVars>>

Cancel == Alive /\ Link!Cancel /\ UNCHANGED bookVars

-----------------------------------------------------------------------------
(* The client.                                                             *)

HandleCommand == Link!HandleCommand /\ UNCHANGED bookVars
EndClient     == Link!EndClient /\ UNCHANGED bookVars
Forward       == Link!Forward /\ UNCHANGED bookVars
Yield(m)      == Link!YieldMessage(m) /\ UNCHANGED bookVars

-----------------------------------------------------------------------------
Next ==
    \/ TakeMessage \/ PrintTasks \/ PrintPeers \/ SeeCancelled
    \/ SendCommand \/ Continue \/ Fail \/ Stop \/ Exit
    \/ HandleCommand \/ EndClient \/ Forward
    \/ \E m \in Messages : Yield(m)
    \/ Cancel

Spec == Init /\ [][Next]_vars

\* As in P2PLink; the timers are not needed for anything.
Fairness ==
    /\ WF_vars(SendCommand) /\ WF_vars(Continue) /\ WF_vars(Fail) /\ WF_vars(Stop)
    /\ WF_vars(Exit)
    /\ WF_vars(HandleCommand) /\ WF_vars(EndClient) /\ WF_vars(Forward)
    /\ SF_vars(TakeMessage) /\ SF_vars(SeeCancelled)

FairSpec == Spec /\ Fairness

-----------------------------------------------------------------------------
(* Properties.                                                             *)

TypeOK ==
    /\ stage \in {"starting", "running", "closing", "stopped", "exited", "failed"}
    /\ job \in Seq(Link!Commands)
    /\ awaits \in BOOLEAN /\ cancelled \in BOOLEAN
    /\ cmds \in Seq(Link!Commands)
    /\ reply \in {"none", "ok", "error"}
    /\ client \in {"loop", "forwarding", "closing", "ended"}
    /\ event \in Messages \cup {None}
    /\ msgs \in Seq(Messages) /\ Len(msgs) <= MsgCap
    /\ {tasks, results, report} \subseteq SUBSET Range(TaskOf)
    /\ accepted \subseteq Range(reports)

\* Every report, the final one included, names the tasks among the accepted messages
\* that have no result among them, in whatever order task and result came. A task whose
\* result is queued at the end stays in it, and so does one that was answered with an
\* error, which is RespondedAreOff's subject (node.rs:57-68, 138-173).
ReportsAreExact ==
    [][LET about(form) == {TaskOf[m] : m \in {a \in accepted : FormOf[a] = form}}
       IN  PrintTasks \/ Stop => report' = about("task") \ about("result")]_vars

\* "Print the tasks (ids) that have not been responded to" (node.rs:152): a task whose
\* answer was accepted is in no report afterwards, be the answer a result or "a task
\* error response" (compute/src/payloads/error.rs:5, handlers/workflow.rs:134-157).
RespondedAreOff ==
    [][LET answers == {m \in accepted : FormOf[m] \in {"result", "error"}}
       IN  PrintTasks \/ Stop => report' \cap {TaskOf[m] : m \in answers} = {}]_vars

\* Every message gets its acceptance, parsable or not, which is what keeps the
\* monitor from cutting others off from the network, unless the monitor stops first
\* (node.rs:126-133).
ArrivedIsAccepted ==
    \A m \in Messages :
        m \in Range(arrived) ~>
            (m \in Range(reports) \/ stage \in {"stopped", "exited", "failed"}
                \/ Link!LinkDeadlock)

\* A termination signal ends the process, with its final report or with an error, up
\* to the deadlock the monitor's link shares with that of the node (node.rs:57-99,
\* main.rs:44-78).
CancelledExits == cancelled ~> (~Alive \/ Link!LinkDeadlock)

-----------------------------------------------------------------------------
(* What gossipsub sees of the monitor: AcceptanceLedger.                   *)

Ledger == INSTANCE AcceptanceLedger WITH open <- stage \notin {"stopped", "exited", "failed"}

\* Gossipsub is told the acceptance of each message in the order in which it came,
\* whatever the message holds and whichever could not be handled; none is passed over
\* (node.rs:126-173, client.rs:308-316).
KeepsAcceptances == Ledger!Spec

=============================================================================
