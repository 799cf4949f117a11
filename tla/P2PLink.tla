------------------------------- MODULE P2PLink -------------------------------
(***************************************************************************)
(* The compute node's loop (compute/src/node.rs) and the peer-to-peer      *)
(* client's loop (p2p/src/client.rs), which talk over three channels:      *)
(*                                                                         *)
(*    node --commands (with a oneshot for the reply)--> client             *)
(*    node <------- gossip messages, requests --------- client             *)
(*                                                                         *)
(* Each loop awaits the other's channel inside its handlers: the client    *)
(* the room in the message channel, the node the reply to its command.     *)
(* The swarm is external: it yields gossip messages of the topics it was   *)
(* subscribed to (each once, its duplicate cache sees to that) and         *)
(* requests, and it accepts or refuses what it is asked to do.             *)
(***************************************************************************)
EXTENDS Integers, FiniteSets, SequencesExt, Selection

CONSTANTS
    Messages,    \* gossip messages the swarm may yield
    Requests,    \* requests of the request-response protocol it may yield
    SpecRequests, \* those for the node's specs, from RPC nodes it knew when it started
    MsgCap,      \* MSG_CHANNEL_BUFSIZE, of both channels to the node
    Topics,      \* the topics the node subscribes to, in order
    RpcNodes,    \* how many RPC nodes a refresh dials
    None         \* no event

ASSUME EventsAssumption == Messages \cap Requests = {} /\ None \notin Messages \cup Requests
ASSUME RequestsAssumption == SpecRequests \subseteq Requests
ASSUME MsgCapAssumption == MsgCap \in Nat \ {0}
ASSUME TopicsAssumption == Topics \in Seq(Range(Topics)) \ {<<>>} /\ IsInjective(Topics)
ASSUME RpcNodesAssumption == RpcNodes \in Nat

VARIABLES
    stage,      \* how far the node's run() is
    job,        \* the commands the node's current handler still has to send
    awaits,     \* the node awaits the reply to Head(job)
    cancelled,  \* the cancellation token
    cmds,       \* the command channel
    reply,      \* the oneshot of the command that was handled last
    client,     \* where the client's run() is
    event,      \* the event the client is forwarding to the node
    msgs,       \* the channel of gossip messages
    reqs,       \* the channel of requests
    topics,     \* subscribed topics
    arrived,    \* gossip messages the swarm yielded, in order
    asked,      \* requests the swarm yielded, in order
    reports,    \* messages whose acceptance gossipsub was told, in order
    responses   \* requests whose response the swarm was given, in order

nodeVars   == <<stage, job, awaits>>
clientVars == <<client, event>>
swarmVars  == <<topics, arrived, asked, reports, responses>>
vars == <<stage, job, awaits, cancelled, cmds, reply, client, event, msgs, reqs,
          topics, arrived, asked, reports, responses>>

Cmd(op, arg) == [op |-> op, arg |-> arg]

Subscribes   == [i \in 1 .. Len(Topics) |-> Cmd("subscribe", Topics[i])]
Unsubscribes == [i \in 1 .. Len(Topics) |-> Cmd("unsubscribe", Topics[i])]
Dials        == [i \in 1 .. RpcNodes |-> Cmd("dial", None)]
PeerCounts   == Cmd("peer_counts", None)
Shutdown     == Cmd("shutdown", None)
ValidateMessage(m) == Cmd("validate", m)
Respond(r)   == Cmd("respond", r)
Pong         == Cmd("publish_pong", None)
PublishResult == Cmd("publish_result", None)
PublishError == Cmd("publish_error", None)

Commands ==
    Range(Subscribes) \cup Range(Unsubscribes)
    \cup {ValidateMessage(m) : m \in Messages} \cup {Respond(r) : r \in Requests}
    \cup {Cmd("dial", None), PeerCounts, Shutdown, Pong, PublishResult, PublishError}

Init ==
    /\ stage = "starting"
    /\ job = Subscribes
    /\ awaits = FALSE
    /\ cancelled = FALSE
    /\ cmds = <<>>
    /\ reply = "none"
    /\ client = "loop"
    /\ event = None
    /\ msgs = <<>> /\ reqs = <<>>
    /\ topics = {}
    /\ arrived = <<>> /\ asked = <<>>
    /\ reports = <<>> /\ responses = <<>>

-----------------------------------------------------------------------------
(* The node. A handler is the list of commands it sends, one at a time.    *)

AtSelect == stage = "running" /\ job = <<>>

Begin(commands) ==
    /\ job' = commands
    /\ UNCHANGED <<stage, awaits, cancelled, cmds, reply, clientVars, swarmVars>>

\* handle_message, then its acceptance; a ping is answered with a pong first
TakeMessage ==
    /\ AtSelect
    /\ msgs # <<>>
    /\ msgs' = Tail(msgs)
    /\ \E before \in {<<>>, <<Pong>>} : Begin(Append(before, ValidateMessage(Head(msgs))))
    /\ UNCHANGED reqs

\* MUTANT: an address lookup that fails leaves handle_request by ?, without a response
TakeRequestLookupFails ==
    /\ AtSelect
    /\ reqs # <<>>
    /\ reqs' = Tail(reqs)
    /\ \E commands \in {<<>>, <<Respond(Head(reqs))>>} : Begin(commands)
    /\ UNCHANGED msgs

\* handle_request: its checks pass for the spec requests of RPC nodes, which are never
\* forgotten, and a failed lookup only leaves its field empty; the others may be refused
TakeRequest ==
    /\ AtSelect
    /\ reqs # <<>>
    /\ reqs' = Tail(reqs)
    /\ \/ Begin(<<Respond(Head(reqs))>>)
       \/ Head(reqs) \notin SpecRequests /\ Begin(<<>>)
    /\ UNCHANGED msgs

\* a worker's output, the diagnostics tick and the refresh tick
TakeResult == AtSelect /\ Begin(<<PublishResult>>) /\ UNCHANGED <<msgs, reqs>>
Diagnose   == AtSelect /\ Begin(<<PeerCounts>>) /\ UNCHANGED <<msgs, reqs>>
Refresh    == AtSelect /\ RpcNodes > 0 /\ Begin(Dials) /\ UNCHANGED <<msgs, reqs>>

\* run() leaves its loop cleanly, or with an error after which main shuts down
Closing(commands) ==
    /\ stage' = "closing"
    /\ job' = commands
    /\ UNCHANGED <<cancelled, cmds, clientVars, msgs, reqs, swarmVars>>

SeeCancelled ==
    /\ AtSelect
    /\ cancelled
    /\ Closing(Unsubscribes \o <<PeerCounts, Shutdown>>)
    /\ UNCHANGED <<awaits, reply>>

\* the payload of a result could not be built
PayloadFails ==
    /\ AtSelect
    /\ Closing(<<Shutdown>>)
    /\ UNCHANGED <<awaits, reply>>

SendCommand ==
    /\ job # <<>>
    /\ ~awaits
    /\ cmds' = Append(cmds, Head(job))
    /\ awaits' = TRUE
    /\ UNCHANGED <<stage, job, cancelled, reply, clientVars, msgs, reqs, swarmVars>>

\* errors the handlers pass on with ?, those of subscribe, unsubscribe and of
\* the second publish; after one of them main only shuts the node down
Fatal(command) == command.op \in {"subscribe", "unsubscribe", "publish_error"}

Replied ==
    /\ awaits
    /\ reply # "none"
    /\ awaits' = FALSE
    /\ reply' = "none"

\* MUTANT: an error of the pong leaves handle_message by ?, without an acceptance
ContinueDropsAcceptance ==
    /\ Replied
    /\ Head(job) # Shutdown
    /\ ~(reply = "error" /\ Fatal(Head(job)))
    /\ job' = CASE reply = "error" /\ Head(job) = PublishResult -> <<PublishError>>
              [] reply = "error" /\ Head(job) = Pong -> <<>>
              [] OTHER -> Tail(job)
    /\ stage' = IF stage = "starting" /\ Tail(job) = <<>> THEN "running" ELSE stage
    /\ UNCHANGED <<cancelled, cmds, clientVars, msgs, reqs, swarmVars>>

\* the next command of the handler, or of an error's follow-up
Continue ==
    /\ Replied
    /\ Head(job) # Shutdown
    /\ ~(reply = "error" /\ Fatal(Head(job)))
    /\ job' = IF reply = "error" /\ Head(job) = PublishResult
              THEN <<PublishError>> ELSE Tail(job)
    /\ stage' = IF stage = "starting" /\ Tail(job) = <<>> THEN "running" ELSE stage
    /\ UNCHANGED <<cancelled, cmds, clientVars, msgs, reqs, swarmVars>>

\* MUTANT: main drops the node on an error, without the shutdown
FailWithoutShutdown ==
    /\ Replied
    /\ reply = "error" /\ Fatal(Head(job))
    /\ stage' = "stopped"
    /\ job' = <<>>
    /\ UNCHANGED <<cancelled, cmds, clientVars, msgs, reqs, swarmVars>>

\* MUTANT: what was refused is tried again until it is accepted
FailRetries ==
    /\ Replied
    /\ reply = "error" /\ Fatal(Head(job))
    /\ UNCHANGED <<stage, job, cancelled, cmds, clientVars, msgs, reqs, swarmVars>>

Fail ==
    /\ Replied
    /\ reply = "error" /\ Fatal(Head(job))
    /\ Closing(<<Shutdown>>)

\* shutdown() closes message_rx; the node is dropped, with what waits in it
Stop ==
    /\ Replied
    /\ Head(job) = Shutdown
    /\ stage' = "stopped"
    /\ job' = <<>>
    /\ msgs' = <<>> /\ reqs' = <<>>
    /\ UNCHANGED <<cancelled, cmds, clientVars, swarmVars>>

\* a termination signal
Cancel ==
    /\ ~cancelled
    /\ cancelled' = TRUE
    /\ UNCHANGED <<nodeVars, cmds, reply, clientVars, msgs, reqs, swarmVars>>

-----------------------------------------------------------------------------
(* The client: commands first (the select! is biased), then swarm events.  *)

Outcomes(command) ==
    IF command.op \in {"peer_counts", "shutdown"} THEN {"ok"} ELSE {"ok", "error"}

\* handle_command: the swarm is told, and the outcome goes into the oneshot
HandleCommand ==
    /\ client = "loop"
    /\ cmds # <<>>
    /\ cmds' = Tail(cmds)
    /\ LET op  == Head(cmds).op
           arg == Head(cmds).arg IN
       \E outcome \in Outcomes(Head(cmds)) :
         /\ reply' = outcome
         /\ topics' = CASE outcome = "ok" /\ op = "subscribe"   -> topics \cup {arg}
                        [] outcome = "ok" /\ op = "unsubscribe" -> topics \ {arg}
                        [] OTHER -> topics
         /\ reports' = IF op = "validate" THEN Append(reports, arg) ELSE reports
         /\ responses' = IF op = "respond" THEN Append(responses, arg) ELSE responses
         /\ client' = IF op = "shutdown" THEN "closing" ELSE client
    /\ UNCHANGED <<nodeVars, cancelled, event, msgs, reqs, arrived, asked>>

\* MUTANT: the client looks at the cancellation token itself
EndClientOnCancel ==
    /\ client = "closing" \/ (client = "loop" /\ cancelled)
    /\ client' = "ended"
    /\ UNCHANGED <<nodeVars, cancelled, cmds, reply, event, msgs, reqs, swarmVars>>

\* the command channel is closed and empty
EndClient ==
    /\ client = "closing"
    /\ client' = "ended"
    /\ UNCHANGED <<nodeVars, cancelled, cmds, reply, event, msgs, reqs, swarmVars>>

Yield(e) ==
    /\ client = "loop"
    /\ cmds = <<>>
    /\ event' = e
    /\ client' = "forwarding"
    /\ UNCHANGED <<nodeVars, cancelled, cmds, reply, msgs, reqs, topics, reports, responses>>

\* of a subscribed topic, or one that came in before the last unsubscribe
YieldMessage(m) ==
    /\ topics # {} \/ stage = "closing"
    /\ m \notin Range(arrived)
    /\ arrived' = Append(arrived, m)
    /\ Yield(m)
    /\ UNCHANGED asked

YieldRequest(r) ==
    /\ r \notin Range(asked)
    /\ asked' = Append(asked, r)
    /\ Yield(r)
    /\ UNCHANGED arrived

\* MUTANT: try_send, an event that finds no room being logged
ForwardOrDrop ==
    /\ client = "forwarding"
    /\ IF event \in Messages
       THEN msgs' = (IF Len(msgs) < MsgCap THEN Append(msgs, event) ELSE msgs) /\ UNCHANGED reqs
       ELSE reqs' = (IF Len(reqs) < MsgCap THEN Append(reqs, event) ELSE reqs) /\ UNCHANGED msgs
    /\ client' = "loop"
    /\ event' = None
    /\ UNCHANGED <<nodeVars, cancelled, cmds, reply, swarmVars>>

\* MUTANT: unbounded channels to the node
ForwardUnbounded ==
    /\ client = "forwarding"
    /\ \/ event \in Messages /\ msgs' = Append(msgs, event) /\ UNCHANGED reqs
       \/ event \in Requests /\ reqs' = Append(reqs, event) /\ UNCHANGED msgs
    /\ client' = "loop"
    /\ event' = None
    /\ UNCHANGED <<nodeVars, cancelled, cmds, reply, swarmVars>>

\* handle_event awaits the room in the channel, and with it the whole client
Forward ==
    /\ client = "forwarding"
    /\ \/ event \in Messages /\ Len(msgs) < MsgCap /\ msgs' = Append(msgs, event) /\ UNCHANGED reqs
       \/ event \in Requests /\ Len(reqs) < MsgCap /\ reqs' = Append(reqs, event) /\ UNCHANGED msgs
    /\ client' = "loop"
    /\ event' = None
    /\ UNCHANGED <<nodeVars, cancelled, cmds, reply, swarmVars>>

-----------------------------------------------------------------------------
NodeStep ==
    \/ TakeMessage \/ TakeRequest \/ TakeResult \/ Diagnose \/ Refresh
    \/ SeeCancelled \/ PayloadFails
    \/ SendCommand \/ Continue \/ Fail \/ Stop

ClientStep == HandleCommand \/ EndClient \/ Forward

SwarmStep ==
    \/ \E m \in Messages : YieldMessage(m)
    \/ \E r \in Requests : YieldRequest(r)

Next == NodeStep \/ ClientStep \/ SwarmStep \/ Cancel

Spec == Init /\ [][Next]_vars

\* tokio polls a task that was woken. The node's select! picks among the ready
\* branches at random, so one that is ready whenever the loop comes round is
\* picked in the end; no swarm event, tick or result is promised. SendCommand
\* is fair where a handler reaches its next command: see TaskPipeline and
\* MessageHandling for those that may not.
Fairness ==
    /\ WF_vars(SendCommand) /\ WF_vars(Continue) /\ WF_vars(Fail) /\ WF_vars(Stop)
    /\ WF_vars(HandleCommand) /\ WF_vars(EndClient) /\ WF_vars(Forward)
    /\ SF_vars(TakeMessage) /\ SF_vars(TakeRequest) /\ SF_vars(SeeCancelled)

FairSpec == Spec /\ Fairness

-----------------------------------------------------------------------------
(* Properties.                                                             *)

TypeOK ==
    /\ stage \in {"starting", "running", "closing", "stopped"}
    /\ job \in Seq(Commands)
    /\ awaits \in BOOLEAN
    /\ cancelled \in BOOLEAN
    /\ cmds \in Seq(Commands)
    /\ reply \in {"none", "ok", "error"}
    /\ client \in {"loop", "forwarding", "closing", "ended"}
    /\ event \in Messages \cup Requests \cup {None}
    /\ client = "forwarding" <=> event # None
    /\ msgs \in Seq(Messages) /\ Len(msgs) <= MsgCap
    /\ reqs \in Seq(Requests) /\ Len(reqs) <= MsgCap
    /\ topics \subseteq Range(Topics)
    /\ arrived \in Seq(Messages) /\ asked \in Seq(Requests)
    /\ reports \in Seq(Messages) /\ responses \in Seq(Requests)

\* The node never has two commands under way and each oneshot answers the
\* command the node awaits, so the command channel (client.rs:39) never fills
\* and an acceptance cannot be taken for that of another message
\* (commands.rs:107-312, node.rs:440).
OneCommand ==
    /\ Len(cmds) + (IF reply = "none" THEN 0 ELSE 1) = (IF awaits THEN 1 ELSE 0)
    /\ awaits => job # <<>>
    /\ cmds # <<>> => Head(cmds) = Head(job)

\* A command that has its reply is done.
Todo == IF reply = "none" THEN job ELSE Tail(job)

\* the messages whose acceptances are among some commands
Handling(commands) ==
    LET acceptances == Only(commands, {ValidateMessage(m) : m \in Messages})
    IN  [i \in DOMAIN acceptances |-> acceptances[i].arg]

\* the event in the client's hand, if it is one of these
Forwarding(events) == IF event \in events THEN <<event>> ELSE <<>>

\* Messages on their way to their acceptance: in the handler, in the channel and
\* in the client's hand.
Unreported == Handling(Todo) \o msgs \o Forwarding(Messages)

\* Every gossip message gossipsub holds for validation is reported exactly once
\* and in the order of arrival, whatever the node was busy with and whether or
\* not its pong could be published; only stopping leaves some unreported
\* (client.rs:308-316, node.rs:433-447).
ReportedInOrder ==
    IF stage = "stopped" THEN IsPrefix(reports, arrived)
    ELSE reports \o Unreported = arrived

\* Requests on their way to the node, and those it has taken.
Waiting == reqs \o Forwarding(Requests)
Taken   == SubSeq(asked, 1, Len(asked) - Len(Waiting))

\* the requests whose responses are among some commands
Answering(commands) ==
    LET answers == Only(commands, {Respond(r) : r \in Requests})
    IN  [i \in DOMAIN answers |-> answers[i].arg]

\* Responses the swarm was given, or that the node's handler still has to send.
Given == responses \o Answering(Todo)

\* A request the node has taken is settled by the end of its handler: of those it took,
\* and in their order, all that are for the specs of an RPC node it knew have their response,
\* the others at most one, and none is lost on the way to the node, whatever fails
\* meanwhile (client.rs:322-330, node.rs:344-381, specs.rs:66-80).
RequestsSettled ==
    stage # "stopped" =>
        /\ asked = Taken \o Waiting
        /\ Given = Only(Taken, SpecRequests \cup Range(Given))

\* However the node's run() returned, the client heard of it before the node was
\* dropped with its receivers, and forwards nothing any more: no event is sent
\* into a channel without a receiver (node.rs:482-493, main.rs:118-126).
StopsInOrder ==
    /\ stage = "stopped" => client \in {"closing", "ended"}
    /\ client \in {"closing", "ended"} => event = None /\ cmds = <<>>

\* The client waits for room in a channel that only the node drains, while the
\* node waits for the client's reply (client.rs:313, 327, commands.rs:107-312).
LinkDeadlock ==
    /\ client = "forwarding"
    /\ IF event \in Messages THEN Len(msgs) = MsgCap ELSE Len(reqs) = MsgCap
    /\ awaits
    /\ reply = "none"

\* The deadlock is for good: neither a termination signal nor anything the swarm does
\* ends it, since the client polls neither while it waits (client.rs:163-180, 313, 327,
\* node.rs:400-479).
LinkDeadlockLasts == [][LinkDeadlock => LinkDeadlock']_vars

\* What the steps of a handler of the node, and those of the client for it, wait for.
HandlerReady ==
    \/ job # <<>> /\ ~awaits
    \/ awaits /\ reply # "none"
    \/ client = "loop" /\ cmds # <<>>
    \/ /\ client = "forwarding"
       /\ IF event \in Messages THEN Len(msgs) < MsgCap ELSE Len(reqs) < MsgCap

\* A handler under way has a next step, its own or one of the client for it, up to the
\* deadlock: no reply is missed, and no command goes to a client that has closed
\* (commands.rs:107-312, client.rs:163-180).
HandlersGoOn == (stage # "stopped" /\ ~AtSelect /\ ~LinkDeadlock) => HandlerReady

\* The steps a handler has left, three for a command: it is sent, it is handled and its
\* reply taken. A refused result is followed by an error message, and an error that is
\* passed on by the shutdown.
StepsLeft ==
    3 * (Len(job) + (IF job # <<>> /\ Head(job) = PublishResult THEN 1 ELSE 0)
                  + (IF stage \in {"starting", "running"} THEN 1 ELSE 0))
      - (IF awaits THEN 1 ELSE 0) - (IF reply = "none" THEN 0 ELSE 1)

\* Every step of a handler, those of an error's way out included, is one of a number
\* fixed when it begins; none is tried again, and what arrives meanwhile adds none. So
\* handlers end and so does the shutdown, up to the deadlock (node.rs:385-493,
\* main.rs:118-126).
HandlersCountDown ==
    [][job # <<>> => StepsLeft' < StepsLeft \/ UNCHANGED <<stage, job, awaits, reply>>]_vars

\* "this is a special keyword [...] which will effectively prioritize commands
\* over events" (client.rs:166-167): a command that is waiting is handled.
CommandsFirst == (cmds # <<>>) ~> (cmds = <<>>)

\* Every message handed to the node gets its acceptance, which gossipsub awaits
\* before it forwards it to others, and every spec request of an RPC node its response
\* (client.rs:308-330, node.rs:344-381, 431-458).
ArrivedIsSettled ==
    /\ \A m \in Messages :
          m \in Range(arrived) ~> (m \in Range(reports) \/ stage = "stopped" \/ LinkDeadlock)
    /\ \A r \in SpecRequests :
          r \in Range(asked) ~> (r \in Range(responses) \/ stage = "stopped" \/ LinkDeadlock)

\* A termination signal ends both loops, in the middle of whatever they do
\* (node.rs:462-479, client.rs:288-300, 172-175).
CancelledEndsBoth ==
    cancelled ~> ((stage = "stopped" /\ client = "ended") \/ LinkDeadlock)

-----------------------------------------------------------------------------
(* What gossipsub sees of the link: AcceptanceLedger.                      *)

Ledger == INSTANCE AcceptanceLedger WITH open <- stage # "stopped"

\* The message gossipsub has held longest is the next one it is told the acceptance of,
\* at every step, until the node has stopped (client.rs:308-316, node.rs:433-447).
KeepsAcceptances == Ledger!Spec

=============================================================================
