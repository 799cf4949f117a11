--------------------------- MODULE MessageHandling ---------------------------
(***************************************************************************)
(* What the node's loop makes of gossip messages, requests and the ticks   *)
(* of its two timers: handle_message and its handlers, handle_request,     *)
(* handle_diagnostic_refresh and handle_available_nodes_refresh of         *)
(* compute/src/node.rs, over the known nodes (KnownNodes) and the peers of *)
(* the client (PeerIdentify). Where tasks go from here is TaskPipeline;    *)
(* the channels and commands between node and client are P2PLink.          *)
(***************************************************************************)
EXTENDS PeerIdentify, ModelMatching

CONSTANTS
    Messages,      \* the gossip messages that may come
    Requests,      \* the requests that may come
    Models,        \* the models that passed the service check
    PingLiveness,  \* PING_LIVENESS_SECS
    MaxClock,      \* bound: the last time
    MaxInbox,      \* bound: messages, and requests, that wait
    MaxEvents      \* bound: messages, requests and events of peers

\* form: of the data, up to the signature; topic: the one in the data; body: the
\* first thing a handler finds amiss, or "ours" and the model names it asks for
Forms  == {"garbled", "short", "undecodable", "wrong", "signed"}
Bodies == {"unparsable", "badfilter", "emptyfilter", "others", "badkey", "ours"}

ASSUME MessageAssumption ==
    Messages \subseteq [gossip : STRING, source : Peer \cup {NoPeer}, form : Forms,
                        topic : STRING, deadline : Nat, body : Bodies, names : SUBSET Names]
ASSUME RequestAssumption ==
    Requests \subseteq [peer : Peer, kind : {"specs", "task", "unknown"}]
ASSUME BoundAssumption ==
    /\ {PingLiveness, MaxClock, MaxInbox, MaxEvents} \subseteq Nat
    /\ Models \in Seq(Model) /\ Models # <<>>

VARIABLES
    clock,
    inbox,       \* message_rx
    requests,    \* request_rx
    node,        \* what the loop does
    verdict,     \* the acceptance it is about to report
    effect,      \* what it did for the message or request at hand
    lastPinged,  \* last_pinged_at
    silent,      \* the last diagnostics said no ping has come for long
    heard,       \* history: when the last ping was answered
    events       \* counts towards MaxEvents

handlingVars == <<clock, inbox, requests, node, verdict, effect, lastPinged, silent, heard, events>>
vars == <<handlingVars, knownVars, peerVars>>

Init ==
    /\ KnownInit
    /\ PeersInit
    /\ clock = 0
    /\ inbox = <<>>
    /\ requests = <<>>
    /\ node = "idle"
    /\ verdict = "none"
    /\ effect = "none"
    /\ lastPinged = 0
    /\ silent = FALSE
    /\ heard = 0
    /\ events = 0

-----------------------------------------------------------------------------
(* handle_message.                                                         *)

\* MUTANT: a task is taken until its deadline has passed
JudgeTaskAtDeadline(m) ==
    IF m.body = "unparsable" \/ clock > m.deadline \/ m.body = "badfilter" THEN "Ignore"
    ELSE IF m.body = "emptyfilter" THEN "Panic"
    ELSE IF m.body = "others" THEN "Accept"
    ELSE IF m.body = "badkey" \/ AnyMatching(Models, m.names) = {} THEN "Ignore"
    ELSE "Take"

\* WorkflowHandler::handle_compute, its errors being ignored; the filter's library
\* panics when it is given no bytes
JudgeTask(m) ==
    IF m.body = "unparsable" \/ clock >= m.deadline \/ m.body = "badfilter" THEN "Ignore"
    ELSE IF m.body = "emptyfilter" THEN "Panic"
    ELSE IF m.body = "others" THEN "Accept"
    ELSE IF m.body = "badkey" \/ AnyMatching(Models, m.names) = {} THEN "Ignore"
    ELSE "Take"

\* PingpongHandler::handle_ping up to the pong
JudgePing(m) ==
    IF m.body = "unparsable" \/ clock >= m.deadline THEN "Ignore" ELSE "Answer"

\* MUTANT: the signature is looked at before the source
JudgeSignatureFirst(m) ==
    IF m.gossip \in {"pong", "results"} THEN "Accept"
    ELSE IF m.gossip \notin {"ping", "task"} THEN "Reject"
    ELSE IF m.source = NoPeer \/ m.form = "garbled" THEN "Ignore"
    ELSE IF m.form = "short" THEN "Panic"
    ELSE IF m.form = "undecodable" THEN "Ignore"
    ELSE IF m.form = "wrong" THEN "Reject"
    ELSE IF m.source \notin known.ids THEN "Ignore"
    ELSE IF m.topic = "task" THEN JudgeTask(m)
    ELSE IF m.topic = "ping" THEN JudgePing(m)
    ELSE "Panic"

\* the checks in their order; a payload shorter than a signature is sliced all the
\* same, and the topic in the data is not compared with that of the message
Judge(m) ==
    IF m.gossip \in {"pong", "results"} THEN "Accept"
    ELSE IF m.gossip \notin {"ping", "task"} THEN "Reject"
    ELSE IF m.source = NoPeer \/ m.source \notin known.ids \/ m.form = "garbled" THEN "Ignore"
    ELSE IF m.form = "short" THEN "Panic"
    ELSE IF m.form = "undecodable" THEN "Ignore"
    ELSE IF m.form = "wrong" THEN "Reject"
    ELSE IF m.topic = "task" THEN JudgeTask(m)
    ELSE IF m.topic = "ping" THEN JudgePing(m)
    ELSE "Panic"

Acceptances == {"Accept", "Ignore", "Reject"}

Dismiss(m) ==
    /\ Judge(m) \in Acceptances
    /\ verdict' = Judge(m)
    /\ node' = "validating"
    /\ UNCHANGED <<effect, lastPinged>>

\* any of the models that match; the worker is that of the model
TakeTask(m) ==
    /\ Judge(m) = "Take"
    /\ \E model \in AnyMatching(Models, m.names) : effect' = KindOf(model)
    /\ verdict' = "Accept"
    /\ node' = "validating"
    /\ UNCHANGED lastPinged

\* MUTANT: the moment of the ping is not recorded
AnswerPingUnrecorded(m) ==
    /\ Judge(m) = "Answer"
    /\ effect' = "pong"
    /\ node' = "publishing"
    /\ UNCHANGED <<verdict, lastPinged>>

AnswerPing(m) ==
    /\ Judge(m) = "Answer"
    /\ lastPinged' = clock
    /\ effect' = "pong"
    /\ node' = "publishing"
    /\ UNCHANGED verdict

\* the slice of a short payload (message.rs:105-107), the arm of node.rs:316, or the
\* library under the filter (workflow.rs:57): the node's task ends, without a shutdown
Panic(m) ==
    /\ Judge(m) = "Panic"
    /\ node' = "panicked"
    /\ UNCHANGED <<verdict, effect, lastPinged>>

\* a ping that is answered; said apart from Judge, for the properties
Answerable(m) ==
    /\ m.gossip \in {"ping", "task"} /\ m.source \in announced /\ m.form = "signed"
    /\ m.topic = "ping" /\ m.body # "unparsable" /\ clock < m.deadline

HandleHead(m) ==
    /\ node = "idle"
    /\ inbox' = Tail(inbox)
    /\ Dismiss(m) \/ TakeTask(m) \/ AnswerPing(m) \/ Panic(m)
    /\ heard' = IF Answerable(m) THEN clock ELSE heard
    /\ UNCHANGED <<clock, requests, silent, events, knownVars, peerVars>>

\* MUTANT: messages of an unknown source are kept until the next refresh
HandleMessageOfKnown ==
    inbox # <<>> /\ Head(inbox).source \in known.ids /\ HandleHead(Head(inbox))

HandleMessage == inbox # <<>> /\ HandleHead(Head(inbox))

\* the pong is published, or the publish fails and the ping is ignored
PongPublished ==
    /\ node = "publishing"
    /\ node' = "validating"
    /\ verdict' \in {"Accept", "Ignore"}
    /\ UNCHANGED <<clock, inbox, requests, effect, lastPinged, silent, heard, events,
                   knownVars, peerVars>>

\* MUTANT: the verdict is kept for the next message
ValidateKeepsVerdict ==
    /\ node = "validating"
    /\ node' = "idle"
    /\ effect' = "none"
    /\ UNCHANGED <<clock, inbox, requests, verdict, lastPinged, silent, heard, events,
                   knownVars, peerVars>>

Validate ==
    /\ node = "validating"
    /\ node' = "idle"
    /\ verdict' = "none"
    /\ effect' = "none"
    /\ UNCHANGED <<clock, inbox, requests, lastPinged, silent, heard, events, knownVars, peerVars>>

-----------------------------------------------------------------------------
(* handle_request, and the timers.                                         *)

\* only a request for the specs of a known RPC node is answered, once they are collected
HandleRequest ==
    /\ node = "idle"
    /\ requests # <<>>
    /\ requests' = Tail(requests)
    /\ LET r == Head(requests)
       IN  IF r.peer \in known.ids /\ r.kind = "specs"
           THEN node' = "collecting" /\ effect' = "specs"
           ELSE UNCHANGED <<node, effect>>
    /\ UNCHANGED <<clock, inbox, verdict, lastPinged, silent, heard, events, knownVars, peerVars>>

\* the node looks its address up, by a request without a timeout, and nothing else is
\* done meanwhile
SpecsCollected ==
    /\ node = "collecting"
    /\ node' = "responding"
    /\ UNCHANGED <<clock, inbox, requests, verdict, effect, lastPinged, silent, heard, events,
                   knownVars, peerVars>>

Responded ==
    /\ node = "responding"
    /\ node' = "idle"
    /\ effect' = "none"
    /\ UNCHANGED <<clock, inbox, requests, verdict, lastPinged, silent, heard, events,
                   knownVars, peerVars>>

Diagnose ==
    /\ node = "idle"
    /\ silent' = (lastPinged + PingLiveness < clock)
    /\ UNCHANGED <<clock, inbox, requests, node, verdict, effect, lastPinged, heard, events,
                   knownVars, peerVars>>

\* the request to the API has no timeout, and nothing else is done meanwhile
AskForNodes ==
    /\ node = "idle"
    /\ node' = "refreshing"
    /\ UNCHANGED <<clock, inbox, requests, verdict, effect, lastPinged, silent, heard, events,
                   knownVars, peerVars>>

EndRefresh ==
    /\ node = "refreshing"
    /\ node' = "idle"
    /\ UNCHANGED <<clock, inbox, requests, verdict, effect, lastPinged, silent, heard, events>>

NodesAnswered == EndRefresh /\ Refresh /\ Dial(known.rpc')

\* MUTANT: a failed refresh is not followed by the dials
NodesFailWithoutDials == EndRefresh /\ UNCHANGED <<knownVars, peerVars>>

\* an error is logged, and the RPC nodes known before are dialled
NodesFail == EndRefresh /\ Dial(known.rpc) /\ UNCHANGED knownVars

-----------------------------------------------------------------------------
(* The outside.                                                            *)

Happens ==
    /\ events < MaxEvents
    /\ events' = events + 1
    /\ UNCHANGED <<clock, node, verdict, effect, lastPinged, silent, heard>>

\* gossipsub takes it from a peer that is connected, and drops blacklisted sources
Arrives(m) ==
    /\ Happens
    /\ connected \ blacklist # {}
    /\ m.source \notin blacklist
    /\ Len(inbox) < MaxInbox
    /\ inbox' = Append(inbox, m)
    /\ UNCHANGED <<requests, knownVars, peerVars>>

RequestArrives(r) ==
    /\ Happens
    /\ r.peer \in connected
    /\ Len(requests) < MaxInbox
    /\ requests' = Append(requests, r)
    /\ UNCHANGED <<inbox, knownVars, peerVars>>

ApiEvent == ApiChanges /\ UNCHANGED <<handlingVars, peerVars>>

PeerEvent(p) ==
    /\ Happens
    /\ \/ \E info \in Infos : Identified(p, info)
       \/ Announced(p)
       \/ PeerConnects(p)
       \/ PeerLeaves(p)
    /\ UNCHANGED <<inbox, requests, knownVars>>

DialEvent(p) == DialEnds(p) /\ UNCHANGED <<handlingVars, knownVars>>

Tick ==
    /\ clock < MaxClock
    /\ clock' = clock + 1
    /\ UNCHANGED <<inbox, requests, node, verdict, effect, lastPinged, silent, heard, events,
                   knownVars, peerVars>>

-----------------------------------------------------------------------------
Next ==
    \/ HandleMessage \/ PongPublished \/ Validate
    \/ HandleRequest \/ SpecsCollected \/ Responded
    \/ Diagnose
    \/ AskForNodes \/ NodesAnswered \/ NodesFail
    \/ \E m \in Messages : Arrives(m)
    \/ \E r \in Requests : RequestArrives(r)
    \/ ApiEvent
    \/ \E p \in Peer : PeerEvent(p) \/ DialEvent(p)
    \/ Tick

Spec == Init /\ [][Next]_vars

\* The loop goes on and its select! picks each branch that is ready again and again;
\* the timer of the refresh ticks. Neither the answer of the API nor that of the address
\* lookup is promised, nor is anything of the outside.
Fairness ==
    /\ SF_vars(HandleMessage) /\ SF_vars(HandleRequest) /\ SF_vars(AskForNodes)
    /\ WF_vars(PongPublished) /\ WF_vars(Validate) /\ WF_vars(Responded)

FairSpec == Spec /\ Fairness

-----------------------------------------------------------------------------
(* Properties.                                                             *)

TypeOK ==
    /\ KnownTypeOK
    /\ PeersTypeOK
    /\ clock \in 0 .. MaxClock
    /\ inbox \in SeqOf(Messages, MaxInbox)
    /\ requests \in SeqOf(Requests, MaxInbox)
    /\ node \in {"idle", "publishing", "validating", "collecting", "responding", "refreshing",
                 "panicked"}
    /\ verdict \in Acceptances \cup {"none"}
    /\ verdict # "none" <=> node = "validating"
    /\ effect \in {"none", "batch", "single", "pong", "specs"}
    /\ lastPinged \in 0 .. clock
    /\ silent \in BOOLEAN
    /\ heard \in 0 .. clock
    /\ events \in 0 .. MaxEvents

\* The node takes a task, answers a ping or gives its specs only for an RPC node the
\* API has named, however long ago, and a task or ping only if it is well signed and
\* not past its deadline when its turn comes, whatever time it spent in the channel;
\* a task goes to the worker of a model that it asks for (node.rs:213-316, 347-355,
\* handlers/workflow.rs:42-92, handlers/pingpong.rs:51-67).
EffectsVouched ==
    [][\/ effect' \in {"none", effect}
       \/ /\ effect' = "specs"
          /\ Head(requests).peer \in announced
       \/ LET m == Head(inbox)
          IN  /\ effect' \in {"batch", "single", "pong"}
              /\ m.source \in announced
              /\ m.form = "signed"
              /\ m.deadline > clock
              /\ m.topic = IF effect' = "pong" THEN "ping" ELSE "task"
              /\ effect' # "pong" =>
                   \E n \in m.names, k \in DOMAIN Models :
                       Models[k] \in Matching(Models, n) /\ KindOf(Models[k]) = effect']_vars

\* The verdict decides who else gets the message and what gossipsub thinks of its
\* sender: a message is rejected only when it comes from an RPC node named by the API
\* with a wrong signature, or on a topic the node does not know; a task for others is
\* accepted while it is in time, so that it is passed on (node.rs:257-331,
\* handlers/workflow.rs:56-62).
VerdictsByMerit ==
    [][HandleMessage =>
        LET m == Head(inbox)
            listened == m.gossip \in {"ping", "task"}
            vouched == listened /\ m.source \in announced
        IN  /\ verdict' = "Reject" =>
                 \/ m.gossip \notin {"ping", "task", "pong", "results"}
                 \/ vouched /\ m.form = "wrong"
            /\ (vouched /\ m.form = "signed" /\ m.topic = "task" /\ m.body = "others"
                  /\ clock < m.deadline) => verdict' = "Accept"
            /\ (listened /\ m.source \notin announced) => verdict' = "Ignore"]_vars

\* The diagnostics call the node unreachable exactly when no ping was answered for
\* longer than the liveness period, and a ping that came too late or from elsewhere
\* does not count (node.rs:41-43, 527-532, pingpong.rs:51-67).
WarnsOfSilence == [][Diagnose => (silent' <=> heard + PingLiveness < clock)]_vars

\* Whatever comes is handled, unless the loop waits for ever for one of two answers from
\* outside, the API's to a refresh or that of the address lookup for a request's specs,
\* or has panicked (node.rs:363, 400-463, utils/nodes.rs:24, utils/specs.rs:75).
StalledOnlyByApis ==
    \/ <>[](inbox = <<>> /\ requests = <<>>)
    \/ <>[](node = "refreshing") \/ <>[](node = "collecting") \/ <>[](node = "panicked")

\* An RPC node that is not connected, blacklisted or not, is dialled again, also when
\* refreshing fails, and as long as the loop does not wait for ever (node.rs:536-551).
LostRpcIsDialled ==
    \A p \in Peer :
        <>[](p \in known.rpc /\ p \notin dialling \cup connected) =>
            <>[](node = "refreshing") \/ <>[](node = "collecting") \/ <>[](node = "panicked")

\* The match on the topic of the data is exhaustive: "unreachable due to match
\* expression" (node.rs:316).
TopicsExhausted == node # "panicked"

=============================================================================
