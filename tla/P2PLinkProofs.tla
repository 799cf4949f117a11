---------------------------- MODULE P2PLinkProofs ----------------------------
(***************************************************************************)
(* Theorems about P2PLink, for every set of messages and requests, every   *)
(* capacity of the channels, list of topics and number of RPC nodes.       *)
(***************************************************************************)
EXTENDS P2PLink, SequenceLemmas

(***************************************************************************)
(* The commands.                                                           *)
(***************************************************************************)

\* The command of each kind has an argument of its kind.
LEMMA CommandArguments ==
    ASSUME NEW c \in Commands
    PROVE  /\ c.op \in {"subscribe", "unsubscribe"} => c.arg \in Range(Topics)
           /\ c.op = "validate" => c.arg \in Messages /\ c = ValidateMessage(c.arg)
           /\ c.op = "respond" => c.arg \in Requests /\ c = Respond(c.arg)
           /\ c.op = "shutdown" => c = Shutdown
<1>1. Len(Topics) \in Nat /\ DOMAIN Topics = 1 .. Len(Topics)
  BY TopicsAssumption, LenProperties
<1>2. ASSUME NEW i \in 1 .. Len(Topics)
      PROVE  Topics[i] \in Range(Topics)
  BY <1>1 DEF Range
<1>3. \A d \in Range(Subscribes) \cup Range(Unsubscribes) :
         \E t \in Range(Topics) : d \in {Cmd("subscribe", t), Cmd("unsubscribe", t)}
  BY <1>1, <1>2 DEF Range, Subscribes, Unsubscribes
<1> QED
  BY <1>3 DEF Commands, Cmd, ValidateMessage, Respond, PeerCounts, Shutdown, Pong, PublishResult,
     PublishError

\* What the handlers send are lists of commands.
LEMMA Handlers ==
    /\ Subscribes \in Seq(Commands) /\ Unsubscribes \in Seq(Commands) /\ Dials \in Seq(Commands)
    /\ \A m \in Messages : ValidateMessage(m) \in Commands
    /\ \A r \in Requests : Respond(r) \in Commands
    /\ {Cmd("dial", None), PeerCounts, Shutdown, Pong, PublishResult, PublishError} \subseteq Commands
<1>1. Len(Topics) \in Nat /\ DOMAIN Topics = 1 .. Len(Topics)
  BY TopicsAssumption, LenProperties
<1>2. DOMAIN Subscribes = 1 .. Len(Topics) /\ DOMAIN Unsubscribes = 1 .. Len(Topics)
  BY DEF Subscribes, Unsubscribes
<1>3. \A i \in 1 .. Len(Topics) : Subscribes[i] \in Commands /\ Unsubscribes[i] \in Commands
  BY <1>2 DEF Commands, Range
<1>4. Subscribes \in [1 .. Len(Topics) -> Commands] /\ Unsubscribes \in [1 .. Len(Topics) -> Commands]
  BY <1>3 DEF Subscribes, Unsubscribes
<1>5. Subscribes \in Seq(Commands) /\ Unsubscribes \in Seq(Commands)
  BY <1>1, <1>4, SeqDef
<1>6. Dials \in [1 .. RpcNodes -> Commands]
  BY DEF Dials, Commands
<1>7. Dials \in Seq(Commands)
  BY <1>6, RpcNodesAssumption, SeqDef
<1> QED
  BY <1>5, <1>7 DEF Commands

(***************************************************************************)
(* Type correctness, and at most one command under way.                    *)
(***************************************************************************)

\* The inductive invariant of the link.
Link == TypeOK /\ OneCommand

\* The link starts well-typed, with no command under way.
LEMMA InitLink == Init => Link
<1> SUFFICES ASSUME Init PROVE Link
  OBVIOUS
<1>1. <<>> \in Seq(Commands) /\ <<>> \in Seq(Messages) /\ <<>> \in Seq(Requests) /\ Len(<<>>) = 0
  BY EmptySeq
<1>2. job \in Seq(Commands)
  BY Handlers DEF Init
<1>3. event = None /\ client = "loop"
  BY DEF Init
<1>4. /\ msgs = <<>> /\ reqs = <<>> /\ arrived = <<>> /\ asked = <<>>
      /\ reports = <<>> /\ responses = <<>> /\ cmds = <<>>
      /\ stage = "starting" /\ awaits = FALSE /\ cancelled = FALSE /\ reply = "none" /\ topics = {}
  BY DEF Init
<1>6. 0 <= MsgCap
  BY MsgCapAssumption
<1>7. TypeOK
  BY <1>1, <1>2, <1>3, <1>4, <1>6 DEF TypeOK
<1>5. OneCommand
  BY <1>1 DEF Init, OneCommand
<1> QED
  BY <1>5, <1>7 DEF Link

\* While the node is at its select, or between two commands, nothing is under way.
LEMMA NothingUnderWay ==
    ASSUME Link, ~awaits
    PROVE  cmds = <<>> /\ reply = "none"
<1>1. Len(cmds) \in Nat
  BY LenProperties DEF Link, TypeOK
<1>2. Len(cmds) = 0 /\ reply = "none"
  BY <1>1 DEF Link, OneCommand
<1> QED
  BY <1>2, EmptySeq DEF Link, TypeOK

\* The command that is under way is the one the node awaits.
LEMMA CommandUnderWay ==
    ASSUME Link, cmds # <<>>
    PROVE  /\ awaits /\ reply = "none"
           /\ job # <<>> /\ Head(cmds) = Head(job) /\ Head(job) \in Commands
           /\ Tail(cmds) = <<>>
<1>1. /\ cmds \in Seq(Commands) /\ job \in Seq(Commands)
      /\ Len(cmds) \in Nat \ {0}
  BY EmptySeq DEF Link, TypeOK
<1>2. awaits /\ reply = "none" /\ Len(cmds) = 1
  <2>1. Len(cmds) + (IF reply = "none" THEN 0 ELSE 1) = (IF awaits THEN 1 ELSE 0)
    BY DEF Link, OneCommand
  <2>2. awaits
    BY <1>1, <2>1
  <2> QED
    BY <1>1, <2>1, <2>2
<1>3. Tail(cmds) \in Seq(Commands) /\ Len(Tail(cmds)) = 0
  BY <1>1, <1>2, HeadTailProperties
<1>4. job # <<>> /\ Head(cmds) = Head(job)
  BY <1>2 DEF Link, OneCommand
<1> QED
  BY <1>1, <1>2, <1>3, <1>4, EmptySeq, HeadTailProperties

\* When the reply is there, nothing else is.
LEMMA ReplyUnderWay ==
    ASSUME Link, awaits, reply # "none"
    PROVE  /\ cmds = <<>>
           /\ job # <<>> /\ Head(job) \in Commands /\ Tail(job) \in Seq(Commands)
<1>1. /\ cmds \in Seq(Commands) /\ job \in Seq(Commands)
      /\ Len(cmds) \in Nat
  BY LenProperties DEF Link, TypeOK
<1>2. job # <<>> /\ Len(cmds) = 0
  BY <1>1 DEF Link, OneCommand
<1> QED
  BY <1>1, <1>2, EmptySeq, HeadTailProperties

\* A handler that begins: its commands, and nothing under way.
LEMMA BeginLink ==
    ASSUME Link, job = <<>>, job' \in Seq(Commands), UNCHANGED <<awaits, cmds, reply>>
    PROVE  OneCommand'
<1>1. ~awaits
  BY DEF Link, OneCommand
<1>2. cmds = <<>> /\ reply = "none" /\ Len(<<>>) = 0
  BY <1>1, NothingUnderWay
<1> QED
  BY <1>1, <1>2 DEF OneCommand

\* A reply that is taken leaves nothing under way.
LEMMA RepliedLink ==
    ASSUME Link, Replied, UNCHANGED cmds
    PROVE  OneCommand'
<1>1. cmds = <<>> /\ Len(<<>>) = 0
  BY ReplyUnderWay DEF Replied
<1> QED
  BY <1>1 DEF OneCommand, Replied

\* Every step of the node, the client and the swarm keeps the invariant of the link.
LEMMA StepLink == Link /\ [Next]_vars => Link'
<1> SUFFICES ASSUME Link, [Next]_vars PROVE Link'
  OBVIOUS
<1>0. TypeOK /\ OneCommand
  BY DEF Link
<1> USE DEF nodeVars, clientVars, swarmVars
<1>1. CASE TakeMessage
  <2>1. Head(msgs) \in Messages /\ Tail(msgs) \in Seq(Messages) /\ Len(Tail(msgs)) = Len(msgs) - 1
    BY <1>0, <1>1, HeadTailProperties DEF TakeMessage, TypeOK
  <2>2. PICK before \in {<<>>, <<Pong>>} : Begin(Append(before, ValidateMessage(Head(msgs))))
    BY <1>1 DEF TakeMessage
  <2>3. before \in Seq(Commands)
    <3>1. Pong \in Commands
      BY Handlers
    <3>2. <<>> \in Seq(Commands) /\ <<Pong>> \in Seq(Commands)
      BY <3>1, EmptySeq
    <3> QED
      BY <3>2
  <2>4. job' \in Seq(Commands)
    BY <2>1, <2>2, <2>3, Handlers, AppendProperties DEF Begin
  <2>5. Len(msgs) \in Nat /\ Len(msgs') <= MsgCap
    BY <1>0, <1>1, <2>1, LenProperties, MsgCapAssumption DEF TakeMessage, TypeOK
  <2>6. TypeOK'
    BY <1>0, <1>1, <2>1, <2>2, <2>4, <2>5 DEF TypeOK, Begin, TakeMessage
  <2>7. OneCommand'
    BY <1>1, <2>2, <2>4, BeginLink DEF Begin, TakeMessage, AtSelect
  <2> QED
    BY <2>6, <2>7 DEF Link
<1>2. CASE TakeRequest
  <2>1. Head(reqs) \in Requests /\ Tail(reqs) \in Seq(Requests) /\ Len(Tail(reqs)) = Len(reqs) - 1
    BY <1>0, <1>2, HeadTailProperties DEF TakeRequest, TypeOK
  <2>2. PICK commands \in {<<>>, <<Respond(Head(reqs))>>} : Begin(commands)
    BY <1>2 DEF TakeRequest
  <2>3. job' \in Seq(Commands)
    <3>1. Respond(Head(reqs)) \in Commands
      BY <2>1, Handlers
    <3>2. <<>> \in Seq(Commands) /\ <<Respond(Head(reqs))>> \in Seq(Commands)
      BY <3>1, EmptySeq
    <3> QED
      BY <2>2, <3>2 DEF Begin
  <2>4. Len(reqs) \in Nat /\ Len(reqs') <= MsgCap
    BY <1>0, <1>2, <2>1, LenProperties, MsgCapAssumption DEF TakeRequest, TypeOK
  <2>5. TypeOK'
    BY <1>0, <1>2, <2>1, <2>2, <2>3, <2>4 DEF TypeOK, Begin, TakeRequest
  <2>6. OneCommand'
    BY <1>2, <2>2, <2>3, BeginLink DEF Begin, TakeRequest, AtSelect
  <2> QED
    BY <2>5, <2>6 DEF Link
<1>3. ASSUME NEW commands \in Seq(Commands), AtSelect, Begin(commands), UNCHANGED <<msgs, reqs>>
      PROVE  Link'
  <2>1. OneCommand'
    BY <1>3, BeginLink DEF Begin, AtSelect
  <2>2. TypeOK'
    BY <1>0, <1>3 DEF TypeOK, Begin
  <2> QED
    BY <2>1, <2>2 DEF Link
<1>4. CASE TakeResult \/ Diagnose \/ Refresh
  <2>1. <<PublishResult>> \in Seq(Commands) /\ <<PeerCounts>> \in Seq(Commands)
    BY Handlers
  <2> QED
    BY <1>3, <1>4, <2>1, Handlers DEF TakeResult, Diagnose, Refresh
<1>5. ASSUME NEW commands \in Seq(Commands), AtSelect, Closing(commands), UNCHANGED <<awaits, reply>>
      PROVE  Link'
  <2>1. OneCommand'
    BY <1>5, BeginLink DEF Closing, AtSelect
  <2>2. TypeOK'
    BY <1>0, <1>5 DEF TypeOK, Closing
  <2> QED
    BY <2>1, <2>2 DEF Link
<1>6. CASE SeeCancelled
  <2>1. <<PeerCounts, Shutdown>> \in Seq(Commands)
    BY Handlers
  <2>2. Unsubscribes \o <<PeerCounts, Shutdown>> \in Seq(Commands)
    BY <2>1, Handlers, ConcatProperties
  <2> QED
    BY <1>5, <1>6, <2>2 DEF SeeCancelled
<1>7. CASE PayloadFails
  <2>1. <<Shutdown>> \in Seq(Commands)
    BY Handlers
  <2> QED
    BY <1>5, <1>7, <2>1 DEF PayloadFails
<1>8. CASE SendCommand
  <2>1. cmds = <<>> /\ reply = "none"
    BY <1>8, NothingUnderWay DEF SendCommand
  <2>2. Head(job) \in Commands
    BY <1>0, <1>8, HeadTailProperties DEF SendCommand, TypeOK
  <2>3. cmds' = <<Head(job)>> /\ cmds' \in Seq(Commands) /\ Len(cmds') = 1 /\ Head(cmds') = Head(job)
    BY <1>8, <2>1, <2>2 DEF SendCommand
  <2>4. TypeOK'
    BY <1>0, <1>8, <2>3 DEF TypeOK, SendCommand
  <2>5. OneCommand'
    BY <1>8, <2>1, <2>3 DEF SendCommand, OneCommand
  <2> QED
    BY <2>4, <2>5 DEF Link
<1>9. CASE Continue
  <2>1. Tail(job) \in Seq(Commands) /\ <<PublishError>> \in Seq(Commands)
    BY <1>9, ReplyUnderWay, Handlers DEF Continue, Replied
  <2>2. job' \in Seq(Commands)
    BY <1>9, <2>1 DEF Continue
  <2>3. TypeOK'
    BY <1>0, <1>9, <2>2 DEF TypeOK, Continue, Replied
  <2>4. OneCommand'
    BY <1>9, RepliedLink DEF Continue
  <2> QED
    BY <2>3, <2>4 DEF Link
<1>10. CASE Fail
  <2>1. <<Shutdown>> \in Seq(Commands)
    BY Handlers
  <2>2. TypeOK'
    BY <1>0, <1>10, <2>1 DEF TypeOK, Fail, Closing, Replied
  <2>3. OneCommand'
    BY <1>10, RepliedLink DEF Fail, Closing
  <2> QED
    BY <2>2, <2>3 DEF Link
<1>11. CASE Stop
  <2>1. /\ <<>> \in Seq(Commands) /\ <<>> \in Seq(Messages) /\ <<>> \in Seq(Requests)
        /\ Len(<<>>) = 0 /\ 0 <= MsgCap
    BY EmptySeq, MsgCapAssumption
  <2>2. TypeOK'
    BY <1>0, <1>11, <2>1 DEF TypeOK, Stop, Replied
  <2>3. OneCommand'
    BY <1>11, RepliedLink DEF Stop
  <2> QED
    BY <2>2, <2>3 DEF Link
<1>12. CASE HandleCommand
  <2> DEFINE c == Head(cmds)
  <2>1. /\ awaits /\ reply = "none" /\ job # <<>> /\ c = Head(job) /\ c \in Commands
        /\ Tail(cmds) = <<>> /\ client = "loop"
    BY <1>12, CommandUnderWay DEF HandleCommand
  <2>2. PICK outcome \in Outcomes(c) :
           /\ reply' = outcome
           /\ topics' = CASE outcome = "ok" /\ c.op = "subscribe"   -> topics \cup {c.arg}
                          [] outcome = "ok" /\ c.op = "unsubscribe" -> topics \ {c.arg}
                          [] OTHER -> topics
           /\ reports' = IF c.op = "validate" THEN Append(reports, c.arg) ELSE reports
           /\ responses' = IF c.op = "respond" THEN Append(responses, c.arg) ELSE responses
           /\ client' = IF c.op = "shutdown" THEN "closing" ELSE client
    BY <1>12 DEF HandleCommand
  <2>3. /\ UNCHANGED <<nodeVars, cancelled, event, msgs, reqs, arrived, asked>>
        /\ cmds' = <<>> /\ cmds' \in Seq(Commands) /\ Len(cmds') = 0
    BY <1>12, <2>1, EmptySeq DEF HandleCommand
  <2> HIDE DEF c
  <2>4. reply' \in {"ok", "error"}
    BY <2>2 DEF Outcomes
  <2>5. topics' \subseteq Range(Topics)
    BY <1>0, <2>1, <2>2, CommandArguments DEF TypeOK
  <2>6. reports' \in Seq(Messages) /\ responses' \in Seq(Requests)
    BY <1>0, <2>1, <2>2, CommandArguments, AppendProperties DEF TypeOK
  <2>7. client' \in {"loop", "closing"}
    BY <2>1, <2>2
  <2>8. TypeOK'
    BY <1>0, <2>1, <2>3, <2>4, <2>5, <2>6, <2>7 DEF TypeOK
  <2>9. OneCommand'
    BY <2>1, <2>3, <2>4 DEF OneCommand
  <2> QED
    BY <2>8, <2>9 DEF Link
<1>13. CASE EndClient
  <2>1. TypeOK'
    BY <1>0, <1>13 DEF TypeOK, EndClient
  <2>2. OneCommand'
    BY <1>0, <1>13 DEF OneCommand, EndClient
  <2> QED
    BY <2>1, <2>2 DEF Link
<1>14. CASE Forward
  <2> DEFINE Fits(q, q2, S) == q \in Seq(S) /\ Len(q) < MsgCap /\ event \in S /\ q2 = Append(q, event)
  <2>0. ASSUME NEW S, NEW q, NEW q2, Fits(q, q2, S)
        PROVE  q2 \in Seq(S) /\ Len(q2) <= MsgCap
    <3>1. q2 \in Seq(S) /\ Len(q2) = Len(q) + 1 /\ Len(q) \in Nat
      BY <2>0, AppendProperties, LenProperties
    <3> QED
      BY <2>0, <3>1, MsgCapAssumption
  <2>1. msgs' \in Seq(Messages) /\ Len(msgs') <= MsgCap
    <3>1. msgs' = msgs \/ Fits(msgs, msgs', Messages)
      BY <1>0, <1>14 DEF TypeOK, Forward
    <3> QED
      BY <1>0, <2>0, <3>1 DEF TypeOK
  <2>2. reqs' \in Seq(Requests) /\ Len(reqs') <= MsgCap
    <3>1. reqs' = reqs \/ Fits(reqs, reqs', Requests)
      BY <1>0, <1>14 DEF TypeOK, Forward
    <3> QED
      BY <1>0, <2>0, <3>1 DEF TypeOK
  <2>3. TypeOK'
    BY <1>0, <1>14, <2>1, <2>2 DEF TypeOK, Forward
  <2>4. OneCommand'
    BY <1>0, <1>14 DEF OneCommand, Forward
  <2> QED
    BY <2>3, <2>4 DEF Link
<1>15. ASSUME NEW m \in Messages, YieldMessage(m)
       PROVE  Link'
  <2>1. arrived' \in Seq(Messages)
    BY <1>0, <1>15, AppendProperties DEF YieldMessage, TypeOK
  <2>2. TypeOK'
    BY <1>0, <1>15, <2>1, EventsAssumption DEF TypeOK, YieldMessage, Yield
  <2>3. OneCommand'
    BY <1>0, <1>15 DEF OneCommand, YieldMessage, Yield
  <2> QED
    BY <2>2, <2>3 DEF Link
<1>16. ASSUME NEW r \in Requests, YieldRequest(r)
       PROVE  Link'
  <2>1. asked' \in Seq(Requests)
    BY <1>0, <1>16, AppendProperties DEF YieldRequest, TypeOK
  <2>2. TypeOK'
    BY <1>0, <1>16, <2>1, EventsAssumption DEF TypeOK, YieldRequest, Yield
  <2>3. OneCommand'
    BY <1>0, <1>16 DEF OneCommand, YieldRequest, Yield
  <2> QED
    BY <2>2, <2>3 DEF Link
<1>17. CASE Cancel
  BY <1>0, <1>17 DEF Link, TypeOK, OneCommand, Cancel
<1>18. CASE UNCHANGED vars
  BY <1>0, <1>18 DEF Link, TypeOK, OneCommand, vars
<1> QED
  BY <1>1, <1>2, <1>4, <1>6, <1>7, <1>8, <1>9, <1>10, <1>11, <1>12, <1>13, <1>14, <1>15, <1>16,
     <1>17, <1>18
  DEF Next, NodeStep, ClientStep, SwarmStep

\* In every behaviour: the types of the link's state, and that the node has at
\* most one command under way, whose reply is the one it awaits.
THEOREM LinkCorrect == Spec => [](TypeOK /\ OneCommand)
<1>1. Link <=> TypeOK /\ OneCommand
  BY DEF Link
<1> QED
  BY <1>1, InitLink, StepLink, PTL DEF Spec

\* The node has at most one command under way: the channel of commands never fills,
\* and no reply can be taken for that of another command (commands.rs:107-312).
THEOREM OneCommandUnderWay == Spec => []OneCommand
  BY LinkCorrect, PTL

(***************************************************************************)
(* The end: the client hears of it before the node is dropped.             *)
(***************************************************************************)

\* The client has taken the Shutdown command, whose reply the node gets before it
\* stops.
Told == stage = "stopped" \/ (awaits /\ reply # "none" /\ Head(job) = Shutdown)

\* The client is closing, or has ended, exactly when the command was told; a node
\* that stopped has nothing left to send.
ClientTold ==
    /\ client \in {"closing", "ended"} <=> Told
    /\ stage = "stopped" => job = <<>>

\* Every step keeps the client told: it closes only on the command, and the node
\* stops only after.
LEMMA StepClientTold == Link /\ ClientTold /\ [Next]_vars => ClientTold'
<1> SUFFICES ASSUME Link, ClientTold, [Next]_vars PROVE ClientTold'
  OBVIOUS
<1> USE DEF ClientTold, Told, nodeVars, clientVars, swarmVars
<1>0. ~awaits => reply = "none"
  BY NothingUnderWay
<1>1. AtSelect => stage = "running" /\ ~awaits
  BY DEF AtSelect, Link, OneCommand
<1>2. CASE TakeMessage \/ TakeRequest \/ TakeResult \/ Diagnose \/ Refresh
  BY <1>1, <1>2 DEF TakeMessage, TakeRequest, TakeResult, Diagnose, Refresh, Begin, AtSelect
<1>3. CASE SeeCancelled \/ PayloadFails
  BY <1>1, <1>3 DEF SeeCancelled, PayloadFails, Closing
<1>4. CASE SendCommand
  BY <1>0, <1>4 DEF SendCommand
<1>5. CASE Continue
  <2>1. job # <<>> /\ stage # "stopped" /\ stage' # "stopped"
    BY <1>5, ReplyUnderWay DEF Continue, Replied
  <2> QED
    BY <1>5, <2>1 DEF Continue, Replied
<1>6. CASE Fail
  <2>1. Head(job) # Shutdown
    BY <1>6 DEF Fail, Fatal, Shutdown, Cmd
  <2>2. job # <<>> /\ stage # "stopped"
    BY <1>6, ReplyUnderWay DEF Fail, Replied
  <2> QED
    BY <1>6, <2>1, <2>2 DEF Fail, Closing, Replied
<1>7. CASE Stop
  BY <1>7 DEF Stop, Replied
<1>8. CASE HandleCommand
  <2>1. /\ awaits /\ reply = "none" /\ job # <<>> /\ Head(cmds) = Head(job)
        /\ Head(cmds) \in Commands /\ client = "loop"
    BY <1>8, CommandUnderWay DEF HandleCommand
  <2>2. /\ reply' # "none" /\ UNCHANGED nodeVars
        /\ client' = IF Head(cmds).op = "shutdown" THEN "closing" ELSE client
    BY <1>8 DEF HandleCommand, Outcomes
  <2>3. Head(cmds).op = "shutdown" <=> Head(cmds) = Shutdown
    BY <2>1, CommandArguments DEF Shutdown, Cmd
  <2> QED
    BY <2>1, <2>2, <2>3
<1>9. CASE EndClient
  BY <1>9 DEF EndClient
<1>10. CASE Forward
  BY <1>10 DEF Forward
<1>11. CASE SwarmStep
  BY <1>11 DEF SwarmStep, YieldMessage, YieldRequest, Yield
<1>12. CASE Cancel \/ UNCHANGED vars
  BY <1>12 DEF Cancel, vars
<1> QED
  BY <1>2, <1>3, <1>4, <1>5, <1>6, <1>7, <1>8, <1>9, <1>10, <1>11, <1>12
  DEF Next, NodeStep, ClientStep

\* However run() returned, the client knows it before the node and its receivers
\* are gone, and then forwards nothing any more.
THEOREM StopsBehindClient == Spec => []StopsInOrder
<1>1. Init => ClientTold
  BY DEF Init, ClientTold, Told
<1>2. Link /\ ClientTold => StopsInOrder
  <2> SUFFICES ASSUME Link, ClientTold PROVE StopsInOrder
    OBVIOUS
  <2>1. stage = "stopped" => ~awaits
    BY DEF ClientTold, Link, OneCommand
  <2>2. client \in {"closing", "ended"} => cmds = <<>>
    BY <2>1, NothingUnderWay, ReplyUnderWay DEF ClientTold, Told
  <2>3. client \in {"closing", "ended"} => event = None
    BY DEF Link, TypeOK
  <2> QED
    BY <2>2, <2>3 DEF StopsInOrder, ClientTold, Told
<1>3. Link <=> TypeOK /\ OneCommand
  BY DEF Link
<1> QED
  BY <1>1, <1>2, <1>3, StepClientTold, LinkCorrect, PTL DEF Spec

(***************************************************************************)
(* Every message is reported, in the order of arrival.                     *)
(***************************************************************************)

\* The commands that tell the swarm a message's acceptance.
Acceptances == {ValidateMessage(m) : m \in Messages}

\* What a handler has left to send: no acceptance, or one, at the end.
Accepting(q) == \E m \in Messages : q \in {<<ValidateMessage(m)>>, <<Pong, ValidateMessage(m)>>}
\* A handler tells at most one acceptance, as its last command.
JobShape == Range(job) \cap Acceptances = {} \/ Accepting(job)

\* Commands with no acceptance among them handle no message.
LEMMA HandlingNone ==
    ASSUME NEW q \in Seq(Commands), Range(q) \cap Acceptances = {}
    PROVE  Handling(q) = <<>>
<1>1. Only(q, Acceptances) = <<>>
  BY OnlyNone
<1>2. [i \in DOMAIN <<>> |-> <<>>[i].arg] = <<>>
  OBVIOUS
<1> QED
  BY <1>1, <1>2 DEF Handling, Acceptances

\* A handler with nothing left to send handles no message.
LEMMA HandlingEmpty == Handling(<<>>) = <<>>
<1>1. <<>> \in Seq(Commands)
  BY EmptySeq
<1>2. Range(<<>>) \cap Acceptances = {}
  BY DEF Range
<1> QED
  BY <1>1, <1>2, HandlingNone

\* What a handler of a message has left to send handles that message.
LEMMA HandlingOne ==
    ASSUME NEW m \in Messages
    PROVE  /\ Handling(<<ValidateMessage(m)>>) = <<m>>
           /\ Handling(<<Pong, ValidateMessage(m)>>) = <<m>>
<1> DEFINE v == ValidateMessage(m)
<1>1. /\ v \in Commands /\ Pong \in Commands /\ v \in Acceptances /\ Pong \notin Acceptances
      /\ v.arg = m
  BY Handlers DEF Acceptances, Pong, ValidateMessage, Cmd
<1> HIDE DEF v
<1>2. <<v>> \in Seq(Commands) /\ Range(<<v>>) \subseteq Acceptances
  BY <1>1 DEF Range
<1>4. Only(<<v>>, Acceptances) = <<v>>
  BY <1>2, OnlyAll
<1>6. Only(<<Pong, v>>, Acceptances) = <<v>>
  BY <1>1, OnlySecond
<1>7. [i \in DOMAIN <<v>> |-> <<v>>[i].arg] = <<m>>
  BY <1>1
<1> QED
  BY <1>4, <1>6, <1>7 DEF Handling, Acceptances, v

\* The handlers that send no acceptance.
LEMMA SilentHandlers ==
    /\ Range(<<>>) \cap Acceptances = {}
    /\ Range(Subscribes) \cap Acceptances = {} /\ Range(Dials) \cap Acceptances = {}
    /\ Range(Unsubscribes \o <<PeerCounts, Shutdown>>) \cap Acceptances = {}
    /\ \A r \in Requests : Range(<<Respond(r)>>) \cap Acceptances = {}
    /\ \A c \in {PeerCounts, Shutdown, PublishResult, PublishError} :
          Range(<<c>>) \cap Acceptances = {}
<1>1. \A c \in Acceptances : c.op = "validate"
  BY DEF Acceptances, ValidateMessage, Cmd
<1>2. \A c \in {PeerCounts, Shutdown, PublishResult, PublishError} \cup {Respond(r) : r \in Requests} :
         c \notin Acceptances
  BY <1>1 DEF PeerCounts, Shutdown, PublishResult, PublishError, Respond, Cmd
<1>3. \A c : Range(<<c>>) = {c}
  BY DEF Range
<1>4. /\ \A i \in DOMAIN Subscribes : Subscribes[i].op = "subscribe"
      /\ \A i \in DOMAIN Unsubscribes : Unsubscribes[i].op = "unsubscribe"
      /\ \A i \in DOMAIN Dials : Dials[i].op = "dial"
  BY DEF Subscribes, Unsubscribes, Dials, Cmd
<1>5. /\ Range(Subscribes) \cap Acceptances = {} /\ Range(Unsubscribes) \cap Acceptances = {}
      /\ Range(Dials) \cap Acceptances = {}
  BY <1>1, <1>4 DEF Range
<1>6. Range(Unsubscribes \o <<PeerCounts, Shutdown>>) \cap Acceptances = {}
  <2>1. <<PeerCounts, Shutdown>> \in Seq(Commands) /\ Unsubscribes \in Seq(Commands)
    BY Handlers
  <2>2. Range(<<PeerCounts, Shutdown>>) = {PeerCounts, Shutdown}
    BY DEF Range
  <2>3. Range(Unsubscribes \o <<PeerCounts, Shutdown>>)
           = Range(Unsubscribes) \cup Range(<<PeerCounts, Shutdown>>)
    BY <2>1, RangeConcatenation, ZenonT(40)
  <2> QED
    BY <1>2, <1>5, <2>2, <2>3
<1>7. Range(<<>>) = {}
  BY DEF Range
<1> QED
  BY <1>2, <1>3, <1>5, <1>6, <1>7

\* The first command of a handler decides what is left after it.
LEMMA JobShapes ==
    ASSUME Link, JobShape, job # <<>>
    PROVE  /\ Head(job).op = "validate" => /\ Tail(job) = <<>>
                                           /\ job = <<ValidateMessage(Head(job).arg)>>
                                           /\ Head(job).arg \in Messages
           /\ Head(job).op \notin {"validate", "publish_pong"} => Range(job) \cap Acceptances = {}
           /\ Head(job).op # "validate" => Handling(Tail(job)) = Handling(job)
           /\ Range(Tail(job)) \cap Acceptances = {} \/ Accepting(Tail(job))
           /\ Handling(Tail(job)) \in Seq(Messages)
<1>1. /\ job \in Seq(Commands) /\ Head(job) \in Commands /\ Tail(job) \in Seq(Commands)
      /\ Head(job) \in Range(job) /\ Range(Tail(job)) \subseteq Range(job)
  BY HeadTailProperties, RangeTail DEF Link, TypeOK
<1>2. <<>> \in Seq(Messages)
  BY EmptySeq
<1>3. CASE Range(job) \cap Acceptances = {}
  <2>1. Head(job).op # "validate"
    BY <1>1, <1>3, CommandArguments DEF Acceptances
  <2>2. Handling(job) = <<>> /\ Handling(Tail(job)) = <<>>
    BY <1>1, <1>3, HandlingNone
  <2> QED
    BY <1>1, <1>2, <1>3, <2>1, <2>2
<1>4. ASSUME NEW m \in Messages, job = <<ValidateMessage(m)>>
      PROVE  /\ Tail(job) = <<>> /\ Head(job) = ValidateMessage(m)
             /\ Head(job).op = "validate" /\ Head(job).arg = m
             /\ Range(Tail(job)) \cap Acceptances = {}
             /\ Handling(Tail(job)) \in Seq(Messages)
  <2>1. Tail(job) = <<>> /\ Head(job) = ValidateMessage(m)
    BY <1>4
  <2>2. Head(job).op = "validate" /\ Head(job).arg = m
    BY <2>1 DEF ValidateMessage, Cmd
  <2>3. Range(Tail(job)) \cap Acceptances = {}
    BY <2>1, SilentHandlers
  <2>4. Handling(Tail(job)) = <<>>
    BY <2>1, HandlingEmpty
  <2> QED
    BY <1>2, <2>1, <2>2, <2>3, <2>4
<1>5. ASSUME NEW m \in Messages, job = <<Pong, ValidateMessage(m)>>
      PROVE  /\ Tail(job) = <<ValidateMessage(m)>> /\ Head(job).op = "publish_pong"
             /\ Handling(Tail(job)) = Handling(job)
             /\ Accepting(Tail(job))
             /\ Handling(Tail(job)) \in Seq(Messages)
  <2>1. Tail(job) = <<ValidateMessage(m)>> /\ Head(job) = Pong
    BY <1>5
  <2>2. Handling(job) = <<m>> /\ Handling(Tail(job)) = <<m>> /\ <<m>> \in Seq(Messages)
    BY <1>5, <2>1, HandlingOne
  <2>3. Head(job).op = "publish_pong"
    BY <2>1 DEF Pong, Cmd
  <2>4. Accepting(Tail(job))
    BY <2>1 DEF Accepting
  <2> QED
    BY <2>1, <2>2, <2>3, <2>4
<1> QED
  BY <1>3, <1>4, <1>5 DEF JobShape, Accepting

\* The inductive invariant: what was reported and what was not make up what arrived.
Order ==
    /\ JobShape
    /\ stage = "stopped" => IsPrefix(reports, arrived)
    /\ stage # "stopped" => reports \o Unreported = arrived

\* Nothing has arrived and nothing is reported.
LEMMA InitOrder == Init => Order
<1> SUFFICES ASSUME Init PROVE Order
  OBVIOUS
<1>1. /\ job = Subscribes /\ reply = "none" /\ msgs = <<>> /\ event = None /\ stage = "starting"
      /\ reports = <<>> /\ arrived = <<>>
  BY DEF Init
<1>2. Handling(Todo) = <<>>
  BY <1>1, HandlingNone, Handlers, SilentHandlers DEF Todo
<1>3. Forwarding(Messages) = <<>>
  BY <1>1, EventsAssumption DEF Forwarding
<1>4. <<>> \o <<>> = <<>>
  BY ConcatEmptySeq, EmptySeq
<1> QED
  BY <1>1, <1>2, <1>3, <1>4, SilentHandlers DEF Order, JobShape, Unreported

\* A stopped node: nothing is reported and nothing arrives any more.
LEMMA StoppedForGood ==
    ASSUME Link, ClientTold, stage = "stopped", [Next]_vars
    PROVE  /\ stage' = "stopped" /\ job' = <<>>
           /\ UNCHANGED <<arrived, asked, reports, responses>>
<1> USE DEF nodeVars, clientVars, swarmVars
<1>1. job = <<>> /\ client \in {"closing", "ended"} /\ ~awaits
  BY DEF ClientTold, Told, Link, OneCommand
<1> QED
  BY <1>1
  DEF Next, NodeStep, ClientStep, SwarmStep, TakeMessage, TakeRequest, TakeResult, Diagnose, Refresh,
      SeeCancelled, PayloadFails, AtSelect, SendCommand, Continue, Fail, Stop, Replied, HandleCommand,
      EndClient, Forward, YieldMessage, YieldRequest, Yield, Cancel, vars

\* A handler begins that will send no acceptance.
LEMMA SilentBegins ==
    ASSUME Link, Order, AtSelect, job' \in Seq(Commands), Range(job') \cap Acceptances = {},
           stage' # "stopped", UNCHANGED <<reply, msgs, event, reports, arrived>>, ~awaits
    PROVE  Order'
<1>1. job = <<>> /\ reply = "none" /\ stage # "stopped"
  BY NothingUnderWay DEF AtSelect
<1>2. Handling(Todo) = <<>> /\ Handling(Todo') = <<>>
  <2>1. Todo = <<>> /\ Todo' = job'
    BY <1>1 DEF Todo
  <2> QED
    BY <2>1, HandlingEmpty, HandlingNone
<1>3. Handling(Todo)' = Handling(Todo')
  BY DEF Handling
<1> QED
  BY <1>1, <1>2, <1>3 DEF Order, JobShape, Unreported, Forwarding

\* Every step keeps the order of the messages.
LEMMA StepOrder == Link /\ Link' /\ ClientTold /\ Order /\ [Next]_vars => Order'
<1> SUFFICES ASSUME Link, Link', ClientTold, Order, [Next]_vars PROVE Order'
  OBVIOUS
<1> USE DEF nodeVars, clientVars, swarmVars
<1>1. CASE stage = "stopped"
  <2>1. Range(job') \cap Acceptances = {}
    BY <1>1, StoppedForGood, SilentHandlers
  <2> QED
    BY <1>1, <2>1, StoppedForGood DEF Order, JobShape, Acceptances
<1> SUFFICES ASSUME stage # "stopped" PROVE Order'
  BY <1>1
<1>2. /\ JobShape /\ reports \o Unreported = arrived
      /\ job \in Seq(Commands) /\ job' \in Seq(Commands)
      /\ msgs \in Seq(Messages) /\ reports \in Seq(Messages) /\ arrived \in Seq(Messages)
  BY DEF Order, Link, TypeOK
<1>3. Forwarding(Messages) \in Seq(Messages) /\ <<>> \in Seq(Messages)
  BY EmptySeq DEF Forwarding
<1>4. \A q : Handling(q)' = Handling(q')
  BY DEF Handling
<1>5. AtSelect => job = <<>> /\ ~awaits /\ reply = "none" /\ Handling(Todo) = <<>>
  <2>1. AtSelect => job = <<>> /\ ~awaits
    BY DEF AtSelect, Link, OneCommand
  <2> QED
    BY <2>1, NothingUnderWay, HandlingEmpty DEF Todo
<1>6. CASE TakeMessage
  <2> DEFINE m == Head(msgs)
  <2>1. m \in Messages /\ msgs # <<>> /\ msgs' = Tail(msgs) /\ AtSelect
    BY <1>2, <1>6, HeadTailProperties DEF TakeMessage
  <2>2. UNCHANGED <<stage, reply, event, reports, arrived>>
    BY <1>6 DEF TakeMessage, Begin
  <2>3. job' \in {<<ValidateMessage(m)>>, <<Pong, ValidateMessage(m)>>}
    <3>1. PICK before \in {<<>>, <<Pong>>} : job' = Append(before, ValidateMessage(m))
      BY <1>6 DEF TakeMessage, Begin
    <3>2. Append(<<Pong>>, ValidateMessage(m)) = <<Pong, ValidateMessage(m)>>
      BY <2>1, Handlers, AppendPair
    <3>3. Append(<<>>, ValidateMessage(m)) = <<ValidateMessage(m)>>
      OBVIOUS
    <3> QED
      BY <3>1, <3>2, <3>3
  <2> HIDE DEF m
  <2>4. Todo' = job' /\ Handling(job') = <<m>>
    BY <1>5, <2>1, <2>2, <2>3, HandlingOne DEF Todo
  <2>5. <<m>> \o msgs' = <<>> \o msgs
    BY <1>2, <2>1, HeadAndTail DEF m
  <2>6. Unreported' = (<<m>> \o msgs') \o Forwarding(Messages)
    BY <1>4, <2>2, <2>4 DEF Unreported, Forwarding
  <2>7. Unreported = (<<>> \o msgs) \o Forwarding(Messages)
    BY <1>5, <2>1 DEF Unreported
  <2>8. JobShape'
    BY <2>1, <2>3 DEF JobShape, Accepting
  <2> QED
    BY <1>2, <2>2, <2>5, <2>6, <2>7, <2>8 DEF Order
<1>7. ASSUME NEW commands \in Seq(Commands), AtSelect, Begin(commands), UNCHANGED msgs,
             Range(commands) \cap Acceptances = {}
      PROVE  Order'
  BY <1>2, <1>5, <1>7, SilentBegins DEF Begin
<1>8. CASE TakeRequest
  <2>1. Head(reqs) \in Requests
    BY <1>8, HeadTailProperties DEF TakeRequest, Link, TypeOK
  <2>2. PICK commands \in {<<>>, <<Respond(Head(reqs))>>} : Begin(commands)
    BY <1>8 DEF TakeRequest
  <2>3. Range(commands) \cap Acceptances = {} /\ commands \in Seq(Commands)
    BY <1>2, <2>1, <2>2, SilentHandlers DEF Begin
  <2> QED
    BY <1>7, <1>8, <2>2, <2>3 DEF TakeRequest
<1>9. CASE TakeResult \/ Diagnose \/ Refresh
  <2>1. <<PublishResult>> \in Seq(Commands) /\ <<PeerCounts>> \in Seq(Commands)
    BY Handlers
  <2> QED
    BY <1>7, <1>9, <2>1, Handlers, SilentHandlers DEF TakeResult, Diagnose, Refresh
<1>10. CASE SeeCancelled \/ PayloadFails
  <2>1. /\ AtSelect /\ stage' # "stopped" /\ UNCHANGED <<reply, msgs, event, reports, arrived>>
        /\ job' \in {Unsubscribes \o <<PeerCounts, Shutdown>>, <<Shutdown>>}
    BY <1>10 DEF SeeCancelled, PayloadFails, Closing
  <2>2. Range(job') \cap Acceptances = {}
    BY <2>1, SilentHandlers
  <2> QED
    BY <1>2, <1>5, <2>1, <2>2, SilentBegins
<1>11. CASE SendCommand
  <2>1. UNCHANGED <<stage, job, reply, event, msgs, reports, arrived>>
    BY <1>11 DEF SendCommand
  <2> QED
    BY <1>2, <1>4, <2>1 DEF Order, JobShape, Unreported, Todo, Forwarding
<1>12. CASE Continue
  <2>1. /\ job # <<>> /\ stage' # "stopped" /\ reply # "none" /\ reply' = "none"
        /\ UNCHANGED <<event, msgs, reports, arrived>>
    BY <1>12, ReplyUnderWay DEF Continue, Replied
  <2>2. Todo = Tail(job) /\ Todo' = job'
    BY <2>1 DEF Todo
  <2>3. Handling(job') = Handling(Tail(job)) /\ (Range(job') \cap Acceptances = {} \/ Accepting(job'))
    <3>1. CASE job' = Tail(job)
      BY <1>2, <2>1, <3>1, JobShapes
    <3>2. CASE Head(job) = PublishResult /\ job' = <<PublishError>>
      <4>1. Head(job).op \notin {"validate", "publish_pong"}
        BY <3>2 DEF PublishResult, Cmd
      <4>2. Range(job) \cap Acceptances = {} /\ Handling(Tail(job)) = Handling(job)
        BY <1>2, <2>1, <4>1, JobShapes
      <4>3. Range(job') \cap Acceptances = {}
        BY <3>2, SilentHandlers
      <4> QED
        BY <1>2, <4>2, <4>3, HandlingNone
    <3> QED
      BY <1>12, <3>1, <3>2 DEF Continue
  <2>4. JobShape'
    BY <2>3 DEF JobShape, Accepting, Acceptances
  <2>5. Unreported' = Unreported
    BY <1>4, <2>1, <2>2, <2>3 DEF Unreported, Forwarding
  <2> QED
    BY <1>2, <2>1, <2>4, <2>5 DEF Order
<1>13. CASE Fail
  <2>1. /\ job # <<>> /\ stage' # "stopped" /\ reply # "none" /\ reply' = "none"
        /\ job' = <<Shutdown>> /\ UNCHANGED <<event, msgs, reports, arrived>>
    BY <1>13, ReplyUnderWay DEF Fail, Closing, Replied
  <2>2. Todo = Tail(job) /\ Todo' = job'
    BY <2>1 DEF Todo
  <2>3. Head(job).op \notin {"validate", "publish_pong"}
    BY <1>13 DEF Fail, Fatal
  <2>4. Handling(Tail(job)) = <<>>
    BY <1>2, <2>1, <2>3, JobShapes, HandlingNone
  <2>5. Range(job') \cap Acceptances = {}
    BY <2>1, SilentHandlers
  <2>6. Handling(job') = <<>>
    BY <1>2, <2>5, HandlingNone
  <2>7. Unreported' = Unreported
    BY <1>4, <2>1, <2>2, <2>4, <2>6 DEF Unreported, Forwarding
  <2> QED
    BY <1>2, <2>1, <2>5, <2>7 DEF Order, JobShape, Acceptances
<1>14. CASE Stop
  <2>1. /\ job # <<>> /\ stage' = "stopped" /\ job' = <<>> /\ reply # "none"
        /\ UNCHANGED <<reports, arrived>>
    BY <1>14, ReplyUnderWay DEF Stop, Replied
  <2>2. Handling(Todo) \in Seq(Messages)
    BY <1>2, <2>1, JobShapes DEF Todo
  <2>3. Unreported \in Seq(Messages)
    BY <1>2, <1>3, <2>2, ConcatProperties DEF Unreported
  <2>4. IsPrefix(reports, arrived)
    BY <1>2, <2>3, PrefixOfConcat
  <2> QED
    BY <2>1, <2>4, SilentHandlers DEF Order, JobShape, Acceptances
<1>15. CASE HandleCommand
  <2> DEFINE c == Head(job)
  <2>1. /\ reply = "none" /\ reply' # "none" /\ job # <<>> /\ c \in Commands
        /\ UNCHANGED <<stage, job, event, msgs, arrived>>
        /\ reports' = IF c.op = "validate" THEN Append(reports, c.arg) ELSE reports
    BY <1>15, CommandUnderWay DEF HandleCommand, Outcomes
  <2>2. Todo = job /\ Todo' = Tail(job)
    BY <2>1 DEF Todo
  <2>3. JobShape'
    BY <1>2, <2>1 DEF JobShape, Accepting, Acceptances
  <2>4. CASE c.op = "validate"
    <3>1. Tail(job) = <<>> /\ job = <<ValidateMessage(c.arg)>> /\ c.arg \in Messages
      BY <1>2, <2>1, <2>4, JobShapes
    <3>2. Handling(job) = <<c.arg>> /\ Handling(Tail(job)) = <<>>
      BY <3>1, HandlingOne, HandlingEmpty
    <3>3. reports' = Append(reports, c.arg)
      BY <2>1, <2>4
    <3>4. Unreported = (<<c.arg>> \o msgs) \o Forwarding(Messages)
      BY <2>2, <3>2 DEF Unreported
    <3>5. Unreported' = (<<>> \o msgs) \o Forwarding(Messages)
      BY <1>4, <2>1, <2>2, <3>2 DEF Unreported, Forwarding
    <3>6. Append(reports, c.arg) \o ((<<>> \o msgs) \o Forwarding(Messages))
             = reports \o ((<<c.arg>> \o msgs) \o Forwarding(Messages))
      <4> DEFINE e == c.arg
                 f == Forwarding(Messages)
      <4>1. e \in Messages /\ f \in Seq(Messages) /\ reports \in Seq(Messages) /\ msgs \in Seq(Messages)
        BY <1>2, <1>3, <3>1
      <4>2. Append(reports, e) \o ((<<>> \o msgs) \o f) = reports \o ((<<e>> \o msgs) \o f)
        <5> HIDE DEF e, f
        <5> QED
          BY <4>1, HeadJoinsFront, SMTT(30)
      <4> QED
        BY <4>2
    <3> QED
      BY <1>2, <2>1, <2>3, <3>3, <3>4, <3>5, <3>6 DEF Order
  <2>5. CASE c.op # "validate"
    <3>1. Handling(Tail(job)) = Handling(job) /\ reports' = reports
      BY <1>2, <2>1, <2>5, JobShapes
    <3>2. Unreported' = Unreported
      BY <1>4, <2>1, <2>2, <3>1 DEF Unreported, Forwarding
    <3> QED
      BY <1>2, <2>1, <2>3, <3>1, <3>2 DEF Order
  <2> QED
    BY <2>4, <2>5
<1>16. Handling(Todo) \in Seq(Messages)
  <2>1. CASE job = <<>> /\ reply = "none"
    BY <1>3, <2>1, HandlingEmpty DEF Todo
  <2>2. CASE job # <<>>
    <3>1. Handling(job) \in Seq(Messages)
      <4>1. CASE Range(job) \cap Acceptances = {}
        BY <1>2, <1>3, <4>1, HandlingNone
      <4>2. ASSUME NEW m \in Messages, job \in {<<ValidateMessage(m)>>, <<Pong, ValidateMessage(m)>>}
            PROVE  Handling(job) \in Seq(Messages)
        <5>1. Handling(job) = <<m>>
          BY <4>2, HandlingOne
        <5> QED
          BY <5>1
      <4> QED
        BY <1>2, <4>1, <4>2 DEF JobShape, Accepting
    <3> QED
      BY <1>2, <2>2, <3>1, JobShapes DEF Todo
  <2>3. job = <<>> => reply = "none"
    BY NothingUnderWay DEF Link, OneCommand
  <2> QED
    BY <2>1, <2>2, <2>3
<1>17. CASE Forward
  <2>1. /\ event # None /\ event' = None
        /\ UNCHANGED <<stage, job, reply, reports, arrived>>
    BY <1>17 DEF Forward, Link, TypeOK
  <2>2. JobShape' /\ Todo' = Todo /\ Forwarding(Messages)' = <<>>
    BY <1>2, <2>1, EventsAssumption DEF JobShape, Accepting, Acceptances, Todo, Forwarding
  <2>3. CASE event \in Messages
    <3>1. msgs' = Append(msgs, event) /\ Forwarding(Messages) = <<event>>
      BY <1>17, <2>3, EventsAssumption DEF Forward, Forwarding
    <3>2. (Handling(Todo) \o Append(msgs, event)) \o <<>> = (Handling(Todo) \o msgs) \o <<event>>
      BY <1>2, <1>16, <2>3, PutAtEnd
    <3> QED
      BY <1>2, <1>4, <2>1, <2>2, <3>1, <3>2 DEF Order, Unreported
  <2>4. CASE event \notin Messages
    <3>1. msgs' = msgs /\ Forwarding(Messages) = <<>>
      BY <1>17, <2>4 DEF Forward, Forwarding
    <3> QED
      BY <1>2, <1>4, <2>1, <2>2, <3>1 DEF Order, Unreported
  <2> QED
    BY <2>3, <2>4
<1>18. ASSUME NEW e, Yield(e)
       PROVE  /\ UNCHANGED <<stage, job, reply, msgs, reports>> /\ JobShape'
              /\ Todo' = Todo /\ Forwarding(Messages) = <<>>
              /\ event' = e
  <2>1. event = None /\ event' = e /\ UNCHANGED <<stage, job, reply, msgs, reports>>
    BY <1>18 DEF Yield, Link, TypeOK
  <2> QED
    BY <1>2, <2>1, EventsAssumption DEF JobShape, Accepting, Acceptances, Todo, Forwarding
<1>19. ASSUME NEW m \in Messages, YieldMessage(m)
       PROVE  Order'
  <2>1. Yield(m) /\ arrived' = Append(arrived, m)
    BY <1>19 DEF YieldMessage
  <2>2. Forwarding(Messages)' = <<m>>
    BY <1>18, <2>1 DEF Forwarding
  <2>3. reports \o ((Handling(Todo) \o msgs) \o <<m>>)
           = Append(reports \o ((Handling(Todo) \o msgs) \o <<>>), m)
    <3>1. Handling(Todo) \o msgs \in Seq(Messages)
      BY <1>2, <1>16, ConcatProperties
    <3> QED
      BY <1>2, <3>1, EndIsAppended, SMTT(30)
  <2> QED
    BY <1>2, <1>4, <1>18, <2>1, <2>2, <2>3 DEF Order, Unreported
<1>20. ASSUME NEW r \in Requests, YieldRequest(r)
       PROVE  Order'
  <2>1. Yield(r) /\ UNCHANGED arrived
    BY <1>20 DEF YieldRequest
  <2>2. Forwarding(Messages)' = <<>>
    BY <1>18, <2>1, EventsAssumption DEF Forwarding
  <2> QED
    BY <1>2, <1>4, <1>18, <2>1, <2>2 DEF Order, Unreported
<1>21. CASE EndClient \/ Cancel \/ UNCHANGED vars
  <2>1. UNCHANGED <<stage, job, reply, event, msgs, reports, arrived>>
    BY <1>21 DEF EndClient, Cancel, vars
  <2> QED
    BY <1>2, <1>4, <2>1 DEF Order, JobShape, Accepting, Acceptances, Unreported, Todo, Forwarding
<1> QED
  BY <1>6, <1>8, <1>9, <1>10, <1>11, <1>12, <1>13, <1>14, <1>15, <1>17, <1>19, <1>20, <1>21
  DEF Next, NodeStep, ClientStep, SwarmStep

\* Every gossip message the swarm holds for validation is reported exactly once and
\* in the order of arrival; only a node that stops leaves some unreported.
THEOREM ReportsFollowArrivals == Spec => []ReportedInOrder
<1>1. Link <=> TypeOK /\ OneCommand
  BY DEF Link
<1>2. Order => ReportedInOrder
  BY DEF Order, ReportedInOrder
<1>3. Init => ClientTold
  BY DEF Init, ClientTold, Told
<1> QED
  BY <1>1, <1>2, <1>3, InitOrder, StepOrder, StepClientTold, LinkCorrect, PTL DEF Spec

(***************************************************************************)
(* Every request the node took is settled, in the order of arrival.        *)
(***************************************************************************)

\* Of a concatenation without repetitions: neither does its front have any, and
\* the two parts share no element.
LEMMA InjectiveConcat ==
    ASSUME NEW S, NEW s \in Seq(S), NEW t \in Seq(S), IsInjective(s \o t)
    PROVE  IsInjective(s) /\ Range(s) \cap Range(t) = {}
<1>1. /\ s \o t \in Seq(S) /\ Len(s \o t) = Len(s) + Len(t)
      /\ \A i \in 1 .. Len(s) + Len(t) :
            (s \o t)[i] = IF i <= Len(s) THEN s[i] ELSE t[i - Len(s)]
  BY ConcatProperties
<1>2. /\ Len(s) \in Nat /\ Len(t) \in Nat
      /\ DOMAIN s = 1 .. Len(s) /\ DOMAIN t = 1 .. Len(t)
      /\ DOMAIN (s \o t) = 1 .. Len(s) + Len(t)
  BY <1>1, LenProperties
<1> DEFINE c == s \o t
<1>3. \A i, j \in DOMAIN c : c[i] = c[j] => i = j
  BY DEF IsInjective
<1>4. /\ \A i \in DOMAIN s : i \in DOMAIN c /\ c[i] = s[i]
      /\ \A j \in DOMAIN t : Len(s) + j \in DOMAIN c /\ c[Len(s) + j] = t[j]
      /\ \A i \in DOMAIN s, j \in DOMAIN t : i # Len(s) + j
  BY <1>1, <1>2
<1> HIDE DEF c
<1>5. IsInjective(s)
  BY <1>3, <1>4 DEF IsInjective
<1>6. \A i \in DOMAIN s, j \in DOMAIN t : s[i] # t[j]
  BY <1>3, <1>4
<1> QED
  BY <1>5, <1>6 DEF Range

\* The front of a concatenation is what SubSeq takes of it.
LEMMA FrontOfConcat ==
    ASSUME NEW S, NEW s \in Seq(S), NEW t \in Seq(S)
    PROVE  SubSeq(s \o t, 1, Len(s \o t) - Len(t)) = s
<1>1. /\ s \o t \in Seq(S) /\ Len(s \o t) = Len(s) + Len(t)
      /\ Len(s) \in Nat /\ Len(t) \in Nat
      /\ \A i \in 1 .. Len(s) : (s \o t)[i] = s[i]
  BY ConcatProperties, LenProperties
<1>2. \A i \in 1 .. Len(s) : (s \o t)[i] \in S
  BY <1>1, ElementOfSeq
<1>3. /\ SubSeq(s \o t, 1, Len(s)) \in Seq(S)
      /\ Len(SubSeq(s \o t, 1, Len(s))) = Len(s)
      /\ \A i \in 1 .. Len(s) : SubSeq(s \o t, 1, Len(s))[i] = s[i]
  BY <1>1, <1>2, SubSeqProperties
<1>4. SubSeq(s \o t, 1, Len(s)) = s
  BY <1>3, SeqEqual
<1>5. Len(s \o t) - Len(t) = Len(s)
  BY <1>1
<1> QED
  BY <1>4, <1>5

\* No command of these answers a request.
Quiet(q) == \A c \in Range(q) : c.op # "respond"

\* The handlers that answer none.
LEMMA QuietHandlers ==
    /\ Quiet(<<>>) /\ Quiet(Subscribes) /\ Quiet(Dials)
    /\ Quiet(Unsubscribes \o <<PeerCounts, Shutdown>>)
    /\ \A c \in Commands : c.op # "respond" => Quiet(<<c>>)
    /\ Quiet(<<PeerCounts>>) /\ Quiet(<<Shutdown>>) /\ Quiet(<<PublishResult>>)
    /\ Quiet(<<PublishError>>)
    /\ \A m \in Messages : Quiet(<<ValidateMessage(m)>>) /\ Quiet(<<Pong, ValidateMessage(m)>>)
<1>1. /\ \A i \in DOMAIN Subscribes : Subscribes[i].op = "subscribe"
      /\ \A i \in DOMAIN Unsubscribes : Unsubscribes[i].op = "unsubscribe"
      /\ \A i \in DOMAIN Dials : Dials[i].op = "dial"
  BY DEF Subscribes, Unsubscribes, Dials, Cmd
<1>2. Quiet(Subscribes) /\ Quiet(Unsubscribes) /\ Quiet(Dials)
  BY <1>1 DEF Quiet, Range
<1>3. \A c \in {PeerCounts, Shutdown, PublishResult, PublishError, Pong} : c.op # "respond"
  BY DEF PeerCounts, Shutdown, PublishResult, PublishError, Pong, Cmd
<1>4. \A m \in Messages : ValidateMessage(m).op # "respond"
  BY DEF ValidateMessage, Cmd
<1>5. \A c : Range(<<c>>) = {c}
  BY DEF Range
<1>6. \A c, d : Range(<<c, d>>) = {c, d}
  BY DEF Range
<1>7. Quiet(Unsubscribes \o <<PeerCounts, Shutdown>>)
  <2>1. <<PeerCounts, Shutdown>> \in Seq(Commands) /\ Unsubscribes \in Seq(Commands)
    BY Handlers
  <2>2. Range(Unsubscribes \o <<PeerCounts, Shutdown>>)
           = Range(Unsubscribes) \cup Range(<<PeerCounts, Shutdown>>)
    BY <2>1, RangeConcatenation, ZenonT(40)
  <2> QED
    BY <1>2, <1>3, <1>6, <2>2 DEF Quiet
<1>8. Quiet(<<>>)
  BY DEF Quiet, Range
<1>9. \A m \in Messages : Quiet(<<ValidateMessage(m)>>) /\ Quiet(<<Pong, ValidateMessage(m)>>)
  BY <1>3, <1>4, <1>5, <1>6 DEF Quiet
<1>10. /\ \A c \in Commands : c.op # "respond" => Quiet(<<c>>)
       /\ Quiet(<<PeerCounts>>) /\ Quiet(<<Shutdown>>) /\ Quiet(<<PublishResult>>)
       /\ Quiet(<<PublishError>>)
  BY <1>3, <1>5 DEF Quiet
<1> QED
  BY <1>2, <1>7, <1>8, <1>9, <1>10

\* Commands that answer no request.
LEMMA AnsweringNone ==
    ASSUME NEW q \in Seq(Commands), Quiet(q)
    PROVE  Answering(q) = <<>>
<1> DEFINE R == {Respond(r) : r \in Requests}
<1>1. Range(q) \cap R = {}
  BY DEF Quiet, Respond, Cmd
<1> HIDE DEF R
<1>2. Only(q, R) = <<>>
  BY <1>1, OnlyNone
<1>3. [i \in DOMAIN <<>> |-> <<>>[i].arg] = <<>>
  OBVIOUS
<1> QED
  BY <1>2, <1>3 DEF Answering, R

\* A handler that still has to respond answers its request.
LEMMA AnsweringOne ==
    ASSUME NEW r \in Requests
    PROVE  Answering(<<Respond(r)>>) = <<r>>
<1> DEFINE R == {Respond(x) : x \in Requests}
           c == Respond(r)
<1>1. c \in Commands /\ c \in R /\ c.arg = r
  BY Handlers DEF Respond, Cmd
<1> HIDE DEF c
<1>2. <<c>> \in Seq(Commands) /\ Range(<<c>>) \subseteq R
  BY <1>1 DEF Range
<1> HIDE DEF R
<1>3. Only(<<c>>, R) = <<c>>
  BY <1>2, OnlyAll
<1>4. [i \in DOMAIN <<c>> |-> <<c>>[i].arg] = <<r>>
  BY <1>1
<1> QED
  BY <1>3, <1>4 DEF Answering, R, c

\* Taken is t; of it, g are the requests with a response, given or still to be sent,
\* among them all those for specs.
SettledBy(t, g) ==
    /\ t \in Seq(Requests) /\ g \in Seq(Requests)
    /\ asked = t \o Waiting
    /\ g = Only(t, SpecRequests \cup Range(g))

\* The responses are g, up to the one the handler still has to send.
RespondsTo(g) ==
    \/ Quiet(job) /\ responses = g
    \/ \E r \in Requests :
          job = <<Respond(r)>> /\ g = IF reply = "none" THEN Append(responses, r) ELSE responses

\* The inductive invariant of the responses, as long as the node runs.
Settled ==
    /\ IsInjective(asked)
    /\ stage # "stopped" => \E t, g : SettledBy(t, g) /\ RespondsTo(g)

\* The requests and responses of the swarm stay, and so do those that wait.
LEMMA SettledStays ==
    ASSUME Settled, stage # "stopped", UNCHANGED <<asked, responses, reqs>>,
           Forwarding(Requests)' = Forwarding(Requests),
           UNCHANGED <<job, reply>> \/ (Quiet(job') /\ (Quiet(job) \/ reply # "none"))
    PROVE  Settled'
<1>1. PICK t, g : SettledBy(t, g) /\ RespondsTo(g)
  BY DEF Settled
<1>2. Waiting' = Waiting
  BY DEF Waiting
<1>3. SettledBy(t, g)'
  BY <1>1, <1>2 DEF SettledBy
<1>4. RespondsTo(g)'
  <2>1. CASE UNCHANGED <<job, reply>>
    BY <1>1, <2>1 DEF RespondsTo, Quiet
  <2>2. CASE Quiet(job') /\ (Quiet(job) \/ reply # "none")
    <3>1. \A r : ~Quiet(<<Respond(r)>>)
      BY DEF Quiet, Range, Respond, Cmd
    <3>2. responses = g
      BY <1>1, <2>2, <3>1 DEF RespondsTo
    <3> QED
      BY <2>2, <3>2 DEF RespondsTo, Quiet
  <2> QED
    BY <2>1, <2>2
<1> QED
  BY <1>3, <1>4 DEF Settled

\* The node starts with nothing asked and nothing to answer.
LEMMA InitSettled == Init => Settled
<1> SUFFICES ASSUME Init PROVE Settled
  OBVIOUS
<1>1. asked = <<>> /\ responses = <<>> /\ reqs = <<>> /\ event = None /\ job = Subscribes
      /\ reply = "none"
  BY DEF Init
<1>2. Todo = Subscribes /\ Forwarding(Requests) = <<>>
  BY <1>1, EventsAssumption DEF Todo, Forwarding
<1>3. <<>> \o <<>> = <<>> /\ <<>> \in Seq(Requests)
  BY ConcatEmptySeq, EmptySeq
<1>4. <<>> = Only(<<>>, SpecRequests \cup Range(<<>>))
  BY OnlyEmpty
<1>5. SettledBy(<<>>, <<>>)
  BY <1>1, <1>2, <1>3, <1>4 DEF SettledBy, Waiting
<1>6. IsInjective(<<>>)
  BY DEF IsInjective
<1>7. RespondsTo(<<>>)
  BY <1>1, <1>2, QuietHandlers DEF RespondsTo
<1> QED
  BY <1>1, <1>5, <1>6, <1>7 DEF Settled

\* One more request is taken, and refused: it has no response.
LEMMA OneRefused ==
    ASSUME NEW t \in Seq(Requests), NEW g \in Seq(Requests), NEW r \in Requests,
           g = Only(t, SpecRequests \cup Range(g)), r \notin Range(t), r \notin SpecRequests
    PROVE  g = Only(Append(t, r), SpecRequests \cup Range(g))
<1> DEFINE Q == SpecRequests \cup Range(g)
<1>1. r \notin Range(g)
  <2>1. Range(Only(t, Q)) = Range(t) \cap Q
    BY OnlyRange
  <2> QED
    BY <2>1
<1>2. r \notin Q
  BY <1>1
<1> HIDE DEF Q
<1>3. Only(Append(t, r), Q) = Only(t, Q)
  BY <1>2, OnlyAppend
<1> QED
  BY <1>3 DEF Q

\* One more is taken, and answered: its response comes last.
LEMMA OneAnswered ==
    ASSUME NEW t \in Seq(Requests), NEW g \in Seq(Requests), NEW r \in Requests,
           g = Only(t, SpecRequests \cup Range(g)), r \notin Range(t)
    PROVE  Append(g, r) = Only(Append(t, r), SpecRequests \cup Range(Append(g, r)))
<1> DEFINE P == SpecRequests \cup Range(g)
           Q == SpecRequests \cup Range(Append(g, r))
<1>1. Range(Append(g, r)) = Range(g) \cup {r}
  BY RangeAppend
<1>2. r \in Q /\ Range(t) \cap P = Range(t) \cap Q
  BY <1>1
<1> HIDE DEF P, Q
<1>3. Only(t, P) = Only(t, Q)
  BY <1>2, OnlySame
<1>4. Only(Append(t, r), Q) = Append(Only(t, Q), r)
  BY <1>2, OnlyAppend
<1> QED
  BY <1>3, <1>4 DEF P, Q

\* A request is taken: it is the last one taken, and all before it are settled.
LEMMA TakeRequestSettled ==
    ASSUME Link, Settled, TakeRequest
    PROVE  Settled'
<1> DEFINE f == Forwarding(Requests)
<1>0. PICK r : r = Head(reqs)
  OBVIOUS
<1>1. /\ reqs \in Seq(Requests) /\ reqs # <<>> /\ reqs' = Tail(reqs) /\ AtSelect
      /\ UNCHANGED <<stage, reply, event, asked, responses>>
  BY DEF TakeRequest, Begin, Link, TypeOK, swarmVars, clientVars
<1>2. r \in Requests /\ Tail(reqs) \in Seq(Requests)
  BY <1>0, <1>1, HeadTailProperties
<1>3. f \in Seq(Requests) /\ Forwarding(Requests)' = f
  BY <1>1, EmptySeq DEF Forwarding
<1>4. reply = "none" /\ job = <<>> /\ stage # "stopped" /\ IsInjective(asked)
  BY <1>1, NothingUnderWay DEF AtSelect, Link, OneCommand, Settled
<1>5. PICK t, g : SettledBy(t, g) /\ RespondsTo(g)
  BY <1>4 DEF Settled
<1>6. /\ t \in Seq(Requests) /\ g \in Seq(Requests) /\ asked = t \o (reqs \o f)
      /\ g = Only(t, SpecRequests \cup Range(g)) /\ responses = g
  BY <1>4, <1>5 DEF SettledBy, RespondsTo, Waiting
<1>7. job' = <<Respond(r)>> \/ (r \notin SpecRequests /\ job' = <<>>)
  BY <1>0 DEF TakeRequest, Begin
<1> HIDE DEF f
<1>8. r \notin Range(t)
  <2>1. reqs \o f \in Seq(Requests)
    BY <1>1, <1>3, ConcatProperties
  <2>2. Range(t) \cap Range(reqs \o f) = {}
    BY <1>4, <1>6, <2>1, InjectiveConcat
  <2>3. Range(reqs \o f) = Range(reqs) \cup Range(f)
    BY <1>1, <1>3, RangeConcatenation
  <2>4. r \in Range(reqs)
    BY <1>0, <1>1, RangeTail
  <2> QED
    BY <2>2, <2>3, <2>4
<1> DEFINE t2 == Append(t, r)
<1>9. t2 \in Seq(Requests) /\ Append(g, r) \in Seq(Requests)
  BY <1>2, <1>6, AppendProperties
<1>10. t2 \o (Tail(reqs) \o f) = t \o (reqs \o f)
  <2>1. <<r>> \o Tail(reqs) = <<>> \o reqs
    BY <1>0, <1>1, HeadAndTail
  <2>2. <<>> \o reqs = reqs /\ <<>> \o Tail(reqs) = Tail(reqs)
    BY <1>1, <1>2, ConcatEmptySeq
  <2>3. t2 \o ((<<>> \o Tail(reqs)) \o f) = t \o ((<<r>> \o Tail(reqs)) \o f)
    BY <1>2, <1>3, <1>6, HeadJoinsFront, SMTT(30)
  <2> QED
    BY <2>1, <2>2, <2>3
<1>11. asked' = t2 \o Waiting'
  BY <1>1, <1>3, <1>6, <1>10 DEF Waiting
<1>12. CASE job' = <<Respond(r)>>
  <2>1. Append(g, r) = Only(t2, SpecRequests \cup Range(Append(g, r)))
    BY <1>2, <1>6, <1>8, OneAnswered
  <2>2. SettledBy(t2, Append(g, r))'
    BY <1>9, <1>11, <2>1 DEF SettledBy
  <2>3. RespondsTo(Append(g, r))'
    BY <1>1, <1>2, <1>4, <1>6, <1>12 DEF RespondsTo
  <2> HIDE DEF t2
  <2> QED
    BY <1>1, <1>4, <2>2, <2>3 DEF Settled
<1>13. CASE r \notin SpecRequests /\ job' = <<>>
  <2>1. g = Only(t2, SpecRequests \cup Range(g))
    BY <1>2, <1>6, <1>8, <1>13, OneRefused
  <2>2. SettledBy(t2, g)'
    BY <1>6, <1>9, <1>11, <2>1 DEF SettledBy
  <2>3. RespondsTo(g)'
    BY <1>1, <1>6, <1>13, QuietHandlers DEF RespondsTo, Quiet
  <2> HIDE DEF t2
  <2> QED
    BY <1>1, <1>4, <2>2, <2>3 DEF Settled
<1> QED
  BY <1>7, <1>12, <1>13

\* A response is given to the swarm: that of the last request with one.
LEMMA RespondSettled ==
    ASSUME Link, Settled, stage # "stopped", HandleCommand
    PROVE  Settled'
<1> DEFINE c == Head(job)
<1>1. /\ reply = "none" /\ reply' # "none" /\ job # <<>> /\ c \in Commands
      /\ UNCHANGED <<stage, job, event, reqs, asked>>
      /\ responses' = IF c.op = "respond" THEN Append(responses, c.arg) ELSE responses
  BY CommandUnderWay DEF HandleCommand, Outcomes, nodeVars
<1>3. c \in Range(job)
  <2>1. job \in Seq(Commands)
    BY DEF Link, TypeOK
  <2> QED
    BY <1>1, <2>1, RangeTail
<1>4. Forwarding(Requests)' = Forwarding(Requests) /\ Waiting' = Waiting
  BY <1>1 DEF Forwarding, Waiting
<1>5. PICK t, g : SettledBy(t, g) /\ RespondsTo(g)
  BY DEF Settled
<1>6. SettledBy(t, g)'
  BY <1>1, <1>4, <1>5 DEF SettledBy
<1>7. CASE Quiet(job) /\ responses = g
  <2>1. responses' = g /\ Quiet(job)'
    BY <1>1, <1>3, <1>7 DEF Quiet
  <2> QED
    BY <1>1, <1>6, <2>1 DEF Settled, RespondsTo
<1>8. ASSUME NEW r \in Requests, job = <<Respond(r)>>, g = Append(responses, r)
      PROVE  Settled'
  <2>1. c.op = "respond" /\ c.arg = r
    BY <1>8 DEF Respond, Cmd
  <2>2. responses' = g /\ job' = <<Respond(r)>>
    BY <1>1, <1>8, <2>1
  <2>3. RespondsTo(g)'
    BY <1>1, <2>2 DEF RespondsTo
  <2> QED
    BY <1>1, <1>6, <2>3 DEF Settled
<1> QED
  BY <1>1, <1>5, <1>7, <1>8 DEF RespondsTo

\* An event goes from the client's hand into its channel: the same requests wait.
LEMMA ForwardSettled ==
    ASSUME Link, Settled, Forward
    PROVE  Settled'
<1>1. /\ event # None /\ event' = None /\ reqs \in Seq(Requests)
      /\ UNCHANGED <<stage, job, reply, asked, responses>>
  BY DEF Forward, Link, TypeOK, nodeVars, swarmVars
<1>2. Forwarding(Requests)' = <<>>
  BY <1>1, EventsAssumption DEF Forwarding
<1>3. Waiting' = Waiting
  <2>1. CASE event \in Requests
    <3>1. reqs' = Append(reqs, event) /\ Forwarding(Requests) = <<event>>
      BY <2>1, EventsAssumption DEF Forward, Forwarding
    <3>2. /\ Append(reqs, event) = reqs \o <<event>>
          /\ Append(reqs, event) \in Seq(Requests)
      BY <1>1, <2>1, AppendIsConcat, AppendProperties
    <3>3. Append(reqs, event) \o <<>> = Append(reqs, event)
      BY <3>2, ConcatEmptySeq
    <3> QED
      BY <1>2, <3>1, <3>2, <3>3 DEF Waiting
  <2>2. CASE event \notin Requests
    <3>1. reqs' = reqs /\ Forwarding(Requests) = <<>>
      BY <2>2 DEF Forward, Forwarding
    <3> QED
      BY <1>2, <3>1 DEF Waiting
  <2> QED
    BY <2>1, <2>2
<1> QED
  BY <1>1, <1>3 DEF Settled, SettledBy, RespondsTo, Quiet

\* A request arrives: it waits behind the others.
LEMMA YieldRequestSettled ==
    ASSUME Link, Settled, NEW r \in Requests, YieldRequest(r)
    PROVE  Settled'
<1>1. /\ event = None /\ event' = r /\ r \notin Range(asked) /\ asked' = Append(asked, r)
      /\ asked \in Seq(Requests) /\ reqs \in Seq(Requests)
      /\ UNCHANGED <<stage, job, reply, reqs, responses>>
  BY DEF YieldRequest, Yield, Link, TypeOK, nodeVars
<1>2. Forwarding(Requests)' = <<r>> /\ Forwarding(Requests) = <<>>
  BY <1>1, EventsAssumption DEF Forwarding
<1>3. IsInjective(asked')
  BY <1>1, RangeAppend DEF Settled
<1>4. CASE stage # "stopped"
  <2>1. PICK t, g : SettledBy(t, g) /\ RespondsTo(g)
    BY <1>4 DEF Settled
  <2>2. t \in Seq(Requests) /\ asked = t \o (reqs \o <<>>)
    BY <1>2, <2>1 DEF SettledBy, Waiting
  <2>3. t \o (reqs \o <<r>>) = Append(t \o (reqs \o <<>>), r)
    BY <1>1, <2>2, EndIsAppended
  <2>4. SettledBy(t, g)'
    BY <1>1, <1>2, <2>1, <2>2, <2>3 DEF SettledBy, Waiting
  <2>5. RespondsTo(g)'
    BY <1>1, <2>1 DEF RespondsTo, Quiet
  <2> QED
    BY <1>3, <2>4, <2>5 DEF Settled
<1> QED
  BY <1>1, <1>3, <1>4 DEF Settled

\* Every step keeps it.
LEMMA StepSettled == Link /\ ClientTold /\ Settled /\ [Next]_vars => Settled'
<1> SUFFICES ASSUME Link, ClientTold, Settled, [Next]_vars PROVE Settled'
  OBVIOUS
<1> USE DEF nodeVars, clientVars, swarmVars
<1>1. CASE stage = "stopped"
  BY <1>1, StoppedForGood DEF Settled
<1> SUFFICES ASSUME stage # "stopped" PROVE Settled'
  BY <1>1
<1>2. AtSelect => job = <<>> /\ Quiet(job)
  BY QuietHandlers DEF AtSelect
<1>3. CASE TakeMessage
  <2>1. /\ Head(msgs) \in Messages /\ UNCHANGED <<reply, event, asked, responses, reqs>>
        /\ AtSelect
    BY <1>3, HeadTailProperties DEF TakeMessage, Begin, Link, TypeOK
  <2>2. job' \in {<<ValidateMessage(Head(msgs))>>, <<Pong, ValidateMessage(Head(msgs))>>}
    <3>1. PICK before \in {<<>>, <<Pong>>} : job' = Append(before, ValidateMessage(Head(msgs)))
      BY <1>3 DEF TakeMessage, Begin
    <3>2. Append(<<Pong>>, ValidateMessage(Head(msgs))) = <<Pong, ValidateMessage(Head(msgs))>>
      BY <2>1, Handlers, AppendPair
    <3>3. Append(<<>>, ValidateMessage(Head(msgs))) = <<ValidateMessage(Head(msgs))>>
      OBVIOUS
    <3> QED
      BY <3>1, <3>2, <3>3
  <2>3. Quiet(job')
    BY <2>1, <2>2, QuietHandlers
  <2> QED
    BY <1>2, <2>1, <2>3, SettledStays DEF Forwarding
<1>4. CASE TakeRequest
  BY <1>4, TakeRequestSettled
<1>5. CASE TakeResult \/ Diagnose \/ Refresh
  <2>1. /\ job' \in {<<PublishResult>>, <<PeerCounts>>, Dials} /\ AtSelect
        /\ UNCHANGED <<event, asked, responses, reqs>>
    BY <1>5 DEF TakeResult, Diagnose, Refresh, Begin
  <2>2. Quiet(job')
    BY <2>1, QuietHandlers
  <2> QED
    BY <1>2, <2>1, <2>2, SettledStays DEF Forwarding
<1>6. CASE SeeCancelled \/ PayloadFails \/ Fail
  <2>1. /\ job' \in {Unsubscribes \o <<PeerCounts, Shutdown>>, <<Shutdown>>}
        /\ AtSelect \/ reply # "none"
        /\ UNCHANGED <<event, asked, responses, reqs>>
    BY <1>6 DEF SeeCancelled, PayloadFails, Fail, Replied, Closing
  <2>2. Quiet(job')
    BY <2>1, QuietHandlers
  <2> QED
    BY <1>2, <2>1, <2>2, SettledStays DEF Forwarding
<1>7. CASE SendCommand
  <2>1. UNCHANGED <<job, reply, event, asked, responses, reqs>>
    BY <1>7 DEF SendCommand
  <2> QED
    BY <2>1, SettledStays DEF Forwarding
<1>8. CASE Continue
  <2>1. /\ reply # "none" /\ job # <<>> /\ job' \in {Tail(job), <<PublishError>>}
        /\ UNCHANGED <<event, asked, responses, reqs>>
    BY <1>8, ReplyUnderWay DEF Continue, Replied
  <2>2. Quiet(job) \/ \E r \in Requests : job = <<Respond(r)>>
    BY DEF Settled, RespondsTo
  <2>3. Quiet(Tail(job))
    <3>1. CASE Quiet(job)
      <4>1. job \in Seq(Commands)
        BY DEF Link, TypeOK
      <4>2. Range(Tail(job)) \subseteq Range(job)
        BY <2>1, <4>1, RangeTail
      <4> QED
        BY <3>1, <4>2 DEF Quiet
    <3>2. CASE \E r \in Requests : job = <<Respond(r)>>
      <4>1. Tail(job) = <<>>
        BY <3>2
      <4> QED
        BY <4>1, QuietHandlers
    <3> QED
      BY <2>2, <3>1, <3>2
  <2>4. Quiet(job')
    BY <2>1, <2>3, QuietHandlers
  <2> QED
    BY <2>1, <2>4, SettledStays DEF Forwarding
<1>9. CASE Stop
  BY <1>9 DEF Stop, Settled
<1>10. CASE HandleCommand
  BY <1>10, RespondSettled
<1>11. CASE Forward
  BY <1>11, ForwardSettled
<1>12. ASSUME NEW m \in Messages, YieldMessage(m)
       PROVE  Settled'
  <2>1. event = None /\ event' = m /\ UNCHANGED <<job, reply, asked, responses, reqs>>
    BY <1>12 DEF YieldMessage, Yield, Link, TypeOK
  <2>2. Forwarding(Requests)' = Forwarding(Requests)
    BY <2>1, EventsAssumption DEF Forwarding
  <2> QED
    BY <2>1, <2>2, SettledStays
<1>13. ASSUME NEW r \in Requests, YieldRequest(r)
       PROVE  Settled'
  BY <1>13, YieldRequestSettled
<1>14. CASE EndClient \/ Cancel \/ UNCHANGED vars
  <2>1. UNCHANGED <<job, reply, event, asked, responses, reqs>>
    BY <1>14 DEF EndClient, Cancel, vars
  <2> QED
    BY <2>1, SettledStays DEF Forwarding
<1> QED
  BY <1>3, <1>4, <1>5, <1>6, <1>7, <1>8, <1>9, <1>10, <1>11, <1>12, <1>13, <1>14
  DEF Next, NodeStep, ClientStep, SwarmStep

\* While the node runs, every request it has taken is settled: those for the specs of
\* an RPC node it knew are answered, the others at most once, all in the order they
\* came, and none is lost on its way to the node.
THEOREM TakenRequestsAreSettled == Spec => []RequestsSettled
<1>1. Link <=> TypeOK /\ OneCommand
  BY DEF Link
<1>2. Link /\ Settled => RequestsSettled
  <2> SUFFICES ASSUME Link, Settled, stage # "stopped"
               PROVE  asked = Taken \o Waiting /\ Given = Only(Taken, SpecRequests \cup Range(Given))
    BY DEF RequestsSettled
  <2>1. PICK t, g : SettledBy(t, g) /\ RespondsTo(g)
    BY DEF Settled
  <2>2. reqs \in Seq(Requests) /\ Forwarding(Requests) \in Seq(Requests)
    BY EmptySeq DEF Link, TypeOK, Forwarding
  <2>3. t \in Seq(Requests) /\ Waiting \in Seq(Requests) /\ asked = t \o Waiting
    BY <2>1, <2>2, ConcatProperties DEF SettledBy, Waiting
  <2>4. Taken = t
    BY <2>3, FrontOfConcat DEF Taken
  <2>5. Given = g
    <3>0. /\ job \in Seq(Commands) /\ responses \in Seq(Requests)
          /\ reply # "none" => job # <<>>
      BY NothingUnderWay DEF Link, TypeOK, OneCommand
    <3>1. CASE Quiet(job) /\ responses = g
      <4>1. Todo \in Seq(Commands) /\ Quiet(Todo)
        BY <3>0, <3>1, HeadTailProperties, RangeTail DEF Todo, Quiet
      <4>2. Answering(Todo) = <<>>
        BY <4>1, AnsweringNone
      <4> QED
        BY <3>0, <3>1, <4>2, ConcatEmptySeq DEF Given
    <3>2. ASSUME NEW r \in Requests, job = <<Respond(r)>>, reply = "none",
                 g = Append(responses, r)
          PROVE  Given = g
      <4>1. Answering(Todo) = <<r>>
        BY <3>2, AnsweringOne DEF Todo
      <4>2. Append(responses, r) = responses \o <<r>>
        BY <3>0, AppendIsConcat
      <4> QED
        BY <3>2, <4>1, <4>2 DEF Given
    <3>3. ASSUME NEW r \in Requests, job = <<Respond(r)>>, reply # "none", g = responses
          PROVE  Given = g
      <4>1. Todo = <<>>
        BY <3>3 DEF Todo
      <4>2. Answering(Todo) = <<>>
        BY <4>1, EmptySeq, QuietHandlers, AnsweringNone
      <4> QED
        BY <3>0, <3>3, <4>2, ConcatEmptySeq DEF Given
    <3> QED
      BY <2>1, <3>1, <3>2, <3>3 DEF RespondsTo
  <2> QED
    BY <2>1, <2>4, <2>5 DEF SettledBy
<1>3. Init => ClientTold
  BY DEF Init, ClientTold, Told
<1> QED
  BY <1>1, <1>2, <1>3, InitSettled, StepSettled, StepClientTold, LinkCorrect, PTL DEF Spec

(***************************************************************************)
(* What handlers wait for, and that they end.                              *)
(***************************************************************************)

\* In the deadlock the node takes no step, nor the client: what is left is the signal.
LEMMA DeadlockHolds ==
    ASSUME Link, LinkDeadlock, [Next]_vars
    PROVE  UNCHANGED <<client, event, msgs, reqs, awaits, reply>>
<1> USE DEF nodeVars, clientVars, swarmVars
<1>1. /\ client = "forwarding" /\ awaits /\ reply = "none" /\ job # <<>>
      /\ event \in Messages \cup Requests
  BY DEF LinkDeadlock, Link, TypeOK, OneCommand
<1>2. ~Forward
  <2>1. MsgCap \in Nat
    BY MsgCapAssumption
  <2>2. CASE event \in Messages
    <3>1. event \notin Requests /\ Len(msgs) = MsgCap
      BY <2>2, EventsAssumption DEF LinkDeadlock
    <3> QED
      BY <2>1, <3>1 DEF Forward
  <2>3. CASE event \notin Messages
    <3>1. Len(reqs) = MsgCap
      BY <2>3 DEF LinkDeadlock
    <3> QED
      BY <2>1, <2>3, <3>1 DEF Forward
  <2> QED
    BY <2>2, <2>3
<1>3. ~NodeStep /\ ~HandleCommand /\ ~EndClient /\ ~SwarmStep
  BY <1>1
  DEF NodeStep, TakeMessage, TakeRequest, TakeResult, Diagnose, Refresh, SeeCancelled, PayloadFails,
      AtSelect, SendCommand, Continue, Fail, Stop, Replied, HandleCommand, EndClient, SwarmStep,
      YieldMessage, YieldRequest, Yield
<1> QED
  BY <1>2, <1>3 DEF Next, ClientStep, Cancel, vars

\* Once the client waits for room in a channel and the node for its reply, they wait for
\* ever, a termination signal notwithstanding (client.rs:313, 327, node.rs:400-479).
THEOREM DeadlockIsForGood == Spec => LinkDeadlockLasts
<1>1. Link /\ [Next]_vars => (LinkDeadlock => LinkDeadlock')
  BY DeadlockHolds DEF LinkDeadlock
<1>2. Link <=> TypeOK /\ OneCommand
  BY DEF Link
<1>3. Link /\ [Next]_vars => [LinkDeadlock => LinkDeadlock']_vars
  BY <1>1
<1> QED
  BY <1>2, <1>3, LinkCorrect, PTL DEF Spec, LinkDeadlockLasts

\* What handlers look like: a result is published by a handler of its own; the start
\* subscribes; closing unsubscribes, asks for the peers, and ends with the shutdown.
HandlerShape ==
    /\ \A i \in DOMAIN job : i > 1 => job[i] # PublishResult
    /\ stage = "starting" => job # <<>> /\ \A i \in DOMAIN job : job[i].op = "subscribe"
    /\ stage = "closing" =>
         /\ job # <<>> /\ job[Len(job)] = Shutdown
         /\ \A i \in DOMAIN job : job[i].op \in {"unsubscribe", "peer_counts", "shutdown"}

\* The lists of commands for the topics, place by place.
LEMMA TopicLists ==
    /\ Subscribes # <<>>
    /\ \A i \in DOMAIN Subscribes : Subscribes[i].op = "subscribe"
    /\ LET closing == Unsubscribes \o <<PeerCounts, Shutdown>>
       IN  /\ closing \in Seq(Commands)
           /\ closing # <<>> /\ closing[Len(closing)] = Shutdown
           /\ \A i \in DOMAIN closing : closing[i].op \in {"unsubscribe", "peer_counts", "shutdown"}
<1> DEFINE pair == <<PeerCounts, Shutdown>>
           closing == Unsubscribes \o pair
<1>1. Len(Topics) \in Nat \ {0}
  BY TopicsAssumption, EmptySeq
<1>2. DOMAIN Subscribes = 1 .. Len(Topics) /\ DOMAIN Unsubscribes = 1 .. Len(Topics)
  BY DEF Subscribes, Unsubscribes
<1>3. Len(Subscribes) = Len(Topics) /\ Len(Unsubscribes) = Len(Topics)
  BY <1>1, <1>2, Handlers, LenProperties
<1>4. /\ pair \in Seq(Commands) /\ Len(pair) = 2
      /\ pair[1] = PeerCounts /\ pair[2] = Shutdown
  BY Handlers
<1> HIDE DEF pair
<1>5. /\ closing \in Seq(Commands) /\ Len(closing) = Len(Topics) + 2
      /\ \A i \in 1 .. Len(Topics) + 2 :
            closing[i] = IF i <= Len(Topics) THEN Unsubscribes[i] ELSE pair[i - Len(Topics)]
  <2>1. Unsubscribes \in Seq(Commands)
    BY Handlers
  <2>2. /\ Unsubscribes \o pair \in Seq(Commands)
        /\ Len(Unsubscribes \o pair) = Len(Unsubscribes) + Len(pair)
        /\ \A i \in 1 .. Len(Unsubscribes) + Len(pair) :
              (Unsubscribes \o pair)[i]
                 = IF i <= Len(Unsubscribes) THEN Unsubscribes[i] ELSE pair[i - Len(Unsubscribes)]
    BY <1>4, <2>1, ConcatProperties
  <2> QED
    BY <1>3, <1>4, <2>2
<1>6. /\ \A i \in DOMAIN Subscribes : Subscribes[i].op = "subscribe"
      /\ \A i \in DOMAIN Unsubscribes : Unsubscribes[i].op = "unsubscribe"
  BY DEF Subscribes, Unsubscribes, Cmd
<1>7. PeerCounts.op = "peer_counts" /\ Shutdown.op = "shutdown"
  BY DEF PeerCounts, Shutdown, Cmd
<1> HIDE DEF closing
<1>8. closing # <<>> /\ DOMAIN closing = 1 .. Len(Topics) + 2
  BY <1>1, <1>5, EmptySeq, LenProperties
<1>9. closing[Len(closing)] = Shutdown
  BY <1>1, <1>4, <1>5
<1>10. ASSUME NEW i \in DOMAIN closing
       PROVE  closing[i].op \in {"unsubscribe", "peer_counts", "shutdown"}
  <2>1. CASE i <= Len(Topics)
    BY <1>1, <1>2, <1>5, <1>6, <1>8, <2>1
  <2>2. CASE i = Len(Topics) + 1
    BY <1>1, <1>4, <1>5, <1>7, <2>2
  <2>3. CASE i = Len(Topics) + 2
    BY <1>1, <1>4, <1>5, <1>7, <2>3
  <2> QED
    BY <1>1, <1>8, <2>1, <2>2, <2>3
<1>11. Subscribes # <<>>
  BY <1>1, <1>3
<1> QED
  BY <1>5, <1>6, <1>8, <1>9, <1>10, <1>11 DEF closing, pair

\* The first command of a handler that has its reply, and what comes after it.
LEMMA TailShape ==
    ASSUME Link, HandlerShape, job # <<>>
    PROVE  /\ \A i \in DOMAIN Tail(job) : Tail(job)[i] # PublishResult
           /\ Len(job) \in Nat \ {0} /\ Len(Tail(job)) = Len(job) - 1
           /\ stage = "starting" => /\ Head(job).op = "subscribe"
                                    /\ \A i \in DOMAIN Tail(job) : Tail(job)[i].op = "subscribe"
           /\ stage = "closing" =>
                /\ Head(job).op \in {"unsubscribe", "peer_counts", "shutdown"}
                /\ Head(job) # Shutdown => /\ Tail(job) # <<>> /\ Len(job) > 1
                                           /\ Tail(job)[Len(Tail(job))] = Shutdown
                /\ \A i \in DOMAIN Tail(job) :
                      Tail(job)[i].op \in {"unsubscribe", "peer_counts", "shutdown"}
<1> DEFINE rest == Tail(job)
<1>1. /\ job \in Seq(Commands) /\ Len(job) \in Nat \ {0} /\ DOMAIN job = 1 .. Len(job)
      /\ Head(job) = job[1] /\ rest \in Seq(Commands) /\ Len(rest) = Len(job) - 1
      /\ \A i \in 1 .. Len(rest) : rest[i] = job[i + 1]
  BY HeadTailProperties, EmptySeq, LenProperties DEF Link, TypeOK
<1>2. DOMAIN rest = 1 .. Len(rest)
  BY <1>1, LenProperties
<1> HIDE DEF rest
<1>3. \A i \in DOMAIN rest : i + 1 \in DOMAIN job /\ i + 1 > 1 /\ rest[i] = job[i + 1]
  BY <1>1, <1>2
<1>4. ASSUME stage = "closing", Head(job) # Shutdown
      PROVE  rest # <<>> /\ Len(job) > 1 /\ rest[Len(rest)] = Shutdown
  <2>1. job[Len(job)] = Shutdown
    BY <1>4 DEF HandlerShape
  <2>2. Len(job) > 1
    BY <1>1, <1>4, <2>1
  <2> QED
    BY <1>1, <2>1, <2>2
<1>5. 1 \in DOMAIN job
  BY <1>1
<1> QED
  BY <1>1, <1>3, <1>4, <1>5 DEF HandlerShape, rest

\* Every step keeps the shape of the handlers.
LEMMA StepShape == Link /\ ClientTold /\ HandlerShape /\ [Next]_vars => HandlerShape'
<1> SUFFICES ASSUME Link, ClientTold, HandlerShape, [Next]_vars PROVE HandlerShape'
  OBVIOUS
<1> USE DEF nodeVars, clientVars, swarmVars
<1>1. AtSelect => stage = "running" /\ job = <<>>
  BY DEF AtSelect
<1>2. CASE UNCHANGED <<stage, job>>
  BY <1>2 DEF HandlerShape
<1>3. CASE TakeMessage
  <2>1. PICK before \in {<<>>, <<Pong>>} : job' = Append(before, ValidateMessage(Head(msgs)))
    BY <1>3 DEF TakeMessage, Begin
  <2>2. stage' = "running"
    BY <1>1, <1>3 DEF TakeMessage, Begin
  <2>3. ValidateMessage(Head(msgs)) # PublishResult
    BY DEF ValidateMessage, PublishResult, Cmd
  <2>4. job' \in {<<ValidateMessage(Head(msgs))>>, <<Pong, ValidateMessage(Head(msgs))>>}
    <3>1. Head(msgs) \in Messages
      BY <1>3, HeadTailProperties DEF TakeMessage, Link, TypeOK
    <3>2. Append(<<Pong>>, ValidateMessage(Head(msgs))) = <<Pong, ValidateMessage(Head(msgs))>>
      BY <3>1, Handlers, AppendPair
    <3>3. Append(<<>>, ValidateMessage(Head(msgs))) = <<ValidateMessage(Head(msgs))>>
      OBVIOUS
    <3> QED
      BY <2>1, <3>2, <3>3
  <2> DEFINE v == ValidateMessage(Head(msgs))
  <2> HIDE DEF v
  <2>5. \A i \in DOMAIN job' : i > 1 => job'[i] # PublishResult
    BY <2>3, <2>4 DEF v
  <2> QED
    BY <2>2, <2>5 DEF HandlerShape
<1>4. CASE TakeRequest \/ TakeResult \/ Diagnose \/ Refresh
  <2>1. /\ stage' = "running"
        /\ job' \in {<<>>, <<Respond(Head(reqs))>>, <<PublishResult>>, <<PeerCounts>>, Dials}
    BY <1>1, <1>4 DEF TakeRequest, TakeResult, Diagnose, Refresh, Begin
  <2>2. \A i \in DOMAIN Dials : Dials[i] # PublishResult
    BY DEF Dials, PublishResult, Cmd
  <2>3. \A i \in DOMAIN job' : i > 1 => job'[i] # PublishResult
    BY <2>1, <2>2
  <2> QED
    BY <2>1, <2>3 DEF HandlerShape
<1>5. ASSUME job' = <<Shutdown>>, stage' = "closing"
      PROVE  HandlerShape'
  <2>1. DOMAIN job' = {1} /\ job'[1] = Shutdown /\ Len(job') = 1 /\ Shutdown.op = "shutdown"
    BY <1>5 DEF Shutdown, Cmd
  <2> QED
    BY <1>5, <2>1 DEF HandlerShape
<1>6. CASE PayloadFails \/ Fail
  BY <1>5, <1>6 DEF PayloadFails, Fail, Closing
<1>7. CASE SeeCancelled
  <2>1. job' = Unsubscribes \o <<PeerCounts, Shutdown>> /\ stage' = "closing"
    BY <1>7 DEF SeeCancelled, Closing
  <2>2. PublishResult.op = "publish_result"
    BY DEF PublishResult, Cmd
  <2> QED
    BY <2>1, <2>2, TopicLists DEF HandlerShape
<1>8. CASE Continue
  <2>1. job # <<>> /\ Head(job) # Shutdown /\ stage # "stopped"
    BY <1>8, ReplyUnderWay DEF Continue, Replied, ClientTold
  <2>2. CASE job' = Tail(job)
    BY <1>8, <2>1, <2>2, TailShape DEF Continue, HandlerShape
  <2>3. CASE Head(job) = PublishResult /\ job' = <<PublishError>>
    <3>1. Head(job).op = "publish_result"
      BY <2>3 DEF PublishResult, Cmd
    <3>2. stage = "running"
      BY <2>1, <3>1, TailShape DEF Link, TypeOK
    <3>3. stage' = "running"
      BY <1>8, <3>2 DEF Continue
    <3> QED
      BY <2>3, <3>3 DEF HandlerShape
  <2> QED
    BY <1>8, <2>2, <2>3 DEF Continue
<1>9. CASE Stop
  <2>1. job' = <<>> /\ stage' = "stopped"
    BY <1>9 DEF Stop
  <2> QED
    BY <2>1 DEF HandlerShape
<1>10. CASE SendCommand \/ HandleCommand \/ EndClient \/ Forward \/ SwarmStep \/ Cancel \/ UNCHANGED vars
  BY <1>2, <1>10
  DEF SendCommand, HandleCommand, EndClient, Forward, SwarmStep, YieldMessage, YieldRequest, Yield,
      Cancel, vars
<1> QED
  BY <1>3, <1>4, <1>6, <1>7, <1>8, <1>9, <1>10 DEF Next, NodeStep, ClientStep

\* The handlers have that shape from the start.
LEMMA InitShape == Init => HandlerShape
<1>1. PublishResult.op = "publish_result"
  BY DEF PublishResult, Cmd
<1> QED
  BY <1>1, TopicLists DEF Init, HandlerShape

\* A handler that is under way has a next step, or the link is in its deadlock.
LEMMA HandlerHasStep == Link /\ ClientTold /\ HandlerShape => HandlersGoOn
<1> SUFFICES ASSUME Link, ClientTold, HandlerShape, stage # "stopped", ~AtSelect, ~LinkDeadlock
             PROVE  HandlerReady
  BY DEF HandlersGoOn
<1>1. job # <<>>
  BY DEF HandlerShape, AtSelect, Link, TypeOK
<1>2. CASE ~awaits \/ reply # "none"
  BY <1>1, <1>2 DEF HandlerReady
<1>3. CASE awaits /\ reply = "none"
  <2>1. cmds # <<>>
    BY <1>3 DEF Link, OneCommand
  <2>2. client \in {"loop", "forwarding"}
    BY <1>3 DEF ClientTold, Told, Link, TypeOK
  <2>3. /\ Len(msgs) \in Nat /\ Len(reqs) \in Nat /\ MsgCap \in Nat
        /\ Len(msgs) <= MsgCap /\ Len(reqs) <= MsgCap
    BY MsgCapAssumption, LenProperties DEF Link, TypeOK
  <2>4. CASE client = "forwarding"
    BY <1>3, <2>3, <2>4 DEF LinkDeadlock, HandlerReady
  <2> QED
    BY <2>1, <2>2, <2>4 DEF HandlerReady
<1> QED
  BY <1>2, <1>3 DEF Link, TypeOK

\* No handler waits for a reply that never comes, and no command goes to a client that
\* has closed: a handler under way always has a next step, but in the deadlock
\* (commands.rs:107-312, client.rs:163-180).
THEOREM HandlersNeverStall == Spec => []HandlersGoOn
<1>1. Init => ClientTold
  BY DEF Init, ClientTold, Told
<1>2. Link <=> TypeOK /\ OneCommand
  BY DEF Link
<1> QED
  BY <1>1, <1>2, InitShape, StepShape, StepClientTold, HandlerHasStep, LinkCorrect, PTL DEF Spec

\* The parts of what a handler has left, each none or one.
Refusable == IF job # <<>> /\ Head(job) = PublishResult THEN 1 ELSE 0
Closes    == IF stage \in {"starting", "running"} THEN 1 ELSE 0
Sent      == IF awaits THEN 1 ELSE 0
Handled   == IF reply = "none" THEN 0 ELSE 1

\* The steps that are left of a handler are a number.
LEMMA StepsLeftNat == Link => StepsLeft \in Nat
<1> SUFFICES ASSUME Link PROVE StepsLeft \in Nat
  OBVIOUS
<1>1. Len(job) \in Nat /\ (job # <<>> => Len(job) # 0)
  BY LenProperties, EmptySeq DEF Link, TypeOK
<1>2. /\ awaits => job # <<>>
      /\ reply # "none" => awaits
  BY NothingUnderWay DEF Link, OneCommand
<1>3. /\ StepsLeft = 3 * (Len(job) + Refusable + Closes) - Sent - Handled
      /\ Refusable \in 0 .. 1 /\ Closes \in 0 .. 1 /\ Sent \in 0 .. 1 /\ Handled \in 0 .. 1
  BY DEF StepsLeft, Refusable, Closes, Sent, Handled
<1>4. Len(job) = 0 => Sent = 0 /\ Handled = 0
  BY <1>1, <1>2 DEF Sent, Handled
<1> QED
  BY <1>1, <1>3, <1>4

\* A step of a handler leaves fewer of them.
LEMMA HandlerStepCounts ==
    ASSUME Link, ClientTold, HandlerShape, job # <<>>, [Next]_vars
    PROVE  StepsLeft' < StepsLeft \/ UNCHANGED <<stage, job, awaits, reply>>
<1> USE DEF nodeVars, clientVars, swarmVars
<1>1. /\ Len(job) \in Nat \ {0} /\ Len(Tail(job)) = Len(job) - 1
      /\ ~AtSelect
  BY TailShape DEF AtSelect
<1>0. /\ StepsLeft = 3 * (Len(job) + Refusable + Closes) - Sent - Handled
          /\ StepsLeft' = 3 * (Len(job') + Refusable' + Closes') - Sent' - Handled'
          /\ Refusable \in 0 .. 1 /\ Closes \in 0 .. 1 /\ Sent \in 0 .. 1 /\ Handled \in 0 .. 1
  BY DEF StepsLeft, Refusable, Closes, Sent, Handled
<1>2. CASE SendCommand
  <2>1. /\ ~awaits /\ awaits' /\ UNCHANGED <<stage, job, reply>>
    BY <1>2 DEF SendCommand
  <2>2. /\ Sent = 0 /\ Sent' = 1 /\ Handled' = Handled
        /\ Closes' = Closes /\ Refusable' = Refusable /\ Len(job') = Len(job)
    BY <2>1 DEF Sent, Handled, Closes, Refusable
  <2> QED
    BY <1>1, <1>0, <2>2
<1>3. CASE HandleCommand
  <2>1. reply = "none" /\ reply' # "none" /\ UNCHANGED <<stage, job, awaits>>
    BY <1>3, CommandUnderWay DEF HandleCommand, Outcomes
  <2>2. /\ Handled = 0 /\ Handled' = 1 /\ Sent' = Sent
        /\ Closes' = Closes /\ Refusable' = Refusable /\ Len(job') = Len(job)
    BY <2>1 DEF Sent, Handled, Closes, Refusable
  <2> QED
    BY <1>1, <1>0, <2>2
<1>4. Replied => Sent = 1 /\ Handled = 1 /\ Sent' = 0 /\ Handled' = 0
  BY DEF Replied, Sent, Handled
<1>5. CASE Continue
  <2>1. /\ Replied /\ Head(job) # Shutdown
        /\ stage' \in {stage, "running"} /\ (stage' # stage => stage = "starting")
    BY <1>5 DEF Continue
  <2>2. CASE job' = Tail(job)
    <3>1. Tail(job) # <<>> => Head(Tail(job)) # PublishResult
      <4> SUFFICES ASSUME Tail(job) # <<>> PROVE Head(Tail(job)) # PublishResult
        OBVIOUS
      <4>1. Tail(job) \in Seq(Commands) /\ Len(Tail(job)) # 0
        BY <2>1, ReplyUnderWay, EmptySeq DEF Replied
      <4>2. 1 \in DOMAIN Tail(job) /\ Head(Tail(job)) = Tail(job)[1]
        BY <1>1, <4>1, HeadTailProperties, LenProperties
      <4> QED
        BY <4>2, TailShape
    <3>2. (stage \in {"starting", "running"}) <=> (stage' \in {"starting", "running"})
      BY <2>1
    <3>3. Refusable' = 0 /\ Closes' = Closes /\ Len(job') = Len(job) - 1
      BY <1>1, <2>2, <3>1, <3>2 DEF Refusable, Closes
    <3> QED
      BY <1>1, <1>4, <1>0, <2>1, <3>3
  <2>3. CASE Head(job) = PublishResult /\ job' = <<PublishError>>
    <3>1. PublishError # PublishResult /\ Len(job') = 1 /\ Head(job') = PublishError
      BY <2>3 DEF PublishError, PublishResult, Cmd
    <3>2. (stage \in {"starting", "running"}) <=> (stage' \in {"starting", "running"})
      BY <2>1
    <3>3. Refusable = 1 /\ Refusable' = 0 /\ Closes' = Closes
      BY <2>3, <3>1, <3>2 DEF Refusable, Closes
    <3> QED
      BY <1>1, <1>4, <1>0, <2>1, <3>1, <3>3
  <2> QED
    BY <1>5, <2>2, <2>3 DEF Continue
<1>6. CASE Fail
  <2>1. /\ Replied /\ Fatal(Head(job)) /\ job' = <<Shutdown>> /\ stage' = "closing"
    BY <1>6 DEF Fail, Closing
  <2>2. Len(job') = 1 /\ Head(job') = Shutdown /\ Shutdown # PublishResult
    BY <2>1 DEF Shutdown, PublishResult, Cmd
  <2>3. Head(job) # Shutdown /\ stage # "stopped"
    BY <2>1 DEF Fatal, Shutdown, Cmd, ClientTold
  <2>4. stage \notin {"starting", "running"} => Len(job) > 1
    BY <2>3, TailShape DEF Link, TypeOK
  <2>5. Refusable' = 0 /\ Closes' = 0 /\ (Closes = 0 => Len(job) > 1)
    BY <2>1, <2>2, <2>4 DEF Refusable, Closes
  <2> QED
    BY <1>1, <1>4, <1>0, <2>1, <2>2, <2>5
<1>7. CASE Stop
  <2>1. Replied /\ job' = <<>> /\ stage' = "stopped" /\ Len(<<>>) = 0
    BY <1>7 DEF Stop
  <2>2. Refusable' = 0 /\ Closes' = 0 /\ Len(job') = 0
    BY <2>1 DEF Refusable, Closes
  <2> QED
    BY <1>1, <1>4, <1>0, <2>1, <2>2
<1>8. CASE TakeMessage \/ TakeRequest \/ TakeResult \/ Diagnose \/ Refresh \/ SeeCancelled \/ PayloadFails
  BY <1>1, <1>8 DEF TakeMessage, TakeRequest, TakeResult, Diagnose, Refresh, SeeCancelled, PayloadFails
<1>9. CASE EndClient \/ Forward \/ SwarmStep \/ Cancel \/ UNCHANGED vars
  BY <1>9 DEF EndClient, Forward, SwarmStep, YieldMessage, YieldRequest, Yield, Cancel, vars
<1> QED
  BY <1>2, <1>3, <1>5, <1>6, <1>7, <1>8, <1>9 DEF Next, NodeStep, ClientStep

\* Every step of a handler, of its errors and of the shutdown leaves fewer steps, of
\* which there are finitely many: handlers end, and so does the node that is told to,
\* unless the link is in its deadlock (node.rs:385-493, main.rs:118-126).
THEOREM HandlersEnd == Spec => HandlersCountDown /\ [](StepsLeft \in Nat)
<1>1. Init => ClientTold
  BY DEF Init, ClientTold, Told
<1>2. Link <=> TypeOK /\ OneCommand
  BY DEF Link
<1>3. Link /\ ClientTold /\ HandlerShape /\ [Next]_vars =>
         [job # <<>> => StepsLeft' < StepsLeft \/ UNCHANGED <<stage, job, awaits, reply>>]_vars
  BY HandlerStepCounts
<1> QED
  BY <1>1, <1>2, <1>3, InitShape, StepShape, StepClientTold, StepsLeftNat, LinkCorrect, PTL
  DEF Spec, HandlersCountDown

(***************************************************************************)
(* The link implements AcceptanceLedger.                                   *)
(***************************************************************************)

\* What a step is to gossipsub: a message arrives, one is reported, the node stops, or
\* nothing.
LEMMA StepSeen ==
    ASSUME Link, ClientTold, [Next]_vars
    PROVE  \/ UNCHANGED <<arrived, reports>> /\ (stage' = "stopped" <=> stage = "stopped")
           \/ UNCHANGED <<arrived, reports>> /\ stage # "stopped" /\ stage' = "stopped"
           \/ /\ stage # "stopped" /\ stage' # "stopped" /\ UNCHANGED reports
              /\ \E m \in Messages : m \notin Range(arrived) /\ arrived' = Append(arrived, m)
           \/ /\ stage # "stopped" /\ stage' # "stopped" /\ UNCHANGED arrived
              /\ \E m \in Messages : reports' = Append(reports, m)
<1> USE DEF nodeVars, clientVars, swarmVars
<1>1. CASE stage = "stopped"
  BY <1>1, StoppedForGood
<1>2. CASE stage # "stopped"
  <2>1. CASE TakeMessage \/ TakeRequest \/ TakeResult \/ Diagnose \/ Refresh
    BY <1>2, <2>1 DEF TakeMessage, TakeRequest, TakeResult, Diagnose, Refresh, Begin
  <2>2. CASE SeeCancelled \/ PayloadFails \/ Fail
    BY <1>2, <2>2 DEF SeeCancelled, PayloadFails, Fail, Closing
  <2>3. CASE SendCommand \/ EndClient \/ Forward \/ Cancel \/ UNCHANGED vars
    BY <1>2, <2>3 DEF SendCommand, EndClient, Forward, Cancel, vars
  <2>4. CASE Continue
    BY <1>2, <2>4 DEF Continue
  <2>5. CASE Stop
    BY <1>2, <2>5 DEF Stop
  <2>6. CASE HandleCommand
    <3> DEFINE c == Head(cmds)
    <3>1. /\ UNCHANGED <<stage, arrived>>
          /\ reports' = IF c.op = "validate" THEN Append(reports, c.arg) ELSE reports
      BY <2>6 DEF HandleCommand
    <3>2. c \in Commands
      BY <2>6, CommandUnderWay DEF HandleCommand
    <3>3. c.op = "validate" => c.arg \in Messages
      BY <3>2, CommandArguments
    <3> QED
      BY <1>2, <3>1, <3>3
  <2>7. CASE SwarmStep
    BY <1>2, <2>7 DEF SwarmStep, YieldMessage, YieldRequest, Yield
  <2> QED
    BY <2>1, <2>2, <2>3, <2>4, <2>5, <2>6, <2>7 DEF Next, NodeStep, ClientStep
<1> QED
  BY <1>1, <1>2

\* What is not yet reported is a sequence of messages.
LEMMA UnreportedSeq == Link /\ Order => Unreported \in Seq(Messages)
<1> SUFFICES ASSUME Link, Order PROVE Unreported \in Seq(Messages)
  OBVIOUS
<1>1. <<>> \in Seq(Messages) /\ msgs \in Seq(Messages) /\ Forwarding(Messages) \in Seq(Messages)
  BY EmptySeq DEF Forwarding, Link, TypeOK
<1>2. Handling(job) \in Seq(Messages)
  <2>1. CASE Range(job) \cap Acceptances = {}
    BY <1>1, <2>1, HandlingNone DEF Link, TypeOK
  <2>2. ASSUME NEW m \in Messages, job \in {<<ValidateMessage(m)>>, <<Pong, ValidateMessage(m)>>}
        PROVE  Handling(job) \in Seq(Messages)
    <3>1. Handling(job) = <<m>>
      BY <2>2, HandlingOne
    <3> QED
      BY <3>1
  <2> QED
    BY <2>1, <2>2 DEF Order, JobShape, Accepting
<1>3. reply # "none" => job # <<>>
  BY NothingUnderWay DEF Link, OneCommand
<1>4. Handling(Todo) \in Seq(Messages)
  BY <1>2, <1>3, JobShapes DEF Todo, Order
<1> QED
  BY <1>1, <1>4, ConcatProperties DEF Unreported

\* Every step of the link is one of the ledger, or none.
LEMMA StepAcceptances ==
    ASSUME Link, ClientTold, Order', (Unreported \in Seq(Messages))', [Next]_vars
    PROVE  [Ledger!Next]_<<arrived, reports, stage # "stopped">>
<1>1. CASE UNCHANGED <<arrived, reports>> /\ (stage' = "stopped" <=> stage = "stopped")
  BY <1>1, Zenon
<1>2. CASE UNCHANGED <<arrived, reports>> /\ stage # "stopped" /\ stage' = "stopped"
  <2>1. (stage # "stopped")' = FALSE
    BY <1>2
  <2>2. Ledger!Close
    BY <1>2, <2>1, Zenon DEF Ledger!Close
  <2> QED
    BY <2>2 DEF Ledger!Next
<1>3. ASSUME stage # "stopped", stage' # "stopped", UNCHANGED reports,
             NEW m \in Messages, m \notin Range(arrived), arrived' = Append(arrived, m)
      PROVE  Ledger!Next
  <2>1. m \notin Ledger!Range(arrived)
    BY <1>3 DEF Range, Ledger!Range
  <2>2. UNCHANGED <<reports, (stage # "stopped")>>
    BY <1>3, Zenon
  <2>3. Ledger!Arrive(m)
    BY <1>3, <2>1, <2>2, Zenon DEF Ledger!Arrive
  <2> QED
    BY <2>3 DEF Ledger!Next
<1>4. ASSUME stage # "stopped", stage' # "stopped", UNCHANGED arrived,
             NEW m \in Messages, reports' = Append(reports, m)
      PROVE  Ledger!Next
  <2>1. Append(reports, m) \o Unreported' = arrived
    BY <1>4 DEF Order
  <2>2. reports \in Seq(Messages)
    BY DEF Link, TypeOK
  <2> DEFINE u == Unreported'
  <2>4. Len(reports) < Len(arrived) /\ m = arrived[Len(reports) + 1]
    <3>1. u \in Seq(Messages) /\ Append(reports, m) \o u = arrived
      BY <2>1
    <3> HIDE DEF u
    <3> QED
      BY <1>4, <2>2, <3>1, NextOfPrefix
  <2>5. UNCHANGED <<arrived, (stage # "stopped")>>
    BY <1>4, Zenon
  <2>6. Ledger!Report
    BY <1>4, <2>4, <2>5, Zenon DEF Ledger!Report
  <2> QED
    BY <2>6 DEF Ledger!Next
<1> QED
  BY <1>1, <1>2, <1>3, <1>4, StepSeen

\* The link keeps what AcceptanceLedger promises gossipsub: the message it has held
\* longest is the next one that is reported, at every step.
THEOREM ImplementsAcceptances == Spec => KeepsAcceptances
<1>1. Init => ClientTold
  BY DEF Init, ClientTold, Told
<1>2. Link <=> TypeOK /\ OneCommand
  BY DEF Link
<1>3. Init => Ledger!Init
  <2> SUFFICES ASSUME Init PROVE Ledger!Init
    OBVIOUS
  <2>1. (stage # "stopped") = TRUE
    BY DEF Init
  <2> QED
    BY <2>1 DEF Init, Ledger!Init
<1>4. Link /\ ClientTold /\ Order' /\ (Unreported \in Seq(Messages))' /\ [Next]_vars
         => [Ledger!Next]_<<arrived, reports, stage # "stopped">>
  BY StepAcceptances
<1> QED
  BY <1>1, <1>2, <1>3, <1>4, InitOrder, StepOrder, StepClientTold, UnreportedSeq, LinkCorrect, PTL
  DEF Spec, KeepsAcceptances, Ledger!Spec

=============================================================================
