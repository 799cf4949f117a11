---------------------------- MODULE MonitorProofs ----------------------------
(***************************************************************************)
(* Theorems about Monitor, for every set of messages, whatever they hold,  *)
(* and every capacity of the channel. The link is an instance of P2PLink   *)
(* with other steps on the node's side, so what holds of it is shown here  *)
(* for the monitor's own.                                                  *)
(***************************************************************************)
EXTENDS Monitor, SequenceLemmas

(***************************************************************************)
(* The books: what the monitor knows of tasks and results.                 *)
(***************************************************************************)

\* The tasks that accepted messages of a form are about.
About(form) == {TaskOf[m] : m \in {a \in accepted : FormOf[a] = form}}

\* The recorded tasks and results are those of the accepted messages, and no other.
BooksExact == tasks = About("task") /\ results = About("result")

\* Recording one message more keeps the books exact.
LEMMA RecordExact ==
    ASSUME BooksExact, NEW m, Record(m)
    PROVE  BooksExact'
<1>1. accepted' = accepted \cup {m}
  BY DEF Record
<1>2. ASSUME NEW form
      PROVE  About(form)' = About(form) \cup (IF FormOf[m] = form THEN {TaskOf[m]} ELSE {})
  BY <1>1 DEF About
<1>3. /\ FormOf[m] = "task" => tasks' = tasks \cup {TaskOf[m]}
      /\ FormOf[m] # "task" => tasks' = tasks \cup {}
      /\ FormOf[m] = "result" => results' = results \cup {TaskOf[m]}
      /\ FormOf[m] # "result" => results' = results \cup {}
  BY DEF Record
<1>4. /\ FormOf[m] = "task" => About("task")' = About("task") \cup {TaskOf[m]}
      /\ FormOf[m] # "task" => About("task")' = About("task") \cup {}
      /\ FormOf[m] = "result" => About("result")' = About("result") \cup {TaskOf[m]}
      /\ FormOf[m] # "result" => About("result")' = About("result") \cup {}
  BY <1>2
<1>5. tasks' = About("task")' /\ results' = About("result")'
  BY <1>3, <1>4 DEF BooksExact
<1> QED
  BY <1>5 DEF BooksExact

\* Whatever else the monitor does leaves the books alone.
LEMMA StepBooks == BooksExact /\ [Next]_vars => BooksExact'
<1> SUFFICES ASSUME BooksExact, [Next]_vars PROVE BooksExact'
  OBVIOUS
<1>1. CASE UNCHANGED <<tasks, results, accepted>>
  BY <1>1 DEF BooksExact, About
<1>2. CASE Continue
  <2>1. UNCHANGED <<tasks, results, accepted>> \/ Record(Head(job).arg)
    BY <1>2 DEF Continue
  <2> QED
    BY <1>1, <2>1, RecordExact
<1> QED
  BY <1>1, <1>2
  DEF Next, TakeMessage, PrintTasks, PrintPeers, SeeCancelled, SendCommand, Fail, Stop, Exit,
    HandleCommand, EndClient, Forward, Yield, Cancel, Begin, bookVars, vars

\* Every report, the final one too, is of the tasks without a result among the accepted
\* messages, in whatever order they came.
THEOREM ReportsExact == Spec => ReportsAreExact
<1>1. Init => BooksExact
  BY DEF Init, BooksExact, About
<1>2. ASSUME BooksExact
      PROVE  LET about(form) == {TaskOf[m] : m \in {a \in accepted : FormOf[a] = form}}
             IN  PrintTasks \/ Stop => report' = about("task") \ about("result")
  BY <1>2 DEF BooksExact, About, PrintTasks, Stop, Pending
<1> QED
  BY <1>1, <1>2, StepBooks, PTL DEF Spec, ReportsAreExact


(***************************************************************************)
(* Type correctness: the monitor has one command under way at most, and    *)
(* records a message only once its acceptance was reported.                *)
(***************************************************************************)

\* A validation that was answered has been reported.
Reported ==
    /\ reports \in Seq(Messages)
    /\ (reply # "none" /\ Head(job).op = "validate") => Head(job).arg \in Range(reports)

\* The inductive invariant of the monitor.
MonitorInv == TypeOK /\ Link!OneCommand /\ Reported

\* The commands for the two topics.
LEMMA TopicCommands ==
    /\ Link!Subscribes \in Seq(Link!Commands) /\ Link!Unsubscribes \in Seq(Link!Commands)
    /\ \A d \in Link!Range(Link!Subscribes) \cup Link!Range(Link!Unsubscribes) :
          d.op \in {"subscribe", "unsubscribe"}
<1> DEFINE both   == <<"task", "results">>
           subs   == Link!Subscribes
           unsubs == Link!Unsubscribes
<1>1. PICK n \in Nat : n = Len(both)
  OBVIOUS
<1>2. /\ subs = [i \in 1 .. Len(both) |-> Link!Cmd("subscribe", both[i])]
      /\ unsubs = [i \in 1 .. Len(both) |-> Link!Cmd("unsubscribe", both[i])]
  BY Zenon DEF Link!Subscribes, Link!Unsubscribes
<1> HIDE DEF both, subs, unsubs
<1>3. /\ DOMAIN subs = 1 .. n /\ DOMAIN unsubs = 1 .. n
      /\ \A i \in 1 .. n : /\ subs[i] = Link!Cmd("subscribe", both[i])
                           /\ unsubs[i] = Link!Cmd("unsubscribe", both[i])
  BY <1>1, <1>2 DEF Link!Cmd
<1>4. Link!Range(subs) \cup Link!Range(unsubs) \subseteq Link!Commands
  BY DEF Link!Commands, subs, unsubs
<1>5. \A i \in 1 .. n : subs[i] \in Link!Commands /\ unsubs[i] \in Link!Commands
  BY <1>3, <1>4 DEF Link!Range
<1>6. subs \in [1 .. n -> Link!Commands] /\ unsubs \in [1 .. n -> Link!Commands]
  BY <1>1, <1>2, <1>3, <1>5
<1>7. subs \in Seq(Link!Commands) /\ unsubs \in Seq(Link!Commands)
  BY <1>6, SeqDef
<1>8. \A d \in Link!Range(subs) \cup Link!Range(unsubs) : d.op \in {"subscribe", "unsubscribe"}
  BY <1>3 DEF Link!Range, Link!Cmd
<1> QED
  BY <1>7, <1>8 DEF subs, unsubs

\* The commands of the monitor are lists of commands of the link.
LEMMA MonitorHandlers ==
    /\ Link!Subscribes \in Seq(Link!Commands)
    /\ Append(Link!Unsubscribes, Link!Shutdown) \in Seq(Link!Commands)
    /\ <<Link!PeerCounts>> \in Seq(Link!Commands)
    /\ \A m \in Messages : <<Link!ValidateMessage(m)>> \in Seq(Link!Commands)
<1>1. /\ Link!Shutdown \in Link!Commands /\ Link!PeerCounts \in Link!Commands
      /\ \A m \in Messages : Link!ValidateMessage(m) \in Link!Commands
  BY DEF Link!Commands
<1>2. Append(Link!Unsubscribes, Link!Shutdown) \in Seq(Link!Commands)
  BY <1>1, TopicCommands, AppendProperties
<1> QED
  BY <1>1, <1>2, TopicCommands

\* A validation is one of a message.
LEMMA ValidatedMessage ==
    ASSUME NEW c \in Link!Commands, c.op = "validate"
    PROVE  c.arg \in Messages
<1>1. \/ c \in Link!Range(Link!Subscribes) \cup Link!Range(Link!Unsubscribes)
      \/ \E m \in Messages : c = Link!ValidateMessage(m)
      \/ c \in {Link!Cmd("dial", None), Link!PeerCounts, Link!Shutdown, Link!Pong,
                Link!PublishResult, Link!PublishError}
  BY DEF Link!Commands
<1>2. c \notin Link!Range(Link!Subscribes) \cup Link!Range(Link!Unsubscribes)
  BY TopicCommands
<1>3. c \notin {Link!Cmd("dial", None), Link!PeerCounts, Link!Shutdown, Link!Pong,
                Link!PublishResult, Link!PublishError}
  BY DEF Link!Cmd, Link!PeerCounts, Link!Shutdown, Link!Pong, Link!PublishResult,
    Link!PublishError
<1> QED
  BY <1>1, <1>2, <1>3 DEF Link!ValidateMessage, Link!Cmd

\* What OneCommand says of the three states of a command.
LEMMA UnderWay ==
    ASSUME MonitorInv
    PROVE  /\ ~awaits => cmds = <<>> /\ reply = "none"
           /\ cmds # <<>> => /\ awaits /\ reply = "none" /\ job # <<>>
                             /\ Head(cmds) = Head(job) /\ Tail(cmds) = <<>>
           /\ awaits /\ reply # "none" => cmds = <<>>
           /\ job # <<>> => Head(job) \in Link!Commands /\ Tail(job) \in Seq(Link!Commands)
<1>1. /\ cmds \in Seq(Link!Commands) /\ job \in Seq(Link!Commands) /\ awaits \in BOOLEAN
      /\ awaits => job # <<>>
      /\ cmds # <<>> => Head(cmds) = Head(job)
  BY DEF MonitorInv, TypeOK, Link!OneCommand
<1>2. Len(cmds) + (IF reply = "none" THEN 0 ELSE 1) = (IF awaits THEN 1 ELSE 0)
  BY DEF MonitorInv, Link!OneCommand
<1>3. Len(cmds) \in Nat /\ (Len(cmds) = 0 => cmds = <<>>) /\ (Len(cmds) # 0 => cmds # <<>>)
  BY <1>1, EmptySeq, LenProperties
<1>4. ~awaits => cmds = <<>> /\ reply = "none"
  BY <1>2, <1>3
<1>5. awaits /\ reply # "none" => cmds = <<>>
  BY <1>2, <1>3
<1>6. ASSUME cmds # <<>>
      PROVE  awaits /\ reply = "none" /\ Tail(cmds) = <<>>
  <2>1. Len(cmds) = 1 /\ awaits /\ reply = "none"
    <3>1. Len(cmds) \in Nat \ {0}
      BY <1>1, <1>6, EmptySeq
    <3>2. awaits
      BY <1>2, <3>1
    <3> QED
      BY <1>2, <3>1, <3>2
  <2>2. Tail(cmds) \in Seq(Link!Commands) /\ Len(Tail(cmds)) = 0
    BY <1>1, <1>6, <2>1, HeadTailProperties
  <2> QED
    BY <2>1, <2>2, EmptySeq
<1>7. job # <<>> => Head(job) \in Link!Commands /\ Tail(job) \in Seq(Link!Commands)
  BY <1>1, HeadTailProperties
<1> QED
  BY <1>1, <1>4, <1>5, <1>6, <1>7

\* When nothing is under way, OneCommand and Reported hold of it.
LEMMA NothingLeft ==
    ASSUME MonitorInv, cmds' = <<>>, reply' = "none", ~awaits', awaits' \in BOOLEAN,
           UNCHANGED reports
    PROVE  Link!OneCommand' /\ Reported'
<1>1. Len(<<>>) = 0
  OBVIOUS
<1>2. reports' \in Seq(Messages)
  BY DEF MonitorInv, Reported
<1> QED
  BY <1>1, <1>2 DEF Link!OneCommand, Reported


\* The monitor starts with nothing commanded and nothing reported.
LEMMA InitMonitor == Init => MonitorInv
<1> SUFFICES ASSUME Init PROVE MonitorInv
  OBVIOUS
<1>1. /\ stage = "starting" /\ job = Link!Subscribes /\ awaits = FALSE /\ cancelled = FALSE
      /\ cmds = <<>> /\ reply = "none" /\ client = "loop" /\ event = None /\ msgs = <<>>
      /\ reports = <<>> /\ tasks = {} /\ results = {} /\ report = {} /\ accepted = {}
  BY DEF Init, Link!Init
<1>2. /\ <<>> \in Seq(Link!Commands) /\ <<>> \in Seq(Messages) /\ Len(<<>>) = 0
      /\ Len(<<>>) <= MsgCap
  BY EmptySeq, CapAssumption
<1>3. TypeOK
  BY <1>1, <1>2, TopicCommands DEF TypeOK
<1>4. Link!OneCommand /\ Reported
  BY <1>1, <1>2 DEF Link!OneCommand, Reported
<1> QED
  BY <1>3, <1>4 DEF MonitorInv

\* The monitor begins to send commands.
LEMMA StepBegin ==
    ASSUME MonitorInv, Link!AtSelect, job' \in Seq(Link!Commands),
           stage' \in {"running", "closing"}, UNCHANGED <<awaits, cancelled, cmds, reply, client,
                                                        event, reports, bookVars>>,
           msgs' \in Seq(Messages), Len(msgs') <= MsgCap
    PROVE  MonitorInv'
<1>1. job = <<>>
  BY DEF Link!AtSelect
<1>2. ~awaits
  BY <1>1 DEF MonitorInv, Link!OneCommand
<1>3. cmds = <<>> /\ reply = "none"
  BY <1>2, UnderWay
<1>4. Link!OneCommand' /\ Reported'
  BY <1>2, <1>3, NothingLeft DEF MonitorInv, TypeOK
<1>5. TypeOK'
  BY DEF MonitorInv, TypeOK, bookVars
<1> QED
  BY <1>4, <1>5 DEF MonitorInv

\* A reply that the monitor takes ends the command.
LEMMA StepReplied ==
    ASSUME MonitorInv, Link!Replied, UNCHANGED <<cmds, reports>>
    PROVE  Link!OneCommand' /\ Reported'
<1>1. cmds = <<>> /\ awaits' = FALSE /\ reply' = "none"
  BY UnderWay DEF Link!Replied
<1> QED
  BY <1>1, NothingLeft

\* The client tells the swarm what the monitor commands.
LEMMA StepHandle ==
    ASSUME MonitorInv, HandleCommand
    PROVE  MonitorInv'
<1> DEFINE c == Head(cmds)
<1>1. /\ client = "loop" /\ cmds # <<>> /\ cmds' = Tail(cmds)
      /\ UNCHANGED <<stage, job, awaits, cancelled, event, msgs, bookVars>>
      /\ reply' \in Link!Outcomes(c)
      /\ reports' = IF c.op = "validate" THEN Append(reports, c.arg) ELSE reports
      /\ client' = IF c.op = "shutdown" THEN "closing" ELSE client
  BY DEF HandleCommand, Link!HandleCommand, Link!nodeVars
<1>2. /\ awaits /\ reply = "none" /\ job # <<>> /\ c = Head(job) /\ cmds' = <<>>
      /\ c \in Link!Commands
  BY <1>1, UnderWay
<1> HIDE DEF c
<1>3. reply' \in {"ok", "error"} /\ client' \in {"loop", "closing"}
  BY <1>1 DEF Link!Outcomes
<1>4. /\ reports \in Seq(Messages)
      /\ c.op = "validate" => c.arg \in Messages
  BY <1>2, ValidatedMessage DEF MonitorInv, Reported
<1>5. /\ reports' \in Seq(Messages) /\ Range(reports) \subseteq Range(reports')
      /\ c.op = "validate" => c.arg \in Range(reports')
  <2>1. CASE c.op = "validate"
    <3>1. reports' = Append(reports, c.arg) /\ c.arg \in Messages
      BY <1>1, <1>4, <2>1
    <3>2. Range(Append(reports, c.arg)) = Range(reports) \cup {c.arg}
      BY <1>4, <3>1, RangeAppend
    <3> QED
      BY <1>4, <3>1, <3>2, AppendProperties
  <2>2. CASE c.op # "validate"
    BY <1>1, <1>4, <2>2
  <2> QED
    BY <2>1, <2>2
<1>6. TypeOK'
  <2>1. cmds' \in Seq(Link!Commands)
    BY <1>2, EmptySeq
  <2> QED
    BY <1>1, <1>3, <1>5, <2>1 DEF MonitorInv, TypeOK, bookVars
<1>7. Link!OneCommand'
  <2>1. awaits' = awaits /\ awaits' /\ job' = job
    BY <1>1, <1>2
  <2>2. Len(cmds') = 0 /\ reply' # "none"
    BY <1>2, <1>3
  <2> QED
    BY <1>2, <2>1, <2>2 DEF Link!OneCommand
<1>8. Reported'
  BY <1>1, <1>2, <1>5 DEF Reported
<1> QED
  BY <1>6, <1>7, <1>8 DEF MonitorInv

\* Neither the link's commands nor what was reported change.
LEMMA StepAside ==
    ASSUME MonitorInv, UNCHANGED <<job, awaits, cmds, reply, reports>>, TypeOK'
    PROVE  MonitorInv'
  BY DEF MonitorInv, Link!OneCommand, Reported

\* Every step of the monitor, its client and the swarm keeps the invariant.
LEMMA StepMonitor == MonitorInv /\ [Next]_vars => MonitorInv'
<1> SUFFICES ASSUME MonitorInv, [Next]_vars PROVE MonitorInv'
  OBVIOUS
<1> USE DEF Link!clientVars, Link!swarmVars, Link!nodeVars, swarmVars, bookVars
<1>0. TypeOK
  BY DEF MonitorInv
<1>1. CASE TakeMessage
  <2>1. /\ Head(msgs) \in Messages /\ Tail(msgs) \in Seq(Messages)
        /\ Len(Tail(msgs)) = Len(msgs) - 1 /\ Len(msgs) \in Nat
    BY <1>0, <1>1, HeadTailProperties, LenProperties DEF TakeMessage, TypeOK
  <2>2. Len(Tail(msgs)) <= MsgCap
    BY <1>0, <2>1, CapAssumption DEF TypeOK
  <2>3. <<Link!ValidateMessage(Head(msgs))>> \in Seq(Link!Commands)
    BY <2>1, MonitorHandlers
  <2> QED
    BY <1>1, <2>1, <2>2, <2>3, StepBegin DEF TakeMessage, Begin, Link!Begin, Link!AtSelect
<1>2. CASE PrintTasks
  <2>1. TypeOK'
    BY <1>0, <1>2 DEF PrintTasks, Pending, TypeOK, linkVars
  <2> QED
    BY <1>2, <2>1, StepAside DEF PrintTasks, linkVars
<1>3. CASE PrintPeers
  BY <1>0, <1>3, StepBegin, MonitorHandlers
  DEF PrintPeers, Begin, Link!Begin, Link!AtSelect, TypeOK
<1>4. CASE SeeCancelled
  BY <1>0, <1>4, StepBegin, MonitorHandlers DEF SeeCancelled, Link!Closing, TypeOK
<1>5. CASE SendCommand
  <2>1. /\ job # <<>> /\ ~awaits /\ cmds' = Append(cmds, Head(job)) /\ awaits' = TRUE
        /\ UNCHANGED <<stage, job, cancelled, reply, client, event, msgs, reports, tasks, results,
                       report, accepted>>
    BY <1>5 DEF SendCommand, Link!SendCommand
  <2>2. cmds = <<>> /\ reply = "none" /\ Head(job) \in Link!Commands
    BY <2>1, UnderWay
  <2>3. /\ cmds' = <<Head(job)>> /\ cmds' \in Seq(Link!Commands) /\ Len(cmds') = 1
        /\ Head(cmds') = Head(job)
    BY <2>1, <2>2
  <2>4. TypeOK'
    BY <1>0, <2>1, <2>3 DEF TypeOK
  <2>5. Link!OneCommand'
    BY <2>1, <2>2, <2>3 DEF Link!OneCommand
  <2>6. Reported'
    BY <2>1, <2>2 DEF MonitorInv, Reported
  <2> QED
    BY <2>4, <2>5, <2>6 DEF MonitorInv
<1>6. CASE Continue
  <2> DEFINE c == Head(job)
  <2>1. /\ Link!Replied /\ job' = Tail(job)
        /\ stage' = IF stage = "starting" /\ job' = <<>> THEN "running" ELSE stage
        /\ UNCHANGED <<cancelled, cmds, client, event, msgs, reports, report>>
        /\ \/ c.op = "validate" /\ Record(c.arg)
           \/ UNCHANGED <<tasks, results, accepted>>
    BY <1>6 DEF Continue
  <2>2. awaits /\ reply # "none" /\ awaits' = FALSE /\ reply' = "none"
    BY <2>1 DEF Link!Replied
  <2>3. job # <<>> /\ c \in Link!Commands /\ Tail(job) \in Seq(Link!Commands)
    BY <2>2, UnderWay DEF MonitorInv, Link!OneCommand
  <2>4. c.op = "validate" => c.arg \in Messages /\ c.arg \in Range(reports)
    BY <2>2, <2>3, ValidatedMessage DEF MonitorInv, Reported
  <2> HIDE DEF c
  <2>5. /\ tasks' \subseteq Range(TaskOf) /\ results' \subseteq Range(TaskOf)
        /\ accepted' \subseteq Range(reports)
    <3>1. CASE c.op = "validate" /\ Record(c.arg)
      <4>1. TaskOf[c.arg] \in Range(TaskOf)
        BY <2>4, <3>1, FormAssumption DEF Range
      <4> QED
        BY <1>0, <2>4, <3>1, <4>1 DEF Record, TypeOK
    <3>2. CASE UNCHANGED <<tasks, results, accepted>>
      BY <1>0, <3>2 DEF TypeOK
    <3> QED
      BY <2>1, <3>1, <3>2
  <2>6. TypeOK'
    BY <1>0, <2>1, <2>2, <2>3, <2>5 DEF TypeOK
  <2> QED
    BY <2>1, <2>6, StepReplied DEF MonitorInv
<1>7. CASE Fail
  <2>1. /\ Link!Replied /\ stage' = "failed" /\ job' = <<>> /\ client' = "ended"
        /\ event' = None /\ msgs' = <<>>
        /\ UNCHANGED <<cancelled, cmds, reports, tasks, results, report, accepted>>
    BY <1>7 DEF Fail
  <2>2. awaits' = FALSE /\ reply' = "none"
    BY <2>1 DEF Link!Replied
  <2>3. /\ job' \in Seq(Link!Commands) /\ msgs' \in Seq(Messages) /\ Len(msgs') <= MsgCap
    BY <2>1, EmptySeq, CapAssumption
  <2>4. TypeOK'
    BY <1>0, <2>1, <2>2, <2>3 DEF TypeOK
  <2> QED
    BY <2>1, <2>4, StepReplied DEF MonitorInv
<1>8. CASE Stop
  <2>1. /\ Link!Replied /\ stage' = "stopped" /\ job' = <<>> /\ msgs' = <<>>
        /\ UNCHANGED <<cancelled, cmds, client, event, reports, tasks, results, accepted>>
        /\ report' = Pending
    BY <1>8 DEF Stop, Link!Stop
  <2>2. awaits' = FALSE /\ reply' = "none"
    BY <2>1 DEF Link!Replied
  <2>3. /\ job' \in Seq(Link!Commands) /\ msgs' \in Seq(Messages) /\ Len(msgs') <= MsgCap
    BY <2>1, EmptySeq, CapAssumption
  <2>4. TypeOK'
    BY <1>0, <2>1, <2>2, <2>3 DEF TypeOK, Pending
  <2> QED
    BY <2>1, <2>4, StepReplied DEF MonitorInv
<1>9. CASE Exit
  <2>1. TypeOK'
    BY <1>0, <1>9 DEF Exit, TypeOK
  <2> QED
    BY <1>9, <2>1, StepAside DEF Exit
<1>10. CASE HandleCommand
  BY <1>10, StepHandle
<1>11. CASE EndClient
  <2>1. TypeOK'
    BY <1>0, <1>11 DEF EndClient, Link!EndClient, TypeOK
  <2> QED
    BY <1>11, <2>1, StepAside DEF EndClient, Link!EndClient
<1>12. CASE Forward
  <2>1. /\ event \in Messages /\ Len(msgs) < MsgCap /\ msgs' = Append(msgs, event)
        /\ client' = "loop" /\ event' = None
        /\ UNCHANGED <<stage, job, awaits, cancelled, cmds, reply, reports, tasks, results, report,
                       accepted>>
    BY <1>12 DEF Forward, Link!Forward
  <2>2. /\ msgs' \in Seq(Messages) /\ Len(msgs') = Len(msgs) + 1 /\ Len(msgs) \in Nat
    BY <1>0, <2>1, AppendProperties, LenProperties DEF TypeOK
  <2>3. Len(msgs') <= MsgCap
    BY <2>1, <2>2, CapAssumption
  <2>4. TypeOK'
    BY <1>0, <2>1, <2>2, <2>3 DEF TypeOK
  <2> QED
    BY <2>1, <2>4, StepAside
<1>13. ASSUME NEW m \in Messages, Yield(m)
       PROVE  MonitorInv'
  <2>1. TypeOK'
    BY <1>0, <1>13 DEF Yield, Link!YieldMessage, Link!Yield, TypeOK
  <2> QED
    BY <1>13, <2>1, StepAside DEF Yield, Link!YieldMessage, Link!Yield
<1>14. CASE Cancel
  <2>1. TypeOK'
    BY <1>0, <1>14 DEF Cancel, Link!Cancel, TypeOK
  <2> QED
    BY <1>14, <2>1, StepAside DEF Cancel, Link!Cancel
<1>15. CASE UNCHANGED vars
  <2>1. TypeOK'
    BY <1>0, <1>15 DEF vars, linkVars, TypeOK
  <2> QED
    BY <1>15, <2>1, StepAside DEF vars, linkVars
<1> QED
  BY <1>1, <1>2, <1>3, <1>4, <1>5, <1>6, <1>7, <1>8, <1>9, <1>10, <1>11, <1>12, <1>13, <1>14,
    <1>15 DEF Next

\* Types are kept; in particular every message the monitor recorded was reported to
\* gossipsub before, and the monitor never has two commands under way.
THEOREM TypeCorrect == Spec => [](TypeOK /\ Link!OneCommand)
<1>1. MonitorInv => TypeOK /\ Link!OneCommand
  BY DEF MonitorInv
<1> QED
  BY <1>1, InitMonitor, StepMonitor, PTL DEF Spec

(***************************************************************************)
(* Acceptances: the monitor implements AcceptanceLedger. What was reported *)
(* and what is still on its way, in the handler, in the channel and in the *)
(* client's hand, make up what has arrived.                                *)
(***************************************************************************)

\* The monitor takes and reports messages.
Open == stage \notin {"stopped", "exited", "failed"}

\* Commands without an acceptance among them.
Silent(q) == \A i \in DOMAIN q : q[i].op # "validate"

\* An acceptance is the only command of its handler.
AloneInHandler == Silent(job) \/ Len(job) = 1

\* Once the monitor is done the client takes no event and no command any more.
ClientLeft ==
    /\ ~Open => job = <<>> /\ client \in {"closing", "ended"}
    /\ reply # "none" /\ Head(job) = Link!Shutdown => client \in {"closing", "ended"}

InHandler  == IF job # <<>> /\ reply = "none" /\ Head(job).op = "validate"
              THEN <<Head(job).arg>> ELSE <<>>
InHand     == IF event # None THEN <<event>> ELSE <<>>
Unreported == (InHandler \o msgs) \o InHand

\* The inductive invariant of the messages.
Order ==
    /\ ClientLeft
    /\ AloneInHandler
    /\ client = "forwarding" <=> event # None
    /\ arrived \in Seq(Messages)
    /\ Open => reports \o Unreported = arrived

\* The handlers of the monitor other than that of a message send no acceptance.
LEMMA SilentHandlers ==
    /\ Silent(<<>>) /\ Silent(Link!Subscribes) /\ Silent(<<Link!PeerCounts>>)
    /\ Silent(Append(Link!Unsubscribes, Link!Shutdown))
<1>1. Silent(<<>>) /\ Silent(<<Link!PeerCounts>>)
  BY DEF Silent, Link!PeerCounts, Link!Cmd
<1>2. /\ Link!Subscribes \in Seq(Link!Commands) /\ Link!Unsubscribes \in Seq(Link!Commands)
      /\ \A d \in Link!Range(Link!Subscribes) \cup Link!Range(Link!Unsubscribes) : d.op # "validate"
  BY TopicCommands
<1> DEFINE u == Link!Unsubscribes
           s == Link!Subscribes
<1> HIDE DEF u, s
<1>3. Silent(s) /\ Silent(u)
  BY <1>2 DEF Silent, Link!Range, u, s
<1>4. Link!Shutdown \in Link!Commands /\ Link!Shutdown.op # "validate"
  BY DEF Link!Commands, Link!Shutdown, Link!Cmd
<1>5. u \in Seq(Link!Commands)
  BY <1>2 DEF u
<1> DEFINE c == Link!Shutdown
           a == Append(u, c)
<1> HIDE DEF c
<1>6. /\ a \in Seq(Link!Commands) /\ Len(a) = Len(u) + 1 /\ Len(u) \in Nat
      /\ \A i \in 1 .. Len(u) : a[i] = u[i]
      /\ a[Len(u) + 1] = c
  BY <1>4, <1>5, AppendProperties, LenProperties DEF c
<1> HIDE DEF a
<1>7. DOMAIN a = 1 .. Len(u) + 1 /\ DOMAIN u = 1 .. Len(u)
  BY <1>5, <1>6, LenProperties
<1>8. Silent(a)
  BY <1>3, <1>4, <1>6, <1>7 DEF Silent, c
<1> QED
  BY <1>1, <1>3, <1>8 DEF a, c, s, u

\* The first command of a handler tells whether an acceptance is in it, and the others
\* are none.
LEMMA RestIsSilent ==
    ASSUME MonitorInv, AloneInHandler, job # <<>>
    PROVE  /\ Silent(Tail(job)) /\ Tail(job) \in Seq(Link!Commands)
           /\ Tail(job) # <<>> => Head(Tail(job)).op # "validate"
<1>1. job \in Seq(Link!Commands)
  BY DEF MonitorInv, TypeOK
<1>2. /\ Tail(job) \in Seq(Link!Commands) /\ Len(Tail(job)) = Len(job) - 1
      /\ \A i \in 1 .. Len(Tail(job)) : Tail(job)[i] = job[i + 1]
      /\ Len(job) \in Nat /\ DOMAIN job = 1 .. Len(job)
      /\ DOMAIN Tail(job) = 1 .. Len(Tail(job)) /\ Len(Tail(job)) \in Nat
  <2>1. /\ Tail(job) \in Seq(Link!Commands) /\ Len(Tail(job)) = Len(job) - 1
        /\ \A i \in 1 .. Len(Tail(job)) : Tail(job)[i] = job[i + 1]
    BY <1>1, HeadTailProperties
  <2>2. Len(job) \in Nat /\ DOMAIN job = 1 .. Len(job)
    BY <1>1, LenProperties
  <2>3. DOMAIN Tail(job) = 1 .. Len(Tail(job)) /\ Len(Tail(job)) \in Nat
    BY <2>1, LenProperties
  <2> QED
    BY <2>1, <2>2, <2>3
<1>3. Silent(Tail(job))
  <2>1. CASE Len(job) = 1
    <3>1. Len(Tail(job)) = 0
      BY <1>2, <2>1
    <3>2. DOMAIN Tail(job) = 1 .. 0
      BY <1>2, <3>1
    <3> QED
      BY <3>2 DEF Silent
  <2>2. CASE Silent(job)
    BY <1>2, <2>2 DEF Silent
  <2> QED
    BY <2>1, <2>2 DEF AloneInHandler
<1>4. Tail(job) # <<>> => 1 \in DOMAIN Tail(job) /\ Head(Tail(job)) = Tail(job)[1]
  BY <1>2, EmptySeq
<1> QED
  BY <1>2, <1>3, <1>4 DEF Silent

\* The message of an acceptance that is under way.
LEMMA InHandlerSeq ==
    ASSUME MonitorInv
    PROVE  InHandler \in Seq(Messages) /\ InHand \in Seq(Messages) /\ msgs \in Seq(Messages)
<1>1. <<>> \in Seq(Messages)
  BY EmptySeq
<1>2. ASSUME job # <<>>, Head(job).op = "validate"
      PROVE  Head(job).arg \in Messages
  BY <1>2, UnderWay, ValidatedMessage
<1>3. event \in Messages \cup {None} /\ msgs \in Seq(Messages)
  BY DEF MonitorInv, TypeOK
<1> QED
  BY <1>1, <1>2, <1>3 DEF InHandler, InHand

\* Nothing has arrived and nothing is reported.
LEMMA InitMessages == Init => Order
<1> SUFFICES ASSUME Init PROVE Order
  OBVIOUS
<1>1. /\ job = Link!Subscribes /\ reply = "none" /\ msgs = <<>> /\ event = None /\ stage = "starting"
      /\ reports = <<>> /\ arrived = <<>> /\ client = "loop"
  BY DEF Init, Link!Init
<1>2. job # <<>> => Head(job).op # "validate"
  <2>1. Silent(job) /\ job \in Seq(Link!Commands)
    BY <1>1, SilentHandlers, TopicCommands
  <2>2. job # <<>> => 1 \in DOMAIN job /\ Head(job) = job[1]
    BY <2>1, EmptySeq, LenProperties
  <2> QED
    BY <2>1, <2>2 DEF Silent
<1>3. <<>> \o <<>> = <<>> /\ <<>> \in Seq(Messages)
  BY ConcatEmptySeq, EmptySeq
<1> QED
  BY <1>1, <1>2, <1>3, SilentHandlers
  DEF Order, ClientLeft, AloneInHandler, Open, Unreported, InHandler, InHand

\* A monitor that is done: nothing is reported and nothing arrives any more.
LEMMA DoneForGood ==
    ASSUME MonitorInv, Order, ~Open, [Next]_vars
    PROVE  ~Open' /\ Order' /\ UNCHANGED <<arrived, reports>>
<1>1. job = <<>> /\ client \in {"closing", "ended"} /\ ~awaits /\ reply = "none"
  <2>1. job = <<>> /\ client \in {"closing", "ended"}
    BY DEF Order, ClientLeft
  <2>2. ~awaits
    BY <2>1 DEF MonitorInv, TypeOK, Link!OneCommand
  <2> QED
    BY <2>1, <2>2, UnderWay
<1>2. stage \in {"stopped", "exited", "failed"}
  BY DEF Open
<1>3. /\ stage' \in {"stopped", "exited", "failed"} /\ job' = job /\ reply' = reply
      /\ client' \in {"closing", "ended"} /\ UNCHANGED <<arrived, reports, event>>
  BY <1>1, <1>2
  DEF Next, TakeMessage, PrintTasks, PrintPeers, SeeCancelled, SendCommand, Continue, Fail, Stop,
    Exit, HandleCommand, EndClient, Forward, Yield, Cancel, Link!AtSelect, Link!SendCommand,
    Link!Replied, Link!Stop, Link!HandleCommand, Link!EndClient, Link!Forward, Link!YieldMessage,
    Link!Yield, Link!Cancel, Link!nodeVars, Link!clientVars, Link!swarmVars, linkVars, swarmVars,
    vars
<1> QED
  BY <1>1, <1>2, <1>3, SilentHandlers DEF Order, ClientLeft, AloneInHandler, Open

\* The monitor begins a handler without an acceptance, or goes on with the rest of one.
LEMMA SilentGoesOn ==
    ASSUME MonitorInv, Order, InHandler = <<>>, Silent(job'), job' \in Seq(Link!Commands),
           reply' = "none", Open, Open', UNCHANGED <<msgs, client, event, reports, arrived>>
    PROVE  Order'
<1>1. job' # <<>> => 1 \in DOMAIN job' /\ Head(job') = job'[1]
  BY EmptySeq, LenProperties
<1>2. InHandler' = <<>>
  BY <1>1 DEF InHandler, Silent
<1> QED
  BY <1>2 DEF Order, ClientLeft, AloneInHandler, Open, Unreported, InHand, Silent

\* The client tells gossipsub an acceptance, or the swarm another command.
LEMMA HandledOrder ==
    ASSUME MonitorInv, Order, Open, HandleCommand
    PROVE  /\ Order' /\ UNCHANGED <<stage, arrived>>
           /\ UNCHANGED reports \/ \E m \in Messages : reports' = Append(reports, m)
<1> DEFINE c == Head(job)
<1>1. /\ UNCHANGED <<stage, job, event, msgs, arrived>>
      /\ client = "loop" /\ client' = IF Head(cmds).op = "shutdown" THEN "closing" ELSE client
      /\ reports' = IF Head(cmds).op = "validate" THEN Append(reports, Head(cmds).arg) ELSE reports
      /\ cmds # <<>> /\ reply' \in {"ok", "error"}
  BY DEF HandleCommand, Link!HandleCommand, Link!nodeVars, Link!Outcomes
<1>2. job # <<>> /\ reply = "none" /\ Head(cmds) = c /\ c \in Link!Commands
  BY <1>1, UnderWay
<1>3. ClientLeft'
  <2>1. c = Link!Shutdown => c.op = "shutdown"
    BY DEF Link!Shutdown, Link!Cmd
  <2> QED
    BY <1>1, <1>2, <2>1 DEF ClientLeft, Open
<1>4. AloneInHandler' /\ (client' = "forwarding" <=> event' # None) /\ Open'
  BY <1>1 DEF Order, AloneInHandler, Silent, Open
<1>5. /\ InHandler' = <<>> /\ InHand' = InHand /\ msgs' = msgs
      /\ reports \o Unreported = arrived
      /\ reports \in Seq(Messages) /\ InHand \in Seq(Messages) /\ msgs \in Seq(Messages)
  BY <1>1, InHandlerSeq DEF InHandler, InHand, Order, MonitorInv, Reported
<1>6. CASE c.op = "validate"
  <2>1. c.arg \in Messages /\ reports' = Append(reports, c.arg) /\ InHandler = <<c.arg>>
    BY <1>1, <1>2, <1>6, ValidatedMessage DEF InHandler
  <2> DEFINE e == c.arg
             f == InHand
  <2>2. Append(reports, e) \o ((<<>> \o msgs) \o f) = reports \o ((<<e>> \o msgs) \o f)
    <3>1. e \in Messages /\ f \in Seq(Messages)
      BY <1>5, <2>1
    <3> HIDE DEF e, f
    <3> QED
      BY <1>5, <3>1, HeadJoinsFront, SMTT(30)
  <2>3. reports' \o Unreported' = arrived'
    BY <1>1, <1>5, <2>1, <2>2 DEF Unreported
  <2> QED
    BY <1>1, <1>3, <1>4, <2>1, <2>3 DEF Order
<1>7. CASE c.op # "validate"
  <2>1. reports' = reports /\ InHandler = <<>>
    BY <1>1, <1>2, <1>7 DEF InHandler
  <2>2. reports' \o Unreported' = arrived'
    BY <1>1, <1>5, <2>1 DEF Unreported
  <2> QED
    BY <1>1, <1>3, <1>4, <2>1, <2>2 DEF Order
<1> QED
  BY <1>6, <1>7

\* A message goes from the client's hand into the channel.
LEMMA ForwardOrder ==
    ASSUME MonitorInv, Order, Open, Forward
    PROVE  Order'
<1>1. /\ event \in Messages /\ msgs' = Append(msgs, event) /\ client' = "loop" /\ event' = None
      /\ client = "forwarding"
      /\ UNCHANGED <<stage, job, reply, reports, arrived>>
  BY DEF Forward, Link!Forward, Link!nodeVars, Link!swarmVars
<1>2. /\ reports \o Unreported = arrived
      /\ InHandler \in Seq(Messages) /\ msgs \in Seq(Messages)
  BY InHandlerSeq DEF Order
<1>3. (InHandler \o Append(msgs, event)) \o <<>> = (InHandler \o msgs) \o <<event>>
  BY <1>1, <1>2, PutAtEnd
<1>4. InHandler' = InHandler /\ InHand' = <<>> /\ InHand = <<event>>
  BY <1>1, CapAssumption DEF InHandler, InHand
<1>5. reports' \o Unreported' = arrived'
  BY <1>1, <1>2, <1>3, <1>4 DEF Unreported
<1>6. ClientLeft' /\ AloneInHandler'
  BY <1>1 DEF Order, ClientLeft, AloneInHandler, Silent, Open
<1> QED
  BY <1>1, <1>5, <1>6 DEF Order

\* A message arrives, and the client has it in hand.
LEMMA YieldOrder ==
    ASSUME MonitorInv, Order, Open, NEW m \in Messages, Yield(m)
    PROVE  /\ Order' /\ UNCHANGED <<stage, reports>>
           /\ m \notin Link!Range(arrived) /\ arrived' = Append(arrived, m)
<1>1. /\ arrived' = Append(arrived, m) /\ event' = m /\ client = "loop" /\ client' = "forwarding"
      /\ m \notin Link!Range(arrived)
      /\ UNCHANGED <<stage, job, reply, msgs, reports>>
  BY DEF Yield, Link!YieldMessage, Link!Yield, Link!nodeVars
<1>2. /\ reports \o Unreported = arrived /\ event = None /\ m # None
      /\ InHandler \in Seq(Messages) /\ msgs \in Seq(Messages) /\ reports \in Seq(Messages)
  BY <1>1, InHandlerSeq, CapAssumption DEF Order, MonitorInv, Reported
<1>3. InHandler' = InHandler /\ InHand' = <<m>> /\ InHand = <<>>
  BY <1>1, <1>2 DEF InHandler, InHand
<1>4. InHandler \o msgs \in Seq(Messages)
  BY <1>2, ConcatProperties
<1>5. reports \o ((InHandler \o msgs) \o <<m>>) = Append(reports \o ((InHandler \o msgs) \o <<>>), m)
  BY <1>2, <1>4, EndIsAppended
<1>6. reports' \o Unreported' = arrived'
  BY <1>1, <1>2, <1>3, <1>5 DEF Unreported
<1>7. ClientLeft' /\ AloneInHandler'
  BY <1>1 DEF Order, ClientLeft, AloneInHandler, Silent, Open
<1>8. arrived' \in Seq(Messages)
  BY <1>1, AppendProperties DEF Order
<1> QED
  BY <1>1, <1>2, <1>6, <1>7, <1>8 DEF Order

\* The monitor takes a message out of the channel, to accept it.
LEMMA TakeOrder ==
    ASSUME MonitorInv, Order, TakeMessage
    PROVE  Order'
<1> DEFINE m == Head(msgs)
<1>1. /\ Link!AtSelect /\ msgs # <<>> /\ msgs' = Tail(msgs) /\ job' = <<Link!ValidateMessage(m)>>
      /\ UNCHANGED <<stage, reply, client, event, reports, arrived>>
  BY DEF TakeMessage, Begin, Link!Begin, Link!clientVars, Link!swarmVars
<1>2. /\ job = <<>> /\ reply = "none" /\ Open /\ InHandler = <<>>
      /\ reports \o Unreported = arrived
      /\ msgs \in Seq(Messages)
  <2>1. job = <<>> /\ Open /\ ~awaits
    BY <1>1 DEF Link!AtSelect, Open, MonitorInv, TypeOK, Link!OneCommand
  <2>2. reply = "none"
    BY <2>1, UnderWay
  <2> QED
    BY <2>1, <2>2, InHandlerSeq DEF InHandler, Order
<1>3. <<m>> \o msgs' = <<>> \o msgs
  BY <1>1, <1>2, HeadAndTail
<1>4. InHandler' = <<m>> /\ InHand' = InHand
  <2> HIDE DEF m
  <2>1. /\ job' # <<>> /\ Head(job') = Link!ValidateMessage(m)
        /\ Link!ValidateMessage(m).op = "validate" /\ Link!ValidateMessage(m).arg = m
    BY <1>1 DEF Link!ValidateMessage, Link!Cmd
  <2> QED
    BY <1>1, <1>2, <2>1 DEF InHandler, InHand
<1> HIDE DEF m
<1>5. reports' \o Unreported' = arrived'
  BY <1>1, <1>2, <1>3, <1>4 DEF Unreported
<1>6. ClientLeft' /\ AloneInHandler'
  <2>1. Len(job') = 1
    BY <1>1
  <2> QED
    BY <1>1, <1>2, <2>1 DEF ClientLeft, AloneInHandler, Open
<1> QED
  BY <1>1, <1>5, <1>6 DEF Order

\* Every step keeps the order; to gossipsub it is an arrival, a report, the end of the
\* monitor, or nothing.
LEMMA StepOrder ==
    MonitorInv /\ Order /\ [Next]_vars =>
       /\ Order'
       /\ \/ UNCHANGED <<arrived, reports>> /\ (Open' <=> Open)
          \/ UNCHANGED <<arrived, reports>> /\ Open /\ ~Open'
          \/ /\ Open /\ Open' /\ UNCHANGED reports
             /\ \E m \in Messages : m \notin Link!Range(arrived) /\ arrived' = Append(arrived, m)
          \/ /\ Open /\ Open' /\ UNCHANGED arrived
             /\ \E m \in Messages : reports' = Append(reports, m)
<1> DEFINE Seen == \/ UNCHANGED <<arrived, reports>> /\ (Open' <=> Open)
                   \/ UNCHANGED <<arrived, reports>> /\ Open /\ ~Open'
                   \/ /\ Open /\ Open' /\ UNCHANGED reports
                      /\ \E m \in Messages : m \notin Link!Range(arrived) /\ arrived' = Append(arrived, m)
                   \/ /\ Open /\ Open' /\ UNCHANGED arrived
                      /\ \E m \in Messages : reports' = Append(reports, m)
<1> SUFFICES ASSUME MonitorInv, Order, [Next]_vars PROVE Order' /\ Seen
  OBVIOUS
<1>1. CASE ~Open
  BY <1>1, DoneForGood
<1> SUFFICES ASSUME Open PROVE Order' /\ Seen
  BY <1>1
<1> USE DEF Link!clientVars, Link!swarmVars, Link!nodeVars, swarmVars
<1>2. Link!AtSelect => job = <<>> /\ reply = "none" /\ InHandler = <<>>
  <2>1. Link!AtSelect => job = <<>> /\ ~awaits
    BY DEF Link!AtSelect, MonitorInv, TypeOK, Link!OneCommand
  <2> QED
    BY <2>1, UnderWay DEF InHandler
<1>3. CASE TakeMessage
  <2>1. UNCHANGED <<stage, arrived, reports>>
    BY <1>3 DEF TakeMessage, Begin, Link!Begin
  <2> QED
    BY <1>3, <2>1, TakeOrder DEF Open
<1>4. CASE PrintPeers \/ SeeCancelled
  <2>1. /\ Link!AtSelect /\ Open' /\ UNCHANGED <<reply, msgs, client, event, arrived, reports>>
        /\ job' \in {<<Link!PeerCounts>>, Append(Link!Unsubscribes, Link!Shutdown)}
    BY <1>4 DEF PrintPeers, SeeCancelled, Begin, Link!Begin, Link!Closing, Open
  <2>2. Silent(job') /\ job' \in Seq(Link!Commands)
    BY <2>1, SilentHandlers, MonitorHandlers
  <2>3. reply' = "none" /\ InHandler = <<>>
    BY <1>2, <2>1
  <2>4. Order'
    BY <2>1, <2>2, <2>3, SilentGoesOn
  <2> QED
    BY <2>1, <2>4
<1>5. CASE Continue
  <2>1. /\ Open' /\ UNCHANGED <<msgs, client, event, arrived, reports>>
        /\ job' = Tail(job) /\ Link!Replied
    BY <1>5 DEF Continue, Open
  <2>2. awaits /\ reply # "none" /\ reply' = "none"
    BY <2>1 DEF Link!Replied
  <2>3. job # <<>> /\ InHandler = <<>>
    BY <2>2 DEF InHandler, MonitorInv, Link!OneCommand
  <2>4. Silent(job') /\ job' \in Seq(Link!Commands)
    BY <2>1, <2>3, RestIsSilent DEF Order
  <2>5. Order'
    BY <2>1, <2>2, <2>3, <2>4, SilentGoesOn
  <2> QED
    BY <2>1, <2>5
<1>6. CASE Fail
  <2>1. /\ ~Open' /\ job' = <<>> /\ client' = "ended" /\ event' = None
        /\ UNCHANGED <<arrived, reports>>
    BY <1>6 DEF Fail, Open
  <2> QED
    BY <2>1, SilentHandlers DEF Order, ClientLeft, AloneInHandler, Silent
<1>7. CASE Stop
  <2>1. /\ ~Open' /\ job' = <<>> /\ reply # "none" /\ Head(job) = Link!Shutdown
        /\ UNCHANGED <<client, event, arrived, reports>>
    BY <1>7 DEF Stop, Link!Stop, Link!Replied, Open
  <2> QED
    BY <2>1, SilentHandlers DEF Order, ClientLeft, AloneInHandler, Silent
<1>8. CASE HandleCommand
  <2>1. Open'
    BY <1>8, HandledOrder DEF Open
  <2> QED
    BY <1>8, <2>1, HandledOrder
<1>9. CASE Forward
  <2>1. UNCHANGED <<stage, arrived, reports>>
    BY <1>9 DEF Forward, Link!Forward
  <2> QED
    BY <1>9, <2>1, ForwardOrder DEF Open
<1>10. ASSUME NEW m \in Messages, Yield(m)
       PROVE  Order' /\ Seen
  <2>1. Open'
    BY <1>10, YieldOrder DEF Open
  <2> QED
    BY <1>10, <2>1, YieldOrder
<1>11. CASE EndClient
  <2>1. /\ client = "closing" /\ client' = "ended"
        /\ UNCHANGED <<stage, job, reply, event, msgs, arrived, reports>>
    BY <1>11 DEF EndClient, Link!EndClient
  <2>2. Unreported' = Unreported
    BY <2>1 DEF Unreported, InHandler, InHand
  <2> QED
    BY <2>1, <2>2 DEF Order, ClientLeft, AloneInHandler, Silent, Open
<1>12. CASE PrintTasks \/ SendCommand \/ Cancel \/ UNCHANGED vars
  <2>1. UNCHANGED <<stage, job, reply, client, event, msgs, arrived, reports>>
    BY <1>12 DEF PrintTasks, SendCommand, Link!SendCommand, Cancel, Link!Cancel, vars, linkVars, swarmVars
  <2>2. Unreported' = Unreported
    BY <2>1 DEF Unreported, InHandler, InHand
  <2> QED
    BY <2>1, <2>2 DEF Order, ClientLeft, AloneInHandler, Silent, Open
<1>13. ~Exit
  BY DEF Exit, Open
<1> QED
  BY <1>3, <1>4, <1>5, <1>6, <1>7, <1>8, <1>9, <1>10, <1>11, <1>12, <1>13 DEF Next

\* Every step of the monitor is one of the ledger, or none.
LEMMA StepAcceptances ==
    ASSUME MonitorInv, (Unreported \in Seq(Messages))', Order, Order', [Next]_vars
    PROVE  [Ledger!Next]_<<arrived, reports, stage \notin {"stopped", "exited", "failed"}>>
<1> DEFINE open == stage \notin {"stopped", "exited", "failed"}
<1>1. CASE UNCHANGED <<arrived, reports>> /\ (Open' <=> Open)
  BY <1>1, Zenon DEF Open
<1>2. CASE UNCHANGED <<arrived, reports>> /\ Open /\ ~Open'
  <2>1. open /\ open' = FALSE
    BY <1>2 DEF Open
  <2>2. Ledger!Close
    BY <1>2, <2>1, Zenon DEF Ledger!Close
  <2> QED
    BY <2>2 DEF Ledger!Next
<1>3. ASSUME Open, Open', UNCHANGED reports,
             NEW m \in Messages, m \notin Link!Range(arrived), arrived' = Append(arrived, m)
      PROVE  Ledger!Next
  <2>1. m \notin Ledger!Range(arrived)
    BY <1>3 DEF Link!Range, Ledger!Range
  <2>2. UNCHANGED <<reports, open>> /\ open
    BY <1>3, Zenon DEF Open
  <2>3. Ledger!Arrive(m)
    BY <1>3, <2>1, <2>2, Zenon DEF Ledger!Arrive
  <2> QED
    BY <2>3 DEF Ledger!Next
<1>4. ASSUME Open, Open', UNCHANGED arrived, NEW m \in Messages, reports' = Append(reports, m)
      PROVE  Ledger!Next
  <2> DEFINE u == Unreported'
  <2>1. Append(reports, m) \o u = arrived
    BY <1>4 DEF Order
  <2>2. u \in Seq(Messages) /\ reports \in Seq(Messages)
    BY DEF MonitorInv, Reported
  <2>3. Len(reports) < Len(arrived) /\ m = arrived[Len(reports) + 1]
    <3> HIDE DEF u
    <3> QED
      BY <1>4, <2>1, <2>2, NextOfPrefix, ZenonT(40)
  <2>4. UNCHANGED <<arrived, open>> /\ open
    BY <1>4, Zenon DEF Open
  <2>5. Ledger!Report
    BY <1>4, <2>3, <2>4, Zenon DEF Ledger!Report
  <2> QED
    BY <2>5 DEF Ledger!Next
<1> QED
  BY <1>1, <1>2, <1>3, <1>4, StepOrder

\* The monitor keeps what AcceptanceLedger promises gossipsub: whatever a message
\* holds, and whether or not it could be recorded, the one held longest is the next
\* that is reported (node.rs:126-173).
THEOREM ImplementsAcceptances == Spec => KeepsAcceptances
<1>1. Init => Ledger!Init
  <2> SUFFICES ASSUME Init PROVE Ledger!Init
    OBVIOUS
  <2>1. (stage \notin {"stopped", "exited", "failed"}) = TRUE
    BY DEF Init, Link!Init
  <2> QED
    BY <2>1 DEF Init, Link!Init, Ledger!Init
<1>2. MonitorInv /\ (Unreported \in Seq(Messages))' /\ Order /\ Order' /\ [Next]_vars
         => [Ledger!Next]_<<arrived, reports, stage \notin {"stopped", "exited", "failed"}>>
  BY StepAcceptances
<1>3. MonitorInv /\ Order /\ [Next]_vars => Order'
  BY StepOrder
<1>4. MonitorInv => Unreported \in Seq(Messages)
  BY InHandlerSeq, ConcatProperties DEF Unreported
<1> QED
  BY <1>1, <1>2, <1>3, <1>4, InitMonitor, StepMonitor, InitMessages, PTL
  DEF Spec, KeepsAcceptances, Ledger!Spec

=============================================================================
