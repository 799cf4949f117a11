------------------------ MODULE MessageHandlingProofs ------------------------
(***************************************************************************)
(* Theorems about MessageHandling, for every set of peers, messages and    *)
(* requests, every list of models and every liveness period.               *)
(***************************************************************************)
EXTENDS MessageHandling, ModelMatchingProofs

(***************************************************************************)
(* Type correctness.                                                       *)
(***************************************************************************)

\* Of a response, the RPC nodes that parse are peers; an address may lack its peer.
LEMMA ParsedIds ==
    ASSUME NEW response \in Responses
    PROVE  /\ Parsed(response["ids"]) \subseteq Peer
           /\ \A l \in Lists : Parsed(response[l]) \subseteq Peer \cup {NoPeer}
  BY ResponseAssumption DEF Parsed, Lists

\* Extending the lists by a response adds what parses of it, and keeps their type
\* (utils/nodes.rs:26-49).
LEMMA ExtendedType ==
    ASSUME NEW nodes \in [Lists -> SUBSET (Peer \cup {NoPeer})], nodes["ids"] \subseteq Peer,
           NEW response \in Responses
    PROVE  /\ Extended(nodes, response) \in [Lists -> SUBSET (Peer \cup {NoPeer})]
           /\ Extended(nodes, response)["ids"] = nodes["ids"] \cup Parsed(response["ids"])
           /\ Extended(nodes, response)["ids"] \subseteq Peer
<1>1. "ids" \in Lists
  BY DEF Lists
<1> QED
  BY <1>1, ParsedIds DEF Extended

\* What is known of the RPC nodes is what the API has told, ever.
KnownIsTold == known.ids = announced

\* The static nodes tell of no RPC node: none is known, and none was announced.
LEMMA InitKnown == Init => KnownTypeOK /\ KnownIsTold
<1> SUFFICES ASSUME Init PROVE KnownTypeOK /\ KnownIsTold
  OBVIOUS
<1>1. /\ Statics \in [Lists -> SUBSET (Peer \cup {NoPeer})]
      /\ Statics["ids"] = {}
  BY StartAssumption DEF Statics, Lists
<1>2. api \in Responses
  BY DEF Init, KnownInit
<1>3. CASE known = Statics /\ announced = {}
  BY <1>1, <1>2, <1>3 DEF KnownTypeOK, KnownIsTold
<1>4. CASE known = Extended(Statics, api) /\ announced = Parsed(api.ids)
  <2>1. /\ known \in [Lists -> SUBSET (Peer \cup {NoPeer})]
        /\ known.ids = announced /\ known.ids \subseteq Peer
    BY <1>1, <1>2, <1>4, ExtendedType
  <2> QED
    BY <1>2, <2>1 DEF KnownTypeOK, KnownIsTold
<1> QED
  BY <1>3, <1>4 DEF Init, KnownInit

\* A refresh adds to what is known the RPC nodes that it adds to what was announced.
LEMMA StepKnown ==
    ASSUME KnownTypeOK, KnownIsTold, Refresh \/ ApiChanges \/ UNCHANGED knownVars
    PROVE  KnownTypeOK' /\ KnownIsTold'
<1>1. CASE Refresh
  <2>1. /\ known \in [Lists -> SUBSET (Peer \cup {NoPeer})] /\ known["ids"] \subseteq Peer
        /\ api \in Responses /\ known' = Extended(known, api) /\ api' = api
        /\ announced' = announced \cup Parsed(api["ids"]) /\ known["ids"] = announced
    BY <1>1 DEF KnownTypeOK, KnownIsTold, Refresh
  <2>2. /\ known' \in [Lists -> SUBSET (Peer \cup {NoPeer})]
        /\ known'["ids"] = announced' /\ known'["ids"] \subseteq Peer
    BY <2>1, ExtendedType
  <2> QED
    BY <2>1, <2>2 DEF KnownTypeOK, KnownIsTold
<1>2. CASE ApiChanges
  BY <1>2 DEF KnownTypeOK, KnownIsTold, ApiChanges
<1>3. CASE UNCHANGED knownVars
  BY <1>3 DEF KnownTypeOK, KnownIsTold, knownVars
<1> QED
  BY <1>1, <1>2, <1>3

\* The node starts with well-typed state.
LEMMA InitTypeOK == Init => TypeOK
<1> SUFFICES ASSUME Init PROVE TypeOK
  OBVIOUS
<1>1. KnownTypeOK
  BY InitKnown
<1>2. PeersTypeOK
  <2>1. known["bootstrap"] \subseteq Peer \cup {NoPeer} /\ known["rpc"] \subseteq Peer \cup {NoPeer}
    BY <1>1 DEF KnownTypeOK, Lists
  <2> QED
    BY <2>1 DEF Init, PeersInit, PeersTypeOK
<1>3. PingLiveness \in Nat /\ MaxClock \in Nat /\ MaxInbox \in Nat /\ MaxEvents \in Nat
  BY BoundAssumption
<1>4. inbox \in SeqOf(Messages, MaxInbox) /\ requests \in SeqOf(Requests, MaxInbox)
  <2>1. <<>> \in Seq(Messages) /\ <<>> \in Seq(Requests) /\ Len(<<>>) <= MaxInbox
    BY <1>3, EmptySeq
  <2> QED
    BY <1>3, <2>1, SeqIsBounded DEF Init
<1>5. /\ clock \in 0 .. MaxClock /\ events \in 0 .. MaxEvents
      /\ lastPinged \in 0 .. clock /\ heard \in 0 .. clock
  BY <1>3 DEF Init
<1>6. node = "idle" /\ verdict = "none" /\ effect = "none" /\ silent = FALSE
  BY DEF Init
<1> QED
  BY <1>1, <1>2, <1>4, <1>5, <1>6 DEF TypeOK

\* What Judge decides, one of the seven.
LEMMA Judgements ==
    ASSUME NEW m
    PROVE  Judge(m) \in Acceptances \cup {"Take", "Answer", "Panic"}
  BY DEF Judge, JudgeTask, JudgePing, Acceptances

\* Every step keeps the types. That an RPC node to dial is a peer needs KnownIsTold.
LEMMA StepTypeOK == TypeOK /\ KnownIsTold /\ [Next]_vars => TypeOK'
<1> SUFFICES ASSUME TypeOK, KnownIsTold, [Next]_vars PROVE TypeOK'
  OBVIOUS
<1> USE DEF handlingVars, knownVars, peerVars
<1>0. PingLiveness \in Nat /\ MaxClock \in Nat /\ MaxInbox \in Nat /\ MaxEvents \in Nat
  BY BoundAssumption
<1>1. /\ KnownTypeOK /\ PeersTypeOK /\ clock \in Nat /\ clock <= MaxClock
      /\ inbox \in SeqOf(Messages, MaxInbox) /\ requests \in SeqOf(Requests, MaxInbox)
      /\ lastPinged \in Nat /\ lastPinged <= clock /\ heard \in Nat /\ heard <= clock
      /\ events \in Nat /\ events <= MaxEvents
  BY <1>0 DEF TypeOK
<1>4. CASE HandleMessage
  <2> DEFINE m == Head(inbox)
  <2>1. HandleHead(m) /\ inbox # <<>>
    BY <1>4 DEF HandleMessage
  <2>2. inbox' \in SeqOf(Messages, MaxInbox)
    BY <1>0, <1>1, <2>1, BoundedTail DEF HandleHead
  <2> HIDE DEF m
  <2>3. UNCHANGED <<clock, requests, silent, events, knownVars, peerVars>>
    BY <2>1 DEF HandleHead
  <2>4. KnownTypeOK' /\ PeersTypeOK'
    BY <1>1, <2>3 DEF KnownTypeOK, PeersTypeOK
  <2>5. heard' \in 0 .. clock'
    BY <1>1, <2>1, <2>3 DEF HandleHead
  <2>6. lastPinged' \in 0 .. clock'
    BY <1>1, <2>1, <2>3 DEF HandleHead, Dismiss, TakeTask, AnswerPing, Panic
  <2>7. verdict = "none"
    BY <2>1 DEF HandleHead, TypeOK
  <2>8. /\ node' \in {"publishing", "validating", "panicked"}
        /\ verdict' \in Acceptances \cup {"none"}
        /\ verdict' # "none" <=> node' = "validating"
        /\ effect' \in {"none", "batch", "single", "pong", "specs"}
    <3>1. CASE Dismiss(m)
      BY <3>1 DEF Dismiss, Acceptances, TypeOK
    <3>2. CASE TakeTask(m)
      BY <3>2 DEF TakeTask, Acceptances, KindOf
    <3>3. CASE AnswerPing(m)
      BY <2>7, <3>3 DEF AnswerPing
    <3>4. CASE Panic(m)
      BY <2>7, <3>4 DEF Panic, TypeOK
    <3> QED
      BY <2>1, <3>1, <3>2, <3>3, <3>4 DEF HandleHead
  <2>9. clock' \in 0 .. MaxClock /\ events' \in 0 .. MaxEvents /\ silent' \in BOOLEAN
    BY <2>3 DEF TypeOK
  <2>10. requests' \in SeqOf(Requests, MaxInbox)
    BY <1>1, <2>3
  <2>11. node' \in {"idle", "publishing", "validating", "collecting", "responding", "refreshing",
                     "panicked"}
    BY <2>8
  <2> QED
    BY <2>2, <2>4, <2>5, <2>6, <2>8, <2>9, <2>10, <2>11 DEF TypeOK
<1>5. CASE PongPublished \/ Validate \/ SpecsCollected \/ Responded \/ Diagnose \/ AskForNodes
  <2>1. /\ UNCHANGED <<clock, inbox, requests, lastPinged, heard, events, knownVars, peerVars>>
        /\ silent' = silent \/ silent' = (lastPinged + PingLiveness < clock)
    BY <1>5 DEF PongPublished, Validate, SpecsCollected, Responded, Diagnose, AskForNodes
  <2>2. KnownTypeOK' /\ PeersTypeOK'
    BY <1>1, <2>1 DEF KnownTypeOK, PeersTypeOK
  <2>3. /\ node' \in {"idle", "publishing", "validating", "collecting", "responding",
                      "refreshing", "panicked"}
        /\ verdict' \in Acceptances \cup {"none"}
        /\ verdict' # "none" <=> node' = "validating"
        /\ effect' \in {"none", "batch", "single", "pong", "specs"}
    BY <1>5
    DEF PongPublished, Validate, SpecsCollected, Responded, Diagnose, AskForNodes, TypeOK, Acceptances
  <2>4. silent' \in BOOLEAN
    <3>1. CASE silent' = silent
      BY <3>1 DEF TypeOK
    <3>2. CASE silent' = (lastPinged + PingLiveness < clock)
      <4>1. CASE lastPinged + PingLiveness < clock
        BY <3>2, <4>1
      <4>2. CASE ~(lastPinged + PingLiveness < clock)
        BY <3>2, <4>2
      <4> QED
        BY <4>1, <4>2
    <3> QED
      BY <2>1, <3>1, <3>2
  <2> QED
    BY <1>1, <2>1, <2>2, <2>3, <2>4 DEF TypeOK
<1>6. CASE HandleRequest
  <2>1. requests' \in SeqOf(Requests, MaxInbox)
    BY <1>0, <1>1, <1>6, BoundedTail DEF HandleRequest
  <2>2. UNCHANGED <<clock, inbox, verdict, lastPinged, silent, heard, events, knownVars, peerVars>>
    BY <1>6 DEF HandleRequest
  <2>3. KnownTypeOK' /\ PeersTypeOK'
    BY <1>1, <2>2 DEF KnownTypeOK, PeersTypeOK
  <2>4. /\ node = "idle" /\ node' \in {"idle", "collecting"}
        /\ effect' \in {"none", "batch", "single", "pong", "specs"}
    BY <1>6 DEF HandleRequest, TypeOK
  <2> QED
    BY <1>1, <2>1, <2>2, <2>3, <2>4 DEF TypeOK
<1>7. CASE NodesAnswered \/ NodesFail
  <2>1. /\ UNCHANGED <<clock, inbox, requests, verdict, effect, lastPinged, silent, heard, events>>
        /\ node = "refreshing" /\ node' = "idle"
        /\ Refresh \/ UNCHANGED knownVars
    BY <1>7 DEF NodesAnswered, NodesFail, EndRefresh
  <2>2. KnownTypeOK'
    BY <1>1, <2>1, StepKnown
  <2>3. known["rpc"] \subseteq Peer \cup {NoPeer} /\ known'["rpc"] \subseteq Peer \cup {NoPeer}
    BY <1>1, <2>2 DEF KnownTypeOK, Lists
  <2>4. PeersTypeOK'
    BY <1>1, <1>7, <2>3 DEF NodesAnswered, NodesFail, Dial, PeersTypeOK
  <2> QED
    BY <1>1, <2>1, <2>2, <2>4 DEF TypeOK
<1>8. ASSUME NEW m \in Messages, Arrives(m)
      PROVE  TypeOK'
  <2>1. /\ UNCHANGED <<clock, requests, node, verdict, effect, lastPinged, silent, heard, knownVars,
                       peerVars>>
        /\ events < MaxEvents /\ events' = events + 1
    BY <1>8 DEF Arrives, Happens
  <2>2. inbox' \in SeqOf(Messages, MaxInbox)
    BY <1>0, <1>1, <1>8, BoundedAppend DEF Arrives
  <2>3. KnownTypeOK' /\ PeersTypeOK' /\ events' \in 0 .. MaxEvents
    BY <1>0, <1>1, <2>1 DEF KnownTypeOK, PeersTypeOK
  <2> QED
    BY <1>1, <2>1, <2>2, <2>3 DEF TypeOK
<1>9. ASSUME NEW r \in Requests, RequestArrives(r)
      PROVE  TypeOK'
  <2>1. /\ UNCHANGED <<clock, inbox, node, verdict, effect, lastPinged, silent, heard, knownVars,
                       peerVars>>
        /\ events < MaxEvents /\ events' = events + 1
    BY <1>9 DEF RequestArrives, Happens
  <2>2. requests' \in SeqOf(Requests, MaxInbox)
    BY <1>0, <1>1, <1>9, BoundedAppend DEF RequestArrives
  <2>3. KnownTypeOK' /\ PeersTypeOK' /\ events' \in 0 .. MaxEvents
    BY <1>0, <1>1, <2>1 DEF KnownTypeOK, PeersTypeOK
  <2> QED
    BY <1>1, <2>1, <2>2, <2>3 DEF TypeOK
<1>10. CASE ApiEvent
  <2>1. KnownTypeOK' /\ PeersTypeOK'
    BY <1>1, <1>10, StepKnown DEF ApiEvent, PeersTypeOK
  <2> QED
    BY <1>1, <1>10, <2>1 DEF ApiEvent, TypeOK
<1>11. ASSUME NEW p \in Peer, PeerEvent(p)
       PROVE  TypeOK'
  <2>1. /\ UNCHANGED <<clock, inbox, requests, node, verdict, effect, lastPinged, silent, heard,
                       knownVars>>
        /\ events < MaxEvents /\ events' = events + 1
    BY <1>11 DEF PeerEvent, Happens
  <2>2. PeersTypeOK'
    BY <1>1, <1>11
    DEF PeerEvent, Identified, Blacklist, Announced, PeerConnects, PeerLeaves, PeersTypeOK
  <2>3. KnownTypeOK' /\ events' \in 0 .. MaxEvents
    BY <1>0, <1>1, <2>1 DEF KnownTypeOK
  <2> QED
    BY <1>1, <2>1, <2>2, <2>3 DEF TypeOK
<1>12. ASSUME NEW p \in Peer, DialEvent(p)
       PROVE  TypeOK'
  <2>1. UNCHANGED <<handlingVars, knownVars>>
    BY <1>12 DEF DialEvent
  <2>2. PeersTypeOK'
    BY <1>1, <1>12 DEF DialEvent, DialEnds, PeersTypeOK
  <2>3. KnownTypeOK'
    BY <1>1, <2>1 DEF KnownTypeOK
  <2> QED
    BY <1>1, <2>1, <2>2, <2>3 DEF TypeOK
<1>13. CASE Tick
  <2>1. UNCHANGED <<inbox, requests, node, verdict, effect, lastPinged, silent, heard, events,
                    knownVars, peerVars>>
    BY <1>13 DEF Tick
  <2>2. /\ clock' \in 0 .. MaxClock /\ lastPinged' \in 0 .. clock' /\ heard' \in 0 .. clock'
    BY <1>0, <1>1, <1>13, <2>1 DEF Tick
  <2>3. KnownTypeOK' /\ PeersTypeOK'
    BY <1>1, <2>1 DEF KnownTypeOK, PeersTypeOK
  <2> QED
    BY <1>1, <2>1, <2>2, <2>3 DEF TypeOK
<1>14. CASE UNCHANGED vars
  BY <1>1, <1>14 DEF vars, TypeOK, KnownTypeOK, PeersTypeOK
<1> QED
  BY <1>4, <1>5, <1>6, <1>7, <1>8, <1>9, <1>10, <1>11, <1>12, <1>13, <1>14 DEF Next


\* What the node knows of the RPC nodes only grows by what the API tells.
LEMMA StepIsTold == TypeOK /\ KnownIsTold /\ [Next]_vars => KnownIsTold'
<1> SUFFICES ASSUME TypeOK, KnownIsTold, [Next]_vars PROVE KnownIsTold'
  OBVIOUS
<1>1. Refresh \/ ApiChanges \/ UNCHANGED knownVars
  BY DEF Next, HandleMessage, HandleHead, PongPublished, Validate, HandleRequest, SpecsCollected,
    Responded, Diagnose, AskForNodes, NodesAnswered, NodesFail, Arrives, RequestArrives, ApiEvent,
    PeerEvent, DialEvent, Tick, vars
<1> QED
  BY <1>1, StepKnown DEF TypeOK

\* Types are kept, the queues within their bound and the moments in the past, and the
\* RPC nodes known are exactly those the API has ever named in a readable list.
THEOREM TypeCorrect == Spec => [](TypeOK /\ KnownIsTold)
<1>1. Init => TypeOK /\ KnownIsTold
  BY InitTypeOK, InitKnown
<1>2. TypeOK /\ KnownIsTold /\ [Next]_vars => (TypeOK /\ KnownIsTold)'
  BY StepTypeOK, StepIsTold
<1> QED
  BY <1>1, <1>2, PTL DEF Spec

(***************************************************************************)
(* The pings that count.                                                   *)
(***************************************************************************)

\* The message at hand is one of those that may come.
LEMMA MessageAtHand ==
    ASSUME TypeOK, inbox # <<>>
    PROVE  /\ Head(inbox) \in Messages
           /\ Head(inbox).form \in Forms /\ Head(inbox).body \in Bodies
           /\ Head(inbox).names \subseteq Names
           /\ Head(inbox).deadline \in Nat /\ clock \in Nat
           /\ Head(inbox).source \in announced => Head(inbox).source # NoPeer
<1>1. MaxInbox \in Nat /\ MaxClock \in Nat
  BY BoundAssumption
<1>2. Head(inbox) \in Messages
  BY <1>1, BoundedTail DEF TypeOK
<1>3. clock \in Nat /\ announced \subseteq Peer
  BY <1>1 DEF TypeOK, KnownTypeOK
<1> QED
  BY <1>2, <1>3, MessageAssumption, PeerAssumption

\* The checks in their order come to the same as the condition the properties state.
LEMMA AnsweredIfAnswerable ==
    ASSUME TypeOK, KnownIsTold, inbox # <<>>
    PROVE  Judge(Head(inbox)) = "Answer" <=> Answerable(Head(inbox))
<1> DEFINE m == Head(inbox)
<1>1. /\ m.form \in Forms /\ m.deadline \in Nat /\ clock \in Nat
      /\ m.source \in announced => m.source # NoPeer
  BY MessageAtHand
<1>2. known.ids = announced
  BY DEF KnownIsTold
<1> HIDE DEF m
<1>3. JudgeTask(m) # "Answer"
  BY DEF JudgeTask
<1>4. JudgePing(m) = "Answer" <=> m.body # "unparsable" /\ clock < m.deadline
  BY <1>1 DEF JudgePing
<1>5. Judge(m) = "Answer" <=> Answerable(m)
  BY <1>1, <1>2, <1>3, <1>4 DEF Judge, Answerable, Forms
<1> QED
  BY <1>5 DEF m

\* last_pinged_at is the moment of the last ping that was due an answer.
PingsRecorded == lastPinged = heard

\* AnswerPing is the one step that records a moment, and the one that should.
LEMMA StepPings ==
    TypeOK /\ KnownIsTold /\ PingsRecorded /\ [Next]_vars => PingsRecorded'
<1> SUFFICES ASSUME TypeOK, KnownIsTold, PingsRecorded, [Next]_vars PROVE PingsRecorded'
  OBVIOUS
<1> DEFINE m == Head(inbox)
<1>1. CASE HandleMessage
  <2>1. HandleHead(m) /\ inbox # <<>>
    BY <1>1 DEF HandleMessage
  <2>2. Judge(m) = "Answer" <=> Answerable(m)
    BY <2>1, AnsweredIfAnswerable
  <2> HIDE DEF m
  <2>3. CASE AnswerPing(m)
    BY <2>1, <2>2, <2>3 DEF AnswerPing, HandleHead, PingsRecorded
  <2>4. CASE Dismiss(m) \/ TakeTask(m) \/ Panic(m)
    <3>1. Judge(m) # "Answer" /\ lastPinged' = lastPinged
      BY <2>4 DEF Dismiss, TakeTask, Panic, Acceptances
    <3> QED
      BY <2>1, <2>2, <3>1 DEF HandleHead, PingsRecorded
  <2> QED
    BY <2>1, <2>3, <2>4 DEF HandleHead
<1>2. CASE UNCHANGED <<lastPinged, heard>>
  BY <1>2 DEF PingsRecorded
<1> QED
  BY <1>1, <1>2 DEF Next, PongPublished, Validate, HandleRequest, SpecsCollected, Responded,
    Diagnose,
    AskForNodes, NodesAnswered, NodesFail, EndRefresh, Arrives, RequestArrives, Happens,
    ApiEvent, PeerEvent, DialEvent, Tick, vars, handlingVars

\* The diagnostics warn exactly when no ping was due an answer for longer than the
\* liveness period.
THEOREM WarningsAreTrue == Spec => WarnsOfSilence
<1>1. Init => PingsRecorded
  BY DEF Init, PingsRecorded
<1>2. PingsRecorded /\ [Next]_vars
        => [Diagnose => (silent' <=> heard + PingLiveness < clock)]_vars
  BY DEF PingsRecorded, Diagnose
<1> QED
  BY <1>1, <1>2, StepPings, TypeCorrect, PTL DEF Spec, WarnsOfSilence

(***************************************************************************)
(* Effects and verdicts.                                                   *)
(***************************************************************************)

\* What the checks have established once a task is taken or a ping answered.
LEMMA ChecksPassed ==
    ASSUME TypeOK, KnownIsTold, inbox # <<>>, Judge(Head(inbox)) \in {"Take", "Answer"}
    PROVE  /\ Head(inbox).source \in announced
           /\ Head(inbox).form = "signed"
           /\ Head(inbox).deadline > clock
           /\ Judge(Head(inbox)) = "Answer" => Head(inbox).topic = "ping"
           /\ Judge(Head(inbox)) = "Take" => Head(inbox).topic = "task"
<1> DEFINE m == Head(inbox)
<1>1. m.form \in Forms /\ m.deadline \in Nat /\ clock \in Nat
  BY MessageAtHand
<1>2. known.ids = announced
  BY DEF KnownIsTold
<1> HIDE DEF m
<1>3. /\ JudgeTask(m) # "Answer"
      /\ JudgeTask(m) = "Take" => clock < m.deadline
  BY <1>1 DEF JudgeTask
<1>4. /\ JudgePing(m) # "Take"
      /\ JudgePing(m) = "Answer" => clock < m.deadline
  BY <1>1 DEF JudgePing
<1>5. ASSUME Judge(m) \in {"Take", "Answer"}
      PROVE  /\ m.source \in announced /\ m.form = "signed"
             /\ \/ m.topic = "task" /\ Judge(m) = JudgeTask(m)
                \/ m.topic = "ping" /\ Judge(m) = JudgePing(m)
  BY <1>1, <1>2, <1>5 DEF Judge, Forms
<1> QED
  BY <1>1, <1>3, <1>4, <1>5 DEF m

\* The model a task is given to is one of those configured, and matches it by a name.
LEMMA MatchedByName ==
    ASSUME NEW names \in SUBSET Names, NEW model \in AnyMatching(Models, names)
    PROVE  \E n \in names, k \in DOMAIN Models :
               Models[k] \in Matching(Models, n) /\ KindOf(Models[k]) = KindOf(model)
<1>1. PICK n \in names : model \in Matching(Models, n)
  BY DEF AnyMatching
<1>2. model \in Range(Models)
  BY <1>1, MatchingModels, BoundAssumption
<1>3. PICK k \in DOMAIN Models : Models[k] = model
  BY <1>2 DEF Range
<1> QED
  BY <1>1, <1>3

\* Whatever the node does, it does for an RPC node the API has named, for a message
\* that is well signed and in time, and with a model the task asks for.
THEOREM EffectsHaveReasons == Spec => EffectsVouched
<1> DEFINE Vouched(m) ==
        /\ effect' \in {"batch", "single", "pong"}
        /\ m.source \in announced
        /\ m.form = "signed"
        /\ m.deadline > clock
        /\ m.topic = IF effect' = "pong" THEN "ping" ELSE "task"
        /\ effect' # "pong" =>
             \E n \in m.names, k \in DOMAIN Models :
                 Models[k] \in Matching(Models, n) /\ KindOf(Models[k]) = effect'
<1>1. ASSUME TypeOK, KnownIsTold, [Next]_vars
      PROVE  \/ effect' \in {"none", effect}
             \/ effect' = "specs" /\ Head(requests).peer \in announced
             \/ Vouched(Head(inbox))
  <2> DEFINE m == Head(inbox)
  <2>1. CASE HandleMessage
    <3>1. HandleHead(m) /\ inbox # <<>>
      BY <2>1 DEF HandleMessage
    <3>2. m.names \in SUBSET Names
      BY <1>1, <3>1, MessageAtHand
    <3>3. Judge(m) \in {"Take", "Answer"} =>
            /\ m.source \in announced /\ m.form = "signed" /\ m.deadline > clock
            /\ Judge(m) = "Answer" => m.topic = "ping"
            /\ Judge(m) = "Take" => m.topic = "task"
      BY <1>1, <3>1, ChecksPassed
    <3> HIDE DEF m
    <3>4. CASE Dismiss(m) \/ Panic(m)
      BY <3>4 DEF Dismiss, Panic
    <3>5. CASE TakeTask(m)
      <4>1. PICK model \in AnyMatching(Models, m.names) : effect' = KindOf(model)
        BY <3>5 DEF TakeTask
      <4>2. Judge(m) = "Take" /\ effect' \in {"batch", "single"}
        BY <3>5, <4>1 DEF TakeTask, KindOf
      <4>3. \E n \in m.names, k \in DOMAIN Models :
                Models[k] \in Matching(Models, n) /\ KindOf(Models[k]) = KindOf(model)
        BY <3>2, MatchedByName
      <4>4. Vouched(m)
        BY <3>3, <4>1, <4>2, <4>3
      <4> QED
        BY <4>4 DEF m
    <3>6. CASE AnswerPing(m)
      <4>1. Judge(m) = "Answer" /\ effect' = "pong"
        BY <3>6 DEF AnswerPing
      <4>2. Vouched(m)
        BY <3>3, <4>1
      <4> QED
        BY <4>2 DEF m
    <3> QED
      BY <3>1, <3>4, <3>5, <3>6 DEF HandleHead
  <2>2. CASE HandleRequest
    BY <1>1, <2>2 DEF HandleRequest, KnownIsTold
  <2>3. CASE effect' \in {"none", effect}
    BY <2>3
  <2> HIDE DEF Vouched
  <2> QED
    BY <1>1, <2>1, <2>2, <2>3
    DEF Next, PongPublished, Validate, SpecsCollected, Responded, Diagnose, AskForNodes,
      NodesAnswered, NodesFail, EndRefresh, Arrives, RequestArrives, Happens, ApiEvent, PeerEvent, DialEvent,
      Tick, vars, handlingVars
<1> QED
  BY <1>1, TypeCorrect, PTL DEF Spec, EffectsVouched

\* A verdict of rejection falls only on a wrong signature of a named RPC node or on an
\* unknown topic; a task for others in time is passed on; strangers are ignored.
THEOREM VerdictsHaveReasons == Spec => VerdictsByMerit
<1> DEFINE Merited(m) ==
        LET listened == m.gossip \in {"ping", "task"}
            vouched == listened /\ m.source \in announced
        IN  /\ verdict' = "Reject" =>
                 \/ m.gossip \notin {"ping", "task", "pong", "results"}
                 \/ vouched /\ m.form = "wrong"
            /\ (vouched /\ m.form = "signed" /\ m.topic = "task" /\ m.body = "others"
                  /\ clock < m.deadline) => verdict' = "Accept"
            /\ (listened /\ m.source \notin announced) => verdict' = "Ignore"
<1>1. ASSUME TypeOK, KnownIsTold, HandleMessage
      PROVE  Merited(Head(inbox))
  <2> DEFINE m == Head(inbox)
  <2>1. HandleHead(m) /\ inbox # <<>>
    BY <1>1 DEF HandleMessage
  <2>2. /\ m.form \in Forms /\ m.deadline \in Nat /\ clock \in Nat
        /\ m.source \in announced => m.source # NoPeer
    BY <1>1, <2>1, MessageAtHand
  <2>3. known.ids = announced
    BY <1>1 DEF KnownIsTold
  <2>4. verdict = "none"
    BY <1>1, <2>1 DEF HandleHead, TypeOK
  <2> HIDE DEF m
  <2>5. /\ JudgeTask(m) # "Reject" /\ JudgePing(m) # "Reject"
        /\ m.body = "others" /\ clock < m.deadline => JudgeTask(m) = "Accept"
    BY <2>2 DEF JudgeTask, JudgePing
  <2>6. /\ Judge(m) = "Reject" =>
             \/ m.gossip \notin {"ping", "task", "pong", "results"}
             \/ m.gossip \in {"ping", "task"} /\ m.source \in announced /\ m.form = "wrong"
        /\ (m.gossip \in {"ping", "task"} /\ m.source \in announced /\ m.form = "signed"
              /\ m.topic = "task" /\ m.body = "others" /\ clock < m.deadline)
             => Judge(m) = "Accept"
        /\ m.gossip \in {"ping", "task"} /\ m.source \notin announced => Judge(m) = "Ignore"
    BY <2>2, <2>3, <2>5 DEF Judge
  <2>7. \/ Judge(m) \in Acceptances /\ verdict' = Judge(m)
        \/ Judge(m) = "Take" /\ verdict' = "Accept"
        \/ Judge(m) \in {"Answer", "Panic"} /\ verdict' = "none"
    BY <2>1, <2>4 DEF HandleHead, Dismiss, TakeTask, AnswerPing, Panic
  <2>8. Merited(m)
    BY <2>6, <2>7 DEF Acceptances
  <2> QED
    BY <2>8 DEF m
<1> QED
  BY <1>1, TypeCorrect, PTL DEF Spec, VerdictsByMerit

=============================================================================
