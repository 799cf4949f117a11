------------------------- MODULE TaskPipelineProofs -------------------------
(***************************************************************************)
(* Theorems about TaskPipeline, for every set of deliveries and every      *)
(* channel capacity and batch size its assumptions allow.                  *)
(***************************************************************************)
EXTENDS TaskPipeline, SequenceLemmas

USE DEF MAX_BATCH_SIZE

(***************************************************************************)
(* Type correctness.                                                       *)
(***************************************************************************)

\* The node starts with well-typed state.
LEMMA InitTypeOK == Init => TypeOK
<1>1. <<>> \in Seq(Tasks) /\ Len(<<>>) = 0
  BY EmptySeq
<1>2. WorkflowCap >= 0 /\ PublishCap >= 0
  BY CapAssumption
<1> SUFFICES ASSUME Init PROVE TypeOK
  OBVIOUS
<1> USE DEF Init
<1>3. hand = NoTask /\ hand \in Tasks \cup {NoTask} /\ pc = "select"
  OBVIOUS
<1>4. /\ pending \in [Workers -> SUBSET Range(Id)]
      /\ completed \in [Workers -> Nat]
      /\ phase \in [Workers -> {"recv", "window", "exec", "exited"}]
      /\ held \in [Workers -> SUBSET Tasks]
      /\ outbox \in [Workers -> SUBSET Tasks]
  OBVIOUS
<1>5. /\ queue \in [Workers -> Seq(Tasks)]
      /\ \A w \in Workers : Len(queue[w]) <= WorkflowCap
      /\ publish \in Seq(Tasks) /\ Len(publish) <= PublishCap
      /\ answers \in Seq(Tasks)
  BY <1>1, <1>2
<1> QED
  BY <1>3, <1>4, <1>5 DEF TypeOK

\* How many tasks the next recv_many takes.
LEMMA BatchCount ==
    ASSUME TypeOK, "batch" \in Workers
    PROVE  LET n == Min({BatchLimit, Len(queue["batch"])}) IN
           /\ Cardinality(held["batch"]) \in Nat
           /\ IsFiniteSet(held["batch"])
           /\ n \in Int
           /\ n <= BatchLimit
           /\ n <= Len(queue["batch"])
           /\ n > 0 => n \in 0 .. Len(queue["batch"])
<1>1. held["batch"] \subseteq Tasks /\ queue["batch"] \in Seq(Tasks)
  BY DEF TypeOK
<1>2. IsFiniteSet(held["batch"])
  BY <1>1, TasksAssumption, FS_Subset
<1>3. Cardinality(held["batch"]) \in Nat
  BY <1>2, FS_CardinalityType
<1>4. Len(queue["batch"]) \in Nat
  BY <1>1, LenProperties
<1>5. BatchLimit \in Int
  BY <1>3, BatchSizeAssumption DEF BatchLimit
<1> DEFINE n == Min({BatchLimit, Len(queue["batch"])})
<1>6. n \in {BatchLimit, Len(queue["batch"])} /\ n <= BatchLimit /\ n <= Len(queue["batch"])
  <2>1. \A a, b \in Int : Min({a, b}) \in {a, b} /\ Min({a, b}) <= a /\ Min({a, b}) <= b
    BY MinOfTwo
  <2>2. Len(queue["batch"]) \in Int
    BY <1>4
  <2> QED
    BY <1>5, <2>1, <2>2
<1> HIDE DEF n
<1>7. n \in Int /\ (n > 0 => n \in 0 .. Len(queue["batch"]))
  BY <1>4, <1>5, <1>6
<1> QED
  BY <1>2, <1>3, <1>6, <1>7 DEF n

\* Every step of the node, its workers and the requesters keeps the types.
LEMMA StepTypeOK == TypeOK /\ [Next]_vars => TypeOK'
<1> SUFFICES ASSUME TypeOK, [Next]_vars
             PROVE  TypeOK'
  OBVIOUS
<1> USE DEF TypeOK
<1>1. ASSUME NEW t \in Tasks, Decline(t)
      PROVE  TypeOK'
  BY <1>1 DEF Decline, workerVars
<1>2. ASSUME NEW t \in Tasks, TakeTask(t)
      PROVE  TypeOK'
  <2>1. Id[t] \in Range(Id) /\ t # NoTask
    BY IdAssumption, TasksAssumption DEF Range
  <2> QED
    BY <1>2, <2>1 DEF TakeTask, workerVars
<1>3. CASE SendTask
  <2>1. hand \in Tasks /\ Kind[hand] \in Workers
    BY <1>3, KindAssumption DEF SendTask
  <2>2. /\ Append(queue[Kind[hand]], hand) \in Seq(Tasks)
        /\ Len(Append(queue[Kind[hand]], hand)) = Len(queue[Kind[hand]]) + 1
        /\ Len(queue[Kind[hand]]) \in Nat
    BY <2>1, AppendProperties, LenProperties
  <2>3. /\ queue' \in [Workers -> Seq(Tasks)]
        /\ \A w \in Workers : Len(queue'[w]) <= WorkflowCap
    BY <1>3, <2>1, <2>2, CapAssumption DEF SendTask
  <2> QED
    BY <1>3, <2>3 DEF SendTask, workerVars
<1>4. CASE SendTaskFails
  BY <1>4 DEF SendTaskFails, workerVars
<1>5. CASE TakeResult
  <2>1. /\ Head(publish) \in Tasks /\ Tail(publish) \in Seq(Tasks)
        /\ Len(Tail(publish)) = Len(publish) - 1 /\ Len(publish) \in Nat
    BY <1>5, HeadTailProperties, LenProperties DEF TakeResult
  <2>2. Head(publish) # NoTask /\ Kind[Head(publish)] \in Workers
    BY <2>1, TasksAssumption, KindAssumption
  <2>3. Len(publish') <= PublishCap
    BY <1>5, <2>1, CapAssumption DEF TakeResult
  <2>4. completed' \in [Workers -> Nat]
    BY <1>5, <2>2 DEF TakeResult
  <2> QED
    BY <1>5, <2>1, <2>2, <2>3, <2>4 DEF TakeResult, workerVars
<1>6. CASE Publish
  <2>1. Append(answers, hand) \in Seq(Tasks)
    BY <1>6, AppendProperties DEF Publish
  <2> QED
    BY <1>6, <2>1 DEF Publish, workerVars
<1>7. CASE PublishFails
  BY <1>7 DEF PublishFails, workerVars
<1>8. CASE RunFails
  BY <1>8 DEF RunFails, workerVars
<1>9. CASE PublishClosed \/ SeeCancelled
  BY <1>9 DEF PublishClosed, SeeCancelled, workerVars
<1>10. CASE Close
  <2>1. <<>> \in Seq(Tasks) /\ Len(<<>>) = 0 /\ 0 <= PublishCap
    BY EmptySeq, CapAssumption
  <2> QED
    BY <1>10, <2>1 DEF Close, workerVars
<1>11. CASE Cancel
  BY <1>11 DEF Cancel, nodeVars, workerVars
<1>12. CASE SeriesRecv
  <2>1. /\ Head(queue["single"]) \in Tasks
        /\ Tail(queue["single"]) \in Seq(Tasks)
        /\ Len(Tail(queue["single"])) <= Len(queue["single"])
        /\ Len(Tail(queue["single"])) \in Nat /\ Len(queue["single"]) \in Nat
    BY <1>12, HeadTailProperties, LenProperties DEF SeriesRecv
  <2>2. /\ queue' \in [Workers -> Seq(Tasks)]
        /\ \A w \in Workers : Len(queue'[w]) <= WorkflowCap
    BY <1>12, <2>1, CapAssumption DEF SeriesRecv
  <2> QED
    BY <1>12, <2>1, <2>2 DEF SeriesRecv, nodeVars
<1>13. CASE BatchRecv
  <2> DEFINE q == queue["batch"]
             n == Min({BatchLimit, Len(q)})
  <2>1. "batch" \in Workers /\ n \in 0 .. Len(q) /\ q \in Seq(Tasks) /\ Len(q) \in Nat
    BY <1>13, BatchCount, LenProperties DEF BatchRecv
  <2>4. /\ queue' = [queue EXCEPT !["batch"] = SubSeq(q, n + 1, Len(q))]
        /\ held' = [held EXCEPT !["batch"] = @ \cup Range(SubSeq(q, 1, n))]
        /\ phase' = [phase EXCEPT !["batch"] = "window"]
        /\ UNCHANGED <<nodeVars, cancelled, outbox, publish>>
    BY <1>13 DEF BatchRecv
  <2> HIDE DEF n
  <2>2. /\ SubSeq(q, 1, n) \in Seq(Tasks)
        /\ SubSeq(q, n + 1, Len(q)) \in Seq(Tasks)
        /\ Len(SubSeq(q, n + 1, Len(q))) = Len(q) - n
    BY <2>1, RangeSplit
  <2>3. Range(SubSeq(q, 1, n)) \subseteq Tasks
    BY <2>2, RangeOfSeq
  <2>5. /\ queue' \in [Workers -> Seq(Tasks)]
        /\ \A w \in Workers : Len(queue'[w]) <= WorkflowCap
    BY <2>1, <2>2, <2>4, CapAssumption
  <2>6. held' \in [Workers -> SUBSET Tasks]
    BY <2>1, <2>3, <2>4
  <2> QED
    BY <2>4, <2>5, <2>6 DEF nodeVars
<1>14. CASE BatchStart
  BY <1>14 DEF BatchStart, nodeVars
<1>15. ASSUME NEW w \in Workers, NEW t \in Tasks, Finish(w, t)
       PROVE  TypeOK'
  BY <1>15 DEF Finish, nodeVars
<1>16. ASSUME NEW w \in Workers, NEW t \in Tasks, SendOutput(w, t)
       PROVE  TypeOK'
  <2>1. /\ Append(publish, t) \in Seq(Tasks)
        /\ Len(Append(publish, t)) = Len(publish) + 1
        /\ Len(publish) \in Nat
    BY AppendProperties, LenProperties
  <2>2. Len(publish') <= PublishCap /\ publish' \in Seq(Tasks)
    BY <1>16, <2>1, CapAssumption DEF SendOutput
  <2> QED
    BY <1>16, <2>2 DEF SendOutput, LeaveOutbox, nodeVars
<1>17. ASSUME NEW w \in Workers, NEW t \in Tasks, SendOutputFails(w, t)
       PROVE  TypeOK'
  BY <1>17 DEF SendOutputFails, LeaveOutbox, nodeVars
<1>18. ASSUME NEW w \in Workers, Exit(w)
       PROVE  TypeOK'
  <2>1. <<>> \in Seq(Tasks) /\ Len(<<>>) = 0 /\ 0 <= WorkflowCap
    BY EmptySeq, CapAssumption
  <2>2. /\ queue' \in [Workers -> Seq(Tasks)]
        /\ \A v \in Workers : Len(queue'[v]) <= WorkflowCap
    BY <1>18, <2>1 DEF Exit
  <2> QED
    BY <1>18, <2>2 DEF Exit, nodeVars
<1>19. CASE UNCHANGED vars
  BY <1>19 DEF vars, workerVars
<1> QED
  BY <1>1, <1>2, <1>3, <1>4, <1>5, <1>6, <1>7, <1>8, <1>9, <1>10, <1>11, <1>12,
     <1>13, <1>14, <1>15, <1>16, <1>17, <1>18, <1>19
  DEF Next, NodeStep, WorkerStep, Arrival

\* Every reachable state is well typed: in particular no channel ever exceeds
\* its capacity and the node's hand is empty exactly while it is in select!.
THEOREM TypeCorrect == Spec => []TypeOK
<1> QED
  BY InitTypeOK, StepTypeOK, PTL DEF Spec

(***************************************************************************)
(* The workers' limits and the barrier between batches.                    *)
(***************************************************************************)

\* The workers start with nothing in their hands.
LEMMA InitWorkerLimits == Init => WorkerLimits
<1> SUFFICES ASSUME Init, NEW w \in Workers
             PROVE  /\ Cardinality(held[w] \cup outbox[w]) <= Limit(w)
                    /\ held[w] \cup outbox[w] = {} <=> phase[w] \in {"recv", "exited"}
                    /\ phase[w] = "window" => outbox[w] = {}
                    /\ w = "single" => phase[w] # "window"
  BY DEF WorkerLimits
<1>1. held[w] \cup outbox[w] = {} /\ outbox[w] = {} /\ phase[w] = "recv"
  BY DEF Init
<1>2. Cardinality({}) = 0 /\ 0 <= Limit(w)
  BY FS_EmptySet, BatchSizeAssumption DEF Limit
<1> QED
  BY <1>1, <1>2

\* Every step keeps the workers within their limits.
LEMMA StepWorkerLimits == TypeOK /\ WorkerLimits /\ [Next]_vars => WorkerLimits'
<1> SUFFICES ASSUME TypeOK, WorkerLimits, [Next]_vars
             PROVE  WorkerLimits'
  OBVIOUS
<1> DEFINE Busy(w) == held[w] \cup outbox[w]
           Good(w) == /\ Cardinality(Busy(w)) <= Limit(w)
                      /\ Busy(w) = {} <=> phase[w] \in {"recv", "exited"}
                      /\ phase[w] = "window" => outbox[w] = {}
                      /\ w = "single" => phase[w] # "window"
<1>1. \A w \in Workers : Good(w)
  BY DEF WorkerLimits
<1>2. \A w \in Workers : IsFiniteSet(Busy(w)) /\ Limit(w) \in Nat
  BY TasksAssumption, FS_Subset, BatchSizeAssumption DEF TypeOK, Limit
<1>3. ASSUME UNCHANGED <<phase, held, outbox>>
      PROVE  WorkerLimits'
  BY <1>1, <1>3 DEF WorkerLimits
<1>4. CASE SeriesRecv
  <2> DEFINE t == Head(queue["single"])
  <2>1. /\ "single" \in Workers /\ phase["single"] = "recv"
        /\ held' = [held EXCEPT !["single"] = {t}]
        /\ phase' = [phase EXCEPT !["single"] = "exec"]
        /\ outbox' = outbox
    BY <1>4 DEF SeriesRecv
  <2> HIDE DEF t
  <2>2. outbox["single"] = {}
    BY <1>1, <2>1
  <2>3. /\ held'["single"] = {t} /\ outbox'["single"] = {} /\ phase'["single"] = "exec"
        /\ \A w \in Workers \ {"single"} :
              held'[w] = held[w] /\ outbox'[w] = outbox[w] /\ phase'[w] = phase[w]
    BY <2>1, <2>2 DEF TypeOK
  <2>4. Cardinality({t}) <= Limit("single")
    BY FS_Singleton DEF Limit
  <2>5. \A w \in Workers \ {"single"} : Good(w)'
    BY <1>1, <2>3
  <2>6. Good("single")'
    BY <2>3, <2>4
  <2> QED
    BY <2>5, <2>6 DEF WorkerLimits
<1>5. CASE BatchRecv
  <2> DEFINE q == queue["batch"]
             n == Min({BatchLimit, Len(q)})
             gone == Range(SubSeq(q, 1, n))
  <2>1. /\ "batch" \in Workers /\ n \in 0 .. Len(q) /\ n > 0 /\ n <= BatchLimit
        /\ q \in Seq(Tasks) /\ Len(q) \in Nat
        /\ Cardinality(held["batch"]) \in Nat /\ IsFiniteSet(held["batch"])
        /\ phase["batch"] \in {"recv", "window"}
        /\ held' = [held EXCEPT !["batch"] = @ \cup gone]
        /\ phase' = [phase EXCEPT !["batch"] = "window"]
        /\ outbox' = outbox
    BY <1>5, BatchCount, LenProperties DEF BatchRecv, TypeOK
  <2>2. BatchLimit = BatchSize - Cardinality(held["batch"])
    BY DEF BatchLimit
  <2> HIDE DEF n
  <2>3. SubSeq(q, 1, n) \in Seq(Tasks) /\ Len(SubSeq(q, 1, n)) = n
    BY <2>1, RangeSplit
  <2>4. IsFiniteSet(gone) /\ Cardinality(gone) <= n
    BY <2>3, RangeCardinality
  <2>5. gone # {}
    <3>1. 1 \in DOMAIN SubSeq(q, 1, n)
      BY <2>1, <2>3, LenProperties
    <3> QED
      BY <3>1 DEF Range
  <2> HIDE DEF gone
  <2>6. outbox["batch"] = {}
    BY <1>1, <2>1
  <2>7. /\ held'["batch"] = held["batch"] \cup gone
        /\ outbox'["batch"] = {} /\ phase'["batch"] = "window"
        /\ \A w \in Workers \ {"batch"} :
              held'[w] = held[w] /\ outbox'[w] = outbox[w] /\ phase'[w] = phase[w]
    BY <2>1, <2>6 DEF TypeOK
  <2>8. Cardinality(held["batch"] \cup gone) <= BatchSize
    <3>1. Cardinality(held["batch"] \cup gone)
             = Cardinality(held["batch"]) + Cardinality(gone) - Cardinality(held["batch"] \cap gone)
      BY <2>1, <2>4, FS_Union
    <3>2. Cardinality(gone) \in Nat /\ Cardinality(held["batch"] \cap gone) \in Nat
      BY <2>1, <2>4, FS_Intersection, FS_CardinalityType
    <3> QED
      BY <2>1, <2>2, <2>4, <3>1, <3>2, BatchSizeAssumption
  <2>9. Good("batch")'
    BY <2>5, <2>7, <2>8 DEF Limit
  <2>10. \A w \in Workers \ {"batch"} : Good(w)'
    BY <1>1, <2>7
  <2> QED
    BY <2>9, <2>10 DEF WorkerLimits
<1>6. CASE BatchStart
  <2>1. /\ "batch" \in Workers /\ phase["batch"] = "window"
        /\ phase' = [phase EXCEPT !["batch"] = "exec"]
        /\ held' = held /\ outbox' = outbox
    BY <1>6 DEF BatchStart
  <2>2. \A w \in Workers : phase'[w] = IF w = "batch" THEN "exec" ELSE phase[w]
    BY <2>1 DEF TypeOK
  <2>3. \A w \in Workers : Good(w)'
    BY <1>1, <2>1, <2>2
  <2> QED
    BY <2>3 DEF WorkerLimits
<1>7. ASSUME NEW w \in Workers, NEW t \in Tasks, Finish(w, t)
      PROVE  WorkerLimits'
  <2>1. /\ t \in held[w] /\ phase[w] = "exec" /\ phase' = phase
        /\ \A v \in Workers : held'[v] = IF v = w THEN held[v] \ {t} ELSE held[v]
        /\ \A v \in Workers : outbox'[v] = IF v = w THEN outbox[v] \cup {t} ELSE outbox[v]
    BY <1>7 DEF Finish, TypeOK
  <2>2. \A v \in Workers : Busy(v)' = Busy(v)
    BY <2>1
  <2>3. \A v \in Workers : Good(v)'
    BY <1>1, <2>1, <2>2
  <2> QED
    BY <2>3 DEF WorkerLimits
<1>8. ASSUME NEW w \in Workers, NEW t \in Tasks, t \in outbox[w], LeaveOutbox(w, t), held' = held
      PROVE  WorkerLimits'
  <2>1. /\ \A v \in Workers : outbox'[v] = IF v = w THEN outbox[v] \ {t} ELSE outbox[v]
        /\ \A v \in Workers :
              phase'[v] = IF v = w /\ held[w] = {} /\ outbox[w] = {t} THEN "recv" ELSE phase[v]
        /\ \A v \in Workers : held'[v] = held[v]
    BY <1>8 DEF LeaveOutbox, TypeOK
  <2>2. phase[w] = "exec"
    BY <1>1, <1>8 DEF TypeOK
  <2>3. Cardinality(Busy(w)') <= Limit(w)
    <3>1. Busy(w)' \subseteq Busy(w)
      BY <2>1
    <3>2. Cardinality(Busy(w)') <= Cardinality(Busy(w)) /\ IsFiniteSet(Busy(w)')
      BY <1>2, <3>1, FS_Subset
    <3>3. Cardinality(Busy(w)) \in Nat /\ Cardinality(Busy(w)') \in Nat
      BY <1>2, <3>2, FS_CardinalityType
    <3> QED
      BY <1>1, <1>2, <3>2, <3>3
  <2>4. Good(w)'
    <3>1. CASE held[w] = {} /\ outbox[w] = {t}
      <4>1. Busy(w)' = {} /\ phase'[w] = "recv"
        BY <2>1, <3>1
      <4> QED
        BY <2>3, <4>1
    <3>2. CASE ~(held[w] = {} /\ outbox[w] = {t})
      <4>1. Busy(w)' # {} /\ phase'[w] = "exec"
        BY <1>8, <2>1, <2>2, <3>2
      <4> QED
        BY <2>3, <4>1
    <3> QED
      BY <3>1, <3>2
  <2>5. \A v \in Workers \ {w} : Good(v)'
    BY <1>1, <2>1
  <2> QED
    BY <2>4, <2>5 DEF WorkerLimits
<1>9. ASSUME NEW w \in Workers, NEW t \in Tasks, SendOutput(w, t) \/ SendOutputFails(w, t)
      PROVE  WorkerLimits'
  BY <1>8, <1>9 DEF SendOutput, SendOutputFails
<1>10. ASSUME NEW w \in Workers, Exit(w)
       PROVE  WorkerLimits'
  <2>1. /\ phase[w] = "recv" /\ held' = held /\ outbox' = outbox
        /\ \A v \in Workers : phase'[v] = IF v = w THEN "exited" ELSE phase[v]
    BY <1>10 DEF Exit, TypeOK
  <2>2. \A v \in Workers : Good(v)'
    BY <1>1, <2>1
  <2> QED
    BY <2>2 DEF WorkerLimits
<1>11. CASE NodeStep \/ Arrival \/ Cancel \/ UNCHANGED vars
  BY <1>3, <1>11
  DEF NodeStep, Arrival, Decline, TakeTask, SendTask, SendTaskFails, TakeResult, Publish,
      PublishFails, RunFails, PublishClosed, SeeCancelled, Close, Cancel, workerVars, vars
<1> QED
  BY <1>4, <1>5, <1>6, <1>7, <1>9, <1>10, <1>11 DEF Next, WorkerStep

\* The single worker holds at most one task and the batch worker at most
\* BatchSize, the panics of run_batch are unreachable, and no batch starts
\* while an output of the one before is unsent.
THEOREM WorkersWithinLimits == Spec => []WorkerLimits
<1> QED
  BY InitTypeOK, StepTypeOK, InitWorkerLimits, StepWorkerLimits, PTL DEF Spec

(***************************************************************************)
(* One place per task. OnePlace is inductive relative to TypeOK and        *)
(* WorkerLimits: a lemma per action says which places it changes and how.  *)
(***************************************************************************)

\* The places of a state whose channels and sets are all unchanged.
Unmoved == <<taken, inbox, hand, queue, held, outbox, publish, answers>>

\* A step that moves nothing keeps every task in one place.
LEMMA UnmovedOnePlace == OnePlace /\ UNCHANGED Unmoved => OnePlace'
  BY DEF Unmoved, OnePlace, NoRepeats, PlacesDisjoint, OnlyTaken, RightWorker,
         InFlight, InHand, InQueue, InWorker, InOutbox, InPublish, Answered

\* The node starts with no task in any place.
LEMMA InitOnePlace == Init => OnePlace
<1> SUFFICES ASSUME Init PROVE OnePlace
  OBVIOUS
<1>1. /\ Range(<<>>) = {} /\ IsInjective(<<>>)
  BY DEF Range, IsInjective
<1>2. /\ InHand = {} /\ InQueue = {} /\ InWorker = {} /\ InOutbox = {}
      /\ InPublish = {} /\ Answered = {}
  BY <1>1 DEF Init, InHand, InQueue, InWorker, InOutbox, InPublish, Answered
<1> QED
  BY <1>1, <1>2 DEF Init, OnePlace, NoRepeats, PlacesDisjoint, OnlyTaken, RightWorker, InFlight

\* A channel that loses its first n tasks.
LEMMA QueueShrinks ==
    ASSUME TypeOK, OnePlace, NEW w \in Workers,
           NEW gone, NEW rest \in Seq(Tasks),
           Range(queue[w]) = gone \cup Range(rest),
           gone \cap Range(rest) = {},
           IsInjective(rest),
           queue' = [queue EXCEPT ![w] = rest]
    PROVE  /\ InQueue = InQueue' \cup gone
           /\ InQueue' \cap gone = {}
           /\ \A v \in Workers : IsInjective(queue'[v])
           /\ \A v \in Workers : Range(queue'[v]) \subseteq Range(queue[v])
<1>1. queue \in [Workers -> Seq(Tasks)]
  BY DEF TypeOK
<1>2. \A v \in Workers : queue'[v] = IF v = w THEN rest ELSE queue[v]
  BY <1>1
<1>3. \A v \in Workers : Range(queue'[v]) \subseteq Range(queue[v])
  BY <1>2
<1>4. \A v \in Workers : IsInjective(queue'[v])
  BY <1>2 DEF OnePlace, NoRepeats
<1>5. InQueue = InQueue' \cup gone
  BY <1>2 DEF InQueue
<1>6. \A t \in gone : Kind[t] = w
  BY DEF OnePlace, RightWorker
<1>7. \A v \in Workers \ {w} : gone \cap Range(queue'[v]) = {}
  BY <1>2, <1>6 DEF OnePlace, RightWorker
<1>8. InQueue' \cap gone = {}
  BY <1>2, <1>7 DEF InQueue
<1> QED
  BY <1>3, <1>4, <1>5, <1>8

\* What each action that moves a task does to the places.
LEMMA TakeTaskMoves ==
    ASSUME TypeOK, OnePlace, NEW t \in Tasks, TakeTask(t)
    PROVE  /\ InHand = {} /\ InHand' = {t}
           /\ UNCHANGED <<InQueue, InWorker, InOutbox, InPublish, Answered>>
           /\ t \notin taken /\ t \notin InFlight \cup Answered
  BY TasksAssumption DEF TakeTask, workerVars, TypeOK, OnePlace, OnlyTaken, InFlight, InHand, InQueue,
     InWorker, InOutbox, InPublish, Answered

\* A task sent moves from the node's hand to its worker's channel.
LEMMA SendTaskMoves ==
    ASSUME TypeOK, OnePlace, SendTask
    PROVE  /\ hand \in Tasks /\ Kind[hand] \in Workers
           /\ InHand = {hand} /\ InHand' = {}
           /\ InQueue' = InQueue \cup {hand}
           /\ UNCHANGED <<InWorker, InOutbox, InPublish, Answered>>
           /\ \A v \in Workers :
                 Range(queue'[v]) = Range(queue[v]) \cup (IF v = Kind[hand] THEN {hand} ELSE {})
           /\ \A v \in Workers : IsInjective(queue'[v])
<1> DEFINE w == Kind[hand]
<1>1. hand \in Tasks /\ w \in Workers /\ InHand = {hand} /\ InHand' = {}
  BY KindAssumption, TasksAssumption DEF SendTask, TypeOK, InHand
<1>2. /\ queue \in [Workers -> Seq(Tasks)]
      /\ queue' = [queue EXCEPT ![w] = Append(@, hand)]
  BY DEF SendTask, TypeOK
<1>3. \A v \in Workers : queue'[v] = IF v = w THEN Append(queue[v], hand) ELSE queue[v]
  BY <1>2
<1> HIDE DEF w
<1>4. /\ Range(Append(queue[w], hand)) = Range(queue[w]) \cup {hand}
      /\ (IsInjective(queue[w]) /\ hand \notin Range(queue[w])) => IsInjective(Append(queue[w], hand))
  BY <1>1, <1>2, RangeAppend
<1>5. \A v \in Workers : Range(queue'[v]) = Range(queue[v]) \cup (IF v = w THEN {hand} ELSE {})
  BY <1>3, <1>4
<1>6. InQueue' = InQueue \cup {hand}
  BY <1>1, <1>5 DEF InQueue
<1>7. UNCHANGED <<InWorker, InOutbox, InPublish, Answered>>
  BY DEF SendTask, workerVars, InWorker, InOutbox, InPublish, Answered
<1>8. hand \notin Range(queue[w])
  BY <1>1 DEF OnePlace, PlacesDisjoint, InQueue
<1>9. \A v \in Workers : IsInjective(queue'[v])
  BY <1>3, <1>4, <1>8 DEF OnePlace, NoRepeats
<1> QED
  BY <1>1, <1>5, <1>6, <1>7, <1>9 DEF w

\* A result taken moves from the publish channel to the node's hand.
LEMMA TakeResultMoves ==
    ASSUME TypeOK, OnePlace, TakeResult
    PROVE  /\ hand' \in Tasks /\ hand' = Head(publish)
           /\ InHand = {} /\ InHand' = {hand'}
           /\ InPublish = InPublish' \cup {hand'} /\ hand' \notin InPublish'
           /\ UNCHANGED <<InQueue, InWorker, InOutbox, Answered>>
           /\ IsInjective(publish')
<1>1. /\ publish \in Seq(Tasks) /\ publish # <<>> /\ Head(publish) \in Tasks
      /\ publish' = Tail(publish) /\ hand' = Head(publish)
      /\ InHand = {}
  BY HeadTailProperties DEF TakeResult, TypeOK, InHand
<1>2. /\ Range(publish) = Range(Tail(publish)) \cup {Head(publish)}
      /\ IsInjective(Tail(publish))
      /\ Head(publish) \notin Range(Tail(publish))
  BY <1>1, RangeTail DEF OnePlace, NoRepeats
<1>3. /\ InHand' = {hand'} /\ InPublish = InPublish' \cup {hand'} /\ hand' \notin InPublish'
  BY <1>1, <1>2, TasksAssumption DEF InHand, InPublish
<1>4. UNCHANGED <<InQueue, InWorker, InOutbox, Answered>>
  BY DEF TakeResult, workerVars, InQueue, InWorker, InOutbox, Answered
<1> QED
  BY <1>1, <1>2, <1>3, <1>4

\* A result published moves from the node's hand to the answers.
LEMMA PublishMoves ==
    ASSUME TypeOK, OnePlace, Publish
    PROVE  /\ hand \in Tasks /\ InHand = {hand} /\ InHand' = {}
           /\ Answered' = Answered \cup {hand}
           /\ UNCHANGED <<InQueue, InWorker, InOutbox, InPublish>>
           /\ IsInjective(answers')
<1>1. hand \in Tasks /\ InHand = {hand} /\ InHand' = {} /\ answers \in Seq(Tasks)
  BY TasksAssumption DEF Publish, TypeOK, InHand
<1>2. /\ Range(Append(answers, hand)) = Range(answers) \cup {hand}
      /\ (IsInjective(answers) /\ hand \notin Range(answers)) => IsInjective(Append(answers, hand))
  BY <1>1, RangeAppend
<1>3. hand \notin Range(answers)
  BY <1>1 DEF Answered, OnePlace, PlacesDisjoint
<1>4. Answered' = Answered \cup {hand} /\ IsInjective(answers')
  BY <1>2, <1>3 DEF Publish, Answered, OnePlace, NoRepeats
<1>5. UNCHANGED <<InQueue, InWorker, InOutbox, InPublish>>
  BY DEF Publish, workerVars, InQueue, InWorker, InOutbox, InPublish
<1> QED
  BY <1>1, <1>4, <1>5

\* A failed send, or a failed run of the node, loses what is in its hand.
LEMMA HandEmptied ==
    ASSUME TypeOK, SendTaskFails \/ RunFails
    PROVE  /\ hand \in Tasks /\ InHand = {hand} /\ InHand' = {}
           /\ UNCHANGED <<InQueue, InWorker, InOutbox, InPublish, Answered>>
  BY TasksAssumption DEF TypeOK, SendTaskFails, RunFails, workerVars, InHand, InQueue, InWorker,
     InOutbox, InPublish, Answered

\* The node that closes its receiver loses the results in the publish channel.
LEMMA CloseMoves ==
    ASSUME Close
    PROVE  /\ InPublish' = {} /\ IsInjective(publish')
           /\ UNCHANGED <<InHand, InQueue, InWorker, InOutbox, Answered>>
<1>1. Range(<<>>) = {} /\ IsInjective(<<>>)
  BY DEF Range, IsInjective
<1> QED
  BY <1>1 DEF Close, workerVars, InHand, InQueue, InWorker, InOutbox, InPublish, Answered

\* Both ways to take work from a channel: the same tasks leave the one place
\* and enter the other.
LEMMA SeriesRecvMoves ==
    ASSUME TypeOK, OnePlace, WorkerLimits, SeriesRecv
    PROVE  /\ InQueue \cup InWorker = InQueue' \cup InWorker'
           /\ InQueue' \cap InWorker' = {}
           /\ UNCHANGED <<InHand, InOutbox, InPublish, Answered>>
           /\ \A v \in Workers : IsInjective(queue'[v])
           /\ RightWorker'
<1> DEFINE t == Head(queue["single"])
           rest == Tail(queue["single"])
<1>1. /\ "single" \in Workers /\ queue["single"] \in Seq(Tasks) /\ queue["single"] # <<>>
      /\ t \in Tasks /\ rest \in Seq(Tasks)
      /\ queue' = [queue EXCEPT !["single"] = rest]
      /\ held["single"] = {}
      /\ held' = [held EXCEPT !["single"] = {t}]
      /\ outbox' = outbox
  BY HeadTailProperties DEF SeriesRecv, TypeOK, WorkerLimits
<1>2. /\ Range(queue["single"]) = {t} \cup Range(rest)
      /\ {t} \cap Range(rest) = {}
      /\ IsInjective(rest)
  BY <1>1, RangeTail DEF OnePlace, NoRepeats
<1> HIDE DEF t, rest
<1>3. /\ InQueue = InQueue' \cup {t} /\ InQueue' \cap {t} = {}
      /\ \A v \in Workers : IsInjective(queue'[v])
      /\ \A v \in Workers : Range(queue'[v]) \subseteq Range(queue[v])
  BY <1>1, <1>2, QueueShrinks
<1>4. \A v \in Workers : held'[v] = held[v] \cup (IF v = "single" THEN {t} ELSE {})
  BY <1>1 DEF TypeOK
<1>5. InWorker' = InWorker \cup {t}
  BY <1>1, <1>4 DEF InWorker
<1>6. UNCHANGED <<InHand, InOutbox, InPublish, Answered>>
  BY DEF SeriesRecv, nodeVars, InHand, InOutbox, InPublish, Answered
<1>7. RightWorker'
  <2>1. Kind[t] = "single"
    BY <1>1, <1>2 DEF OnePlace, RightWorker
  <2> QED
    BY <1>1, <1>3, <1>4, <2>1 DEF OnePlace, RightWorker
<1>8. InQueue' \cap InWorker' = {}
  BY <1>3, <1>5 DEF OnePlace, PlacesDisjoint
<1> QED
  BY <1>3, <1>5, <1>6, <1>7, <1>8

\* What the batch worker receives moves from its channel to its batch.
LEMMA BatchRecvMoves ==
    ASSUME TypeOK, OnePlace, BatchRecv
    PROVE  /\ InQueue \cup InWorker = InQueue' \cup InWorker'
           /\ InQueue' \cap InWorker' = {}
           /\ UNCHANGED <<InHand, InOutbox, InPublish, Answered>>
           /\ \A v \in Workers : IsInjective(queue'[v])
           /\ RightWorker'
<1> DEFINE q == queue["batch"]
           n == Min({BatchLimit, Len(q)})
           gone == Range(SubSeq(q, 1, n))
           rest == SubSeq(q, n + 1, Len(q))
<1>1. /\ "batch" \in Workers /\ n \in 0 .. Len(q) /\ q \in Seq(Tasks)
      /\ queue' = [queue EXCEPT !["batch"] = rest]
      /\ held' = [held EXCEPT !["batch"] = @ \cup gone]
      /\ outbox' = outbox
  BY BatchCount DEF BatchRecv, TypeOK
<1> HIDE DEF n
<1>2. /\ rest \in Seq(Tasks)
      /\ Range(queue["batch"]) = gone \cup Range(rest)
      /\ gone \cap Range(rest) = {}
      /\ IsInjective(rest)
  BY <1>1, RangeSplit DEF OnePlace, NoRepeats
<1> HIDE DEF gone, rest
<1>3. /\ InQueue = InQueue' \cup gone /\ InQueue' \cap gone = {}
      /\ \A v \in Workers : IsInjective(queue'[v])
      /\ \A v \in Workers : Range(queue'[v]) \subseteq Range(queue[v])
  BY <1>1, <1>2, QueueShrinks
<1>4. \A v \in Workers : held'[v] = held[v] \cup (IF v = "batch" THEN gone ELSE {})
  BY <1>1 DEF TypeOK
<1>5. InWorker' = InWorker \cup gone
  BY <1>1, <1>4 DEF InWorker
<1>6. UNCHANGED <<InHand, InOutbox, InPublish, Answered>>
  BY DEF BatchRecv, nodeVars, InHand, InOutbox, InPublish, Answered
<1>7. RightWorker'
  <2>1. \A t \in gone : Kind[t] = "batch"
    BY <1>1, <1>2 DEF OnePlace, RightWorker
  <2> QED
    BY <1>1, <1>3, <1>4, <2>1 DEF OnePlace, RightWorker
<1>8. InQueue' \cap InWorker' = {}
  BY <1>3, <1>5 DEF OnePlace, PlacesDisjoint
<1> QED
  BY <1>3, <1>5, <1>6, <1>7, <1>8

\* A task that a worker is done with moves to the outputs it has to send.
LEMMA FinishMoves ==
    ASSUME TypeOK, OnePlace, NEW w \in Workers, NEW t \in Tasks, Finish(w, t)
    PROVE  /\ t \in InWorker
           /\ InWorker' = InWorker \ {t}
           /\ InOutbox' = InOutbox \cup {t}
           /\ UNCHANGED <<InHand, InQueue, InPublish, Answered>>
           /\ RightWorker'
<1>1. /\ t \in held[w] /\ queue' = queue
      /\ \A v \in Workers : held'[v] = IF v = w THEN held[v] \ {t} ELSE held[v]
      /\ \A v \in Workers : outbox'[v] = IF v = w THEN outbox[v] \cup {t} ELSE outbox[v]
  BY DEF Finish, TypeOK
<1>2. Kind[t] = w /\ t \in InWorker
  BY <1>1 DEF OnePlace, RightWorker, InWorker
<1>3. \A v \in Workers \ {w} : t \notin held[v]
  BY <1>2 DEF OnePlace, RightWorker
<1>4. InWorker' = InWorker \ {t}
  <2>1. \A v \in Workers : held'[v] = held[v] \ {t}
    BY <1>1, <1>3
  <2> QED
    BY <2>1 DEF InWorker
<1>5. InOutbox' = InOutbox \cup {t}
  BY <1>1, ZenonT(40) DEF InOutbox
<1>6. UNCHANGED <<InHand, InQueue, InPublish, Answered>>
  BY DEF Finish, nodeVars, InHand, InQueue, InPublish, Answered
<1>7. RightWorker'
  <2>1. \A v \in Workers : held'[v] \subseteq held[v]
    BY <1>1
  <2>2. \A v \in Workers : \A u \in outbox'[v] : u \in outbox[v] \/ (v = w /\ u = t)
    BY <1>1
  <2> QED
    BY <1>1, <1>2, <2>1, <2>2 DEF OnePlace, RightWorker
<1> QED
  BY <1>2, <1>4, <1>5, <1>6, <1>7

\* An output that leaves a worker leaves it once.
LEMMA OutboxShrinks ==
    ASSUME TypeOK, OnePlace, NEW w \in Workers, NEW t \in Tasks, t \in outbox[w], LeaveOutbox(w, t)
    PROVE  /\ InOutbox = InOutbox' \cup {t} /\ t \notin InOutbox'
           /\ \A v \in Workers : outbox'[v] \subseteq outbox[v]
<1>1. \A v \in Workers : outbox'[v] = IF v = w THEN outbox[v] \ {t} ELSE outbox[v]
  BY DEF LeaveOutbox, TypeOK
<1>2. \A v \in Workers \ {w} : t \notin outbox[v]
  BY DEF OnePlace, RightWorker
<1> QED
  BY <1>1, <1>2 DEF InOutbox

\* An output sent moves to the publish channel.
LEMMA SendOutputMoves ==
    ASSUME TypeOK, OnePlace, NEW w \in Workers, NEW t \in Tasks, SendOutput(w, t)
    PROVE  /\ InOutbox = InOutbox' \cup {t} /\ t \notin InOutbox'
           /\ InPublish' = InPublish \cup {t}
           /\ UNCHANGED <<InHand, InQueue, InWorker, Answered>>
           /\ IsInjective(publish') /\ RightWorker'
<1>1. /\ InOutbox = InOutbox' \cup {t} /\ t \notin InOutbox'
      /\ \A v \in Workers : outbox'[v] \subseteq outbox[v]
  BY OutboxShrinks DEF SendOutput
<1>2. publish \in Seq(Tasks) /\ publish' = Append(publish, t) /\ t \notin Range(publish)
  BY <1>1 DEF SendOutput, TypeOK, OnePlace, PlacesDisjoint, InPublish
<1>3. Range(publish') = Range(publish) \cup {t} /\ IsInjective(publish')
  BY <1>2, RangeAppend DEF OnePlace, NoRepeats
<1>4. InPublish' = InPublish \cup {t}
  BY <1>3 DEF InPublish
<1>5. UNCHANGED <<InHand, InQueue, InWorker, Answered>>
  BY DEF SendOutput, nodeVars, InHand, InQueue, InWorker, Answered
<1>6. RightWorker'
  BY <1>1 DEF SendOutput, OnePlace, RightWorker
<1> QED
  BY <1>1, <1>3, <1>4, <1>5, <1>6

\* An output that cannot be sent is lost.
LEMMA SendOutputFailsMoves ==
    ASSUME TypeOK, OnePlace, NEW w \in Workers, NEW t \in Tasks, SendOutputFails(w, t)
    PROVE  /\ InOutbox = InOutbox' \cup {t} /\ t \notin InOutbox'
           /\ UNCHANGED <<InHand, InQueue, InWorker, InPublish, Answered>>
           /\ RightWorker'
<1>1. /\ InOutbox = InOutbox' \cup {t} /\ t \notin InOutbox'
      /\ \A v \in Workers : outbox'[v] \subseteq outbox[v]
  BY OutboxShrinks DEF SendOutputFails
<1>2. UNCHANGED <<InHand, InQueue, InWorker, InPublish, Answered>>
  BY DEF SendOutputFails, nodeVars, InHand, InQueue, InWorker, InPublish, Answered
<1>3. RightWorker'
  BY <1>1 DEF SendOutputFails, OnePlace, RightWorker
<1> QED
  BY <1>1, <1>2, <1>3

\* A worker that ends loses what is in its channel.
LEMMA ExitMoves ==
    ASSUME TypeOK, OnePlace, NEW w \in Workers, Exit(w)
    PROVE  /\ InQueue = InQueue' \cup Range(queue[w])
           /\ UNCHANGED <<InHand, InWorker, InOutbox, InPublish, Answered>>
           /\ \A v \in Workers : IsInjective(queue'[v])
           /\ RightWorker'
<1>1. Range(<<>>) = {} /\ IsInjective(<<>>)
  BY DEF Range, IsInjective
<1>2. <<>> \in Seq(Tasks) /\ queue' = [queue EXCEPT ![w] = <<>>]
  BY EmptySeq DEF Exit
<1>3. /\ InQueue = InQueue' \cup Range(queue[w])
      /\ \A v \in Workers : IsInjective(queue'[v])
      /\ \A v \in Workers : Range(queue'[v]) \subseteq Range(queue[v])
  BY <1>1, <1>2, QueueShrinks, ZenonT(40)
<1>4. UNCHANGED <<InHand, InWorker, InOutbox, InPublish, Answered>>
  BY DEF Exit, nodeVars, InHand, InWorker, InOutbox, InPublish, Answered
<1>5. RightWorker'
  BY <1>3 DEF Exit, OnePlace, RightWorker
<1> QED
  BY <1>3, <1>4, <1>5

\* Every step keeps every task in at most one place.
LEMMA StepOnePlace == TypeOK /\ OnePlace /\ WorkerLimits /\ [Next]_vars => OnePlace'
<1> SUFFICES ASSUME TypeOK, OnePlace, WorkerLimits, [Next]_vars
             PROVE  OnePlace'
  OBVIOUS
<1> USE DEF OnePlace, PlacesDisjoint, OnlyTaken, InFlight
<1>1. ASSUME NEW t \in Tasks, Decline(t)
      PROVE  OnePlace'
  BY <1>1 DEF Decline, workerVars, NoRepeats, RightWorker, InHand, InQueue, InWorker, InOutbox,
     InPublish, Answered
<1>2. ASSUME NEW t \in Tasks, TakeTask(t)
      PROVE  OnePlace'
  <2>1. taken' = taken \cup {t} /\ inbox' = inbox \ {t}
    BY <1>2 DEF TakeTask
  <2>2. NoRepeats' /\ RightWorker'
    BY <1>2 DEF TakeTask, workerVars, NoRepeats, RightWorker
  <2> QED
    BY <1>2, <2>1, <2>2, TakeTaskMoves
<1>3. CASE SendTask
  <2>1. NoRepeats' /\ taken' = taken /\ inbox' = inbox
    BY <1>3, SendTaskMoves DEF SendTask, NoRepeats
  <2>2. RightWorker'
    <3>1. held' = held /\ outbox' = outbox
      BY <1>3 DEF SendTask, workerVars
    <3>2. \A v \in Workers : \A t \in Range(queue'[v]) :
             t \in Range(queue[v]) \/ (v = Kind[hand] /\ t = hand)
      BY <1>3, SendTaskMoves
    <3> QED
      BY <3>1, <3>2 DEF RightWorker
  <2> QED
    BY <1>3, <2>1, <2>2, SendTaskMoves
<1>4. CASE SendTaskFails \/ RunFails
  <2>1. NoRepeats' /\ RightWorker' /\ taken' = taken /\ inbox' = inbox
    BY <1>4 DEF SendTaskFails, RunFails, workerVars, NoRepeats, RightWorker
  <2> QED
    BY <1>4, <2>1, HandEmptied
<1>5. CASE TakeResult
  <2>1. NoRepeats' /\ RightWorker' /\ taken' = taken /\ inbox' = inbox
    BY <1>5, TakeResultMoves DEF TakeResult, workerVars, NoRepeats, RightWorker
  <2> QED
    BY <1>5, <2>1, TakeResultMoves
<1>6. CASE Publish
  <2>1. NoRepeats' /\ RightWorker' /\ taken' = taken /\ inbox' = inbox
    BY <1>6, PublishMoves DEF Publish, workerVars, NoRepeats, RightWorker
  <2> QED
    BY <1>6, <2>1, PublishMoves
<1>7. CASE PublishFails \/ PublishClosed \/ SeeCancelled \/ BatchStart \/ Cancel
  BY <1>7, UnmovedOnePlace
  DEF PublishFails, PublishClosed, SeeCancelled, BatchStart, Cancel, nodeVars, workerVars, Unmoved
<1>8. CASE Close
  <2>1. NoRepeats' /\ RightWorker' /\ taken' = taken /\ inbox' = inbox
    BY <1>8, CloseMoves DEF Close, workerVars, NoRepeats, RightWorker
  <2> QED
    BY <1>8, <2>1, CloseMoves
<1>9. CASE SeriesRecv
  <2>1. NoRepeats' /\ taken' = taken /\ inbox' = inbox
    BY <1>9, SeriesRecvMoves DEF SeriesRecv, nodeVars, NoRepeats
  <2> QED
    BY <1>9, <2>1, SeriesRecvMoves
<1>10. CASE BatchRecv
  <2>1. NoRepeats' /\ taken' = taken /\ inbox' = inbox
    BY <1>10, BatchRecvMoves DEF BatchRecv, nodeVars, NoRepeats
  <2> QED
    BY <1>10, <2>1, BatchRecvMoves
<1>11. ASSUME NEW w \in Workers, NEW t \in Tasks, Finish(w, t)
       PROVE  OnePlace'
  <2>1. NoRepeats' /\ taken' = taken /\ inbox' = inbox
    BY <1>11 DEF Finish, nodeVars, NoRepeats
  <2> QED
    BY <1>11, <2>1, FinishMoves
<1>12. ASSUME NEW w \in Workers, NEW t \in Tasks, SendOutput(w, t)
       PROVE  OnePlace'
  <2>1. NoRepeats' /\ taken' = taken /\ inbox' = inbox
    BY <1>12, SendOutputMoves DEF SendOutput, nodeVars, NoRepeats
  <2> QED
    BY <1>12, <2>1, SendOutputMoves
<1>13. ASSUME NEW w \in Workers, NEW t \in Tasks, SendOutputFails(w, t)
       PROVE  OnePlace'
  <2>1. NoRepeats' /\ taken' = taken /\ inbox' = inbox
    BY <1>13 DEF SendOutputFails, nodeVars, NoRepeats
  <2> QED
    BY <1>13, <2>1, SendOutputFailsMoves
<1>14. ASSUME NEW w \in Workers, Exit(w)
       PROVE  OnePlace'
  <2>1. NoRepeats' /\ taken' = taken /\ inbox' = inbox
    BY <1>14, ExitMoves DEF Exit, nodeVars, NoRepeats
  <2> QED
    BY <1>14, <2>1, ExitMoves
<1>15. CASE UNCHANGED vars
  BY <1>15, UnmovedOnePlace DEF vars, workerVars, Unmoved
<1> QED
  BY <1>1, <1>2, <1>3, <1>4, <1>5, <1>6, <1>7, <1>8, <1>9, <1>10, <1>11, <1>12,
     <1>13, <1>14, <1>15
  DEF Next, NodeStep, WorkerStep, Arrival

\* No task is ever in two places or twice in one: it is executed at most once,
\* by the worker of its kind, and answered at most once.
THEOREM OnePlacePerTask == Spec => []OnePlace
<1> QED
  BY TypeCorrect, WorkersWithinLimits, InitOnePlace, StepOnePlace, PTL DEF Spec

\* A worker of a node with a positive batch size returns only when the node
\* dropped its channel, with nothing left in it or in hand.
THEOREM WorkersEndWithChannel ==
    ASSUME BatchSize > 0
    PROVE  Spec => WorkerEndsWithChannel
<1>1. ASSUME TypeOK, WorkerLimits, [Next]_vars
      PROVE  [\A w \in Workers : (phase[w] # "exited" /\ phase'[w] = "exited") =>
                pc = "stopped" /\ queue[w] = <<>> /\ held[w] \cup outbox[w] = {}]_vars
  <2> SUFFICES ASSUME NEW w \in Workers, phase[w] # "exited", phase'[w] = "exited"
               PROVE  pc = "stopped" /\ queue[w] = <<>> /\ held[w] \cup outbox[w] = {}
    OBVIOUS
  <2>1. Exit(w)
    BY <1>1
    DEF Next, WorkerStep, NodeStep, Arrival, Decline, TakeTask, SendTask, SendTaskFails, TakeResult,
        Publish, PublishFails, RunFails, PublishClosed, SeeCancelled, Close, Cancel, SeriesRecv,
        BatchRecv, BatchStart, Finish, SendOutput, SendOutputFails, LeaveOutbox, Exit, workerVars,
        vars, TypeOK
  <2>2. phase[w] = "recv" /\ held[w] \cup outbox[w] = {}
    BY <1>1, <2>1 DEF Exit, WorkerLimits
  <2>3. ~(w = "batch" /\ BatchLimit = 0)
    <3>1. w = "batch" => Cardinality(held["batch"]) = 0
      BY <2>2, FS_EmptySet
    <3> QED
      BY <3>1, BatchSizeAssumption DEF BatchLimit
  <2> QED
    BY <2>1, <2>2, <2>3 DEF Exit
<1> QED
  BY <1>1, TypeCorrect, WorkersWithinLimits, PTL DEF Spec, WorkerEndsWithChannel

(***************************************************************************)
(* TaskPipeline implements TaskLedger.                                     *)
(***************************************************************************)

\* With a positive batch size no worker ends before the node.
WorkersOutliveNode == \A w \in Workers : phase[w] = "exited" => pc = "stopped"

\* A worker ends only when its channel is closed and empty.
LEMMA ExitOnlyWhenStopped ==
    ASSUME BatchSize > 0, WorkerLimits, NEW w \in Workers, Exit(w)
    PROVE  pc = "stopped" /\ queue[w] = <<>>
<1>1. phase[w] = "recv" /\ held[w] \cup outbox[w] = {}
  BY DEF Exit, WorkerLimits
<1>2. ~(w = "batch" /\ BatchLimit = 0)
  <2>1. w = "batch" => Cardinality(held["batch"]) = 0
    BY <1>1, FS_EmptySet
  <2> QED
    BY <2>1, BatchSizeAssumption DEF BatchLimit
<1> QED
  BY <1>2 DEF Exit

\* The node holds the only sender of a worker's channel, so with a positive batch
\* size no worker ends before the node does (node.rs:50-52, workflow.rs:76-85,
\* 115-117).
THEOREM NodeEndsFirst ==
    ASSUME BatchSize > 0
    PROVE  Spec => []WorkersOutliveNode
<1>1. Init => WorkersOutliveNode
  BY DEF Init, WorkersOutliveNode
<1>2. TypeOK /\ WorkerLimits /\ WorkersOutliveNode /\ [Next]_vars => WorkersOutliveNode'
  <2> SUFFICES ASSUME TypeOK, WorkerLimits, WorkersOutliveNode, [Next]_vars,
                      NEW w \in Workers, phase'[w] = "exited"
               PROVE  pc' = "stopped"
    BY DEF WorkersOutliveNode
  <2>1. CASE phase[w] # "exited"
    <3>1. Exit(w)
      BY <2>1
      DEF Next, WorkerStep, NodeStep, Arrival, Decline, TakeTask, SendTask, SendTaskFails, TakeResult,
          Publish, PublishFails, RunFails, PublishClosed, SeeCancelled, Close, Cancel, SeriesRecv,
          BatchRecv, BatchStart, Finish, SendOutput, SendOutputFails, LeaveOutbox, Exit, workerVars,
          vars, TypeOK
    <3> QED
      BY <3>1, ExitOnlyWhenStopped DEF Exit, nodeVars
  <2>2. CASE phase[w] = "exited"
    <3>1. pc = "stopped"
      BY <2>2 DEF WorkersOutliveNode
    <3> QED
      BY <3>1
      DEF Next, WorkerStep, NodeStep, Arrival, Decline, TakeTask, SendTask, SendTaskFails, TakeResult,
          Publish, PublishFails, RunFails, PublishClosed, SeeCancelled, Close, Cancel, SeriesRecv,
          BatchRecv, BatchStart, Finish, SendOutput, SendOutputFails, Exit, nodeVars, vars
  <2> QED
    BY <2>1, <2>2
<1> QED
  BY <1>1, <1>2, TypeCorrect, WorkersWithinLimits, PTL DEF Spec

\* The fate of each delivery follows from four sets.
LEMMA FateUnchanged ==
    ASSUME UNCHANGED <<inbox, taken>>, InFlight' = InFlight, Answered' = Answered
    PROVE  FateMap' = FateMap
  BY DEF FateMap, Fate

\* The fate of a task that has a place is told by its place.
LEMMA FateOf ==
    ASSUME OnePlace, NEW t \in Tasks
    PROVE  /\ t \in inbox    <=> Fate(t) = "new"
           /\ t \in Answered <=> Fate(t) = "answered"
           /\ t \in InFlight <=> Fate(t) = "held"
  BY DEF Fate, OnePlace, OnlyTaken, PlacesDisjoint, InFlight

\* Deliveries that leave the node's places without an answer.
LEMMA FateDropped ==
    ASSUME OnePlace, UNCHANGED <<inbox, taken>>, Answered' = Answered,
           NEW S, S \subseteq InFlight, InFlight' = InFlight \ S
    PROVE  FateMap' = [t \in Tasks |-> IF t \in S THEN "lost" ELSE FateMap[t]]
<1>1. ASSUME NEW t \in Tasks
      PROVE  Fate(t)' = IF t \in S THEN "lost" ELSE Fate(t)
  BY <1>1 DEF Fate, OnePlace, OnlyTaken, PlacesDisjoint, InFlight
<1> QED
  BY <1>1 DEF FateMap

\* Every step of the pipeline is a step of the ledger, or changes nothing of it.
LEMMA StepLedger ==
    ASSUME BatchSize > 0, TypeOK, WorkerLimits, OnePlace, OnePlace', WorkersOutliveNode, [Next]_vars
    PROVE  [Ledger!Next]_<<FateMap, Running>>
<1>1. ASSUME NEW t \in Tasks, Decline(t)
      PROVE  Ledger!Decline(t)
  <2>1. /\ t \in inbox /\ inbox' = inbox \ {t} /\ taken' = taken
        /\ Running /\ Running'
        /\ InFlight' = InFlight /\ Answered' = Answered
    BY <1>1 DEF Decline, workerVars, Running, InFlight, InHand, InQueue, InWorker, InOutbox,
       InPublish, Answered
  <2>2. Fate(t) = "new" /\ Fate(t)' = "declined"
    BY <2>1, FateOf DEF Fate, OnePlace, OnlyTaken
  <2>3. \A u \in Tasks \ {t} : Fate(u)' = Fate(u)
    BY <2>1 DEF Fate
  <2>4. FateMap' = [FateMap EXCEPT ![t] = "declined"]
    BY <2>2, <2>3 DEF FateMap
  <2> QED
    BY <2>1, <2>2, <2>4 DEF Ledger!Decline, Ledger!Move, FateMap
<1>2. ASSUME NEW t \in Tasks, TakeTask(t)
      PROVE  Ledger!Hold(t)
  <2>1. /\ t \in inbox /\ inbox' = inbox \ {t} /\ taken' = taken \cup {t}
        /\ Running /\ Running'
    BY <1>2 DEF TakeTask, Running
  <2>2. InFlight' = InFlight \cup {t} /\ Answered' = Answered /\ t \notin Answered
    BY <1>2, TakeTaskMoves DEF InFlight
  <2>3. Fate(t) = "new" /\ Fate(t)' = "held"
    BY <2>1, <2>2, FateOf DEF Fate
  <2>4. \A u \in Tasks \ {t} : Fate(u)' = Fate(u)
    BY <2>1, <2>2 DEF Fate
  <2>5. FateMap' = [FateMap EXCEPT ![t] = "held"]
    BY <2>3, <2>4 DEF FateMap
  <2> QED
    BY <2>1, <2>3, <2>5 DEF Ledger!Hold, Ledger!Move, FateMap
<1>3. ASSUME InFlight' = InFlight, Answered' = Answered,
             UNCHANGED <<inbox, taken>>, Running' = Running
      PROVE  UNCHANGED <<FateMap, Running>>
  BY <1>3, FateUnchanged
<1>4. CASE SendTask
  <2>1. InFlight' = InFlight /\ Answered' = Answered
    BY <1>4, SendTaskMoves DEF InFlight
  <2> QED
    BY <1>3, <1>4, <2>1 DEF SendTask, Running
<1>5. CASE SendTaskFails
  <2>1. pc = "sending" /\ Kind[hand] \in Workers /\ phase[Kind[hand]] = "exited"
    BY <1>5, HandEmptied, KindAssumption DEF SendTaskFails
  <2> QED
    BY <2>1 DEF WorkersOutliveNode
<1>6. CASE TakeResult
  <2>1. InFlight' = InFlight /\ Answered' = Answered
    BY <1>6, TakeResultMoves DEF InFlight
  <2> QED
    BY <1>3, <1>6, <2>1 DEF TakeResult, Running
<1>7. CASE Publish
  <2>1. /\ hand \in InFlight /\ InFlight' = InFlight \ {hand} /\ Answered' = Answered \cup {hand}
        /\ hand \in Tasks
    BY <1>7, PublishMoves DEF InFlight, OnePlace, PlacesDisjoint
  <2>2. UNCHANGED <<inbox, taken>> /\ Running /\ Running'
    BY <1>7 DEF Publish, Running
  <2>3. Fate(hand) = "held" /\ hand \notin inbox
    BY <2>1, FateOf DEF OnePlace, OnlyTaken
  <2>4. \A u \in Tasks : Fate(u)' = IF u = hand THEN "answered" ELSE Fate(u)
    BY <2>1, <2>2, <2>3 DEF Fate
  <2>5. FateMap' = [FateMap EXCEPT ![hand] = "answered"]
    BY <2>4 DEF FateMap
  <2>6. Ledger!Answer(hand)
    BY <2>1, <2>2, <2>3, <2>5 DEF Ledger!Answer, Ledger!Move, FateMap
  <2> QED
    BY <2>1, <2>6 DEF Ledger!Next
<1>8. CASE RunFails
  <2>1. /\ hand \in InFlight /\ InFlight' = InFlight \ {hand} /\ Answered' = Answered
        /\ hand \in Tasks
    BY <1>8, HandEmptied DEF InFlight, OnePlace, PlacesDisjoint
  <2>2. UNCHANGED <<inbox, taken>> /\ Running /\ ~Running'
    BY <1>8 DEF RunFails, Running
  <2>3. FateMap' = [t \in Tasks |-> IF t \in {hand} THEN "lost" ELSE FateMap[t]]
    BY <2>1, <2>2, FateDropped
  <2>4. FateMap' = [FateMap EXCEPT ![hand] = "lost"]
    BY <2>3 DEF FateMap
  <2>5. FateMap[hand] = "held"
    BY <2>1, FateOf DEF FateMap
  <2>6. Ledger!Stop
    BY <2>1, <2>2, <2>4, <2>5 DEF Ledger!Stop, Ledger!Move, Running
  <2> QED
    BY <2>6 DEF Ledger!Next
<1>9. ASSUME PublishFails \/ BatchStart \/ Cancel \/ UNCHANGED vars
      PROVE  UNCHANGED <<FateMap, Running>>
  <2>1. /\ InFlight' = InFlight /\ Answered' = Answered
        /\ UNCHANGED <<inbox, taken>> /\ Running' = Running
    BY <1>9
    DEF PublishFails, BatchStart, Cancel, nodeVars, workerVars, vars, Running, InFlight, InHand, InQueue,
        InWorker, InOutbox, InPublish, Answered
  <2> QED
    BY <1>3, <2>1
<1>10. CASE PublishClosed \/ SeeCancelled
  <2>1. /\ InFlight' = InFlight /\ Answered' = Answered
        /\ UNCHANGED <<inbox, taken>> /\ Running /\ ~Running'
    BY <1>10
    DEF PublishClosed, SeeCancelled, workerVars, Running, InFlight, InHand, InQueue, InWorker, InOutbox,
        InPublish, Answered
  <2>2. FateMap' = FateMap
    BY <2>1, FateUnchanged
  <2>3. Ledger!Stop
    BY <2>1, <2>2 DEF Ledger!Stop
  <2> QED
    BY <2>3 DEF Ledger!Next
<1>11. ASSUME ~Running, ~Running', UNCHANGED <<inbox, taken>>, Answered' = Answered,
              NEW S \in SUBSET Tasks, S \subseteq InFlight, InFlight' = InFlight \ S
       PROVE  Ledger!Next
  <2>1. FateMap' = [t \in Tasks |-> IF t \in S THEN "lost" ELSE FateMap[t]]
    BY <1>11, FateDropped
  <2>2. \A t \in S : FateMap[t] = "held"
    BY <1>11, FateOf DEF FateMap
  <2>3. Ledger!Drop(S)
    BY <1>11, <2>1, <2>2 DEF Ledger!Drop, Running
  <2> QED
    BY <2>3 DEF Ledger!Next
<1>12. CASE Close
  <2>1. /\ UNCHANGED <<inbox, taken>> /\ ~Running /\ ~Running'
    BY <1>12 DEF Close, Running
  <2>2. /\ InFlight' = InFlight \ InPublish /\ Answered' = Answered
        /\ InPublish \subseteq InFlight
    BY <1>12, CloseMoves DEF InFlight, OnePlace, PlacesDisjoint
  <2>3. InPublish \subseteq Tasks
    BY RangeOfSeq DEF InPublish, TypeOK
  <2> QED
    BY <1>11, <2>1, <2>2, <2>3
<1>13. CASE SeriesRecv
  <2>1. InFlight' = InFlight /\ Answered' = Answered
    BY <1>13, SeriesRecvMoves DEF InFlight
  <2> QED
    BY <1>3, <1>13, <2>1 DEF SeriesRecv, nodeVars, Running
<1>14. CASE BatchRecv
  <2>1. InFlight' = InFlight /\ Answered' = Answered
    BY <1>14, BatchRecvMoves DEF InFlight
  <2> QED
    BY <1>3, <1>14, <2>1 DEF BatchRecv, nodeVars, Running
<1>15. ASSUME NEW w \in Workers, NEW t \in Tasks, Finish(w, t)
       PROVE  UNCHANGED <<FateMap, Running>>
  <2>1. InFlight' = InFlight /\ Answered' = Answered
    BY <1>15, FinishMoves DEF InFlight
  <2> QED
    BY <1>3, <1>15, <2>1 DEF Finish, nodeVars, Running
<1>16. ASSUME NEW w \in Workers, NEW t \in Tasks, SendOutput(w, t)
       PROVE  UNCHANGED <<FateMap, Running>>
  <2>1. InFlight' = InFlight /\ Answered' = Answered
    BY <1>16, SendOutputMoves DEF InFlight
  <2> QED
    BY <1>3, <1>16, <2>1 DEF SendOutput, nodeVars, Running
<1>17. ASSUME NEW w \in Workers, NEW t \in Tasks, SendOutputFails(w, t)
       PROVE  Ledger!Next
  <2>1. /\ UNCHANGED <<inbox, taken>> /\ ~Running /\ ~Running'
    BY <1>17 DEF SendOutputFails, nodeVars, Running
  <2>2. /\ InFlight' = InFlight \ {t} /\ Answered' = Answered /\ {t} \subseteq InFlight
    BY <1>17, SendOutputFailsMoves DEF InFlight, OnePlace, PlacesDisjoint
  <2>3. {t} \in SUBSET Tasks
    OBVIOUS
  <2> QED
    BY <1>11, <2>1, <2>2, <2>3
<1>18. ASSUME NEW w \in Workers, Exit(w)
       PROVE  UNCHANGED <<FateMap, Running>>
  <2>1. queue[w] = <<>>
    BY <1>18, ExitOnlyWhenStopped
  <2>2. Range(queue[w]) = {}
    BY <2>1 DEF Range
  <2>3. InFlight' = InFlight /\ Answered' = Answered
    BY <1>18, <2>2, ExitMoves DEF InFlight
  <2> QED
    BY <1>3, <1>18, <2>3 DEF Exit, nodeVars, Running
<1> QED
  BY <1>1, <1>2, <1>4, <1>5, <1>6, <1>7, <1>8, <1>9, <1>10, <1>12, <1>13, <1>14, <1>15,
     <1>16, <1>17, <1>18
  DEF Next, NodeStep, WorkerStep, Arrival, Ledger!Next

\* The pipeline starts as the ledger does.
LEMMA InitLedger == Init => Ledger!Init
<1> SUFFICES ASSUME Init PROVE Ledger!Init
  OBVIOUS
<1>1. \A t \in Tasks : Fate(t) = "new"
  BY InitOnePlace, FateOf DEF Init
<1> QED
  BY <1>1 DEF Init, FateMap, Running, Ledger!Init

\* The node implements the ledger: while it runs, every delivery is declined or
\* held, and what it holds it keeps until it has answered it, once.
THEOREM ImplementsLedger ==
    ASSUME BatchSize > 0
    PROVE  Spec => KeepsLedger
<1>1. TypeOK /\ WorkerLimits /\ OnePlace /\ OnePlace' /\ WorkersOutliveNode /\ [Next]_vars
         => [Ledger!Next]_<<FateMap, Running>>
  BY StepLedger
<1> QED
  BY <1>1, InitLedger, TypeCorrect, WorkersWithinLimits, OnePlacePerTask, NodeEndsFirst, PTL
  DEF Spec, KeepsLedger, Ledger!Spec

(***************************************************************************)
(* What the node reports of its work: the pending ids and the counters.    *)
(***************************************************************************)

\* The ways a step changes what is awaited: a task is taken, a result is received,
\* or everything stays.
Takes(t) ==
    /\ t \notin taken /\ taken' = taken \cup {t}
    /\ \A w \in Workers :
          /\ Awaiting(w)' = Awaiting(w) \cup (IF w = Kind[t] THEN {t} ELSE {})
          /\ pending'[w] = pending[w] \cup (IF w = Kind[t] THEN {Id[t]} ELSE {})
          /\ completed'[w] = completed[w]

\* The node receives the result of t: it awaits t no more, and counts it.
Receives(t) ==
    /\ taken' = taken /\ t \in Awaiting(Kind[t])
    /\ \A w \in Workers :
          /\ Awaiting(w)' = Awaiting(w) \ (IF w = Kind[t] THEN {t} ELSE {})
          /\ pending'[w] = pending[w] \ (IF w = Kind[t] THEN {Id[t]} ELSE {})
          /\ completed'[w] = completed[w] + (IF w = Kind[t] THEN 1 ELSE 0)

\* The step changes nothing of what the node awaits and counts.
Keeps ==
    /\ UNCHANGED <<taken, pending, completed>>
    /\ \A w \in Workers : Awaiting(w)' = Awaiting(w)

\* Every step of a node that runs on is one of these.
LEMMA StepAwaiting ==
    ASSUME BatchSize > 0, TypeOK, WorkerLimits, OnePlace, WorkersOutliveNode, [Next]_vars, Running'
    PROVE  Running /\ (Keeps \/ \E t \in Tasks : Takes(t) \/ Receives(t))
<1>1. ASSUME UNCHANGED <<taken, pending, completed>>, InFlight' = InFlight,
             (IF pc \in {"publishing", "retrying"} THEN InHand ELSE {})'
                = (IF pc \in {"publishing", "retrying"} THEN InHand ELSE {})
      PROVE  Keeps
  BY <1>1 DEF Keeps, Awaiting
<1>2. ASSUME NEW t \in Tasks, Decline(t)
      PROVE  Running /\ Keeps
  BY <1>1, <1>2
  DEF Decline, workerVars, Running, InFlight, InHand, InQueue, InWorker, InOutbox, InPublish
<1>3. ASSUME NEW t \in Tasks, TakeTask(t)
      PROVE  Running /\ Takes(t)
  <2>1. /\ pc = "select" /\ pc' = "sending" /\ taken' = taken \cup {t} /\ completed' = completed
        /\ pending' = [pending EXCEPT ![Kind[t]] = @ \cup {Id[t]}]
    BY <1>3 DEF TakeTask
  <2>2. InFlight' = InFlight \cup {t} /\ t \notin taken
    BY <1>3, TakeTaskMoves DEF InFlight
  <2>3. \A w \in Workers : Awaiting(w)' = Awaiting(w) \cup (IF w = Kind[t] THEN {t} ELSE {})
    BY <2>1, <2>2 DEF Awaiting
  <2>4. \A w \in Workers : pending'[w] = pending[w] \cup (IF w = Kind[t] THEN {Id[t]} ELSE {})
    BY <2>1 DEF TypeOK
  <2> QED
    BY <2>1, <2>2, <2>3, <2>4 DEF Takes, Running
<1>4. CASE SendTask
  <2>1. InFlight' = InFlight /\ pc = "sending" /\ pc' = "select"
    BY <1>4, SendTaskMoves DEF SendTask, InFlight
  <2> QED
    BY <1>1, <1>4, <2>1 DEF SendTask, Running
<1>5. ~SendTaskFails
  <2>1. ASSUME SendTaskFails
        PROVE  FALSE
    <3>1. pc = "sending" /\ Kind[hand] \in Workers /\ phase[Kind[hand]] = "exited"
      BY <2>1, HandEmptied, KindAssumption DEF SendTaskFails
    <3> QED
      BY <3>1 DEF WorkersOutliveNode
  <2> QED
    BY <2>1
<1>6. CASE TakeResult
  <2>1. PICK t \in Tasks : t = hand'
    BY <1>6, TakeResultMoves
  <2>2. /\ pc = "select" /\ pc' = "publishing" /\ taken' = taken
        /\ completed' = [completed EXCEPT ![Kind[t]] = @ + 1]
        /\ pending' = [pending EXCEPT ![Kind[t]] = @ \ {Id[t]}]
    BY <1>6, <2>1 DEF TakeResult
  <2>3. InFlight' = InFlight /\ t \in InFlight /\ InHand' = {t}
    BY <1>6, <2>1, TakeResultMoves DEF InFlight
  <2>4. t \in Awaiting(Kind[t])
    BY <2>2, <2>3 DEF Awaiting
  <2>5. \A w \in Workers : Awaiting(w)' = Awaiting(w) \ (IF w = Kind[t] THEN {t} ELSE {})
    BY <2>2, <2>3 DEF Awaiting
  <2>6. \A w \in Workers : pending'[w] = pending[w] \ (IF w = Kind[t] THEN {Id[t]} ELSE {})
    BY <2>2 DEF TypeOK
  <2>7. \A w \in Workers : completed'[w] = completed[w] + (IF w = Kind[t] THEN 1 ELSE 0)
    BY <2>2 DEF TypeOK
  <2> QED
    BY <2>2, <2>4, <2>5, <2>6, <2>7 DEF Receives, Running
<1>7. CASE Publish
  <2>1. InFlight' = InFlight \ {hand} /\ InHand = {hand} /\ InHand' = {}
    BY <1>7, PublishMoves DEF InFlight, OnePlace, PlacesDisjoint
  <2>2. pc \in {"publishing", "retrying"} /\ pc' = "select" /\ UNCHANGED <<taken, pending, completed>>
    BY <1>7 DEF Publish
  <2> QED
    BY <2>1, <2>2 DEF Keeps, Awaiting, Running
<1>8. CASE PublishFails \/ BatchStart \/ Cancel \/ UNCHANGED vars
  <2>1. InFlight' = InFlight /\ InHand' = InHand /\ UNCHANGED <<taken, pending, completed>>
    BY <1>8
    DEF PublishFails, BatchStart, Cancel, nodeVars, workerVars, vars, InFlight, InHand, InQueue,
        InWorker, InOutbox, InPublish
  <2>2. pc' = pc \/ (pc = "publishing" /\ pc' = "retrying")
    BY <1>8 DEF PublishFails, BatchStart, Cancel, nodeVars, vars
  <2> QED
    BY <1>1, <2>1, <2>2 DEF Running
<1>9. ~RunFails /\ ~PublishClosed /\ ~SeeCancelled /\ ~Close
  BY DEF RunFails, PublishClosed, SeeCancelled, Close, Running
<1>10. ASSUME UNCHANGED nodeVars, InFlight' = InFlight
       PROVE  Running /\ Keeps
  BY <1>1, <1>10 DEF nodeVars, Running, InHand
<1>11. CASE SeriesRecv
  BY <1>10, <1>11, SeriesRecvMoves DEF SeriesRecv, InFlight
<1>12. CASE BatchRecv
  BY <1>10, <1>12, BatchRecvMoves DEF BatchRecv, InFlight
<1>13. ASSUME NEW w \in Workers, NEW t \in Tasks, Finish(w, t)
       PROVE  Running /\ Keeps
  BY <1>10, <1>13, FinishMoves DEF Finish, InFlight
<1>14. ASSUME NEW w \in Workers, NEW t \in Tasks, SendOutput(w, t)
       PROVE  Running /\ Keeps
  BY <1>10, <1>14, SendOutputMoves DEF SendOutput, InFlight
<1>15. ASSUME NEW w \in Workers, NEW t \in Tasks
       PROVE  ~SendOutputFails(w, t)
  BY DEF SendOutputFails, nodeVars, Running
<1>16. ASSUME NEW w \in Workers
       PROVE  ~Exit(w)
  BY ExitOnlyWhenStopped DEF Exit, nodeVars, Running
<1> QED
  BY <1>2, <1>3, <1>4, <1>5, <1>6, <1>7, <1>8, <1>9, <1>11, <1>12, <1>13, <1>14, <1>15, <1>16
  DEF Next, NodeStep, WorkerStep, Arrival

\* What is awaited was taken, and is of the worker it is awaited from.
LEMMA AwaitedIsTaken ==
    ASSUME OnePlace, NEW w \in Workers
    PROVE  Awaiting(w) \subseteq {t \in taken : Kind[t] = w}
  BY DEF Awaiting, OnePlace, OnlyTaken

\* Every step keeps what is pending owed.
LEMMA StepPending ==
    ASSUME BatchSize > 0, TypeOK, WorkerLimits, OnePlace, WorkersOutliveNode, PendingIsOwed,
           [Next]_vars
    PROVE  PendingIsOwed'
<1> DEFINE Unique(w, t) == \A u \in taken \ {t} : Id[u] # Id[t]
           Owed(w) == /\ pending[w] \subseteq {Id[t] : t \in Awaiting(w)}
                      /\ \A t \in Awaiting(w) : Unique(w, t) => Id[t] \in pending[w]
<1> SUFFICES ASSUME Running', NEW w \in Workers
             PROVE  Owed(w)'
  BY DEF PendingIsOwed
<1>1. Running /\ (Keeps \/ \E t \in Tasks : Takes(t) \/ Receives(t))
  BY StepAwaiting
<1>2. Owed(w)
  BY <1>1 DEF PendingIsOwed
<1>3. CASE Keeps
  BY <1>2, <1>3 DEF Keeps
<1>4. ASSUME NEW t \in Tasks, Takes(t)
      PROVE  Owed(w)'
  <2>1. taken' = taken \cup {t}
    BY <1>4 DEF Takes
  <2>2. CASE w = Kind[t]
    <3>1. Awaiting(w)' = Awaiting(w) \cup {t} /\ pending'[w] = pending[w] \cup {Id[t]}
      BY <1>4, <2>2 DEF Takes
    <3> QED
      BY <1>2, <2>1, <3>1
  <2>3. CASE w # Kind[t]
    <3>1. Awaiting(w)' = Awaiting(w) \cup {} /\ pending'[w] = pending[w] \cup {}
      BY <1>4, <2>3 DEF Takes
    <3> QED
      BY <1>2, <2>1, <3>1
  <2> QED
    BY <2>2, <2>3
<1>5. ASSUME NEW t \in Tasks, Receives(t)
      PROVE  Owed(w)'
  <2>1. taken' = taken
    BY <1>5 DEF Receives
  <2>2. CASE w = Kind[t]
    <3>1. Awaiting(w)' = Awaiting(w) \ {t} /\ pending'[w] = pending[w] \ {Id[t]} /\ t \in taken
      BY <1>5, <2>2, AwaitedIsTaken DEF Receives
    <3>2. \A i \in pending'[w] : \E u \in Awaiting(w)' : i = Id[u]
      <4>1. TAKE i \in pending'[w]
      <4>2. i \in pending[w] /\ i # Id[t]
        BY <3>1
      <4>3. PICK u \in Awaiting(w) : i = Id[u]
        BY <1>2, <4>2
      <4> QED
        BY <3>1, <4>2, <4>3
    <3>3. \A u \in Awaiting(w)' : Unique(w, u)' => Id[u] \in pending'[w]
      BY <1>2, <2>1, <3>1
    <3> QED
      BY <3>2, <3>3
  <2>3. CASE w # Kind[t]
    <3>1. Awaiting(w)' = Awaiting(w) \ {} /\ pending'[w] = pending[w] \ {}
      BY <1>5, <2>3 DEF Receives
    <3> QED
      BY <1>2, <2>1, <3>1
  <2> QED
    BY <2>2, <2>3
<1> QED
  BY <1>1, <1>3, <1>4, <1>5

\* While the node runs, the pending ids a pong reports are ids of tasks it still
\* awaits, and the id of a task whose result has not come is among them unless
\* another delivery carried it too.
THEOREM PendingOwed ==
    ASSUME BatchSize > 0
    PROVE  Spec => []PendingIsOwed
<1>1. Init => PendingIsOwed
  <2> SUFFICES ASSUME Init, NEW w \in Workers
               PROVE  pending[w] = {} /\ Awaiting(w) = {}
    BY DEF PendingIsOwed
  <2>1. Awaiting(w) \subseteq taken
    BY InitOnePlace, AwaitedIsTaken
  <2> QED
    BY <2>1 DEF Init
<1>2. TypeOK /\ WorkerLimits /\ OnePlace /\ WorkersOutliveNode /\ PendingIsOwed /\ [Next]_vars
         => PendingIsOwed'
  BY StepPending
<1> QED
  BY <1>1, <1>2, TypeCorrect, WorkersWithinLimits, OnePlacePerTask, NodeEndsFirst, PTL DEF Spec

\* Every step keeps the tally of the completed tasks.
LEMMA StepTally ==
    ASSUME BatchSize > 0, TypeOK, WorkerLimits, OnePlace, OnePlace', WorkersOutliveNode,
           CompletedTally, [Next]_vars
    PROVE  CompletedTally'
<1> DEFINE Of(w) == {t \in taken : Kind[t] = w}
<1> SUFFICES ASSUME Running', NEW w \in Workers
             PROVE  Cardinality(Of(w))' = completed'[w] + Cardinality(Awaiting(w))'
  BY DEF CompletedTally
<1>1. Running /\ (Keeps \/ \E t \in Tasks : Takes(t) \/ Receives(t))
  BY StepAwaiting
<1>2. Cardinality(Of(w)) = completed[w] + Cardinality(Awaiting(w)) /\ completed[w] \in Nat
  BY <1>1 DEF CompletedTally, TypeOK
<1>3. /\ IsFiniteSet(Of(w)) /\ IsFiniteSet(Awaiting(w)) /\ Awaiting(w) \subseteq Of(w)
      /\ Cardinality(Of(w)) \in Nat /\ Cardinality(Awaiting(w)) \in Nat
  <2>1. Awaiting(w) \subseteq Of(w)
    BY AwaitedIsTaken
  <2>2. Of(w) \subseteq Tasks
    BY DEF TypeOK
  <2> QED
    BY <2>1, <2>2, TasksAssumption, FS_Subset, FS_CardinalityType
<1>4. CASE Keeps
  BY <1>2, <1>4 DEF Keeps
<1>5. ASSUME NEW t \in Tasks, Takes(t)
      PROVE  Cardinality(Of(w))' = completed'[w] + Cardinality(Awaiting(w))'
  <2>1. taken' = taken \cup {t} /\ t \notin taken /\ completed'[w] = completed[w]
    BY <1>5 DEF Takes
  <2>2. CASE w = Kind[t]
    <3>1. Of(w)' = Of(w) \cup {t} /\ t \notin Of(w)
      BY <2>1, <2>2
    <3>2. Awaiting(w)' = Awaiting(w) \cup {t} /\ t \notin Awaiting(w)
      BY <1>3, <1>5, <2>2, <3>1 DEF Takes
    <3> HIDE DEF Of
    <3>3. Cardinality(Of(w) \cup {t}) = Cardinality(Of(w)) + 1
      BY <1>3, <3>1, FS_AddElement
    <3>4. Cardinality(Awaiting(w) \cup {t}) = Cardinality(Awaiting(w)) + 1
      BY <1>3, <3>2, FS_AddElement
    <3> QED
      BY <1>2, <1>3, <2>1, <3>1, <3>2, <3>3, <3>4
  <2>3. CASE w # Kind[t]
    <3>1. Of(w)' = Of(w)
      BY <2>1, <2>3
    <3>2. Awaiting(w)' = Awaiting(w)
      <4>1. Awaiting(w)' = Awaiting(w) \cup {}
        BY <1>5, <2>3 DEF Takes
      <4> QED
        BY <4>1
    <3> HIDE DEF Of
    <3> QED
      BY <1>2, <2>1, <3>1, <3>2
  <2> QED
    BY <2>2, <2>3
<1>6. ASSUME NEW t \in Tasks, Receives(t)
      PROVE  Cardinality(Of(w))' = completed'[w] + Cardinality(Awaiting(w))'
  <2>1. Of(w)' = Of(w)
    BY <1>6 DEF Receives
  <2> HIDE DEF Of
  <2>2. CASE w = Kind[t]
    <3>1. /\ Awaiting(w)' = Awaiting(w) \ {t} /\ t \in Awaiting(w)
          /\ completed'[w] = completed[w] + 1
      BY <1>6, <2>2 DEF Receives
    <3>2. Cardinality(Awaiting(w) \ {t}) = Cardinality(Awaiting(w)) - 1
      BY <1>3, <3>1, FS_RemoveElement
    <3> QED
      BY <1>2, <1>3, <2>1, <3>1, <3>2
  <2>3. CASE w # Kind[t]
    <3>1. Awaiting(w)' = Awaiting(w) \ {} /\ completed'[w] = completed[w] + 0
      BY <1>6, <2>3 DEF Receives
    <3>2. Awaiting(w)' = Awaiting(w) /\ completed'[w] = completed[w]
      BY <1>2, <3>1
    <3> QED
      BY <1>2, <2>1, <3>2
  <2> QED
    BY <2>2, <2>3
<1> QED
  BY <1>1, <1>4, <1>5, <1>6

\* While the node runs, each task it took is either counted as completed, once, or
\* its result is still to come.
THEOREM EveryTaskCounted ==
    ASSUME BatchSize > 0
    PROVE  Spec => []CompletedTally
<1>1. Init => CompletedTally
  <2> SUFFICES ASSUME Init, NEW w \in Workers
               PROVE  {t \in taken : Kind[t] = w} = {} /\ completed[w] = 0 /\ Awaiting(w) = {}
    BY FS_EmptySet DEF CompletedTally
  <2>1. Awaiting(w) \subseteq taken
    BY InitOnePlace, AwaitedIsTaken
  <2> QED
    BY <2>1 DEF Init
<1>2. TypeOK /\ WorkerLimits /\ OnePlace /\ OnePlace' /\ WorkersOutliveNode /\ CompletedTally
         /\ [Next]_vars => CompletedTally'
  BY StepTally
<1> QED
  BY <1>1, <1>2, TypeCorrect, WorkersWithinLimits, OnePlacePerTask, NodeEndsFirst, PTL DEF Spec

(***************************************************************************)
(* The tasks of the single worker stay in their order. A step changes the  *)
(* path of six places in one of few ways, each a regrouping of the         *)
(* sequence or an element at its end.                                      *)
(***************************************************************************)

\* The tasks of the single worker.
Series == {t \in Tasks : Kind[t] = "single"}

\* SeriesPath as a function of its places.
PathOf(a, r, p, o, q, s) == Only(a \o r \o p \o o \o q \o s, Series)

\* The places that hold a set: what the node received or is sending, and what is with
\* the worker.
Received == SetToSeq(IF pc \in {"publishing", "retrying"} THEN InHand ELSE {})
WithWorker == SetToSeq(held["single"] \cup outbox["single"])
Sending == SetToSeq(IF pc = "sending" THEN InHand ELSE {})

\* The single worker ends only after the node.
SingleOutlivesNode ==
    "single" \in Workers => (phase["single"] = "exited" => pc = "stopped")

\* Selecting the tasks of the single worker, from two sequences in a row.
LEMMA SeriesConcat ==
    ASSUME NEW x \in Seq(Tasks), NEW y \in Seq(Tasks)
    PROVE  Only(x \o y, Series) = Only(x, Series) \o Only(y, Series)
  BY OnlyConcat

\* What is put after a path leaves it a prefix.
LEMMA PathGrows ==
    ASSUME NEW x \in Seq(Tasks), NEW y \in Seq(Tasks)
    PROVE  IsPrefix(Only(x, Series), Only(x \o y, Series))
<1>1. Only(x \o y, Series) = Only(x, Series) \o Only(y, Series)
  BY SeriesConcat
<1>2. Only(x, Series) \in Seq(Tasks) /\ Only(y, Series) \in Seq(Tasks)
  BY OnlyInSeq
<1> QED
  BY <1>1, <1>2, PrefixOfConcat

\* A path is a prefix of itself.
LEMMA PathStays ==
    ASSUME NEW x \in Seq(Tasks)
    PROVE  IsPrefix(Only(x, Series), Only(x, Series))
<1>1. <<>> \in Seq(Tasks) /\ x \o <<>> = x
  BY EmptySeq, ConcatEmptySeq
<1>2. IsPrefix(Only(x, Series), Only(x \o <<>>, Series))
  BY <1>1, PathGrows
<1> QED
  BY <1>1, <1>2

\* The first of a queue goes to the empty place before the queue.
LEMMA HeadMovesUp ==
    ASSUME NEW x \in Seq(Tasks), NEW q \in Seq(Tasks), q # <<>>
    PROVE  (x \o <<Head(q)>>) \o Tail(q) = (x \o <<>>) \o q
<1>1. Head(q) \in Tasks /\ Tail(q) \in Seq(Tasks) /\ <<Head(q)>> \in Seq(Tasks)
  BY HeadTailProperties
<1>2. (x \o <<Head(q)>>) \o Tail(q) = x \o (<<Head(q)>> \o Tail(q))
  BY <1>1, ConcatAssociative
<1>3. <<Head(q)>> \o Tail(q) = q
  BY HeadAndTail, ConcatEmptySeq
<1>4. x \o <<>> = x
  BY ConcatEmptySeq
<1> QED
  BY <1>2, <1>3, <1>4

\* Paths that agree up to some place go on in the same way.
LEMMA PathGoesOn ==
    ASSUME NEW x \in Seq(Tasks), NEW z \in Seq(Tasks), NEW y \in Seq(Tasks),
           Only(x, Series) = Only(z, Series)
    PROVE  Only(x \o y, Series) = Only(z \o y, Series)
<1>1. Only(x \o y, Series) = Only(x, Series) \o Only(y, Series)
  BY SeriesConcat
<1>2. Only(z \o y, Series) = Only(z, Series) \o Only(y, Series)
  BY SeriesConcat
<1> QED
  BY <1>1, <1>2

\* A task of another worker is not on the path.
LEMMA OthersAreOff ==
    ASSUME NEW x \in Seq(Tasks), NEW q \in Seq(Tasks), NEW t \in Tasks, t \notin Series
    PROVE  /\ Only(x \o Append(q, t), Series) = Only(x \o q, Series)
           /\ Only(x \o <<t>>, Series) = Only(x \o <<>>, Series)
<1>1. Append(q, t) \in Seq(Tasks) /\ <<t>> \in Seq(Tasks) /\ <<>> \in Seq(Tasks)
  BY AppendProperties, EmptySeq
<1>2. Only(Append(q, t), Series) = Only(q, Series)
  BY OnlyAppend
<1>3. /\ Only(x \o Append(q, t), Series) = Only(x, Series) \o Only(Append(q, t), Series)
      /\ Only(x \o q, Series) = Only(x, Series) \o Only(q, Series)
  BY <1>1, SeriesConcat
<1>4. Only(<<t>>, Series) = <<>> /\ Only(<<>>, Series) = <<>>
  <2>1. Range(<<t>>) \cap Series = {}
    BY DEF Range
  <2> QED
    BY <1>1, <2>1, OnlyNone, OnlyEmpty
<1>5. /\ Only(x \o <<t>>, Series) = Only(x, Series) \o Only(<<t>>, Series)
      /\ Only(x \o <<>>, Series) = Only(x, Series) \o Only(<<>>, Series)
  BY <1>1, SeriesConcat
<1> QED
  BY <1>2, <1>3, <1>4, <1>5

\* A path is a prefix of itself.
LEMMA PathKept ==
    ASSUME NEW a \in Seq(Tasks), NEW r \in Seq(Tasks), NEW p \in Seq(Tasks),
           NEW o \in Seq(Tasks), NEW q \in Seq(Tasks), NEW s \in Seq(Tasks)
    PROVE  IsPrefix(PathOf(a, r, p, o, q, s), PathOf(a, r, p, o, q, s))
<1> DEFINE x == a \o r \o p \o o \o q \o s
<1>1. x \in Seq(Tasks)
  BY ConcatProperties
<1> QED
  BY <1>1, PathStays DEF PathOf

\* A task taken joins the path at its end.
LEMMA PathJoins ==
    ASSUME NEW a \in Seq(Tasks), NEW r \in Seq(Tasks), NEW p \in Seq(Tasks),
           NEW o \in Seq(Tasks), NEW q \in Seq(Tasks), NEW t \in Tasks
    PROVE  IsPrefix(PathOf(a, r, p, o, q, <<>>), PathOf(a, r, p, o, q, <<t>>))
<1> DEFINE x == a \o r \o p \o o \o q
<1>1. x \in Seq(Tasks) /\ <<t>> \in Seq(Tasks)
  BY ConcatProperties
<1>2. x \o <<>> = x
  BY <1>1, ConcatEmptySeq
<1>3. IsPrefix(Only(x, Series), Only(x \o <<t>>, Series))
  BY <1>1, PathGrows
<1> QED
  BY <1>2, <1>3 DEF PathOf

\* A task goes from the node's hand into the worker's channel.
LEMMA PathSends ==
    ASSUME NEW a \in Seq(Tasks), NEW r \in Seq(Tasks), NEW p \in Seq(Tasks),
           NEW o \in Seq(Tasks), NEW q \in Seq(Tasks), NEW t \in Tasks
    PROVE  PathOf(a, r, p, o, Append(q, t), <<>>) = PathOf(a, r, p, o, q, <<t>>)
<1> DEFINE x == a \o r \o p \o o
<1>1. x \in Seq(Tasks)
  BY ConcatProperties
<1> HIDE DEF x
<1>2. (x \o Append(q, t)) \o <<>> = (x \o q) \o <<t>>
  BY <1>1, PutAtEnd
<1> QED
  BY <1>2 DEF PathOf, x

\* A task goes from the channel to the worker.
LEMMA PathReceives ==
    ASSUME NEW a \in Seq(Tasks), NEW r \in Seq(Tasks), NEW p \in Seq(Tasks),
           NEW q \in Seq(Tasks), NEW s \in Seq(Tasks), q # <<>>
    PROVE  PathOf(a, r, p, <<Head(q)>>, Tail(q), s) = PathOf(a, r, p, <<>>, q, s)
<1> DEFINE x == a \o r \o p
<1>1. x \in Seq(Tasks)
  BY ConcatProperties
<1> HIDE DEF x
<1>2. (x \o <<Head(q)>>) \o Tail(q) = (x \o <<>>) \o q
  BY <1>1, HeadMovesUp
<1> QED
  BY <1>2 DEF PathOf, x

\* A task goes from the worker to the publish channel.
LEMMA PathOutputs ==
    ASSUME NEW a \in Seq(Tasks), NEW r \in Seq(Tasks), NEW p \in Seq(Tasks),
           NEW q \in Seq(Tasks), NEW s \in Seq(Tasks), NEW t \in Tasks
    PROVE  PathOf(a, r, Append(p, t), <<>>, q, s) = PathOf(a, r, p, <<t>>, q, s)
<1> DEFINE x == a \o r
<1>1. x \in Seq(Tasks)
  BY ConcatProperties
<1> HIDE DEF x
<1>2. (x \o Append(p, t)) \o <<>> = (x \o p) \o <<t>>
  BY <1>1, PutAtEnd
<1> QED
  BY <1>2 DEF PathOf, x

\* A task goes from the publish channel to the node's hand.
LEMMA PathTakes ==
    ASSUME NEW a \in Seq(Tasks), NEW p \in Seq(Tasks), NEW o \in Seq(Tasks),
           NEW q \in Seq(Tasks), NEW s \in Seq(Tasks), p # <<>>
    PROVE  PathOf(a, <<Head(p)>>, Tail(p), o, q, s) = PathOf(a, <<>>, p, o, q, s)
  BY HeadMovesUp DEF PathOf

\* A task goes from the node's hand to the answers.
LEMMA PathAnswers ==
    ASSUME NEW a \in Seq(Tasks), NEW p \in Seq(Tasks), NEW o \in Seq(Tasks),
           NEW q \in Seq(Tasks), NEW s \in Seq(Tasks), NEW t \in Tasks
    PROVE  PathOf(Append(a, t), <<>>, p, o, q, s) = PathOf(a, <<t>>, p, o, q, s)
<1>1. Append(a, t) \o <<>> = a \o <<t>>
  BY AppendProperties, AppendIsConcat, ConcatEmptySeq
<1> QED
  BY <1>1 DEF PathOf

\* A task of another worker in the node's hand.
LEMMA PathIgnoresHand ==
    ASSUME NEW a \in Seq(Tasks), NEW r \in Seq(Tasks), NEW p \in Seq(Tasks),
           NEW o \in Seq(Tasks), NEW q \in Seq(Tasks), NEW t \in Tasks,
           t \notin Series
    PROVE  PathOf(a, r, p, o, q, <<t>>) = PathOf(a, r, p, o, q, <<>>)
<1> DEFINE x == a \o r \o p \o o \o q
<1>1. x \in Seq(Tasks)
  BY ConcatProperties
<1> QED
  BY <1>1, OthersAreOff DEF PathOf

\* A task of another worker in the publish channel.
LEMMA PathIgnoresOutput ==
    ASSUME NEW a \in Seq(Tasks), NEW r \in Seq(Tasks), NEW p \in Seq(Tasks),
           NEW o \in Seq(Tasks), NEW q \in Seq(Tasks), NEW s \in Seq(Tasks),
           NEW t \in Tasks, t \notin Series
    PROVE  PathOf(a, r, Append(p, t), o, q, s) = PathOf(a, r, p, o, q, s)
<1>0. a \o r \in Seq(Tasks) /\ Append(p, t) \in Seq(Tasks)
  BY ConcatProperties, AppendProperties
<1>1. /\ a \o r \o Append(p, t) \in Seq(Tasks) /\ a \o r \o p \in Seq(Tasks)
      /\ Only(a \o r \o Append(p, t), Series) = Only(a \o r \o p, Series)
  BY <1>0, ConcatProperties, OthersAreOff
<1>2. ASSUME NEW x \in Seq(Tasks), NEW z \in Seq(Tasks), Only(x, Series) = Only(z, Series)
      PROVE  Only(x \o o \o q \o s, Series) = Only(z \o o \o q \o s, Series)
  <2>1. Only(x \o o, Series) = Only(z \o o, Series) /\ x \o o \in Seq(Tasks) /\ z \o o \in Seq(Tasks)
    BY <1>2, PathGoesOn, ConcatProperties
  <2>2. ASSUME NEW u \in Seq(Tasks), NEW v \in Seq(Tasks), Only(u, Series) = Only(v, Series)
        PROVE  Only(u \o q \o s, Series) = Only(v \o q \o s, Series)
    <3>1. Only(u \o q, Series) = Only(v \o q, Series) /\ u \o q \in Seq(Tasks) /\ v \o q \in Seq(Tasks)
      BY <2>2, PathGoesOn, ConcatProperties
    <3>2. ASSUME NEW g \in Seq(Tasks), NEW h \in Seq(Tasks), Only(g, Series) = Only(h, Series)
          PROVE  Only(g \o s, Series) = Only(h \o s, Series)
      BY <3>2, PathGoesOn
    <3> QED
      BY <3>1, <3>2
  <2> QED
    BY <2>1, <2>2
<1> QED
  BY <1>1, <1>2 DEF PathOf

\* The single worker has one task in its hands, or none.
LEMMA OneInHand ==
    ASSUME TypeOK, WorkerLimits, "single" \in Workers,
           NEW t \in held["single"] \cup outbox["single"]
    PROVE  held["single"] \cup outbox["single"] = {t}
<1> DEFINE S == held["single"] \cup outbox["single"]
<1>1. S \subseteq Tasks /\ IsFiniteSet(S)
  BY TasksAssumption, FS_Subset DEF TypeOK
<1>2. Cardinality(S) <= 1 /\ Cardinality(S) \in Nat
  BY <1>1, FS_CardinalityType DEF WorkerLimits, Limit
<1> HIDE DEF S
<1>3. Cardinality(S) # 0
  <2>1. S # {}
    BY DEF S
  <2> QED
    BY <1>1, <2>1, FS_EmptySet
<1>4. Cardinality(S) = 1
  BY <1>2, <1>3
<1>5. PICK e : S = {e}
  BY <1>1, <1>4, FS_Singleton
<1>6. t \in S
  BY DEF S
<1> QED
  BY <1>5, <1>6 DEF S

\* What is with the single worker, as a sequence.
LEMMA WithWorkerIs ==
    ASSUME TypeOK, WorkerLimits, "single" \in Workers
    PROVE  /\ WithWorker \in Seq(Tasks)
           /\ \A t \in held["single"] \cup outbox["single"] : WithWorker = <<t>>
<1> DEFINE S == held["single"] \cup outbox["single"]
<1>1. S \subseteq Tasks /\ IsFiniteSet(S)
  BY TasksAssumption, FS_Subset DEF TypeOK
<1>2. Cardinality(S) <= 1 /\ Cardinality(S) \in Nat
  BY <1>1, FS_CardinalityType DEF WorkerLimits, Limit
<1> HIDE DEF S
<1>3. CASE Cardinality(S) = 0
  <2>1. S = {}
    BY <1>1, <1>3, FS_EmptySet
  <2>2. SetToSeq(S) \in Seq(Tasks)
    BY <2>1, SetToSeqEmpty, EmptySeq
  <2> QED
    BY <2>1, <2>2 DEF WithWorker, S
<1>4. CASE Cardinality(S) = 1
  <2>1. PICK e : S = {e}
    BY <1>1, <1>4, FS_Singleton
  <2>2. SetToSeq(S) = <<e>> /\ e \in Tasks
    BY <1>1, <2>1, SetToSeqOne
  <2>3. <<e>> \in Seq(Tasks)
    BY <2>2
  <2> QED
    BY <2>1, <2>2, <2>3 DEF WithWorker, S
<1> QED
  BY <1>2, <1>3, <1>4

\* The node's hand, at either end of the path.
LEMMA HandIs ==
    ASSUME TypeOK
    PROVE  /\ pc = "sending" => hand \in Tasks /\ Sending = <<hand>>
           /\ pc # "sending" => Sending = <<>>
           /\ pc \in {"publishing", "retrying"} => hand \in Tasks /\ Received = <<hand>>
           /\ pc \notin {"publishing", "retrying"} => Received = <<>>
           /\ Sending \in Seq(Tasks) /\ Received \in Seq(Tasks)
<1>1. pc \in {"sending", "publishing", "retrying"} => hand \in Tasks /\ InHand = {hand}
  BY TasksAssumption DEF TypeOK, InHand
<1>2. SetToSeq({hand}) = <<hand>> /\ SetToSeq({}) = <<>>
  BY SetToSeqOne, SetToSeqEmpty
<1>3. /\ pc = "sending" => Sending = <<hand>>
      /\ pc # "sending" => Sending = <<>>
  BY <1>1, <1>2 DEF Sending
<1>4. /\ pc \in {"publishing", "retrying"} => Received = <<hand>>
      /\ pc \notin {"publishing", "retrying"} => Received = <<>>
  BY <1>1, <1>2 DEF Received
<1>5. <<>> \in Seq(Tasks) /\ (hand \in Tasks => <<hand>> \in Seq(Tasks))
  BY EmptySeq
<1> QED
  BY <1>1, <1>3, <1>4, <1>5

\* A step of the pipeline while the node runs on keeps the path, or has a task join
\* it at its end.
LEMMA StepSeries ==
    ASSUME TypeOK, TypeOK', WorkerLimits, WorkerLimits', OnePlace, SingleOutlivesNode,
           "single" \in Workers, Running', [Next]_vars
    PROVE  IsPrefix(SeriesPath, SeriesPath')
<1> DEFINE a == answers
           r == Received
           p == publish
           o == WithWorker
           q == queue["single"]
           s == Sending
<1>1. /\ SeriesPath = PathOf(a, r, p, o, q, s)
      /\ SeriesPath' = PathOf(a', r', p', o', q', s')
  BY DEF SeriesPath, PathOf, Received, WithWorker, Sending, Series
<1>2. /\ a \in Seq(Tasks) /\ r \in Seq(Tasks) /\ p \in Seq(Tasks) /\ o \in Seq(Tasks)
      /\ q \in Seq(Tasks) /\ s \in Seq(Tasks)
  BY WithWorkerIs, HandIs DEF TypeOK
<1>3. /\ pc = "sending" => hand \in Tasks /\ s = <<hand>>
      /\ pc # "sending" => s = <<>>
      /\ pc \in {"publishing", "retrying"} => hand \in Tasks /\ r = <<hand>>
      /\ pc \notin {"publishing", "retrying"} => r = <<>>
  BY HandIs
<1>4. /\ pc' = "sending" => hand' \in Tasks /\ s' = <<hand'>>
      /\ pc' # "sending" => s' = <<>>
      /\ pc' \in {"publishing", "retrying"} => hand' \in Tasks /\ r' = <<hand'>>
      /\ pc' \notin {"publishing", "retrying"} => r' = <<>>
  <2>1. pc' \in {"sending", "publishing", "retrying"} => hand' \in Tasks /\ InHand' = {hand'}
    BY TasksAssumption DEF TypeOK, InHand
  <2>2. SetToSeq({hand'}) = <<hand'>> /\ SetToSeq({}) = <<>>
    BY SetToSeqOne, SetToSeqEmpty
  <2>3. /\ pc' = "sending" => s' = <<hand'>>
        /\ pc' # "sending" => s' = <<>>
    BY <2>1, <2>2 DEF Sending
  <2>4. /\ pc' \in {"publishing", "retrying"} => r' = <<hand'>>
        /\ pc' \notin {"publishing", "retrying"} => r' = <<>>
    BY <2>1, <2>2 DEF Received
  <2> QED
    BY <2>1, <2>3, <2>4
<1>5. \A t \in held["single"] \cup outbox["single"] : o = <<t>>
  BY WithWorkerIs
<1>6. UNCHANGED <<held, outbox>> => o' = o
  BY DEF WithWorker
<1>7. held["single"] \cup outbox["single"] = {} => o = <<>>
  BY SetToSeqEmpty DEF WithWorker
<1>8. \A t : held'["single"] \cup outbox'["single"] = {t} => o' = <<t>>
  BY SetToSeqOne DEF WithWorker
<1>9. held'["single"] \cup outbox'["single"] = {} => o' = <<>>
  BY SetToSeqEmpty DEF WithWorker
<1>10. UNCHANGED <<pc, hand>> => r' = r /\ s' = s
  BY DEF Received, Sending, InHand
<1>11. UNCHANGED <<answers, publish>> => a' = a /\ p' = p
  OBVIOUS
<1>12. UNCHANGED queue => q' = q
  OBVIOUS
<1>13. pc \notin {"closing", "stopped"} /\ pc' \notin {"closing", "stopped"}
  BY DEF Running, Next, NodeStep, WorkerStep, Arrival, Decline, TakeTask, SendTask, SendTaskFails,
     TakeResult, Publish, PublishFails, RunFails, PublishClosed, SeeCancelled, Close, Cancel,
     SeriesRecv, BatchRecv, BatchStart, Finish, SendOutput, SendOutputFails, Exit, vars, nodeVars
<1> USE DEF workerVars, nodeVars
<1>14. ASSUME UNCHANGED <<a, r, p, o, q, s>>
       PROVE  IsPrefix(SeriesPath, SeriesPath')
  BY <1>1, <1>2, <1>14, PathKept
<1>15. ASSUME NEW t \in Tasks, TakeTask(t)
       PROVE  IsPrefix(SeriesPath, SeriesPath')
  <2>1. /\ a' = a /\ p' = p /\ o' = o /\ q' = q
        /\ r = <<>> /\ r' = <<>> /\ s = <<>> /\ s' = <<t>>
    BY <1>3, <1>4, <1>6, <1>15 DEF TakeTask
  <2> HIDE DEF a, r, p, o, q, s
  <2> QED
    BY <1>1, <1>2, <2>1, PathJoins
<1>16. ASSUME SendTask
       PROVE  IsPrefix(SeriesPath, SeriesPath')
  <2>1. /\ a' = a /\ p' = p /\ o' = o
        /\ r = <<>> /\ r' = <<>> /\ s = <<hand>> /\ s' = <<>>
        /\ Kind[hand] = "single" => q' = Append(q, hand)
        /\ Kind[hand] # "single" => q' = q
    BY <1>3, <1>4, <1>6, <1>16 DEF SendTask, TypeOK
  <2>2. hand \in Tasks
    BY <1>3, <1>16 DEF SendTask
  <2>3. Kind[hand] # "single" => hand \notin Series
    BY DEF Series
  <2> HIDE DEF a, r, p, o, q, s
  <2>4. PathOf(a, r, p, o, Append(q, hand), <<>>) = PathOf(a, r, p, o, q, <<hand>>)
    BY <1>2, <2>2, PathSends, SMTT(30)
  <2>5. Kind[hand] # "single" =>
           PathOf(a, r, p, o, q, <<hand>>) = PathOf(a, r, p, o, q, <<>>)
    BY <1>2, <2>3, <2>2, PathIgnoresHand, SMTT(30)
  <2>6. SeriesPath' = SeriesPath
    BY <1>1, <2>1, <2>4, <2>5
  <2> QED
    BY <1>1, <1>2, <2>6, PathKept
<1>17. ASSUME SendTaskFails
       PROVE  IsPrefix(SeriesPath, SeriesPath')
  <2>1. /\ a' = a /\ p' = p /\ o' = o /\ q' = q
        /\ r = <<>> /\ r' = <<>> /\ s = <<hand>> /\ s' = <<>>
    BY <1>3, <1>4, <1>6, <1>17 DEF SendTaskFails
  <2>2. hand \in Tasks
    BY <1>3, <1>17 DEF SendTaskFails
  <2>3. Kind[hand] # "single"
    BY <1>17 DEF SendTaskFails, SingleOutlivesNode
  <2>4. hand \notin Series
    BY <2>3 DEF Series
  <2> HIDE DEF a, r, p, o, q, s
  <2>5. PathOf(a, r, p, o, q, <<hand>>) = PathOf(a, r, p, o, q, <<>>)
    BY <1>2, <2>4, <2>2, PathIgnoresHand, SMTT(30)
  <2>6. SeriesPath' = SeriesPath
    BY <1>1, <2>1, <2>5
  <2> QED
    BY <1>1, <1>2, <2>6, PathKept
<1>18. ASSUME TakeResult
       PROVE  IsPrefix(SeriesPath, SeriesPath')
  <2>1. /\ a' = a /\ p # <<>> /\ p' = Tail(p) /\ o' = o /\ q' = q
        /\ r = <<>> /\ r' = <<Head(p)>> /\ s = <<>> /\ s' = <<>>
    BY <1>3, <1>4, <1>6, <1>18 DEF TakeResult
  <2>2. p # <<>>
    BY <2>1
  <2>3. Head(p) \in Tasks
    BY <1>2, <2>1, HeadTailProperties
  <2> HIDE DEF a, r, p, o, q, s
  <2>4. PathOf(a, <<Head(p)>>, Tail(p), o, q, s) = PathOf(a, <<>>, p, o, q, s)
    BY <1>2, <2>2, PathTakes
  <2>5. SeriesPath' = SeriesPath
    BY <1>1, <2>1, <2>4
  <2> QED
    BY <1>1, <1>2, <2>5, PathKept
<1>19. ASSUME Publish
       PROVE  IsPrefix(SeriesPath, SeriesPath')
  <2>1. /\ a' = Append(a, hand) /\ p' = p /\ o' = o /\ q' = q
        /\ r = <<hand>> /\ r' = <<>> /\ s = <<>> /\ s' = <<>>
    BY <1>3, <1>4, <1>6, <1>19 DEF Publish
  <2>2. hand \in Tasks
    BY <1>3, <1>19 DEF Publish
  <2> HIDE DEF a, r, p, o, q, s
  <2>3. PathOf(Append(a, hand), <<>>, p, o, q, s) = PathOf(a, <<hand>>, p, o, q, s)
    BY <1>2, <2>2, PathAnswers, SMTT(30)
  <2>4. SeriesPath' = SeriesPath
    BY <1>1, <2>1, <2>3
  <2> QED
    BY <1>1, <1>2, <2>4, PathKept
<1>20. ASSUME PublishFails
       PROVE  IsPrefix(SeriesPath, SeriesPath')
  <2>1. UNCHANGED <<a, r, p, o, q, s>>
    BY <1>3, <1>4, <1>6, <1>20 DEF PublishFails
  <2> QED
    BY <1>14, <2>1
<1>21. ASSUME SeriesRecv
       PROVE  IsPrefix(SeriesPath, SeriesPath')
  <2>1. /\ a' = a /\ p' = p /\ q # <<>> /\ q' = Tail(q) /\ r' = r /\ s' = s
        /\ held'["single"] = {Head(q)} /\ outbox' = outbox /\ phase["single"] = "recv"
    BY <1>10, <1>21 DEF SeriesRecv, TypeOK
  <2>2. held["single"] \cup outbox["single"] = {}
    BY <2>1 DEF WorkerLimits
  <2>3. o = <<>> /\ o' = <<Head(q)>>
    BY <1>7, <1>8, <2>1, <2>2
  <2>4. Head(q) \in Tasks
    BY <1>2, <2>1, HeadTailProperties
  <2> HIDE DEF a, r, p, o, q, s
  <2>5. SeriesPath' = SeriesPath
    BY <1>1, <1>2, <2>1, <2>3, <2>4, PathReceives
  <2> QED
    BY <1>1, <1>2, <2>5, PathKept
<1>22. ASSUME BatchRecv \/ BatchStart
       PROVE  IsPrefix(SeriesPath, SeriesPath')
  <2>1. /\ UNCHANGED <<pc, hand, answers, publish, outbox>>
        /\ held'["single"] = held["single"] /\ queue'["single"] = queue["single"]
    BY <1>22 DEF BatchRecv, BatchStart, TypeOK
  <2>2. UNCHANGED <<a, r, p, o, q, s>>
    BY <1>10, <2>1 DEF WithWorker
  <2> QED
    BY <1>14, <2>2
<1>23. ASSUME NEW w \in Workers, NEW t \in Tasks, Finish(w, t)
       PROVE  IsPrefix(SeriesPath, SeriesPath')
  <2>1. /\ UNCHANGED <<pc, hand, answers, publish, queue>>
        /\ held' = [held EXCEPT ![w] = @ \ {t}] /\ outbox' = [outbox EXCEPT ![w] = @ \cup {t}]
        /\ t \in held[w]
    BY <1>23 DEF Finish
  <2>2. held'["single"] \cup outbox'["single"] = held["single"] \cup outbox["single"]
    BY <2>1 DEF TypeOK
  <2>3. UNCHANGED <<a, r, p, o, q, s>>
    BY <1>10, <2>1, <2>2 DEF WithWorker
  <2> QED
    BY <1>14, <2>3
<1>24. ASSUME NEW w \in Workers, NEW t \in Tasks, SendOutput(w, t)
       PROVE  IsPrefix(SeriesPath, SeriesPath')
  <2>1. /\ UNCHANGED <<pc, hand, answers, queue, held>> /\ p' = Append(p, t)
        /\ t \in outbox[w] /\ outbox' = [outbox EXCEPT ![w] = @ \ {t}]
    BY <1>24 DEF SendOutput, LeaveOutbox
  <2>2. a' = a /\ r' = r /\ q' = q /\ s' = s
    BY <1>10, <2>1
  <2>3. CASE w = "single"
    <3>1. /\ held'["single"] = held["single"] /\ outbox'["single"] = outbox["single"] \ {t}
          /\ t \in outbox["single"]
      BY <2>1, <2>3 DEF TypeOK
    <3>2. held["single"] \cup outbox["single"] = {t}
      BY <3>1, OneInHand
    <3>3. t \notin held["single"]
      BY <2>1, <2>3 DEF OnePlace, PlacesDisjoint, InWorker, InOutbox
    <3>4. o = <<t>> /\ o' = <<>>
      BY <1>5, <1>9, <3>1, <3>2, <3>3
    <3> HIDE DEF a, r, p, o, q, s
    <3>5. SeriesPath' = SeriesPath
      BY <1>1, <1>2, <2>1, <2>2, <3>4, PathOutputs
    <3> QED
      BY <1>1, <1>2, <3>5, PathKept
  <2>4. CASE w # "single"
    <3>1. o' = o
      BY <2>1, <2>4 DEF WithWorker, TypeOK
    <3>2. t \notin Series
      BY <2>1, <2>4 DEF OnePlace, RightWorker, Series
    <3> HIDE DEF a, r, p, o, q, s
    <3>3. SeriesPath' = SeriesPath
      BY <1>1, <1>2, <2>1, <2>2, <3>1, <3>2, PathIgnoresOutput, SMTT(30)
    <3> QED
      BY <1>1, <1>2, <3>3, PathKept
  <2> QED
    BY <2>3, <2>4
<1>25. ASSUME NEW w \in Workers, NEW t \in Tasks, SendOutputFails(w, t)
       PROVE  FALSE
  BY <1>13, <1>25 DEF SendOutputFails
<1>26. ASSUME NEW w \in Workers, Exit(w)
       PROVE  IsPrefix(SeriesPath, SeriesPath')
  <2>1. /\ w # "single" /\ UNCHANGED <<pc, hand, answers, publish, held, outbox>>
        /\ queue' = [queue EXCEPT ![w] = <<>>]
    BY <1>13, <1>26 DEF Exit
  <2>2. UNCHANGED <<a, r, p, o, q, s>>
    BY <1>6, <1>10, <2>1 DEF TypeOK
  <2> QED
    BY <1>14, <2>2
<1>27. ASSUME \/ \E t \in Tasks : Decline(t)
              \/ Cancel \/ UNCHANGED vars
       PROVE  IsPrefix(SeriesPath, SeriesPath')
  <2>1. UNCHANGED <<pc, hand, answers, publish, queue, held, outbox>>
    BY <1>27 DEF Decline, Cancel, vars
  <2>2. UNCHANGED <<a, r, p, o, q, s>>
    BY <1>6, <1>10, <2>1
  <2> QED
    BY <1>14, <2>2
<1>28. ~(RunFails \/ PublishClosed \/ SeeCancelled \/ Close)
  BY <1>13 DEF RunFails, PublishClosed, SeeCancelled, Close
<1> HIDE DEF a, r, p, o, q, s
<1> QED
  BY <1>15, <1>16, <1>17, <1>18, <1>19, <1>20, <1>21, <1>22, <1>23, <1>24, <1>25, <1>26, <1>27, <1>28
  DEF Next, NodeStep, WorkerStep, Arrival

\* The single worker's channel closes only with the node, and run_series ends only
\* with its channel (workflow.rs:75-86).
LEMMA SingleEndsLast == Spec => []SingleOutlivesNode
<1>1. Init => SingleOutlivesNode
  BY DEF Init, SingleOutlivesNode
<1>2. TypeOK /\ SingleOutlivesNode /\ [Next]_vars => SingleOutlivesNode'
  <2> SUFFICES ASSUME TypeOK, SingleOutlivesNode, [Next]_vars, "single" \in Workers,
                      phase'["single"] = "exited"
               PROVE  pc' = "stopped"
    BY DEF SingleOutlivesNode
  <2>1. pc = "stopped" => pc' = "stopped"
    BY DEF Next, NodeStep, WorkerStep, Arrival, Decline, TakeTask, SendTask, SendTaskFails,
       TakeResult, Publish, PublishFails, RunFails, PublishClosed, SeeCancelled, Close, Cancel,
       SeriesRecv, BatchRecv, BatchStart, Finish, SendOutput, SendOutputFails, Exit, vars, nodeVars
  <2>2. phase["single"] = "exited" \/ pc = "stopped"
    BY DEF Next, NodeStep, WorkerStep, Arrival, Decline, TakeTask, SendTask, SendTaskFails,
       TakeResult, Publish, PublishFails, RunFails, PublishClosed, SeeCancelled, Close, Cancel,
       SeriesRecv, BatchRecv, BatchStart, Finish, SendOutput, SendOutputFails, LeaveOutbox, Exit,
       vars, nodeVars, workerVars, TypeOK
  <2> QED
    BY <2>1, <2>2 DEF SingleOutlivesNode
<1> QED
  BY <1>1, <1>2, TypeCorrect, PTL DEF Spec

\* While the node runs, the tasks of the single worker keep their order on the whole
\* path from the node's hand to the answers: none overtakes another, none leaves the
\* path, and new ones join at its end (node.rs:290-300, workflow.rs:75-86).
THEOREM SeriesKeepsOrder == Spec => SeriesInOrder
<1>1. TypeOK /\ TypeOK' /\ WorkerLimits /\ WorkerLimits' /\ OnePlace /\ SingleOutlivesNode
         /\ [Next]_vars
         => [("single" \in Workers /\ Running') => IsPrefix(SeriesPath, SeriesPath')]_vars
  BY StepSeries
<1> QED
  BY <1>1, TypeCorrect, WorkersWithinLimits, OnePlacePerTask, SingleEndsLast, PTL
  DEF Spec, SeriesInOrder

(***************************************************************************)
(* Batch tasks overtake each other only inside a batch. Every action moves *)
(* some tasks by one place, the first of theirs; a lemma says when that    *)
(* keeps the order, and each action is an instance of it.                  *)
(***************************************************************************)

\* What comes before what in a sequence that grows by one.
LEMMA BeforeAppend ==
    ASSUME NEW S, NEW s \in Seq(S), NEW e \in S, NEW t, NEW u
    PROVE  /\ Before(s, t, u) => Before(Append(s, e), t, u)
           /\ t \in Range(s) => Before(Append(s, e), t, e)
<1>1. /\ Len(s) \in Nat /\ DOMAIN s = 1 .. Len(s)
      /\ DOMAIN Append(s, e) = 1 .. Len(s) + 1
      /\ \A i \in 1 .. Len(s) : Append(s, e)[i] = s[i]
      /\ Append(s, e)[Len(s) + 1] = e
  BY LenProperties, AppendProperties
<1>2. ASSUME Before(s, t, u)
      PROVE  Before(Append(s, e), t, u)
  <2>1. PICK i, j \in 1 .. Len(s) : i < j /\ s[i] = t /\ s[j] = u
    BY <1>1, <1>2 DEF Before
  <2>2. i \in 1 .. Len(s) + 1 /\ j \in 1 .. Len(s) + 1
    BY <1>1
  <2> QED
    BY <1>1, <2>1, <2>2 DEF Before
<1>3. ASSUME t \in Range(s)
      PROVE  Before(Append(s, e), t, e)
  <2>1. PICK i \in 1 .. Len(s) : s[i] = t
    BY <1>1, <1>3 DEF Range
  <2>2. i \in 1 .. Len(s) + 1 /\ Len(s) + 1 \in 1 .. Len(s) + 1 /\ i < Len(s) + 1
    BY <1>1
  <2> QED
    BY <1>1, <2>1, <2>2 DEF Before
<1> QED
  BY <1>2, <1>3

\* What comes before what in a sequence whose first n are cut off.
LEMMA BeforeSplit ==
    ASSUME NEW S, NEW s \in Seq(S), NEW n \in 0 .. Len(s), NEW t, NEW u, Before(s, t, u)
    PROVE  LET front == SubSeq(s, 1, n)
               rest  == SubSeq(s, n + 1, Len(s))
           IN  \/ t \in Range(front) /\ u \in Range(front)
               \/ t \in Range(front) /\ u \in Range(rest)
               \/ Before(rest, t, u)
<1> DEFINE front == SubSeq(s, 1, n)
           rest  == SubSeq(s, n + 1, Len(s))
<1>1. Len(s) \in Nat /\ DOMAIN s = 1 .. Len(s) /\ n \in Nat /\ n <= Len(s)
  BY LenProperties
<1>2. /\ DOMAIN front = 1 .. n
      /\ \A i \in 1 .. n : front[i] = s[i]
  BY CutInTwo
<1>3. /\ DOMAIN rest = 1 .. Len(s) - n
      /\ \A i \in 1 .. Len(s) - n : rest[i] = s[n + i]
  BY CutInTwo
<1>4. PICK i, j \in 1 .. Len(s) : i < j /\ s[i] = t /\ s[j] = u
  BY <1>1 DEF Before
<1> HIDE DEF front, rest
<1>5. CASE j <= n
  <2>1. i \in 1 .. n /\ j \in 1 .. n
    BY <1>1, <1>4, <1>5
  <2> QED
    BY <1>2, <1>4, <2>1 DEF Range, front, rest
<1>6. CASE i <= n /\ n < j
  <2>1. i \in 1 .. n /\ j - n \in 1 .. Len(s) - n /\ n + (j - n) = j
    BY <1>1, <1>4, <1>6
  <2>2. t \in Range(front)
    BY <1>2, <1>4, <2>1 DEF Range
  <2>3. u \in Range(rest)
    BY <1>3, <1>4, <2>1 DEF Range
  <2> QED
    BY <2>2, <2>3 DEF front, rest
<1>7. CASE n < i
  <2>1. /\ i - n \in 1 .. Len(s) - n /\ j - n \in 1 .. Len(s) - n
        /\ i - n < j - n /\ n + (i - n) = i /\ n + (j - n) = j
    BY <1>1, <1>4, <1>7
  <2>2. Before(rest, t, u)
    BY <1>3, <1>4, <2>1 DEF Before
  <2> QED
    BY <2>2 DEF rest
<1> QED
  BY <1>1, <1>4, <1>5, <1>6, <1>7

\* What comes before what in a sequence that loses its head.
LEMMA BeforeTail ==
    ASSUME NEW S, NEW s \in Seq(S), s # <<>>, NEW t, NEW u, Before(s, t, u)
    PROVE  \/ t = Head(s) /\ u \in Range(Tail(s))
           \/ Before(Tail(s), t, u)
<1>1. Len(s) \in Nat /\ DOMAIN s = 1 .. Len(s) /\ Head(s) = s[1]
  BY LenProperties, HeadTailProperties
<1>2. /\ DOMAIN Tail(s) = 1 .. Len(s) - 1 /\ \A i \in 1 .. Len(s) - 1 : Tail(s)[i] = s[i + 1]
  BY <1>1, HeadTailProperties
<1>3. PICK i, j \in 1 .. Len(s) : i < j /\ s[i] = t /\ s[j] = u
  BY <1>1 DEF Before
<1>4. j - 1 \in 1 .. Len(s) - 1 /\ (j - 1) + 1 = j
  BY <1>1, <1>3
<1>5. CASE i = 1
  BY <1>1, <1>2, <1>3, <1>4, <1>5 DEF Range
<1>6. CASE i # 1
  <2>1. i - 1 \in 1 .. Len(s) - 1 /\ (i - 1) + 1 = i /\ i - 1 < j - 1
    BY <1>1, <1>3, <1>6
  <2> QED
    BY <1>2, <1>3, <1>4, <2>1 DEF Before
<1> QED
  BY <1>5, <1>6

\* Where a batch task is, by its place.
PlacesSay ==
    "batch" \in Workers => \A t \in Batchables :
        /\ Place(t) \in 0 .. 6
        /\ Place(t) = 0 <=> t \in Range(answers)
        /\ Place(t) = 1 <=> t = hand /\ pc \in {"publishing", "retrying"}
        /\ Place(t) = 2 <=> t \in Range(publish)
        /\ Place(t) = 3 <=> t \in held["batch"] \cup outbox["batch"]
        /\ Place(t) = 4 <=> t \in Range(queue["batch"])
        /\ Place(t) = 5 <=> t = hand /\ pc = "sending"

\* A batch task is at the place whose set or sequence has it.
LEMMA PlaceOf == TypeOK /\ OnePlace => PlacesSay
<1> SUFFICES ASSUME TypeOK, OnePlace, "batch" \in Workers, NEW t \in Batchables
             PROVE  /\ Place(t) \in 0 .. 6
                    /\ Place(t) = 0 <=> t \in Range(answers)
                    /\ Place(t) = 1 <=> t = hand /\ pc \in {"publishing", "retrying"}
                    /\ Place(t) = 2 <=> t \in Range(publish)
                    /\ Place(t) = 3 <=> t \in held["batch"] \cup outbox["batch"]
                    /\ Place(t) = 4 <=> t \in Range(queue["batch"])
                    /\ Place(t) = 5 <=> t = hand /\ pc = "sending"
  BY DEF PlacesSay
<1>1. t \in Tasks /\ Kind[t] = "batch" /\ t # NoTask
  BY TasksAssumption DEF Batchables
<1>2. /\ t \in Answered <=> t \in Range(answers)
      /\ t \in InHand <=> t = hand
      /\ t \in InPublish <=> t \in Range(publish)
  BY <1>1 DEF Answered, InHand, InPublish
<1>3. /\ t \in InQueue <=> t \in Range(queue["batch"])
      /\ t \in InWorker <=> t \in held["batch"]
      /\ t \in InOutbox <=> t \in outbox["batch"]
  BY <1>1 DEF InQueue, InWorker, InOutbox, OnePlace, RightWorker
<1>4. /\ t \in InHand => t \notin InQueue \cup InWorker \cup InOutbox \cup InPublish \cup Answered
      /\ t \in InQueue => t \notin InWorker \cup InOutbox \cup InPublish \cup Answered
      /\ t \in InWorker \cup InOutbox => t \notin InPublish \cup Answered
      /\ t \in InPublish => t \notin Answered
  BY DEF OnePlace, PlacesDisjoint
<1>5. CASE t \in Answered
  BY <1>2, <1>3, <1>4, <1>5 DEF Place
<1>6. CASE t \in InHand
  <2>1. pc \in {"publishing", "retrying"} \/ pc = "sending"
    BY <1>1, <1>2, <1>6 DEF TypeOK
  <2> QED
    BY <1>2, <1>3, <1>4, <1>6, <2>1 DEF Place
<1>7. CASE t \in InPublish
  BY <1>2, <1>3, <1>4, <1>7 DEF Place
<1>8. CASE t \in InWorker \cup InOutbox
  BY <1>2, <1>3, <1>4, <1>8 DEF Place
<1>9. CASE t \in InQueue
  BY <1>2, <1>3, <1>4, <1>9 DEF Place
<1>10. CASE t \notin Answered \cup InHand \cup InPublish \cup InWorker \cup InOutbox \cup InQueue
  BY <1>2, <1>3, <1>10 DEF Place
<1> QED
  BY <1>5, <1>6, <1>7, <1>8, <1>9, <1>10

\* A batch task keeps ahead of another one, or the worker has both.
KeptAhead(t, u) == AheadOf(t, u)' \/ {t, u} \subseteq held'["batch"]

\* Some tasks go on by one place: the order is kept if it is kept towards those that are
\* in that place already, and in the channels and the answers.
LEMMA MovingOn ==
    ASSUME NEW X \in SUBSET Batchables, NEW k \in 1 .. 6,
           \A t \in Batchables : Place(t) \in 0 .. 6,
           \A t \in X : Place(t) = k /\ Place(t)' = k - 1,
           \A t \in Batchables \ X : Place(t)' = Place(t),
           \A t \in Batchables, u \in X : Place(t) = k - 1 => KeptAhead(t, u),
           \A t, u \in Batchables :
               (\E s \in {answers, publish, queue["batch"]} : Before(s, t, u)) => KeptAhead(t, u)
    PROVE  \A t, u \in Batchables : AheadOf(t, u) => KeptAhead(t, u)
<1> SUFFICES ASSUME NEW t \in Batchables, NEW u \in Batchables, AheadOf(t, u)
             PROVE  KeptAhead(t, u)
  OBVIOUS
<1>1. CASE Place(t) < Place(u)
  <2>1. Place(t)' < Place(u)' => KeptAhead(t, u)
    BY DEF KeptAhead, AheadOf
  <2>2. Place(t) \in 0 .. 6 /\ Place(u) \in 0 .. 6
    OBVIOUS
  <2>3. CASE t \in X
    BY <1>1, <2>1, <2>2, <2>3
  <2>4. CASE t \notin X /\ u \in X
    BY <1>1, <2>1, <2>2, <2>4
  <2>5. CASE t \notin X /\ u \notin X
    BY <1>1, <2>1, <2>2, <2>5
  <2> QED
    BY <2>3, <2>4, <2>5
<1>2. CASE \E s \in {answers, publish, queue["batch"]} : Before(s, t, u)
  BY <1>2
<1> QED
  BY <1>1, <1>2 DEF AheadOf

\* A step of the pipeline while the node runs on keeps the order of the batch tasks.
LEMMA StepBatches ==
    ASSUME TypeOK, TypeOK', OnePlace, OnePlace', WorkerLimits, WorkersOutliveNode,
           WorkersOutliveNode', "batch" \in Workers, Running', [Next]_vars
    PROVE  \A t, u \in Batchables : AheadOf(t, u) => KeptAhead(t, u)
<1> DEFINE Goal == \A t, u \in Batchables : AheadOf(t, u) => KeptAhead(t, u)
           q    == queue["batch"]
           mine == held["batch"] \cup outbox["batch"]
<1>1. PlacesSay /\ PlacesSay'
  BY PlaceOf, PTL
<1>2. \A t \in Batchables :
          /\ Place(t) \in 0 .. 6
          /\ Place(t) = 0 <=> t \in Range(answers)
          /\ Place(t) = 1 <=> t = hand /\ pc \in {"publishing", "retrying"}
          /\ Place(t) = 2 <=> t \in Range(publish)
          /\ Place(t) = 3 <=> t \in mine
          /\ Place(t) = 4 <=> t \in Range(q)
          /\ Place(t) = 5 <=> t = hand /\ pc = "sending"
  BY <1>1 DEF PlacesSay
<1>3. \A t \in Batchables :
          /\ Place(t)' \in 0 .. 6
          /\ Place(t)' = 0 <=> t \in Range(answers')
          /\ Place(t)' = 1 <=> t = hand' /\ pc' \in {"publishing", "retrying"}
          /\ Place(t)' = 2 <=> t \in Range(publish')
          /\ Place(t)' = 3 <=> t \in mine'
          /\ Place(t)' = 4 <=> t \in Range(q')
          /\ Place(t)' = 5 <=> t = hand' /\ pc' = "sending"
  BY <1>1 DEF PlacesSay
<1>4. \A t, u : \/ Before(answers', t, u) \/ Before(publish', t, u) \/ Before(q', t, u)
               \/ Place(t)' < Place(u)'
               => KeptAhead(t, u)
  BY DEF KeptAhead, AheadOf
<1>5. \A t \in Batchables : t \in Tasks /\ Kind[t] = "batch" /\ t # NoTask
  BY TasksAssumption DEF Batchables
<1>6. answers \in Seq(Tasks) /\ publish \in Seq(Tasks) /\ q \in Seq(Tasks)
  BY DEF TypeOK
<1>7. pc \notin {"closing", "stopped"} /\ pc' \notin {"closing", "stopped"}
  BY DEF Running, Next, NodeStep, WorkerStep, Arrival, Decline, TakeTask, SendTask, SendTaskFails,
     TakeResult, Publish, PublishFails, RunFails, PublishClosed, SeeCancelled, Close, Cancel,
     SeriesRecv, BatchRecv, BatchStart, Finish, SendOutput, SendOutputFails, Exit, vars, nodeVars
<1> USE DEF workerVars, nodeVars
<1>8. ASSUME UNCHANGED <<answers, publish, q, mine, hand>>,
             pc' = pc \/ {pc, pc'} \subseteq {"publishing", "retrying"}
      PROVE  Goal
  <2> DEFINE none == {}
  <2>1. \A t \in Batchables : Place(t)' = Place(t)
    BY <1>2, <1>3, <1>8
  <2>2. \A t, u : (\E s \in {answers, publish, q} : Before(s, t, u)) => KeptAhead(t, u)
    BY <1>4, <1>8
  <2>3. none \in SUBSET Batchables /\ 1 \in 1 .. 6 /\ \A t : t \notin none
    OBVIOUS
  <2> HIDE DEF none
  <2> QED
    BY <1>2, <2>1, <2>2, <2>3, MovingOn
<1>9. ASSUME NEW x \in Tasks, TakeTask(x)
      PROVE  Goal
  <2> DEFINE X == {x} \cap Batchables
  <2>1. /\ UNCHANGED <<answers, publish, q, mine>>
        /\ pc = "select" /\ pc' = "sending" /\ hand = NoTask /\ hand' = x
    BY <1>9 DEF TakeTask, TypeOK
  <2>2. x \notin InFlight \cup Answered
    BY <1>9, TakeTaskMoves
  <2>3. \A t \in X : Place(t) = 6 /\ Place(t)' = 6 - 1
    <3>1. x \in Batchables => x \notin Range(answers) /\ x \notin Range(publish) /\ x \notin mine
                              /\ x \notin Range(q) /\ x # hand
      BY <1>5, <2>1, <2>2 DEF InFlight, Answered, InPublish, InWorker, InOutbox, InQueue
    <3>2. x \in Batchables => Place(x) = 6
      BY <1>2, <3>1
    <3>3. x \in Batchables => Place(x)' = 5
      BY <1>3, <2>1
    <3> QED
      BY <3>2, <3>3
  <2>4. \A t \in Batchables \ X : Place(t)' = Place(t)
    BY <1>2, <1>3, <1>5, <2>1
  <2>5. \A t \in Batchables, u \in X : Place(t) = 6 - 1 => KeptAhead(t, u)
    BY <1>2, <2>1
  <2>6. \A t, u : (\E s \in {answers, publish, q} : Before(s, t, u)) => KeptAhead(t, u)
    BY <1>4, <2>1
  <2> HIDE DEF q, mine
  <2>7. X \in SUBSET Batchables /\ 6 \in 1 .. 6
    OBVIOUS
  <2> HIDE DEF X
  <2> QED
    BY <1>2, <2>3, <2>4, <2>5, <2>6, <2>7, MovingOn DEF q
<1>10. ASSUME SendTask
       PROVE  Goal
  <2> DEFINE X == {hand} \cap Batchables
  <2>1. /\ UNCHANGED <<answers, publish, mine>>
        /\ pc = "sending" /\ pc' = "select" /\ hand \in Tasks /\ hand' = NoTask
    BY <1>10 DEF SendTask, TypeOK
  <2>2. q' = IF Kind[hand] = "batch" THEN Append(q, hand) ELSE q
    BY <1>10 DEF SendTask, TypeOK
  <2>3. Range(Append(q, hand)) = Range(q) \cup {hand}
    BY <1>6, <2>1, RangeAppend
  <2>4. hand \in Batchables <=> Kind[hand] = "batch"
    BY <2>1 DEF Batchables
  <2>5. \A t \in X : Place(t) = 5 /\ Place(t)' = 5 - 1
    BY <1>2, <1>3, <2>1, <2>2, <2>3, <2>4
  <2>6. \A t \in Batchables \ X : Place(t)' = Place(t)
    BY <1>2, <1>3, <1>5, <2>1, <2>2, <2>3, <2>4
  <2>7. \A t, u : (Before(q, t, u) => Before(Append(q, hand), t, u))
                  /\ (t \in Range(q) => Before(Append(q, hand), t, hand))
    BY <1>6, <2>1, BeforeAppend
  <2>8. \A t \in Batchables, u \in X : Place(t) = 5 - 1 => KeptAhead(t, u)
    BY <1>2, <1>4, <2>2, <2>4, <2>7
  <2>9. \A t, u : (\E s \in {answers, publish, q} : Before(s, t, u)) => KeptAhead(t, u)
    BY <1>4, <2>1, <2>2, <2>7
  <2> HIDE DEF q, mine
  <2>10. X \in SUBSET Batchables /\ 5 \in 1 .. 6
    OBVIOUS
  <2> HIDE DEF X
  <2> QED
    BY <1>2, <2>5, <2>6, <2>8, <2>9, <2>10, MovingOn DEF q
<1>11. ~SendTaskFails
  <2>1. pc = "sending" => Kind[hand] \in Workers
    BY KindAssumption DEF TypeOK
  <2> QED
    BY <1>7, <2>1 DEF SendTaskFails, WorkersOutliveNode
<1>12. ASSUME TakeResult
       PROVE  Goal
  <2> DEFINE X == {Head(publish)} \cap Batchables
  <2>1. /\ UNCHANGED <<answers, q, mine>> /\ publish # <<>> /\ publish' = Tail(publish)
        /\ pc = "select" /\ pc' = "publishing" /\ hand = NoTask /\ hand' = Head(publish)
    BY <1>12 DEF TakeResult, TypeOK
  <2>2. /\ Head(publish) \in Range(publish)
        /\ Range(publish) = Range(publish') \cup {Head(publish)}
        /\ Head(publish) \notin Range(publish')
    BY <1>6, <2>1, RangeTail DEF OnePlace, NoRepeats
  <2>3. \A t \in X : Place(t) = 2 /\ Place(t)' = 2 - 1
    BY <1>2, <1>3, <2>1, <2>2
  <2>4. \A t \in Batchables \ X : Place(t)' = Place(t)
    BY <1>2, <1>3, <1>5, <2>1, <2>2
  <2>5. \A t \in Batchables, u \in X : Place(t) = 2 - 1 => KeptAhead(t, u)
    BY <1>2, <2>1
  <2>6. ASSUME NEW t \in Batchables, NEW u \in Batchables, Before(publish, t, u)
        PROVE  KeptAhead(t, u)
    <3>1. \/ t = Head(publish) /\ u \in Range(publish')
          \/ Before(publish', t, u)
      BY <1>6, <2>1, <2>6, BeforeTail
    <3>2. ASSUME t = Head(publish), u \in Range(publish')
          PROVE  Place(t)' = 1 /\ Place(u)' = 2
      BY <1>3, <2>1, <3>2
    <3> QED
      BY <1>4, <3>1, <3>2
  <2>7. \A t, u \in Batchables : (\E s \in {answers, publish, q} : Before(s, t, u)) => KeptAhead(t, u)
    BY <1>4, <2>1, <2>6
  <2> HIDE DEF q, mine
  <2>8. X \in SUBSET Batchables /\ 2 \in 1 .. 6
    OBVIOUS
  <2> HIDE DEF X
  <2> QED
    BY <1>2, <2>3, <2>4, <2>5, <2>7, <2>8, MovingOn, ZenonT(40) DEF q
<1>13. ASSUME Publish
       PROVE  Goal
  <2> DEFINE X == {hand} \cap Batchables
  <2>1. /\ UNCHANGED <<publish, q, mine>> /\ answers' = Append(answers, hand)
        /\ pc \in {"publishing", "retrying"} /\ pc' = "select" /\ hand \in Tasks /\ hand' = NoTask
    BY <1>13 DEF Publish, TypeOK
  <2>2. Range(answers') = Range(answers) \cup {hand}
    BY <1>6, <2>1, RangeAppend
  <2>3. \A t \in X : Place(t) = 1 /\ Place(t)' = 1 - 1
    BY <1>2, <1>3, <2>1, <2>2
  <2>4. \A t \in Batchables \ X : Place(t)' = Place(t)
    BY <1>2, <1>3, <1>5, <2>1, <2>2
  <2>5. \A t, u : (Before(answers, t, u) => Before(answers', t, u))
                  /\ (t \in Range(answers) => Before(answers', t, hand))
    BY <1>6, <2>1, BeforeAppend
  <2>6. \A t \in Batchables, u \in X : Place(t) = 1 - 1 => KeptAhead(t, u)
    BY <1>2, <1>4, <2>5
  <2>7. \A t, u : (\E s \in {answers, publish, q} : Before(s, t, u)) => KeptAhead(t, u)
    BY <1>4, <2>1, <2>5
  <2> HIDE DEF q, mine
  <2>8. X \in SUBSET Batchables /\ 1 \in 1 .. 6
    OBVIOUS
  <2> HIDE DEF X
  <2> QED
    BY <1>2, <2>3, <2>4, <2>6, <2>7, <2>8, MovingOn DEF q
<1>14. ASSUME PublishFails \/ BatchStart
       PROVE  Goal
  <2>1. /\ UNCHANGED <<answers, publish, q, mine, hand>>
        /\ pc' = pc \/ {pc, pc'} \subseteq {"publishing", "retrying"}
    BY <1>14 DEF PublishFails, BatchStart
  <2> QED
    BY <1>8, <2>1
<1>15. ASSUME SeriesRecv
       PROVE  Goal
  <2>1. UNCHANGED <<answers, publish, q, mine, hand, pc>>
    BY <1>15 DEF SeriesRecv, TypeOK
  <2> QED
    BY <1>8, <2>1
<1>16. ASSUME BatchRecv
       PROVE  Goal
  <2> DEFINE n     == Min({BatchLimit, Len(q)})
             front == SubSeq(q, 1, n)
             rest  == SubSeq(q, n + 1, Len(q))
             X     == Range(front)
  <2>1. /\ UNCHANGED <<answers, publish, hand, pc, outbox>> /\ n \in 0 .. Len(q)
        /\ q' = rest /\ held'["batch"] = held["batch"] \cup X
    BY <1>6, <1>16, BatchCount DEF BatchRecv, TypeOK
  <2>2. outbox["batch"] = {}
    BY <1>16 DEF BatchRecv, WorkerLimits
  <2> HIDE DEF n
  <2>3. Range(q) = X \cup Range(rest) /\ X \cap Range(rest) = {}
    BY <1>6, <2>1, RangeSplit DEF OnePlace, NoRepeats
  <2>4. X \in SUBSET Batchables
    <3>1. Range(q) \subseteq Tasks
      BY <1>6, LenProperties DEF Range
    <3>2. \A t \in Range(q) : Kind[t] = "batch"
      BY DEF OnePlace, RightWorker
    <3> QED
      BY <2>3, <3>1, <3>2 DEF Batchables
  <2>5. \A t, u : Before(q, t, u) =>
            \/ t \in X /\ u \in X
            \/ t \in X /\ u \in Range(rest)
            \/ Before(rest, t, u)
    BY <1>6, <2>1, BeforeSplit
  <2> HIDE DEF X, rest
  <2>6. mine' = mine \cup X
    BY <2>1
  <2>7. \A t \in X : Place(t) = 4 /\ Place(t)' = 4 - 1
    BY <1>2, <1>3, <2>3, <2>4, <2>6
  <2>8. \A t \in Batchables \ X : Place(t)' = Place(t)
    BY <1>2, <1>3, <2>1, <2>3, <2>6
  <2>9. \A t \in Batchables, u \in X : Place(t) = 4 - 1 => KeptAhead(t, u)
    BY <1>2, <2>1, <2>2 DEF KeptAhead
  <2>10. ASSUME NEW t \in Batchables, NEW u \in Batchables, Before(q, t, u)
         PROVE  KeptAhead(t, u)
    <3>1. CASE t \in X /\ u \in X
      BY <2>1, <3>1 DEF KeptAhead
    <3>2. CASE t \in X /\ u \in Range(rest)
      <4>1. Place(t)' = 3 /\ Place(u)' = 4
        BY <1>3, <2>1, <2>6, <3>2
      <4> QED
        BY <1>4, <4>1
    <3>3. CASE Before(rest, t, u)
      BY <1>4, <2>1, <3>3
    <3> QED
      BY <2>5, <2>10, <3>1, <3>2, <3>3
  <2>11. \A t, u \in Batchables : (\E s \in {answers, publish, q} : Before(s, t, u)) => KeptAhead(t, u)
    BY <1>4, <2>1, <2>10
  <2> HIDE DEF q, mine
  <2>12. 4 \in 1 .. 6
    OBVIOUS
  <2> QED
    BY <1>2, <2>4, <2>7, <2>8, <2>9, <2>11, <2>12, MovingOn DEF q
<1>17. ASSUME NEW w \in Workers, NEW x \in Tasks, Finish(w, x)
       PROVE  Goal
  <2>1. UNCHANGED <<answers, publish, q, hand, pc>>
    BY <1>17 DEF Finish
  <2>2. mine' = mine
    BY <1>17 DEF Finish, TypeOK
  <2> QED
    BY <1>8, <2>1, <2>2
<1>18. ASSUME NEW w \in Workers, NEW x \in Tasks, SendOutput(w, x)
       PROVE  Goal
  <2> DEFINE X == {x} \cap Batchables
  <2>1. /\ UNCHANGED <<answers, q, hand, pc, held>> /\ publish' = Append(publish, x)
        /\ x \in outbox[w] /\ Kind[x] = w
        /\ outbox'["batch"] = IF w = "batch" THEN outbox["batch"] \ {x} ELSE outbox["batch"]
    <3>1. /\ UNCHANGED <<answers, queue, hand, pc, held>> /\ publish' = Append(publish, x)
          /\ x \in outbox[w] /\ outbox' = [outbox EXCEPT ![w] = @ \ {x}]
      BY <1>18 DEF SendOutput, LeaveOutbox
    <3>2. Kind[x] = w
      BY <3>1 DEF OnePlace, RightWorker
    <3> QED
      BY <3>1, <3>2 DEF TypeOK
  <2>2. Range(publish') = Range(publish) \cup {x}
    BY <1>6, <2>1, RangeAppend
  <2>3. x \in Batchables <=> w = "batch"
    BY <2>1 DEF Batchables
  <2>4. \A t \in X : Place(t) = 3 /\ Place(t)' = 3 - 1
    BY <1>2, <1>3, <2>1, <2>2, <2>3
  <2>5. \A t \in Batchables \ X : Place(t)' = Place(t)
    BY <1>2, <1>3, <1>5, <2>1, <2>2, <2>3
  <2>6. \A t, u : (Before(publish, t, u) => Before(publish', t, u))
                  /\ (t \in Range(publish) => Before(publish', t, x))
    BY <1>6, <2>1, BeforeAppend
  <2>7. \A t \in Batchables, u \in X : Place(t) = 3 - 1 => KeptAhead(t, u)
    BY <1>2, <1>4, <2>6
  <2>8. \A t, u : (\E s \in {answers, publish, q} : Before(s, t, u)) => KeptAhead(t, u)
    BY <1>4, <2>1, <2>6
  <2> HIDE DEF q, mine
  <2>9. X \in SUBSET Batchables /\ 3 \in 1 .. 6
    OBVIOUS
  <2> HIDE DEF X
  <2> QED
    BY <1>2, <2>4, <2>5, <2>7, <2>8, <2>9, MovingOn DEF q
<1>19. \A w \in Workers, x \in Tasks : ~SendOutputFails(w, x)
  BY <1>7 DEF SendOutputFails
<1>20. \A w \in Workers : ~Exit(w)
  BY <1>7 DEF Exit, WorkersOutliveNode, TypeOK
<1>21. ASSUME \/ \E x \in Tasks : Decline(x)
              \/ Cancel \/ UNCHANGED vars
       PROVE  Goal
  <2>1. UNCHANGED <<answers, publish, q, mine, hand, pc>>
    BY <1>21 DEF Decline, Cancel, vars
  <2> QED
    BY <1>8, <2>1
<1>22. ~(RunFails \/ PublishClosed \/ SeeCancelled \/ Close)
  BY <1>7 DEF RunFails, PublishClosed, SeeCancelled, Close
<1> HIDE DEF Goal, q, mine
<1>23. Goal
  BY <1>9, <1>10, <1>11, <1>12, <1>13, <1>14, <1>15, <1>16, <1>17, <1>18, <1>19, <1>20, <1>21, <1>22
  DEF Next, NodeStep, WorkerStep, Arrival
<1> QED
  BY <1>23 DEF Goal

\* While the node runs, a batch task that is behind another one stays behind it up to the
\* answers, unless the worker has collected both: the join! is a barrier between batches,
\* for any batch size, capacities and interleaving (workflow.rs:89-211).
THEOREM BatchesKeepOrder == Spec => BatchesInOrder
<1>1. CASE BatchSize > 0
  <2>1. Spec => []WorkersOutliveNode
    BY <1>1, NodeEndsFirst
  <2>2. TypeOK /\ TypeOK' /\ OnePlace /\ OnePlace' /\ WorkerLimits
           /\ WorkersOutliveNode /\ WorkersOutliveNode' /\ [Next]_vars
           => [("batch" \in Workers /\ BatchSize > 0 /\ Running') =>
                 \A t, u \in Batchables :
                     AheadOf(t, u) => AheadOf(t, u)' \/ {t, u} \subseteq held'["batch"]]_vars
    BY StepBatches DEF KeptAhead
  <2> QED
    BY <2>1, <2>2, TypeCorrect, WorkersWithinLimits, OnePlacePerTask, PTL
    DEF Spec, BatchesInOrder
<1>2. CASE ~(BatchSize > 0)
  <2>1. [Next]_vars
           => [("batch" \in Workers /\ BatchSize > 0 /\ Running') =>
                 \A t, u \in Batchables :
                     AheadOf(t, u) => AheadOf(t, u)' \/ {t, u} \subseteq held'["batch"]]_vars
    BY <1>2
  <2> QED
    BY <2>1, PTL DEF Spec, BatchesInOrder
<1> QED
  BY <1>1, <1>2


(***************************************************************************)
(* Nobody waits in vain, up to the circular wait, which is for good. A     *)
(* worker that ended left an empty channel behind; with the limits of the  *)
(* workers, that says what a worker with a task in reach waits for.        *)
(***************************************************************************)

EndedIsDrained == \A w \in Workers : phase[w] = "exited" => queue[w] = <<>>

\* Exit drains the channel, and the node does not send to a worker that ended.
LEMMA EndedStaysDrained == Spec => []EndedIsDrained
<1>1. Init => EndedIsDrained
  BY DEF Init, EndedIsDrained
<1>2. TypeOK /\ EndedIsDrained /\ [Next]_vars => EndedIsDrained'
  <2> SUFFICES ASSUME TypeOK, EndedIsDrained, [Next]_vars,
                      NEW w \in Workers, phase'[w] = "exited"
               PROVE  queue'[w] = <<>>
    BY DEF EndedIsDrained
  <2>1. CASE SendTask
    <3>1. phase' = phase /\ Kind[hand] # w /\ queue' = [queue EXCEPT ![Kind[hand]] = Append(@, hand)]
      BY <2>1 DEF SendTask, workerVars
    <3>2. queue'[w] = queue[w]
      BY <3>1 DEF TypeOK
    <3> QED
      BY <3>1, <3>2 DEF EndedIsDrained
  <2>2. CASE SeriesRecv
    <3>1. w # "single" /\ phase'[w] = phase[w] /\ queue'[w] = queue[w]
      BY <2>2 DEF SeriesRecv, TypeOK
    <3> QED
      BY <3>1 DEF EndedIsDrained
  <2>3. CASE BatchRecv
    <3>1. w # "batch" /\ phase'[w] = phase[w] /\ queue'[w] = queue[w]
      BY <2>3 DEF BatchRecv, TypeOK
    <3> QED
      BY <3>1 DEF EndedIsDrained
  <2>4. ASSUME NEW v \in Workers, Exit(v)
        PROVE  queue'[w] = <<>>
    <3>1. CASE v = w
      BY <2>4, <3>1 DEF Exit, TypeOK
    <3>2. CASE v # w
      BY <2>4, <3>2 DEF Exit, TypeOK, EndedIsDrained
    <3> QED
      BY <3>1, <3>2
  <2>5. ASSUME UNCHANGED queue, phase[w] = "exited"
        PROVE  queue'[w] = <<>>
    BY <2>5 DEF EndedIsDrained
  <2>6. ASSUME \/ BatchStart
               \/ \E v \in Workers : \E t \in Tasks :
                     Finish(v, t) \/ SendOutput(v, t) \/ SendOutputFails(v, t)
        PROVE  UNCHANGED queue /\ phase[w] = "exited"
    BY <2>6 DEF BatchStart, Finish, SendOutput, SendOutputFails, LeaveOutbox, TypeOK
  <2>7. ASSUME \/ SendTaskFails \/ TakeResult \/ Publish \/ PublishFails \/ RunFails
               \/ PublishClosed \/ SeeCancelled \/ Close \/ Arrival \/ Cancel
               \/ UNCHANGED vars
        PROVE  UNCHANGED <<queue, phase>>
    BY <2>7 DEF SendTaskFails, TakeResult, Publish, PublishFails, RunFails, PublishClosed,
       SeeCancelled, Close, Arrival, Decline, TakeTask, Cancel, workerVars, vars
  <2> QED
    BY <2>1, <2>2, <2>3, <2>4, <2>5, <2>6, <2>7 DEF Next, NodeStep, WorkerStep
<1> QED
  BY <1>1, <1>2, TypeCorrect, PTL DEF Spec

\* A worker with a task in hand or in its channel can go on, or waits for the node.
LEMMA BusyWorkerWaits ==
    ASSUME TypeOK, WorkerLimits, EndedIsDrained, NEW w \in Workers,
           queue[w] # <<>> \/ held[w] \cup outbox[w] # {}
    PROVE  WorkerReady(w) \/ WaitsForNode(w)
<1>1. phase[w] \in {"recv", "window", "exec", "exited"}
  BY DEF TypeOK
<1>2. held[w] \cup outbox[w] = {} <=> phase[w] \in {"recv", "exited"}
  BY DEF WorkerLimits
<1>3. CASE phase[w] = "exec"
  <2>1. CASE held[w] # {}
    BY <1>3, <2>1 DEF WorkerReady
  <2>2. CASE held[w] = {}
    <3>1. outbox[w] # {}
      BY <1>2, <1>3, <2>2
    <3>2. Len(publish) < PublishCap \/ Len(publish) = PublishCap
      BY LenProperties, CapAssumption DEF TypeOK
    <3> QED
      BY <1>3, <2>2, <3>1, <3>2 DEF WorkerReady, WaitsForNode
  <2> QED
    BY <2>1, <2>2
<1>4. CASE phase[w] = "recv"
  BY <1>2, <1>4 DEF WorkerReady
<1>5. CASE phase[w] = "window"
  BY <1>5 DEF WorkerReady
<1>6. phase[w] # "exited"
  BY <1>2 DEF EndedIsDrained
<1> QED
  BY <1>1, <1>3, <1>4, <1>5, <1>6

\* Work is owed, and the node waits outside the circular wait: some worker can go on.
LEMMA OwedWorkGoesOn ==
    ASSUME TypeOK, WorkerLimits, EndedIsDrained, Running, InFlight # {}, ~CircularWait, ~NodeReady
    PROVE  \E w \in Workers : WorkerReady(w)
<1> SUFFICES ASSUME \A w \in Workers : ~WorkerReady(w)
             PROVE  FALSE
  OBVIOUS
<1>1. \A w \in Workers :
         (queue[w] # <<>> \/ held[w] \cup outbox[w] # {}) => WaitsForNode(w)
  BY BusyWorkerWaits
<1>2. pc \in {"select", "sending"}
  BY DEF TypeOK, Running, NodeReady
<1>3. CASE pc = "sending"
  <2> DEFINE w == Kind[hand]
  <2>1. hand \in Tasks /\ w \in Workers
    BY <1>3, KindAssumption DEF TypeOK
  <2>2. Len(queue[w]) = WorkflowCap /\ queue[w] # <<>>
    <3>1. Len(queue[w]) \in Nat /\ Len(queue[w]) <= WorkflowCap
      BY <2>1, LenProperties DEF TypeOK
    <3>2. ~(Len(queue[w]) < WorkflowCap)
      BY <1>3 DEF NodeReady
    <3>3. Len(queue[w]) = WorkflowCap
      BY <3>1, <3>2, CapAssumption
    <3>4. Len(<<>>) = 0
      BY EmptySeq
    <3> QED
      BY <3>3, <3>4, CapAssumption
  <2>3. WaitsForNode(w)
    BY <1>1, <2>1, <2>2
  <2> QED
    BY <1>3, <2>2, <2>3 DEF WaitsForNode, CircularWait
<1>4. CASE pc = "select"
  <2>1. publish = <<>> /\ hand = NoTask
    BY <1>4 DEF NodeReady, TypeOK
  <2>2. Len(publish) # PublishCap
    BY <2>1, EmptySeq, CapAssumption
  <2>3. \A w \in Workers : queue[w] = <<>> /\ held[w] = {} /\ outbox[w] = {}
    BY <1>1, <2>2 DEF WaitsForNode
  <2>4. InHand = {} /\ InWorker = {} /\ InOutbox = {}
    BY <2>1, <2>3 DEF InHand, InWorker, InOutbox
  <2>5. Range(<<>>) = {}
    BY EmptySeq DEF Range
  <2>6. InQueue = {} /\ InPublish = {}
    BY <2>1, <2>3, <2>5 DEF InQueue, InPublish
  <2> QED
    BY <2>4, <2>6 DEF InFlight
<1> QED
  BY <1>2, <1>3, <1>4

\* In every reachable state, a worker with a task in reach can go on or waits for the
\* node to drain the publish channel, and while the node owes work somebody can go on,
\* unless the node and a worker wait for each other (workflow.rs:75-240,
\* node.rs:400-463).
THEOREM NoVainWaits == Spec => []NobodyWaitsInVain
<1>1. TypeOK /\ WorkerLimits /\ EndedIsDrained => NobodyWaitsInVain
  BY BusyWorkerWaits, OwedWorkGoesOn DEF NobodyWaitsInVain
<1> QED
  BY <1>1, TypeCorrect, WorkersWithinLimits, EndedStaysDrained, PTL

\* Once the node waits for a worker that waits for it, no step of the other worker, no
\* delivery and no termination signal brings it out (node.rs:284, 296, 400-463).
THEOREM CircularWaitIsForGood == Spec => CircularWaitLasts
<1>1. ASSUME TypeOK, [Next]_vars, CircularWait
      PROVE  CircularWait'
  <2> DEFINE w == Kind[hand]
  <2>1. /\ pc = "sending" /\ hand \in Tasks /\ w \in Workers
        /\ Len(queue[w]) = WorkflowCap /\ Len(publish) = PublishCap
        /\ phase[w] = "exec" /\ held[w] = {}
    BY <1>1, KindAssumption DEF CircularWait, TypeOK
  <2>2. ~(Len(queue[w]) < WorkflowCap) /\ ~(Len(publish) < PublishCap)
    BY <2>1, CapAssumption
  <2>3. ~NodeStep /\ ~Arrival
    BY <2>1, <2>2 DEF NodeStep, SendTask, SendTaskFails, TakeResult, Publish, PublishFails,
       RunFails, PublishClosed, SeeCancelled, Close, Arrival, Decline, TakeTask
  <2> HIDE DEF w
  <2>4. ASSUME UNCHANGED <<pc, hand, publish>>,
               queue'[w] = queue[w], phase'[w] = phase[w], held'[w] = held[w]
        PROVE  CircularWait'
    BY <2>1, <2>4 DEF CircularWait, w
  <2>5. CASE SeriesRecv
    <3>1. w # "single"
      BY <2>1, <2>5 DEF SeriesRecv
    <3> QED
      BY <1>1, <2>1, <2>4, <2>5, <3>1 DEF SeriesRecv, nodeVars, TypeOK
  <2>6. CASE BatchRecv
    <3>1. w # "batch"
      BY <2>1, <2>6 DEF BatchRecv
    <3> QED
      BY <1>1, <2>1, <2>4, <2>6, <3>1 DEF BatchRecv, nodeVars, TypeOK
  <2>7. CASE BatchStart
    <3>1. w # "batch"
      BY <2>1, <2>7 DEF BatchStart
    <3> QED
      BY <1>1, <2>1, <2>4, <2>7, <3>1 DEF BatchStart, nodeVars, TypeOK
  <2>8. ASSUME NEW v \in Workers, NEW t \in Tasks, Finish(v, t)
        PROVE  CircularWait'
    <3>1. w # v
      BY <2>1, <2>8 DEF Finish
    <3> QED
      BY <1>1, <2>1, <2>4, <2>8, <3>1 DEF Finish, nodeVars, TypeOK
  <2>9. ASSUME NEW v \in Workers, Exit(v)
        PROVE  CircularWait'
    <3>1. w # v
      BY <2>1, <2>9 DEF Exit
    <3> QED
      BY <1>1, <2>1, <2>4, <2>9, <3>1 DEF Exit, nodeVars, TypeOK
  <2>10. \A v \in Workers : \A t \in Tasks : ~SendOutput(v, t) /\ ~SendOutputFails(v, t)
    BY <2>1, <2>2 DEF SendOutput, SendOutputFails
  <2>11. CASE Cancel \/ UNCHANGED vars
    BY <2>4, <2>11 DEF Cancel, nodeVars, workerVars, vars
  <2> QED
    BY <1>1, <2>3, <2>5, <2>6, <2>7, <2>8, <2>9, <2>10, <2>11 DEF Next, WorkerStep
<1>2. TypeOK /\ [Next]_vars => [CircularWait => CircularWait']_vars
  BY <1>1
<1> QED
  BY <1>2, TypeCorrect, PTL DEF Spec, CircularWaitLasts

=============================================================================
