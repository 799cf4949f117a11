---------------------------- MODULE NodeLifecycle ----------------------------
(***************************************************************************)
(* Start and end of the process: main() of compute/src/main.rs, the task   *)
(* that waits for termination signals, and the four tasks main spawns into *)
(* its TaskTracker and waits for: the peer-to-peer client, the workers the *)
(* models need, and the node. The service check is ServiceCheck; what the  *)
(* tasks do is in TaskPipeline, P2PLink and MessageHandling, here they     *)
(* only start and end.                                                     *)
(***************************************************************************)
EXTENDS ServiceCheck

Workers == {"batch", "single"}
Parts   == {"p2p", "node"} \cup Workers

VARIABLES
    main,       \* where main() is
    needed,     \* the workers the node was created with
    part,       \* state of each task main spawns
    cancelled,  \* the cancellation token
    closed      \* the task tracker is closed

nodeVars == <<main, needed, part, cancelled, closed>>
vars == <<checkVars, nodeVars>>

Init ==
    /\ CheckInit
    /\ main = "config"
    /\ needed = {}
    /\ part = [p \in Parts |-> "none"]
    /\ cancelled = FALSE
    /\ closed = FALSE

\* the runtime drops every task when main returns or panics
Alive == main \notin {"exited", "failed"}

-----------------------------------------------------------------------------
(* main()                                                                  *)

GoOn(from, to) ==
    /\ main = from
    /\ main' = to
    /\ UNCHANGED <<part, cancelled, closed>>

\* the models of DKN_MODELS; none at all is an error
LoadConfig == Configure /\ GoOn("config", "services") /\ UNCHANGED needed

CheckServices ==
    /\ main = "services"
    /\ CheckStep
    /\ UNCHANGED nodeVars

ServiceAnswers ==
    /\ main = "services"
    /\ CheckAnswered
    /\ UNCHANGED nodeVars

ServicesChecked == CheckPasses /\ GoOn("services", "create") /\ UNCHANGED needed

\* select! drops the check wherever it waits
CheckCancelled ==
    /\ cancelled
    /\ GoOn("services", "exited")
    /\ UNCHANGED <<needed, checkVars>>

\* the refresh of the known nodes, which new() awaits without a look at the token,
\* has ended, well or not; the workers are those the models left need
CreateNode ==
    /\ needed' = {w \in Workers : CASE w = "batch"  -> HasBatchable(models)
                                    [] w = "single" -> HasNonBatchable(models)}
    /\ GoOn("create", "spawn")
    /\ UNCHANGED checkVars

\* no models, an address in use, a failing service or client, or a batch size
\* above MAX_BATCH_SIZE, found when the client is running already
StartFails ==
    /\ \/ \E step \in {"config", "create"} : GoOn(step, "failed") /\ UNCHANGED checkVars
       \/ CheckFails /\ GoOn("services", "failed")
       \/ /\ part["p2p"] # "none" /\ part["batch"] = "none" /\ "batch" \in needed
          /\ GoOn("spawn", "failed")
          /\ UNCHANGED checkVars
    /\ UNCHANGED needed

SpawnOrder == Only(<<"p2p", "batch", "single", "node">>, needed \cup {"p2p", "node"})

\* one part after the other, with no look at the token
Spawn(p) ==
    /\ main = "spawn"
    /\ \E i \in DOMAIN SpawnOrder :
         /\ SpawnOrder[i] = p
         /\ \A j \in DOMAIN SpawnOrder : part[SpawnOrder[j]] = "none" <=> j >= i
    /\ part' = [part EXCEPT ![p] = "running"]
    /\ main' = IF p = Last(SpawnOrder) THEN "wait" ELSE main
    /\ UNCHANGED <<needed, cancelled, closed, checkVars>>

\* MUTANT: main waits for the node alone
ExitAfterNode ==
    /\ closed
    /\ part["node"] = "ended"
    /\ GoOn("wait", "exited")
    /\ UNCHANGED <<needed, checkVars>>

\* MUTANT: main waits for both workers, those it never spawned included
ExitAfterBothWorkers ==
    /\ closed
    /\ \A p \in Parts : part[p] = "ended"
    /\ GoOn("wait", "exited")
    /\ UNCHANGED <<needed, checkVars>>

\* task_tracker.wait() returns: closed, and empty
Exit ==
    /\ closed
    /\ \A p \in Parts : part[p] \in {"none", "ended"}
    /\ GoOn("wait", "exited")
    /\ UNCHANGED <<needed, checkVars>>

-----------------------------------------------------------------------------
(* The signal task: cancel the token, then close the tracker.              *)

Cancel ==
    /\ Alive /\ ~cancelled
    /\ cancelled' = TRUE
    /\ UNCHANGED <<main, needed, part, closed, checkVars>>

CloseTracker ==
    /\ Alive /\ cancelled /\ ~closed
    /\ closed' = TRUE
    /\ UNCHANGED <<main, needed, part, cancelled, checkVars>>

-----------------------------------------------------------------------------
(* The spawned tasks.                                                      *)

Move(p, from, to) ==
    /\ Alive
    /\ part[p] = from
    /\ part' = [part EXCEPT ![p] = to]
    /\ UNCHANGED <<main, needed, cancelled, closed, checkVars>>

\* a tick of the refresh, or a request for the node's specs, with which goes a lookup of
\* its address: the loop awaits the answer, and neither has a timeout
AwaitApi   == Move("node", "running", "awaiting")
ApiAnswers == Move("node", "awaiting", "running")

\* run() sees the token and unsubscribes
SeeCancelled == cancelled /\ Move("node", "running", "leaving")

\* it is through with that, or failed, and shutdown() is called
Leave == Move("node", "leaving", "closing")

\* run() returns an error, of a publish for instance: main calls shutdown()
RunFails == Move("node", "running", "closing")

\* a handler panics: the node is dropped, without a shutdown
NodePanics == Move("node", "running", "ended")

\* the client's command channel is closed by the node's Shutdown, or as it is dropped
TellClient == part["node"] \in {"closing", "ended"} /\ Move("p2p", "running", "closing")

EndNode == part["p2p"] \in {"closing", "ended"} /\ Move("node", "closing", "ended")

EndClient == Move("p2p", "closing", "ended")

\* MUTANT: the workers look at the token
EndWorkerWhenCancelled(w) == cancelled /\ Move(w, "running", "ended")

\* the node's senders are dropped and the worker has drained its channel
EndWorker(w) == part["node"] = "ended" /\ Move(w, "running", "ended")

-----------------------------------------------------------------------------
MainStep ==
    \/ LoadConfig \/ CheckServices \/ ServicesChecked \/ CheckCancelled
    \/ \E p \in Parts : Spawn(p)
    \/ Exit

NodeStep ==
    \/ AwaitApi \/ ApiAnswers \/ SeeCancelled
    \/ Leave \/ RunFails \/ NodePanics \/ TellClient \/ EndNode

Next ==
    \/ MainStep
    \/ ServiceAnswers \/ CreateNode \/ StartFails
    \/ Cancel \/ CloseTracker
    \/ NodeStep \/ EndClient
    \/ \E w \in Workers : EndWorker(w)

Spec == Init /\ [][Next]_vars

\* Every task runs on; no termination signal, no error and no answer to a request
\* is promised. The token is a branch of a select! without order: a loop that
\* comes back to it again and again does not miss it for ever. That the node gets
\* from cancellation to its Shutdown command, and the workers to the end of their
\* channels, is what TaskPipeline and P2PLink check.
Fairness ==
    /\ WF_vars(MainStep \/ (StartFails /\ main = "services" /\ call = "none"))
    /\ WF_vars(CloseTracker)
    /\ SF_vars(SeeCancelled) /\ WF_vars(Leave) /\ WF_vars(TellClient) /\ WF_vars(EndNode)
    /\ WF_vars(EndClient)
    /\ \A w \in Workers : WF_vars(EndWorker(w))

FairSpec == Spec /\ Fairness

-----------------------------------------------------------------------------
(* Properties.                                                             *)

TypeOK ==
    /\ CheckTypeOK
    /\ main \in {"config", "services", "create", "spawn", "wait", "exited", "failed"}
    /\ main \notin {"config", "failed"} => models # <<>>
    /\ needed \subseteq Workers
    /\ part \in [Parts -> {"none", "running", "awaiting", "leaving", "closing", "ended"}]
    /\ cancelled \in BOOLEAN
    /\ closed \in BOOLEAN

Occurrences(s, m) == Len(Only(s, {m}))

IsSubsequence(s, t) ==
    \E f \in [DOMAIN s -> DOMAIN t] :
        /\ \A i, j \in DOMAIN s : i < j => f[i] < f[j]
        /\ \A i \in DOMAIN s : s[i] = t[f[i]]

\* A check that passes has been through every configured model, "both services are
\* checked": none is left out because its provider failed, which ends the check
\* instead. It leaves the models that passed their provider's test, each as often as it
\* passed, and those of one provider in their configured order, however its answers
\* came and whichever providers took part (config.rs:205-281).
SurvivorsOnly ==
    [][ServicesChecked =>
        /\ Range(models) \subseteq seen
        /\ \A m \in Model : Occurrences(models', m) = passes[m]
        /\ \A p \in Providers :
             IsSubsequence(ModelsFor(models', p), ModelsFor(models, p))]_vars

\* The worker of every model a task can be matched with exists once tasks can come,
\* and no worker is kept for models that did not pass: the unreachable!() of
\* node.rs:286 and :298 are unreachable (config.rs:97-180, node.rs:106-121).
WorkersMatchModels ==
    main \in {"spawn", "wait"} => needed = {KindOf(m) : m \in AnyMatching(models, Names)}

\* main returns over no running task: before it spawned anything, or after the
\* client, the node and each worker its models need came and went ("All tasks
\* have exited succesfully", main.rs:80-86, 128-133).
ExitsAfterAll ==
    main = "exited" =>
        \/ \A p \in Parts : part[p] = "none"
        \/ \A p \in Parts : part[p] = IF p \in Workers \ needed THEN "none" ELSE "ended"

\* A service check that never ends waits for an answer without a timeout; it is
\* never held up by a model's generation (config.rs:208, ollama.rs:196-225).
StuckCheckIsUntimed ==
    <>[](main = "services") =>
        <>[](call \in {"search", "list", "fetch", "pull", "embed", "dummy"})

\* Every step of the check is one of a number the list of models bounds: no answer, no
\* error and no timeout takes it back to a stage or to an earlier model or request of
\* it, so a check that never ends waits for one single answer. A model configured twice
\* is asked, or pulled, once for each mention (config.rs:214-281, ollama.rs:100-225).
CheckCountsDown ==
    [][main = "services" =>
        \/ UNCHANGED checkVars
        \/ StagesLeft(stage') < StagesLeft(stage)
        \/ stage' = stage /\ CallsLeft' < CallsLeft]_vars

\* A termination signal ends the process whenever it comes: during the service
\* check and its requests, between two spawns, or while main waits; unless one request
\* is never answered: a refresh of the known nodes, main's in new() or the node's in its
\* loop, or the address lookup in that loop (main.rs:46-66, 80-91, 129; utils/nodes.rs:24,
\* utils/specs.rs:75).
CancelledExits ==
    (<>cancelled) => \/ <>~Alive
                     \/ <>[](main = "create" \/ part["node"] = "awaiting")

\* A node whose run() ends, or panics, takes the client and the workers with it,
\* cancelled or not, so that nothing keeps working for nobody (main.rs:119-126).
NodeEndsAll ==
    (part["node"] \in {"closing", "ended"}) ~>
        (~Alive \/ \A p \in Parts \ {"node"} : part[p] \in {"none", "ended"})

\* "wait for all tasks to finish" (main.rs:128): main goes on once they have.
WaitEnds ==
    (main = "wait" /\ \A p \in Parts : part[p] \in {"none", "ended"}) ~> (main = "exited")

=============================================================================
