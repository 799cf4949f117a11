# A TLA+ model of the Dria compute node

This directory models the compute node in `src/`: the path of a task from the
gossip network to its answer, what the node decides about each message and
request, whom it knows and dials, the link between the node and its peer-to-peer
client, the service check with the model providers, the start and end of the
process, and the network monitor that runs over the same client. TLC checks the
modules on small instances; TLAPS proves all their safety properties for
every value of the constants. Every definition follows the Rust
source; `PROJECT.json` names the lines each one stands for.

## The system

A compute node subscribes to the topics `ping` and `task`, answers pings with
pongs, executes the tasks it is included in with its language models, and
publishes the results. Four tokio tasks do this, joined by bounded channels:

```
            gossip messages, requests (1024 each)          tasks (1024 per worker)
  p2p client ---------------------------------> node loop ------------------------> batch worker
 (client.rs) <--------------------------------- (node.rs) ------------------------> single worker
            commands (1024), each with a oneshot    ^                                (workflow.rs)
                                                    +------ outputs (1024, shared) ------+
  main.rs: service check, creation, spawns, termination signal, TaskTracker
```

### Inventory

| Component | Source | State | Operations | What makes it correct |
| --- | --- | --- | --- | --- |
| Node loop | `compute/src/node.rs` | pending ids and completed counters per worker, known peers, `last_pinged_at`, channel ends | `run` (one `select!` branch at a time: result, message, request, diagnostics, refresh, cancellation), `shutdown` | each task in one place; counters and pending sets agree with the channels; each message validated once; cancellation gets through |
| Workers | `compute/src/workers/workflow.rs` | workflow channel, tasks collected, outputs to send | `run_series`, `run_batch`, `execute`, `shutdown` | limits, order, barrier between batches, drain on shutdown |
| Task and ping handlers | `compute/src/handlers/` | none of their own (act on the node) | `handle_compute`, `handle_publish`, `handle_ping` | decision by deadline and filter; an answer or an error for each result |
| P2P client and commander | `p2p/src/client.rs`, `commands.rs` | command channel, event in hand, swarm | `run`, `handle_command`, `handle_event` | commands answered; events forwarded in order, none lost; ends on Shutdown |
| Process | `compute/src/main.rs` | cancellation token, task tracker | start, spawns, signal task, wait | exits after all its tasks, and always after a signal |
| Workflows configuration | `workflows/src/config.rs` | the list of models with their providers | `check_services`, model matching | keeps exactly the models that passed; a worker exists for each model it matches |
| Providers and search APIs | `workflows/src/providers/`, `apis/` | none that lasts | `check` | a request that hangs or fails stops or ends the whole check |
| Known nodes | `p2p/src/nodes.rs`, `compute/src/utils/nodes.rs` | sets of bootstrap, relay and RPC peers | refresh | authorized sources; what is listed is learned |
| Peers of the client | `p2p/src/client.rs` | dials, routing table, gossipsub's blacklist | Identify and address events, dials | a lost RPC node is dialled again |
| Swarm behaviour | `p2p/src/behaviour.rs`, `protocol.rs` | library state | configuration, name of the protocol | - |
| Messages, payloads, cryptography | `compute/src/utils/`, `payloads/` | none | conversions | signature, filter |
| Responders | `compute/src/responders/` | spec collector | parse, respond | a response for each request they understand |
| Monitor | `monitor/src/` | seen tasks and results | handle message, print | pending = seen without a result |
| Throughput benchmark | `workflows/src/bin/tps.rs` | none | prompt once per model, print | - |

How they interact: by channel (tasks, outputs, events, commands), by oneshot
(command replies), by shared token (cancellation) and by drop (a dropped sender
or receiver ends the other side's loop). There is no shared memory.

Hard behaviours: both the node and the client are sequential loops that await
each other's channels inside their handlers, so a full channel can close a
circle; two workers share one output channel; a batch is collected while more
tasks arrive; the pending sets are keyed by an id that two deliveries may
share; shutdown drops channels under working workers; an error may end the
node's loop without a cancellation; a signal may come between any two steps of
the start; requests to the API and to providers have no timeout and are awaited
in place; what the node knows of the network is extended list by list and never
reduced, so a decision may rest on an old answer; the order of the checks of a
message decides whether it is passed on, dropped or held against its sender.
`PROJECT.json` lists each of these hazards at its line, with the
properties that cover it.

## Modules

| Module | What it is |
| --- | --- |
| `TaskPipeline` | node loop and workers: the path of a task |
| `TaskLedger` | what that path promises, without queues and workers; `TaskPipeline` implements it |
| `MCTaskPipeline` | its instances for TLC |
| `P2PLink` | node loop and p2p client: messages, requests, commands, shutdown |
| `AcceptanceLedger` | what that link promises gossipsub, without channels and commands; `P2PLink` and `Monitor` implement it |
| `MCP2PLink` | its instances for TLC |
| `ModelMatching` | the configured models and the operators that select from them |
| `ServiceCheck` | `check_services` with the checks of search APIs and providers (extends `ModelMatching`) |
| `NodeLifecycle` | `main()`: start, signal, spawned tasks, exit (extends `ServiceCheck`) |
| `MCNodeLifecycle` | its instances for TLC |
| `KnownNodes` | the nodes the node knows, and their refresh |
| `PeerIdentify` | the client's peers: dials, Identify, blacklist, routing table (extends `KnownNodes`) |
| `MessageHandling` | what the node makes of messages, requests and timers (extends `PeerIdentify` and `ModelMatching`) |
| `MCMessageHandling` | its instances for TLC |
| `Monitor` | the network monitor, over the client and channels of `P2PLink` (`INSTANCE`) |
| `MCMonitor` | its instance for TLC |
| `Selection` | `Only`, the filter of `ModelMatching` and `TaskPipeline` as a recursive function |
| `SequenceLemmas` | induction over numbers and sequences, lemmas about sequences, `Range` and `Only` |
| `ModelMatchingProofs` | lemmas about the operators of `ModelMatching` |
| `TaskPipelineProofs`, `P2PLinkProofs`, `NodeLifecycleProofs`, `MessageHandlingProofs`, `MonitorProofs` | the theorems about the module each is named after |

Operators whose comment begins with MUTANT are variants with a plausible bug.
They are part of no specification; they show that the properties notice such a
bug.

### TaskPipeline

A task is one *delivery* of a task message; `Id` gives the task id it carries,
so two deliveries may share one. `Kind` is the worker its model calls for.
(`handle_message` has `unreachable!` for a missing worker, node.rs:286 and 298;
`KindAssumption` states what it relies on, and
`WorkersMatchModels` in `NodeLifecycle` checks that it is met.)

| Model | Code |
| --- | --- |
| `inbox` | deliveries still in `message_rx` or on the network, in any order |
| `pc`, `hand` | where `run()` awaits: `select!`, `workflow_tx.send`, the two `publish` calls, after the loop |
| `pending`, `completed` | `pending_tasks_*`, `completed_tasks_*` |
| `queue[w]`, `publish` | the workflow channels and the publish channel |
| `phase[w]`, `held[w]`, `outbox[w]` | the worker's loop, its tasks before and after `execute`'s computation |
| `answers` | results and errors that went out on the `results` topic |
| `Decline`, `TakeTask`, `SendTask`, `SendTaskFails` | the task branch of `handle_message`: an early return, or the id inserted and the send that may block or fail |
| `TakeResult`, `Publish`, `PublishFails`, `RunFails` | the result branch: counters first, then `handle_publish` with its second attempt; its `?` ends the loop |
| `PublishClosed`, `SeeCancelled`, `Close` | the other ways out of the loop, and `shutdown` with the drop of the node |
| `SeriesRecv`; `BatchRecv`, `BatchStart` | `run_series`; the collecting loop of `run_batch` with its pause ("window") |
| `Finish`, `SendOutput`, `SendOutputFails`, `Exit` | `execute`, and the end of a worker |

Left out: what a task computes, statistics, payloads and encryption, and the
diagnostics and refresh branches, which leave this state alone. The network
side of a publish is here only its outcome; `P2PLink` has the rest.

### P2PLink

A handler of the node is the list (`job`) of commands it sends: none or a pong
before the acceptance of a message, a response for a request or none (one for those of `SpecRequests`, the requests for the specs by RPC nodes, which the node never forgets), a result
and perhaps its error message, the dials of a refresh, the unsubscribes, peer
counts and Shutdown at the end. `SendCommand` puts the first one in the channel
and `Continue`, `Fail` and `Stop` take the reply from the oneshot; errors that
the code passes on with `?` (`Fatal`) lead to main's `shutdown()`. On the other side
`HandleCommand` is `handle_command`, `YieldMessage`/`YieldRequest` and `Forward`
are `handle_event` up to and including its `send().await`. Commands come first
because the `select!` is biased. The swarm is external: it yields each gossip
message once (its duplicate cache) and only for topics the node had subscribed to, and accepts
or refuses what it is told.

### ModelMatching and ServiceCheck

`models` is `DriaWorkflowsConfig::models` as a sequence; the provider of a model is a
function, `ProviderOf`. `Matching` and `AnyMatching` give the *set* of models that
`get_matching_model` and `get_any_matching_model` may return, as both choose at random;
the empty set is their error. The doc comment at config.rs:109 says "`*` or `all`"; the
code takes `*` only, and so does `Matching`.

`ServiceCheck` walks through the stages serper, jina, ollama, openai, gemini and openrouter.
A stage without key or models is skipped (`Skip`). `Ask` is a request that was sent,
`CheckAnswered` its answer: a provider's list of models, one pull per missing model, an
embedding, a generation, a dummy prompt. Only the generation of `test_performance` runs
against a timer (`GenerateTimesOut`). `Drop` and `Pass` end a round of the loop over a
provider's models; `CheckPasses` puts `good_models` in the place of `models`, and
`CheckFails` has every `?` and `return Err`. What a request or an answer says is left out.
`passes` and `seen` are history variables.

The six checks have the same steps, and a definition that serves several of them is mapped to
one. Its counterparts are in the `check` of each provider (ollama.rs:100-155,
openai.rs:30-77, gemini.rs:32-84, openrouter.rs:31-66), in `fetch_models` and `dummy_request`
of the same files, and in `check_optional` of serper.rs and jina.rs.

### NodeLifecycle

`main` is the position in `main()`, `part` the state of the four spawned tasks, `needed`
the workers that `DriaComputeNode::new` made for the models left. While `main` is at
`"services"` the steps are those of `ServiceCheck`, and `CheckCancelled` is the other
branch of that `select!`: it drops the check wherever it waits. `main = "create"` is
`new()`, which awaits a refresh of the known nodes without a look at the token. The
signal task is `Cancel` followed by `CloseTracker`. `Spawn` follows the order of the
code. Of what the tasks do between start and end only what matters for their end is
here: `AwaitApi` (a refresh, or the address lookup of a request for the specs, inside the loop), `SeeCancelled` and `Leave`, `RunFails`
(an error of `run()`), `NodePanics` (the task is gone without `shutdown()`); `TellClient`
and `EndNode` stand for the Shutdown command or the drop of its channel, `EndWorker`
for a worker that found its channel closed and drained.

### KnownNodes and PeerIdentify

`known` has the four sets of `DriaNodes` that matter: bootstrap, relay, RPC addresses and
RPC peer ids; an address is the peer it names. No RPC node is static, so a node
authorizes nobody before its first successful refresh. `Extended` is the refresh of one
answer: each list is parsed as a whole (`parse_vec`), left out if one entry is bad, and
added; nothing is ever removed. `api`, what the server answers, is external. The
history variable `announced` remembers each peer id of a readable list.

`PeerIdentify` has `dialling`, `connected`, `blacklist` and `routing`. `Identified` is
`handle_identify_event`: another protocol name means blacklist and disconnect, a common one with a
public address an entry in the routing table. `Dial` are the commands after a refresh, to each
RPC address whether connected or not; how a dial ends and which connections
come and go is libp2p's (external). `PeersInit` requires a bootstrap node with a peer id, since
`new()` fails on an empty routing table.

### MessageHandling

A message is a record of the facts its handling depends on: the topic it came on, its
source, the first thing amiss with its data (`form`), the topic *inside* the data, its deadline,
the first thing amiss with its body and the model names it asks for. `Judge` is
`handle_message` up to the decision, check by check in the order of the code, with
`JudgeTask` for `handle_compute` and `JudgePing` for `handle_ping`. The actions that follow
have its effects: `Dismiss`, `TakeTask` (worker chosen by the model), `AnswerPing`
(sets `last_pinged_at` *before* the pong is published, `PongPublished`), `Panic` (the slice of a
short payload, a filter of no bytes, the arm of node.rs:316), and then
`Validate`. `HandleRequest` answers a known RPC node's request for the specs and nobody
else's, after a lookup of the node's address that is awaited in place (`SpecsCollected`). `Diagnose`, `AskForNodes`, `NodesAnswered` and `NodesFail` are the two timers, the
second with its request that is awaited in place.

`effect` and `verdict` hold what was done for the message at hand until it is
reported; `heard` is a history variable. The condition on which the property
`WarnsOfSilence` counts a ping (`Answerable`) is stated apart from `Judge`, on
purpose.

### Monitor

The monitor's loop is written anew (`TakeMessage`, `Continue`, `Record`, `PrintTasks`,
`PrintPeers`, `Stop`); the channels, the commander and the client are those of `P2PLink`,
instantiated with no requests (their receiver is dropped at once) and with the topics of
the monitor. Acceptance comes first and parsing after it. `FormOf` says what
the data of a message is; an answer with an error does not parse as a result
and is not recorded. `Fail` is an error that leaves `main`, and the panic on
a payload shorter than a signature. `Stop` is `shutdown()` with its final report.

## Runs

| Run | Checks |
| --- | --- |
| `pipeline` | Two single tasks with one id, three batch tasks, capacities 2 and 1, batch size 2. `OnePlace`, `PendingIsOwed`, `CompletedTally`, `WorkerLimits`, `SeriesInOrder`, `BatchesInOrder`, `WorkerEndsWithChannel`, refinement `KeepsLedger`. 34 000 states up to symmetry. |
| `pipeline_live` | One single and three batch tasks, capacities 1: `NobodyWaitsInVain`, `TakenIsAnswered`, `CancelledStops`, `StoppedEndsWorkers`. |
| `zero_batch` | Batch size 0, batch worker only: `NodeEndsWithWorkers`, and the paths of a send to a worker that is gone. |
| `zero_batch_worker` | Batch size 0 violates `WorkerEndsWithChannel` (finding). |
| `p2p_link` | Three messages, two requests, capacity 1, two topics, two RPC nodes; one request is for the specs and must be answered. `RequestsSettled`, `StopsInOrder`, `HandlersGoOn`, `HandlersCountDown`, `ArrivedIsSettled`, `CancelledEndsBoth`, refinement `KeepsAcceptances`. 80 000 states. |
| `p2p_commands` | `CommandsFirst` is violated (finding). |
| `lifecycle` | All lists of up to three of five models. `SurvivorsOnly`, `WorkersMatchModels`, `ExitsAfterAll`, `CheckCountsDown`, `StuckCheckIsUntimed`, `CancelledExits`, `NodeEndsAll`. 85 000 states. |
| `lifecycle_wait` | `WaitEnds` is violated (finding). |
| `handling` | 22 messages, three requests, two peers, an API with two answers. `EffectsVouched`, `VerdictsByMerit`, `WarnsOfSilence`, `StalledOnlyByApis`, `LostRpcIsDialled`. 317 000 states. |
| `handling_topics` | `TopicsExhausted` is violated (finding). |
| `monitor` | A task, its result, its error and a short payload, capacity 1. `ReportsAreExact`, `ArrivedIsAccepted`, `CancelledExits`. 32 000 states. |
| `monitor_responded` | `RespondedAreOff` is violated (finding). |

Each passing run checks its module's `TypeOK` too, save `pipeline_live` and `zero_batch`, whose
module another run covers.

What the runs show:

- Tasks are neither lost, duplicated nor executed by the wrong worker while the
  node runs; the counters agree with the channels, up to ids that two
  deliveries share (their entry goes with the first result).
- Single tasks keep their order from the node's hand to the answers. Batch tasks overtake
  each other only inside a batch: a later batch never gets past an earlier one, not even
  while the outputs of that one wait for room.
- The task path can stop for ever, without an error: the node waits for room in
  the channel of a worker that waits for room in the publish channel.
  `CircularWait` is that state and nothing else blocks the path (`NobodyWaitsInVain`).
  No step of the other worker and no cancellation ends it. It needs both 1024-place channels full, so it
  takes a backlog of more than 2048 tasks and workers that keep pace with each
  other badly: rare, but nothing in the code excludes it.
- The link has the same weakness: `LinkDeadlock`, a full message channel while
  the node awaits a reply. It contradicts the comment in client.rs:166-167. Up to it
  every handler ends after a number of steps that is fixed when it begins
  (`HandlersGoOn`, `HandlersCountDown`): no error path sends the node in circles.
- A request for the specs that an RPC node sent is answered, once and in its turn; no other
  gets more than one response, and none is lost on its way (`RequestsSettled`, `ArrivedIsSettled`).
- `DKN_BATCH_SIZE=0` is accepted and silently ends the batch worker.
- A node whose loop fails or panics stops all its tasks but leaves the process waiting.
- A service check that passes has been through every configured model: a provider that fails
  ends the check, it is not passed over. It keeps exactly the models that passed, in the order
  of each provider (`SurvivorsOnly`), and
  the workers created are those of the models a task can be matched with: the two
  `unreachable!` for a missing worker (node.rs:286, 298) are that.
- No effect is had for a source the API never named or for a task or ping past its deadline
  when its turn comes; a node that had no successful refresh yet ignores every task and
  ping. A source stays authorized once it was named.
- A request to the API that is never answered stops the loop, and so does the address
  lookup for a request of the specs (`StalledOnlyByApis`). With it a termination signal has no
  effect: in the loop as in `new()` (`CancelledExits` excepts exactly these). A request during the
  service check can be cancelled. A generation cannot hold up the check (`StuckCheckIsUntimed`);
  every other request can. The check never goes back (`CheckCountsDown`), so one that
  does not end waits for one single answer; a model configured twice is asked, or pulled, twice.
- The topic in the data of a message is not compared with the topic it came on, so an arm
  that is called unreachable is reached (`handling_topics`). So is the panic of slicing a payload
  that is shorter than a signature, in the node and in the monitor, and that of an empty filter.
- A blacklisted RPC node is dialled again at every refresh, since nothing takes it off
  `rpc_nodes`; and a failed refresh still dials (`LostRpcIsDialled`). That the blacklist itself is
  for good is modelled, and no property objects to it: no code and no doc promises otherwise.
- The monitor's reports are exact for what was accepted, in any order of task and
  result (`ReportsAreExact`). A task that was answered with an error stays pending, although it was
  responded to (`monitor_responded`), and so does one whose
  result is still in the channel when the monitor stops. It shares the link's deadlock.

### Bounds

Channel capacities of 1 and 2 stand for 1024: the code only tests for room, so
what matters is that the channels fill, which these sizes make frequent. Three
batch tasks against a batch size of 2 give full batches, partial ones and tasks
that arrive in the window of a batch; four tasks against capacities of one are
the fewest that reach `CircularWait`. Two deliveries of one id show what sharing does;
a third adds nothing. In `P2PLink` three messages fill the message channel, the
client's hand and the node's handler; with one more the situations repeat.
Results, ticks and refreshes are unbounded there, as the state does not count
them.

`MaxModels = 3` for the lists of `NodeLifecycle`: two models of one provider with one of
another between them, or one model twice, are the lists whose order and repetitions
can go wrong; five models give each provider one and Ollama, the first and longest
check, two. The rest of the module is finite as it is.

`MessageHandling` bounds what comes from outside by `MaxEvents = 2`: two messages, or a
message and what a peer does before it, decide everything a handler tells apart, since
no handler keeps more of a message than `last_pinged_at`; `MaxInbox = 2` never cuts
them off. `MaxClock = 2` with `PingLiveness = 1` reaches times before, at and after
each deadline and the first moment of silence. Each of the messages is sound or has one thing
amiss (in two cases a second one, whose order matters). The API answers
with an unreadable list of one kind in each of its two answers and may change for ever.
`handling_topics` needs only signed messages.

`Monitor` has four messages over a channel of capacity 1: task, result and error of one
id in all orders, as the sets treat ids alike, and one message whose handling panics.

Deadlock checking is off because every module may end (everything
stopped, a panic) or wait for ever (idle, for an answer, or in the circular waits);
`NobodyWaitsInVain`, `HandlersGoOn` and the temporal properties say what being stuck may mean
instead.

### Fairness

tokio polls a task that was woken, so a step that stays enabled is taken (weak
fairness). The node's `select!` polls its branches in random order: in `P2PLink`,
where ticks can be ready for ever, a branch that is ready again and again is
taken (strong fairness of messages, requests and cancellation). `Finish` is fair
because an execution ends with a result or an error; an executor that never
returns is outside the model. Nothing is assumed of the network, of signals or
of errors: `Arrival`, `Decline`, `Cancel`, `YieldMessage`, `YieldRequest`, the failures in
`NodeLifecycle` and everything outside in `MessageHandling` may never happen. No
answer of the API or of a provider is promised either: `ServiceAnswers`, `CreateNode`,
`ApiAnswers`, `SpecsCollected`, `NodesAnswered` and `NodesFail` have no fairness. The loops of node and monitor
do not pass over a branch that is ready again and again (strong fairness of its
action), the tick of the refresh timer among them (`AskForNodes`). `TaskPipeline` takes the client's answers for granted
and `P2PLink` takes for granted that a handler reaches its next command; each
module's deadlock is the exception the other one allows for, and
`NodeLifecycle` assumes neither happens.

## Proofs

Every safety property of a passing run (invariant, action property or refinement) is a
theorem for every value of the constants that the `ASSUME`s of its module allow. The
assumptions say what the code relies on: finitely many tasks, a worker for each kind,
positive capacities, topics that differ, a list of models that is not empty. Two are about
the outside: no message of a run is also a request, and an answer of
the API lists peer ids, or what does not parse, under RPC ids (`ResponseAssumption`: an
*address* may lack its peer, an id is one).

`BatchSize > 0` is an hypothesis of the theorems that need it, not an assumption: size 0 is
accepted by the code and breaks `WorkerEndsWithChannel` (run `zero_batch_worker`).

Some theorems state what no run lists, because a run has a stronger property or the same
one for another module: `NodeEndsFirst`, `CircularWaitIsForGood`, `OneCommandUnderWay`,
`ReportsFollowArrivals`, `DeadlockIsForGood`, and the monitor's `ImplementsAcceptances`.

### Sequences and selections

`SequenceLemmas` begins with induction over numbers and over sequences
(`InductionOnNat`, `InductionOnSeq`), stated for a *set* that contains the start
and is closed under the step; the library's induction rules for operators
cannot be used by the installed provers. `Only(s, R)`, the recursive function in
place of `SelectSeq`, is shown to exist and be unique (`OnlyExists`, `OnlyIs`), and then
determined by induction: `OnlyAppend`, `OnlyRange`, `OnlyLen`, `OnlyConcat`.
`ModelMatchingProofs` has what follows for `ModelsFor` and that `Matching` selects
models of the list.

### Task path

- `TypeCorrect`: inductive as it stands. The one arithmetic fact is `BatchCount`: the
  limit of a `recv_many` is what the batch has left.
- `WorkersWithinLimits` (`WorkerLimits`): inductive with `TypeOK`. Its last conjuncts tie
  the phase of a worker to what it holds; without them a batch could start while an
  old output waits.
- `OnePlacePerTask` (`OnePlace`): inductive because it also says that no channel repeats a
  task, that what is in flight was taken, and that each worker has tasks of its
  kind only. One lemma per action (`SendTaskMoves`, `TakeResultMoves`, ...) states
  how the places change; disjointness then is set algebra.
- `WorkersEndWithChannel`, for a positive batch size: a worker that waits for tasks
  holds none, so its limit is not zero and only a closed channel ends it.
  `NodeEndsFirst` follows: a send to a worker cannot fail while the node runs.
- `PendingOwed` (`PendingIsOwed`) and `EveryTaskCounted` (`CompletedTally`), for a positive batch
  size: an action takes a task for a worker, receives one's result, or keeps both
  (`Takes`, `Receives`, `Keeps`); what follows for the pending sets and the counters is the same
  in every such action.
- `ImplementsLedger`, for a positive batch size: each action maps to a step of
  `TaskLedger` or to a stutter, as the `Moves` lemmas say.
- `SeriesKeepsOrder` (`SeriesInOrder`): the path of the single worker's tasks is one
  sequence of six places (`PathOf`). A step moves a task across one border
  (`PathSends`, `PathReceives`, `PathOutputs`, `PathTakes`, `PathAnswers`), which leaves the
  sequence as it is, or puts one at its end (`PathJoins`); tasks of the batch worker are not
  on it. It rests on `OneInHand` (from `WorkerLimits`) and on `SingleEndsLast`.
- `BatchesKeepOrder` (`BatchesInOrder`), for a positive batch size: by `PlaceOf` the places of
  a batch task are numbered along its way. Each action moves the first tasks of one
  place to the next, and `MovingOn` says when that keeps the order: towards those already
  there, and in the sequences (`BeforeAppend`, `BeforeTail`, `BeforeSplit`). The barrier is the
  case of `BatchRecv`: by `WorkerLimits` no output of an earlier batch is left.
- `NoVainWaits` (`NobodyWaitsInVain`), for any batch size: `NodeReady` and `WorkerReady` are the guards
  of node and worker. `BusyWorkerWaits` goes through the phases of a worker that has a task
  and leaves it ready or waiting for room in the publish channel; `OwedWorkGoesOn`
  through where the node waits. What it takes beyond `WorkerLimits` is `EndedIsDrained`,
  without which a task could lie in the channel of a worker that is gone.
- `CircularWaitIsForGood`: in `CircularWait` no step of the node and no delivery is possible, and
  those of the other worker leave what it speaks of alone.

### Link

- `LinkCorrect` (`TypeOK` and `OneCommand`; hence `OneCommandUnderWay`): inductive
  together. A command in the channel or a reply means that the node awaits, so the
  command's place in `job` is known and the capacity of the channel never matters.
- `StopsBehindClient` (`StopsInOrder`): `ClientTold` says that the client is closing exactly
  when the node holds the reply to `Shutdown` or has stopped.
- `ReportsFollowArrivals` (`ReportedInOrder`): `Order` says that what was reported, then what
  the node is handling, then the channel, then the client's hand make up what
  arrived. It is inductive with `JobShape`: a handler sends at most one acceptance,
  as its last command.
- `TakenRequestsAreSettled` (`RequestsSettled`): `Settled` has two witnesses, the requests taken
  so far and the responses given or still to be sent: with those that wait the
  first are all that came, and the second are a selection of them that leaves out no request for
  the specs. A counter in the model would have said it without a witness, but the code has none.
- `ImplementsAcceptances` (`KeepsAcceptances`): a message yielded is the ledger's `Arrive`, the client's
  step that handles an acceptance its `Report` (`StepSeen`). `Order` of the state after it says that
  what was reported then is the oldest one; nothing is reported after the
  end (`StoppedForGood`).
- `HandlersNeverStall` (`HandlersGoOn`): `HandlerShape` says that a handler never runs out of commands
  before it is done, and that the one that ends the loop has `Shutdown` as its last; by
  `ClientTold` the client is there until it has taken that. So the command under way is
  in the channel, in the client's hands, or answered.
- `HandlersEnd` (`HandlersCountDown`): `StepsLeft` is a natural number that each step of a handler
  lowers. It counts in advance the error message that may follow a refused result and the
  shutdown that may follow any error; without the two an error would raise it.
- `DeadlockIsForGood`: whatever could end `LinkDeadlock` is a step of one of the two that wait.

### Start, service check, end

- `TypeCorrect`: inductive with `CheckInv` (the check) and `MainInv` (`main` and its parts).
  `CheckInv` has `Progress(p)` for each provider: its good models are embedded in
  the first `n` of its configured ones, where `n` is how many its loop is through with,
  zero before its turn. Without it the list of good models is not even bounded. `LookedAt(p)`
  has its models among those seen or still to come in its loop.
- `CheckLeavesSurvivors` (`SurvivorsOnly`) reads the result off `Progress` and `LookedAt` when the
  check is over.
- `WorkersFit` (`WorkersMatchModels`): `new()` asks for a batchable and for another model
  separately; `MatchingAll` says that every model of the list is matched by some name.
- `ExitsOverNothing` (`ExitsAfterAll`): `SpawnedInTurn` adds which parts exist at each point
  of `main`, so that `"wait"` has seen every part that is needed.
- `CheckEnds` (`CheckCountsDown`): the measure is lexicographic, the stages still to come and then the
  calls left in this one, at most four for each model of the loop (`LoopIsBounded`, from
  `Progress`). The theorem has the bounds of both numbers too, `8` and `4 * MaxModels + 6`, so
  the length of a check is bounded by its list of models.

### Messages and monitor

- `TypeCorrect` for `MessageHandling`: with `KnownIsTold`, `known.ids = announced`: as
  refreshes only add, authorization is "was ever named".
- `EffectsHaveReasons` (`EffectsVouched`) and `VerdictsHaveReasons` (`VerdictsByMerit`) follow
  from it by going through `Judge` check by check.
- `WarningsAreTrue` (`WarnsOfSilence`): `PingsRecorded`, `lastPinged = heard`, for which
  `AnsweredIfAnswerable` compares the handler's chain of checks with the condition
  that the property states on its own.
- `Monitor`: `TypeCorrect` with `Link!OneCommand`, the link's guarantee shown anew
  for the monitor's loop; its invariant adds `Reported`: an acceptance
  whose reply waits has been reported. `ReportsExact` (`ReportsAreExact`) from `BooksExact`: both
  sets are what was accepted, of either form.
- `ImplementsAcceptances` for `Monitor`: the link's argument for another loop. Its `Order` has
  the handlers without an acceptance as silent (subscriptions, reports), and `ClientLeft`: when
  the monitor is done, the client takes nothing any more.

### Model-checked only

Liveness, which the prover does not support: `TakenIsAnswered`, `CancelledStops`,
`StoppedEndsWorkers`, `NodeEndsWithWorkers`, `ArrivedIsSettled`, `CancelledEndsBoth`,
`StuckCheckIsUntimed`, `CancelledExits`, `NodeEndsAll`, `StalledOnlyByApis`, `LostRpcIsDialled`,
`ArrivedIsAccepted`. Their safety core is proved where there is one: that somebody can go on
(`NoVainWaits`, `HandlersNeverStall`) and that going on comes to an end (`HandlersEnd`, `CheckEnds`).
`NodeReady`, `WorkerReady` and `HandlerReady` write out when actions are enabled, since the prover
does not know `ENABLED`; a guard they miss or claim in excess would show as a violation of
these invariants or of the liveness properties of the same module.

## Plan

All modules are written and every safety property that the runs check is proved. What could follow:

1. The liveness properties as theorems, from `NoVainWaits` and `HandlersEnd`; this needs a
   prover that supports `ENABLED` and fairness.
2. A measure for the monitor's handlers, as in `HandlersEnd`.
3. The commands no code sends and the events that are only logged, should the node come to
   use them.

## Not modelled

- The conversions of messages, payloads, keys and filters: `MessageHandling` and
  `Monitor` have only what they decide.
- The configuration from the environment and the collection of the machine's specs: input
  without lasting state.
- The configuration of the libp2p behaviour, gossipsub's message ids and duplicate cache (the swarm of
  `P2PLink` yields each message once), and the events of the client that are only logged.
- The commands no code sends: peers, refresh, network info and outgoing requests.
- What an execution computes, its statistics and its search tools.
- `transform.rs`, which the client does not use, and the throughput benchmark in `workflows/src/bin/tps.rs`, a tool outside
  the node.
