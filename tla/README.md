# SyntheticBrew Engine: a TLA+ verification of its concurrent core

The engine (`src/engine`) is a Go server that runs AI agents. HTTP requests open chat
sessions; each session has a loop that runs agent turns; an agent may spawn other agents,
keep a tree of tasks, ask its user, and call tools of remote servers through circuit breakers.
Around this are caches, connections, documents and releases that requests share and
administrators change. All of it is shared memory, goroutines, channels and a database, keyed
by session, agent, server or bundle. This directory holds TLA+ modules of the parts where
order, interleaving and failure decide what is correct, TLC runs on small instances, and
TLAPS proofs that hold for every instance. Paths below are relative to `src/engine/internal`.

1. [The system](#1-the-system)
2. [The modules](#2-the-modules)
3. [The runs](#3-the-runs)
4. [The proofs](#4-the-proofs)
5. [Where the code and its comments part](#5-where-the-code-and-its-comments-part)
6. [What is left out](#6-what-is-left-out)
7. [What could follow](#7-what-could-follow)

## 1. The system

### How a chat turn goes

```
HTTP  ── Chat ──▶ gate (usage limits, active users)                     TurnAdmission
                  SessionRegistry.CreateSession / Subscribe / EnqueueMessage  ChatSession
                  Processor.StartProcessing ──▶ go processMessages (one loop per session)
                                                   select { stop | message }
                                                   └─ processMessage ─▶ turn  AgentLoop,
   ◀── SSE ◀── fan-out goroutine ◀── channel ◀── PublishEvent ◀──────┘   │    Transcripts
        └ on "done": unsubscribe, StopProcessing, RemoveSession          │
          settlement of the turn                                         │
   ── ResumeInterrupt ──▶ event log, interrupts, queue     HumanInterrupts
                          MCP tool: CircuitBreaker, McpClients, McpStream ◀┤
                          agents:   AgentPool, AgentLifecycles            ◀┤
                          manage_tasks: EngineTasks                       ◀┘
administrators ──▶ ConfigCaches, McpClients, ConfigTransfer, KnowledgeDocs, KnowledgeGraph
```

### Inventory

| Part | State | Operations | What is hard | What makes it correct |
|---|---|---|---|---|
| Session registry, `infrastructure/flowregistry/session_registry.go` | map session → entry (r.mu); per entry subscribers, message channel, reply channels, turn cancel (entry.mu) | create, subscribe, enqueue, publish, remove, cancel, ask and reply | an operation looks its entry up under one lock and works on it under another; channels that are closed while others send | no send to a closed channel; nothing crosses sessions |
| Session processor, `service/sessionprocessor/processor.go` | active loops, active turns | start, stop, the loop, processMessage, confirmation | loops that outlive their request; cleanups keyed by session id that run after "done" | a message is handled once; a turn's events in order; "done" last; a tool runs only when confirmed |
| Chat adapter, `app/chat_http_adapter.go` | none but its goroutines | Chat, ResumeInterrupt, fan-out | check-then-create; overlapping requests | every response closes, with the whole turn and only that |
| Usage limits and active users, `usecase/usagelimit`, `usecase/activeusers` | counters with windows, active users (database), step accumulator per session (memory) | gate, begin, count, take, discard, settle | check before, settle after; overlapping turns share a count; windows elapse; statements fail | overshoot below the number of requests under way; no step charged twice |
| Interrupts (human in the loop), `…/configrepo/interrupt_repository.go`, `service/sessionprocessor/event_stream.go`, `app/chat_http_adapter.go:427` | table interrupts, event log, queue | ask, publish, resume | two answers at once, failures and restarts between three writes | answered once; records fit; what is shown can be answered |
| Agent flow, `infrastructure/agents/react`, `service/engine` | transcript, counters of a turn | the REACT loop, its walls and loop breakers | what a language model answers, in which round which limit is met | within budget; well-formed transcript; looping turns end; something to say |
| Transcripts, `service/engine/message_collector.go`, `infrastructure/agents/context_rewriter.go` | live transcript, collector's copy, snapshot | collect, append, compress | two copies of one conversation; ids that repeat; budgets | fits; keeps questions and whole exchanges |
| Agent pool, `service/agent` | agents, session contexts, waits | spawn, restart, stop, end, remove session, wait | status, task, record, event and signal of an agent that ends are separate steps, and stop, restart and removal fall in between | waits return; no agent works on unseen; tasks and records settle; events before results |
| Lifecycle manager, `service/lifecycle`, `app/lifecycle_adapter.go` | instances and contexts by agent and session | execute a task, stash and fetch its answer | an instance shared without a lock; an agent's mode changes | a persistent agent remembers, a spawned one starts bare; refused only for a reason |
| Task store, `infrastructure/taskrunner/engine_task_manager_adapter.go`, `…/configrepo/task_repository.go`, `domain/engine_task.go` | table tasks | create, subtask, transitions, edits, cancel cascade | read, change, save all columns, without a lock or version; a cascade in one transaction | transitions follow the state machine; rows whole; no circular blocking; bounded depth |
| Circuit breakers, `service/resilience`, `infrastructure/tools/circuit_breaker_tool_wrapper.go` | breaker per server; registry | get, reset, allow, record | answers that arrive after the state changed | opens for cause, lasts, recovers; one breaker per server |
| MCP manager, `infrastructure/mcp` (manager, client_registry, refresher, forward_headers) | clients, refreshers, headers by server | load, reload, reconnect, disconnect | reloads against each other, hooks and readers | no client lost; registry follows the table |
| MCP SSE transport, `infrastructure/mcp/sse_transport.go` | stream, pending calls, endpoint | send, read, reconnect, close | two parties reconnect, close meets a call | one stream; every Send returns |
| Caches, `infrastructure/llm/model_cache.go`, `infrastructure/kgtools`, `infrastructure/agentregistry`, `app/byok_resolver.go` | entries by id | load, invalidate, expire | an invalidation between read and insertion | stale only for a known reason, and not for ever where a lifetime says so |
| Knowledge documents, `service/knowledge` | documents, chunks | upload, index in the background, delete | indexing races deletion and the end of the process | the status tells what a search finds |
| Knowledge graph, `usecase/kgapply`, `usecase/kgmutate`, `…/configrepo/kg_*` | bundles, schemas, entities | apply a release, single writes, drop | releases overlap; checks outside the transaction; a stub for a lock | the entities of a bundle, and the schemas its release names, are of one release |
| Configuration transfer, `app/config_import_export_http_adapter.go`, `delivery/http/config_handler.go` | the configuration tables, the file | export, import | sections read one by one; several transactions | the file is the truth; a round trip loses only what is known |
| Event store, `service/eventstore` | session_event_log | append, replay | append, then publish | within `HumanInterrupts` and `ChatSession` |
| Task executor and worker, `infrastructure/taskrunner/task_executor.go`, `service/task` | queue, running tasks | execute, submit, stop | shutdown during a task; a session shared with a chat | not modelled: no production caller |
| Orchestrator, event bus, dispatcher, `service/orchestrator`, `service/lifecycle/dispatcher.go` | channels, counters | publish, run, dispatch | signals that outlive their event | not modelled: no production caller |
| Tools, shell, language servers, code index | processes, files | one call each | I/O | not modelled |
| Configuration endpoints, HTTP delivery, authentication, wiring, admin interface, deployment | tables, requests | create, read, update, delete | single statements | not modelled |

## 2. The modules

| Module | Stands for | Used by |
|---|---|---|
| `SessionRegistry` | the registry: one operator per critical section | `ChatSession` |
| `ChatSession` | Chat and its fan-out, the loops, the user | `ChatProperties` |
| `ChatProperties` | what the chat path promises | `MCChat`, `ChatProofs` |
| `TurnAdmission` | gate, accumulator and settlement | `MCServices`, `TurnProofs` |
| `HumanInterrupts` | asking and answering over three records | `MCServices`, `TurnProofs` |
| `AgentLoop` | one turn of the REACT loop | `MCServices`, `TurnProofs` |
| `ContextRewriter` | which messages survive a budget: operators only | `Transcripts` |
| `Transcripts` | what an agent remembers of a session | `MCServices`, `TranscriptProofs` |
| `AgentPool` | agents, waits, records, the subtasks they work on | `MCAgents`, `AgentProofs` |
| `AgentLifecycles` | delegated agents and their memory | `MCServices`, `AgentProofs` |
| `TaskBoard` | abstract: what the task store promises to callers that do not overlap | instantiated by `EngineTaskProperties` and `SerialTasks` |
| `EngineTasks` | the task store on a READ COMMITTED database | `EngineTaskProperties` |
| `EngineTaskProperties` | what the store guarantees | `MCTasks`, `SerialTasks` |
| `SerialTasks` | the store when its calls are made one at a time | `MCTaskTrees`, `TaskProofs` |
| `CircuitBreaker` | breakers of one server, the registry, the wrapped tools | `MCAgents`, `AgentProofs` |
| `McpClients` | connections to MCP servers under hooks and reloads | `MCServices`, `McpProofs` |
| `McpStream` | the SSE transport of one client | `MCPlatform`, `McpProofs` |
| `ConfigCaches` | four caches and their invalidation | `MCServices`, `ConfigProofs` |
| `KnowledgeDocs` | documents, chunks, indexing, deletion | `MCServices`, `KnowledgeProofs` |
| `KnowledgeGraph` | releases of bundles and single writes | `MCPlatform`, `KnowledgeProofs` |
| `ConfigTransfer` | export and import of the configuration | `MCPlatform`, `ConfigProofs` |
| `Nil` | the value for "nothing" that these share | most of them |

A definition whose comment begins with "Variant" is a plausible mistake in the definition
after it; no behaviour uses one. They are there to see the properties fail: put in place
of the real definition, each makes a run report the property it was written for.

### SessionRegistry and ChatSession

*State.* One request creates at most one entry, one subscription and one message, so the
request names all three. `sessions` is `r.sessions`; `messageCh`, `subscribers`,
`askReplies`, `turnCancelFn` are fields of an entry and stay with it after it left the
map; `channel` and `replyCh` are Go channels with their contents and whether they are
closed. `active` and `turnsActive` are the processor's maps, `pool` the proxy and the
callback the agent pool keeps for a session. `request` and `loop` hold the program
counters and local variables of the two kinds of goroutines. `answered` and `stream` are
histories: who confirmed, and what reached the client.

*Steps.* A step ends where the code releases a lock or blocks. Where an operation looks
its entry up under `r.mu` and works on it under `entry.mu` (Subscribe, EnqueueMessage,
PublishEvent, RemoveSession) the model has two steps. The deferred calls of the fan-out
(unsubscribe, StopProcessing, RemoveSession) and of processMessage (clear the turn cancel,
drop the pool's registration, clear the turn flag) are steps in the order they run.

| Code | Actions |
|---|---|
| `Chat` from `HasSession` on, `ResumeInterrupt` likewise | `Arrive`, `Create`, `SubscribeLookup`, `SubscribeInsert`, `EnqueueLookup`, `EnqueueSend`, `Refuse`, `StartProcessing` |
| fan-out goroutine | `Forward`, `ChannelClosed`, `DeferUnsubscribe`, `StopProcessing`, `RemoveDetach`, `RemoveClose` |
| `processMessages` | `OpenChannel`, `SelectDone`, `SelectMessage`, `Exit` |
| `processMessage` | `SessionContext`, `MarkTurn`, `PublishLookup`, `PublishDeliver`, `CreateExecutor`, `RegisterWithPool`, `StoreCancel`, `EmitChunk`, `CallConfirmedTool`, `ReturnFromTurn`, `ClearCancel`, `DropPool`, `ClearTurn` |
| `RequestConfirmation` | `AskUser`, `ReceiveReply`, `ConfirmTimeout`, `Unregister` |
| the user | `Arrive`, `Cancel`, `Reply` |

*Abstractions.* The turn itself emits up to `MaxChunks` chunks, asks for confirmation if
it is in `Confirming`, and returns with or without an error. The client reads its response
(`sseCh`) as soon as something is in it, so the fan-out never blocks there. `StoreTurnCancel`
and `RegisterAskUser` take lookup and insertion in one step: a removal between the two
halves leaves them working on a dead entry, which is what the single step does on a missing
session. `SetProxy` and `SetEventCallback` are one step. The user's replies are sent in one
step because nothing in the engine calls `SendAskUserReply` yet. The `cancelled` flag of an
entry is left out, nothing reads it. The usage gate and the settlement are `TurnAdmission`,
the records of an interrupt `HumanInterrupts`.

### AgentPool

*State.* `pool` is the status in `p.agents`, `goroutine` how far the agent's Spawn and then
its goroutine have got, with the subtask and outcome it carries; `cancelled` and
`signalled` its context and completion channel; `task` the status of the subtasks; `run`
and `updating` the record and its pending updates; `waiter` the tools that wait. `announced`
is a history of the lifecycle events sent, `unrecorded` one of the agents whose record or task was left
as it was: the write failed, or markFailed found the agent gone.

*Steps.* An agent that ends does: status (`MarkCompleted`, `MarkFailed`, under `p.mu`),
task and start of the record's update (`Settle`), event (`Announce`), channel
(`SignalCompletion`); the update of the record is a goroutine of its own (`UpdateRun`).
`Spawn` is two steps (assign the task and derive the context; `RegisterAgent`), `WaitForAll`
takes the session's context and then the channels. Stopping, restarting, removing the
session and cancelling the supervisor's turn can come anywhere.

*Abstractions.* The pool of one session. `Spawn` assigns the task and derives the context
in one step, which a removal of the session in between cannot tell from one before or
after. `RestartAgent` checks the former agent and begins the spawn in one step: if the
former agent is removed in between, the code goes on with the snapshot it took, which is the
same as an ordinary spawn for the same task. An event for which no callback is registered
counts as sent. A record's last status is not told apart (`ended`). The subtask manager is
`AssignTask`, `SettleTask` as the engine's adapter answers; that adapter in full is
`EngineTasks`. Saving and updating a record and settling a task may fail; the code logs that and tries nothing
again.

### TaskBoard and EngineTasks

*State.* `rows` is what the database has committed, `lock` the transaction that has written
a row and not ended, `call` the calls in flight with what they read. A row has its status,
parent, blockers and whether its two timestamps are set; the other columns only matter in
that every save writes them all.

*Steps.* Every update is `Read` (find the row, change the copy) and `Save` (all columns, once
the row is unlocked). `CreateTask` is one step, its validation included;
`CreateSubTask` is `ValidateParent` and then the insert with the validation of blockers.
`Cancel` is a transaction: for each task of the tree `CancelVisit`, `CancelSave` (takes the
row lock), `CancelSubtasks`, and at the end `CancelCommit`. `Abort` breaks off any call and
undoes what it had not committed.

*Abstractions.* Reads see committed rows (PostgreSQL's default, which the code does not
change). The walk of `validateParent` up the tree is one read: parents never change. What it meets
are the `Ancestors` of the parent, the least set that holds its parent and with each task the parent
of that one; it refuses one it cannot find and one it meets twice. The recursion is a set of tasks still to visit, deepest first, which is its order
up to the order among siblings. `cancelRecursive`'s own limit of 64 is unreachable under
`MaxTaskDepth` (`ForestBounded`) and left out. Task ids are fresh,
so no two calls create the same row.

`TaskBoard` is what a caller may believe: transitions of `engineTaskValidTransitions`, and
a cascade in one step. `EngineTasks` implements it by the committed status and parent, as long
as calls do not overlap (`SerialImplementsBoard`, in `SerialTasks`).

### CircuitBreaker

*State.* `registered` is the registry's entry for the server, `breaker` the objects' fields,
`agent` what each agent does and the breaker its tools are wrapped with. Time is discrete and
kept as ages, each counted up to the interval it is compared with, so the model is finite
without losing an outcome. Failures are listed in the order of time, so what `RecordFailure`
keeps of them is the end of the list. `removed` and `streak` are histories.

*Steps.* `GetLookup` and `GetCreate` (the two looks of `Get`), `Reset`, `Allow` and `Refuse`
(AllowRequest, which also turns open into half-open), `RecordSuccess`, `RecordFailure`,
`State` (a reader, which also turns open into half-open), `Tick`.

*Abstractions.* `countAtOpen` and `FailureCount` only feed the administrator's page.

### TurnAdmission

*State.* `slot` is where each request under way is: a slot that has ended takes another
request, so runs of any length need few slots. `turns` and `elapsed` are a counter of
`usage_counters` and whether its window is over, `recent` the users `active_users` would count,
`counts` the accumulator. `made` and `charged` are histories of steps.

*Steps.* One statement or one critical section of the accumulator each: the gate
(`IsActiveSince`, `CountActiveSince`, `CheckTenant`, `CheckUser`), `Resolve` for a resume,
`Begin`, `Accept` or `Fail`, and after the turn `RecordActivity`, `Take` or `Discard`,
`ChargeTenant`, `ChargeUser`. `Inc` is a model step of the turn, also of agents that
go on after it. Any statement may fail, windows elapse and users lapse at any time, and
`ServerRestarts` forgets the accumulator and every request under way.

*Abstractions.* The gate enforces (the monitor mode of active users and the exemption of
operators are left out). Users who bring their own model key skip the usage limits, as in the code.
Streaming is `ChatSession`'s.

### HumanInterrupts

*State.* `requested` and `resumeLog` are the events in the log, `row` the table, `asking` the
turn that shows a widget, `resumer` the requests that answer. `unstored` (a write failed) and
`answers` (messages queued) are histories.

*Steps.* `persistAndPublish`: `AppendRequest`, `CreateRow`, `PublishRequest`, which goes on where a
write fails. `ResumeInterrupt`: `Answer` (reads the row), `LoadWithRequestEvent`, `AppendResume`,
`MarkResolved` (the conditional update that settles the race), `FindEntryAgent`, `EnqueueAnswer`,
and `FailAnswer` wherever it returns an error. `InterruptRestart` ends everything under way.

### AgentLoop, ContextRewriter and Transcripts

`AgentLoop` is one turn: its nodes are the actions (`ModelAnswers`, `ModelCalls`, `RunTools`,
`DirectReturn`, `ChatToFinalize`, `Finalize`), with eino's own wall (`HitBackstop`), the clock and
failures beside them and `Deliver` for what the client is given. `transcript` is the recorded
messages and `output` what a node hands to the next and is recorded by that one's pre-handler;
this delay is where a request without results could stay behind. Which tools the model asks for,
which results are errors and how long a round takes is arbitrary.

`ContextRewriter` is the compression as operators on indices of a conversation: which user
messages stay, which exchanges form one group, what fits. A message is its role, call ids and
size. `Transcripts` uses it as the code does: before each model call on the live transcript, at
the end of a turn on the snapshot. The collector rebuilds the conversation from tool events, whose
ids are the tool and a step counter that restarts with every turn. In mode "parallel"
the calls of a round start and end in any order.

### AgentLifecycles

*State.* `instances` and `contexts` are the manager's maps, `instance` the objects, which calls
share by reference, `delegation` the calls in flight with what they hold, `stash` the answers nobody
fetched yet.

*Steps.* `ExecuteTask` cut wherever it takes or releases the manager's lock or an object's:
lookup or creation, the reset of a spawned agent, the checks and changes of state, the recall of the
record, the run, the recording, and the cleaning up after it. `ChangeMode` is an administrator.

### McpClients and McpStream

`McpClients` is one tenant's `ClientRegistry` and what surrounds it. `WriteRow` and `DeleteRow`
commit a row and start the hook's goroutine; `Reload`, `GetForContext`, `GetByName`, `Lookup`,
`LockTenant`, `List`, `LoadServer`, `FinishLoad`, `Reconnect`, `Disconnect`, `Forward` are the steps of
hooks, reloads and first loads; `TickMissing` and `TickStop` a refresher that finds its server
gone. Both modes are explored: with the tenant's lock (`perTenant`) and without. A row is its version,
a client the version it dialled, so "the registry is what the table says" is an equation.
`excused` remembers servers that could not be dialled or whose hooks overtook each other.

`McpStream` is one client's SSE transport: callers of `Send`, a goroutine per stream, one reconnect
at a time under `reconnectMu`, `Close` at any moment. A step is a critical section of `t.mu` or a
channel operation. The server is external: it may drop a stream, refuse, announce nothing, lose a
request, or answer it on the stream or in the body. A stream nobody refers to any more is free to stand
for the next one (`FreeStreams`), so two of them last for any number of reconnects; an attempt that
finds none free fails, as one may anyway.

### ConfigCaches

Four caches with one entry each: model clients and BYOK settings (read the table, insert), the
schemas of a bundle, and the agents with the tools derived from them (loaded under `Manager.mu`). A
table is the number of its last change. `Commit` and `Drop` are the two halves of a write that
invalidates; `CommitSilently` is one that never does (section 5 lists them), and `undropped` names the
data such a write has changed since. `Miss`, `ReadTable`, `InsertEntry` are the steps of a load: the row of a
model that cannot be read is not cached, but BYOK settings that cannot be read are cached as the
configured ones (`Configured`). `TickCaches` ages the BYOK entry.
`overlapped` names the entries that were not the table's when they were inserted.

### KnowledgeDocs and KnowledgeGraph

`KnowledgeDocs`: the upload writes the row and starts the indexer (`Embed`, `SaveChunks`,
`FindDocument`, `SaveStatus`); `DeleteFile`, `DeleteChunks`, `DeleteDocument` and
`DeleteAllChunks`, `DeleteAllDocuments`, `DeleteKB` are the deletions, each step one statement. Any of them
may fail and `ServerStops` may come between any two. `SaveStatus` writes the row read before it, so it
inserts one that was deleted meanwhile, as GORM's Save does.

`KnowledgeGraph`: a release is applied in one transaction (`UpsertBundle`, `UpsertSchemas`,
`ClearEntities`, `InsertEntities`, the last of which commits) after two checks outside it
(`ValidateCrossRefs`, `Detect`). Single writes of schemas and entities are a read and a transaction of
one row, so is the deletion of a bundle. The advisory lock of the code does nothing; what serialises
two applications of a bundle is the lock on its row, which the model takes with the first write and
keeps until the commit. `UpsertSchemas` deletes no schema. `Fail` undoes what is not committed. A row is known by the release it came with.

### ConfigTransfer

The tables hold agents, models, servers, schemas with their relations and graphs; a file the same
without keys, kinds of tools and hints of relations, and with variables masked. `StartExport`,
`ExportSection`, `Write` read the sections one by one; `ImportTables` is the first transaction,
`ImportGraph` one for each graph, `ReloadImported` the registry. `Edit` stands for all other endpoints: it
may leave any of `Configurations`. The options of an agent are the columns `applyAgentImportDefaults` fills
(`Defaults`: limits of steps, context and turn, lifecycle, order of tools), `None` being zero or empty. `Given` is
how arguments and headers of a server are kept, `ImportedGraph` what a release leaves of a graph's types. Columns that go
into the file and come back as they are (`settings`) and those no file holds (`key`, `system`) are one each;
other columns no import touches, and the syntax of the file, are not modelled. A tool that is not builtin
is one that no endpoint writes today; the repository still reads it and PATCH keeps it
(`agent_repository.go:317`, `:402`).

## 3. The runs

Seven runs pass, five show a disagreement (section 5).

| Run (`.cfg`) | Instance | Question |
|---|---|---|
| `chat_sequential` (`ChatSequential`) | 2 requests of one session, the second a resume whose turn asks for confirmation, clients wait for a response before they go on | Does every response close (`StreamCloses`), with the whole turn and only that (`WholeTurn`, `OwnTurnOnly`), though the loop of the turn before is still cleaning up? Does no tool run unconfirmed (`ConfirmedByUser`)? |
| `chat_overlap` (`ChatOverlap`) | any two overlapping requests, of one session or of two, with cancellation in one of these | Is no closed channel used (`RegisteredChannelsOpen`), no message handled twice (`TurnRunsOnce`), no event out of its turn's order (`TurnOrder`)? Does nothing cross (`SessionIsolation`)? Types (`TypeOK`). |
| `tasks_concurrent` (`TasksConcurrent`) | 2 tasks, 2 calls, 1 blocker, transactions that break anywhere | Do rows stay whole (`RowsConsistent`), do no tasks wait for each other (`NoCircularWait`), do calls that meet on locked rows return (`CallsReturn`)? Types (`TypeOK`). |
| `tasks_trees` (`TasksTrees`) | 3 tasks, 2 calls, depth 2 | Overlapping: is the depth read before an insert still right at the insert (`ForestBounded`)? One at a time: do calls implement the abstract board (`SerialImplementsBoard`)? |
| `agents` (`Agents`) | pool: 2 agents, 1 task or none, 1 waiting tool; breakers: 2 agents, 2 breakers (one reset), threshold, window and interval 2 | Pool: `TypeOK`, `SignalAfterEvent`, `NoOrphans`, `EverythingSettles`. Breakers: `BreakersSound`, `OpensAndStaysOpen`, `OpenRecovers`. |
| `services` (`Services`) | eight components, see below | `ServicesTypeOK`, `AdmissionBounded`, `StepsChargedOnce`, `InterruptsAnswered`, `ServersFollowed`, `CachesFollow`, `TurnsEndWell`, `CompactionKeeps`, `SessionMemory`, `StatusIsHonest` |
| `platform` (`Platform`) | knowledge graph, transfer, SSE transport, see below | `PlatformTypeOK`, `ReleaseLandsWhole`, `GatesHoldAlone`, `RoundTrip`, `FileIsTruth`, `ImportPreserves`, `StreamKept`, `SendsReturn` |
| `chat_unconfirmed` (`ChatUnconfirmed`) | 2 overlapping requests, both confirming | violates `ConfirmedByUser` |
| `pool_late_waiter` (`PoolLateWaiter`) | 1 agent, 1 waiting tool | violates `ResumeAfterEvents` |
| `tasks_terminal` (`TasksTerminal`) | 1 task, 2 calls | violates `TerminalIsFinal` |
| `history_pairs` (`HistoryPairs`) | sequential tools, 3 turns | violates `PairingPreserved` |
| `mcp_closed_send` (`McpClosedSend`) | 1 caller, 2 streams | violates `FailuresAreErrors` |

*Several components in one run.* `agents`, `services` and `platform` check components that share no
state. Such a run picks one of `Parts` in the initial state and explores its behaviours
only, the variables of the others staying at one initial state. As no action of one reads or writes
what another has, the reachable states of each are those it has alone or in any
interleaving with the others, and the properties, each of which speaks of one component, mean the
same. The number of states is the sum and not the product. The violating runs fix `Parts` to one.
`tasks_trees` uses the same device for two kinds of behaviour of one component.

*What the properties of the sums say.*

- `AdmissionBounded`: the turns of a window and the active users pass their limits by less than the
  requests under way. `StepsChargedOnce`: no step is charged twice.
- `InterruptsAnswered`: an interrupt is answered once (`AnsweredOnce`), its events, row and answer fit
  (`RecordsFit`), what is shown can be answered unless a write failed (`WidgetAnswerable`).
- `ServersFollowed`: registered clients are open (`RegisteredOpen`) and, with the tenant's lock, none is
  lost (`NoClientLost`); between calls, clients, headers and refreshers are those of the table
  (`CatalogFresh`, `HeadersFresh`, `RefresherFollowsRow`).
- `CachesFollow`: the agents are stale only after a write that never drops them (`AgentsFresh`), other
  entries also where a drop fell into a load (`StaleOnlyByOverlap`), BYOK settings of before a change not
  for longer than their lifetime and a load, dropped or not (`ByokExpires`).
- `TurnsEndWell`: seven facts about a turn: its budget, its transcript, the loop breakers in both
  directions (cut short only when it loops, always when it loops tightly), the warning before the wall,
  return-directly tools, and that a forced end has something to say.
- `CompactionKeeps`: results follow their calls, the budget holds, user messages and the newest exchange
  stay, and a result stays with the call of its turn that alone has its id.
- `SessionMemory`: a spawned agent starts bare, a persistent one remembers each answered task once, a task
  is refused only for an overlap or a change of mode.
- `StatusIsHonest`: a document at error has no chunks, one at ready has as many as its row says.
- `BreakersSound`: one breaker per server (`OneBreaker`), which is not closed after enough failures
  (`ClosedIsHealthy`), and types. `OpensAndStaysOpen`: it opens for cause and for the interval.
- `EverythingSettles`: waits return; a run record does not say "running" for ever, nor a task "in progress", but for
  the two cases in which the code gives up: a failed write, and an agent that fails after its session was removed.
- `ReleaseLandsWhole`: a bundle's entities, and the schemas of the types its release names, are those of the
  application that wrote its version, complete but for single writes; the schemas of types the release does not
  name stay from earlier ones. `GatesHoldAlone`: what the checks of a release promise holds while requests do not overlap.
- `RoundTrip`, `FileIsTruth`, `ImportPreserves`: an own export changes nothing but the four things
  section 5 lists, an import leaves what the file says, with defaults for what it leaves out of an agent, and takes
  away neither rows, nor secrets, nor what the file does not mention of a server.
- `StreamKept`: one live stream, or a reconnect under way or one that failed. `SendsReturn`: every Send does, unless
  a dial never ends (see section 5), and then every Send that need not reconnect still does.

*Bounds.* The hazards of the chat path are between two goroutines of one session: two
requests give two clients, two fan-outs, two loops, and an entry that is replaced; the three
requests of `chat_overlap` are two of one session and one of another, of which any two run
(`TwoRequests`). Subscriber buffers hold every event an instance can produce (8), message
buffers every message (2): the runs ask what happens without loss; for loss see section 5.
One chunk is enough for an event before "done". In `chat_overlap` at most one turn sends it (`OneChunk`),
and only while the other request, of its session, has not got past its subscription
(`ChunksAmidSubscribers`): those are the behaviours in which a chunk can reach a client it is not for or one that
missed its beginning. Turns that overlap for longer show the events "error" and "done", which are published
by the same steps; an order between two turns is seen on them. In the pool, two
agents give a restart, a stop of one while the other ends, and two late reports on one task. Agents
are alike, so `SpawnedInOrder` explores only behaviours that spawn them in a fixed order, and of an agent with a
task and one without the one with the task first (`TaskFirst`);
losses of rows are explored while nobody waits, as no step that a wait depends on reads a row
(`LossesAmongIdle`);
spawning is not fair, so no liveness is lost; `CreatedInOrder` does the same for tasks.
Two overlapping calls are enough for every lost update; a third task is there for a subtask
of a subtask, and where calls overlap on three the statuses that differ from others in nothing the
shape of trees depends on are left out (`FewStatuses`; all of them are in `tasks_concurrent` and in
the calls made one at a time). Two agents and a threshold of two give a late failure and a late success
around another's call; two ticks tell "before", "at" and "after" an interval apart.

In `services`: two slots overlap at the gate, and with three sessions and users one of whom pays by the
limits and two by keys of their own each path of the gate is taken. Two interrupts and two answers meet on one
row or pass each other, with two resume events at most. Two servers, two callers and two row versions
let every two hooks overlap; without the tenant's lock one write (`FewUnlockedWrites`) already lets two callers
interleave at each step. Caches have two readers and a writer, with two changes of any two tables
(`FewChanges`). A turn runs until a wall or a breaker ends it: limits of no and of three steps,
thresholds of two, delays of one and two against a tight window of one and a turn of four.
Transcripts go over three turns of a round each with sizes around the budgets, so each
group of messages is dropped and kept. Three delegations, two at a time (`PairsOfCalls`), and one
change of mode give a task before, during and after another. Two documents and two deletions meet the two indexers.

In `platform`: two bundles, two types of which one may refer to the other, two requests and three releases; at most
two rows are written or removed on their own at one time (`FewSingleWrites`). The transfer has five
configurations and three files nobody exported, one edit (`MaxEdits`) and three exports or imports
(`MaxTransfers`), so an own export is imported twice or a torn file once. One
caller and two streams let a caller, a reader and Close meet; a second caller adds only a second waiter
for `reconnectMu`. These constraints cut behaviours by the values they reach, not by their order, except
`SpawnedInOrder`, `TaskFirst`, `CreatedInOrder` and `PairsOfCalls`, whose processes are alike.

*Symmetry* is used only in `chat_overlap`, `tasks_trees` and `services` (`Alike`: the two
callers, readers, requests or deletions of a part), which have no liveness properties. Nothing in these
models chooses between two of a kind, and the initial states are closed under the exchange.

*Deadlock.* The chat runs end when all requests are answered, the services and platform runs when a
part has used up what is bounded, so they do not check for deadlock. The others do.

*Fairness.* `ChatSession`: each goroutine that can move does (the Go scheduler), a turn
ends because its steps are bounded (`MaxChunks`; in the code max_steps and a time budget), and the
confirmation has its timer. No request, reply or cancellation is ever assumed. `AgentPool`:
goroutines move, and an agent's run ends (the same budgets); nobody has to spawn, stop or wait.
`EngineTasks`: a call that can go on does; strong fairness on the two saves says that the
database hands a row's lock to waiting writers in turn. No call is assumed to be made.
`CircuitBreaker`: time goes on, calls return, because the timeout is wrapped inside the breaker,
and an agent that the breaker lets through calls sooner or later. The last is an assumption about
users and not about scheduling: an open breaker recovers only when somebody looks at it, so
`OpenRecovers` speaks of servers whose tools are still in use. `McpStream`: a caller of Send goes on or
its timer fires, a reconnect goes on, and a Go mutex that is released again
and again is handed to each waiter at last (starvation mode; strong fairness on `LockReconnect`). Neither
the server nor the readers of streams are assumed to do anything; in particular a dial need not end, as
`sseClient` has no timeout and the context of a reconnect comes from Background (sse_transport.go:34,56,93,352):
only one that Close has cancelled does.

## 4. The proofs

Every theorem is of the form `Spec => []P`, or `Spec => [][A]_vars`, for every value of the constants, from the named
assumptions on constants only, but for four. `ImplementsBoard` says that a specification implements an abstract one.
`OwnTurns`, `AsksFirst` and `NothingLost` are about clients that wait for their response (`ClientsWait`: no overlap,
and a queue that holds a message, 32 in the code); the run `chat_unconfirmed` shows that `ConfirmedByUser` fails without that.
`NothingLost` also needs a channel that holds the events of a turn (`TurnFits`; 64 in the code), as one more is dropped. Each
rests on an inductive invariant, because `P` alone says too little of the local variables of processes
that are between two steps.

| Module | Theorems | Inductive invariant |
|---|---|---|
| `ChatProofs` | `TypeCorrect`, `Isolation`, `ChannelSafety` | `IInv` types every variable by session: what is kept for a session, an entry, a subscriber or a loop comes from requests of its own session, local variables (`sub`, `target`, `src`, `msg`) included, since a loop publishes to the entry it looked up before. As membership in `Seq(...)` this survives Append and Tail. `ChannelInv`: a channel is registered in at most one entry, the one its request subscribed to, and is closed only by the step that takes it out. |
| | `HandledOnce`, `InOrderTurns` | `OnceInv` follows a message from its request to a queue to a turn: it is at one of these places. `OrderInv` needs it: as a turn has one loop, all that was published of the turn, forwarded or still in a channel, comes before what this loop publishes next, which its step tells (`Reached`). |
| | `OwnTurns`, `AsksFirst` | `SoloInv`. The request in flight is alone in its session and owns all it uses: the entry it created, of which it is the only subscriber (`OwnEntry`), and the loop it started, which reads that entry and has published "done" before the response can end (`OwnLoop`). So what an old loop still does reaches nobody, no message is refused, no channel is closed under its reader, and no reply channel while a turn waits on it (`OwnReply`). |
| | `NothingLost` | `WholeInv` counts: the chunks of a turn are those forwarded, those in the channel and the one about to be published; the step of the loop bounds how many other events came before (`Others`), so that each event finds room. |
| `TaskProofs` | `TypeCorrect`, `RowsStayConsistent`, `NeverCircular` | Overlapping calls save stale rows, so `IInv` says what a stale copy may be: of a task that exists, a state the transitions produce, with the row's own parent and blockers, which nothing changes after creation. The newest task of any set is blocked by none of the set, because blockers exist before the task that names them. |
| | `ForestStaysBounded` | `ForestInv`: every existing task has finitely many ancestors, which exist and are fewer than `MaxTaskDepth`, and so will the subtask that a call has validated. It holds across overlapping calls because saves keep a row's parent and a new task is nobody's parent: it adds one to the ancestors of its parent and changes those of no other task (`LeafAdded`). |
| | `ImplementsBoard` | The refinement. A step of the store is a step of the board or a stutter: the save of an update is the update, the commit of a cascade the cascade, all else stutters. `SerialInv`: a call that is alone has read what is still so (`StillSo`), and the open children of what a cascade has written are written too or still to visit (`Cascading`), so that what it commits is the cascade of the board, in trees of any shape. |
| `AgentProofs` | `TypeCorrect`, `EventBeforeSignal`, `NoneUnseen`, `EndsAreTold` | `Progress`: an agent about to signal has sent its event, one that settles knows its outcome, and only spawned agents are listed as running, so the removal of a session cancels everyone it forgets. For `EndsAreTold`, that the task of a spawned agent is not pending any more (`Started`), so no later agent puts back in progress what an earlier one settled. |
| | `RemembersSession`, `CallsHaveInstances` | `MemoryInv`. What a call recalls and what is recorded are calls of its own agent, each once (`CallFits`, `ContextsFit`); the record of an agent that was never spawned has each of its answers (`Remembered`). Whoever finished a shared instance is about to reopen or to delete it (`FinishedFits`), so a call that is alone with its agent finds its instance as it left it (`AloneFits`), and none of its transitions is refused. |
| | `SoundBreakers`, `OpenForCause` | `BreakerInv`. What a closed breaker remembers is the end of the failures since the last success, and those before it are out of the window (`EndOf`), so fewer failures than the threshold are recent. The list is in order of time, so the number of old failures tells where the recent ones start (`Pruned`). Whoever has a breaker, an agent or the registry, has one that was created (`InUse`), so a new breaker is nobody's. |
| `TurnProofs` | `BoundedAdmission`, `ChargedOnce`, `AdmissionsWellFormed` | A count is not inductive, as a request past the gate adds to it later. The requests that may still add are counted with it (`KeyBounded`, `ActiveSoon`); one joins them only below the limit, there are no more of them than slots, and one leaves them when it adds. After the end of a window the gate lets everybody pass, but the next settlement starts the count afresh. |
| | `AnsweredWell`, `InterruptsWellFormed` | Who may still queue an answer: the one request that found the row pending in `MarkResolved`, and only until it has queued it; a row is pending once, because the turn that asks writes it before it shows the widget. |
| | `EndsWell`, `CountsWithinBounds` | `LoopInv` reads the transcript off the engine's counters (`History`). The streak of the breaker is the run at the end of the rounds (`Streak`), a tool's errors in a row are some of its errors, a correction is a note in the results. A repeat beyond the threshold has cost a correction (`sameArgs < threshold + corrections` while the turn goes on), which is why no run grows longer than both together. `WithinWalls` bounds the nodes run by the rounds begun, so that eino's wall is never the first to be reached. |
| `TranscriptProofs` | `KeepsMemory`, `WellFormed` | What compression keeps of any conversation of messages that measure something is proved of the operators first: `Weight` adds up over disjoint sets (`WeightAdds`), the backward pass keeps within its room what it keeps of a group whole or not at all (`FitInv`, `GroupWhole`), and meets the newest exchange first (`NewestExchange`). `TranscriptInv` then says which conversations there are: the last exchange of what is compressed is answered (`NewestAnswered`), since tools return before the model is called and a collected call without a result runs; and a sequential agent's running call is the pending one and was noted last, so that its result finds it. |
| `KnowledgeProofs` | `HonestStatus`, `ChunksHaveDocument` | `OutcomeFits`: at each statement between the chunks and the status, the outcome an indexer carries fits the rows there are. `WipedFirst`: a deletion takes the chunks before the row, so documents it has reached are told apart. |
| | `LandsWhole`, `EntitiesHaveSchema` | `OneTransaction`: one application at a time holds the row of a bundle. `ClearedBefore`: what is there since its deletion comes from single writes, so what it inserts stands beside nothing older. |
| | `GatesHold` | `GateInv`: as long as no two requests overlapped, what a request has passed of the checks (`ChecksHold`) is still true of the tables when it writes. |
| `ConfigProofs` | `CachesStayFresh`, `CachesWellFormed` | `CacheInv`: what a load that holds the registry's lock has read is the table's, or the writer that changed it still waits to drop the agents (`LoadersAwaited`), or that writer never drops. For BYOK settings the ages of the entry, of the read behind it and of the last change are followed together. |
| | `KeepsExported`, `HoldsFile`, `KeepsRows` | Lemmas say what an import makes of any tables and any file, row by row (`ImportedFrom`, `ServerFrom`). `TransferInv`: the sections of an undisturbed export are those of the tables; an import past its first transaction has brought what the file says (`Holds`, with the graphs that are done); and as long as the tables changed by imports of the file at hand only, they are near those it was exported from (`Near`). `RoundTrip` alone is not inductive: it says nothing of the file that the next import will bring, and of an import between two graphs. |
| | `LinksAlwaysResolve` | `LinksInv`: an import that begins with the tables checked has every name of the file resolved in what it writes, its graphs are no row that others refer to, and edits bring whole configurations. |
| `McpProofs` | `FollowsServers`, `ClientsWellFormed` | `McpInv`: no two servers share a client (`ClientsApart`), so closing one leaves the others open. With the tenant's lock, whatever is not as its row says is still on the list of a load, or the hook of a write is on its way to it, or something that failed excuses it (`Settled`, `HeadersSettled`). |
| | `KeepsStream`, `StreamsWellFormed` | `StreamInv`: the stream that is not cancelled is the one whose cancel function the transport keeps (`LiveIsCancelOf`), there is one while no reconnect is under way (`SomeLive`), and the holder of `reconnectMu` knows which it replaces (`ReconnectorFits`). |

Induction over data: the induction theorems of the library take an operator as a parameter, which the
installed provers cannot instantiate. `TranscriptProofs` uses induction for sets of numbers instead
(`NatInduct`), from the least number that is not in the set, and shows that the recursive functions
behind `Weight`, `Fit` and `Only` exist before it says what they are.

The properties are those of the runs, by name, so what TLC finds on a small instance is what is
proved for all. The proof of a step has one case per action.

*Only model-checked.* All liveness properties (`StreamCloses`, `CallsReturn`, `EverythingSettles`,
`OpenRecovers`, `SendsReturn`), which the prover cannot express with fairness.
`ServicesTypeOK` and `PlatformTypeOK` join the types of components that share no variable, for a run
that explores them in turn; each part is a theorem of its component.

## 5. Where the code and its comments part

Five runs show a disagreement between the program and what it says of itself:

- `chat_unconfirmed`. `service/sessionprocessor/processor.go:258`: the requester "sends a confirmation
  event to the client and waits for user response". If another request of the session ends meanwhile,
  RemoveSession closes the reply channel, the receive yields the empty reply, and that is
  not in the list of denials (`:283`): the tool runs unconfirmed. With requests
  one after the other this cannot happen (`chat_sequential`).
- `pool_late_waiter`. `service/agent/agent_events.go:71`: "Send lifecycle event to client BEFORE signaling
  completion", so that the supervisor does not resume first. A wait that begins after the
  status changed (`:25`) and before the event finds nobody running and returns
  at once. `SignalAfterEvent` holds; it is just not enough.
- `tasks_terminal`. `domain/engine_task.go:77`: the transitions "define the state machine", and
  nothing leaves a terminal status. A save of a row read before a concurrent completion or
  cancellation does (`task_repository.go:121`).
- `history_pairs`. `infrastructure/agents/context_rewriter.go:101`: compression preserves "assistant/tool
  pairing". Call ids are the tool and a step that restarts with each turn
  (`tool_event_handler.go:191`), so in a snapshot they repeat, and a result is grouped with a later
  turn's call: the older call is dropped, the result kept (`:313`).
- `mcp_closed_send`. `infrastructure/mcp/tool_adapter.go:43`: transport failures "should bubble up as Go
  errors". Close closes the channel of every waiting Send (`sse_transport.go:245`), the receive yields nil,
  doSend returns it without an error (`:200`), and the caller reads a nil response.

Others are in the models, where the properties hold in spite of them or excuse exactly them, but
have no run of their own.

*The chat path.*

- StartProcessing is called idempotent (`processor.go:89`), but the exit of a stopped loop
  deletes the registration by session (`:139`): it may delete that of a newer
  loop, and the next StartProcessing then starts a second one beside it.
- The turn-active flag (`processor.go:175`), the pool's proxy and callback
  (`:232`) and the turn's cancel function are cleared by session after "done":
  a turn that follows at once can lose its own.
- A subscriber whose buffer is full loses events (`session_registry.go:182`); if it loses
  "done", the response does not close by itself, although it is said to
  (`chat_http_adapter.go:159`).
- Overlapping turns of a session share one count of steps: Begin resets the other's, Take hands both to the
  first, and an enqueue that fails after Begin neither takes nor discards it
  (`chat_http_adapter.go:219-259`).
- A resume is resolved before its message is queued: if the agent is not found or the queue refuses, a retry
  gets a conflict. The loser of two answers leaves a resume event of its own in the log.

*Agents and tasks.*

- A subtask whose parent was read as open may be inserted after the parent was cancelled, or while the
  cascade runs (`engine_task_manager_adapter.go:76`, `task_repository.go:243`); nothing cancels it then.
  No property covers this hazard: there is none to state, the model has the behaviour.
- The cascade stops at a finished subtask (`task_repository.go:223`), so open tasks below
  that one stay open, although the cancellation is called cascading (`:189`). `TaskBoard`
  does the same.
- An error of CompleteTask, FailTask or of a record's update is logged and dropped (`agent_events.go:36`, `:122`,
  `:47`, `:133`, `agent_pool.go:517`), and markFailed returns at once when the session is gone (`:107`): the
  task stays in progress, the record running, for ever. `EverythingSettles` and `EndsTold` name exactly those.
- A half-open breaker is "trying one request" (`circuit_breaker.go:19`, `:83`): every caller is
  let through, and the outcome of any call still in flight closes or reopens the breaker
  (`:115`). `FailureCount` is said to return failures in the window (`:147`); they
  are pruned by the next failure only (`:154`).
- Overlapping first tasks of a persistent agent may be refused; a task that fails or is refused leaves its
  instance registered; after a change of mode to persistent an agent keeps no record, and every task after
  the next is refused (`service/lifecycle/manager.go:67`).
- A same-arguments check that returns early may leave a success out of an error streak
  (`owned_loop_breakers.go`), and parallel tools of one round mispair in the collector
  (`message_collector.go:267`). A result may then be filed under a made-up id that an earlier turn's call
  has; `ExchangesStayWhole` therefore speaks of a call and a result of one turn.

*Around the chat.*

- ReconnectServer reads its row before it locks, so a hook that a later write overtakes dials an outdated
  row (`mcp/manager.go:342`). In single-tenant mode nothing is locked and only `RegisteredOpen` is promised.
- An invalidation that falls into a load leaves a stale entry in every cache but the agents'
  (`llm/model_cache.go:84`). Some writers send none: the admin tools that change or delete a model reload
  the agents only (`tools/admin/model_tool.go:239`, `:372`), as does `POST /config/import`
  (`app/config_import_export_http_adapter.go:436`), which skips even that when a graph of the file fails
  (`delivery/http/config_handler.go:64`); `backfillTenantAgentsToDefault` changes agents
  (`app/model_service_http_adapter.go:207`); `UpdateSetting` returns before the invalidation if it cannot read
  the row back (`app/http_adapters_extra.go:527`). A model's client or an agent's row then stays cached until
  some other write drops it. `CachesFollow` excuses exactly these. `loadBYOKConfig` ignores a failed read
  (`app/seed_byok.go:134`), so the configured settings, which may allow BYOK, are served for the lifetime of an
  entry although a tenant has disabled it. The agents keep the tools of a bundle as they were when they were loaded:
  a release drops the schemas "so the next chat session resolves the freshly-applied schema"
  (`usecase/kgapply/usecase.go:261`), but the names in `DerivedTools` change only with the registry
  (`agentregistry/registry.go:93`).
- The status of a document is read and then saved with all columns, so a document deleted in
  between comes back, ready and without chunks (`upload_service.go:466`, `:521`). One whose indexing was cut off
  stays at "indexing" for ever, although the indexer is said to bring it to ready or error
  (`docs/knowledge-storage.md:15`).
- A release replaces the entities of its bundle (`kg_entity_repository.go:41`), but only upserts its schemas
  (`kg_schema_repository.go:46`): the schema of a type that a later release no longer has stays, with its
  tools, until the bundle is deleted. `ReleaseLandsWhole` speaks of the types a release names.
- Single writes of the graph are said to go "through the same validation pipeline"
  (`usecase/kgmutate`), but a schema written alone is not checked against others, nor are the entities it
  has checked again; an update that races a delete inserts the entity. Two releases of different bundles that
  overlap may both pass the check for equal tool names. `GatesHoldAlone` therefore speaks of requests that do not overlap.
- A file does not hold all of a configuration, and importing one's own export changes four things, which
  `RoundTrip` lists. An export reads at most 500 entities of a type where its comment says 10,000 and "without
  information loss" (`config_import_export_http_adapter.go:119`, `:154`), and importing the file deletes the others. An
  agent whose limit of steps, context or turn is zero (PATCH allows each, and zero context means
  unlimited, `agent_manager_http_adapter.go:241`) comes back with 50, 16000 or 120 (`:530`). A relation comes back
  with the config "{}" whatever hints of routing it had (`:908`; `http_adapters_schema.go:451` sets them).
  A tool comes back as builtin and without its own config (`:665`).
- The file is not the truth of a server's arguments, headers and variables: what it leaves out stays (`:500`), so
  none of them can be emptied by a file, and of an environment of which some variables are masked the masked ones are
  lost (`:474`). The key of a file's model is read and ignored (`config_yaml_types.go`, `api_key`). A type
  of a graph that the file no longer has keeps its schema and loses its entities. `FileIsTruth` says so of each.
- The client that opens a stream has no timeout, and a reconnect gives its dial no deadline: a server that accepts
  the connection and sends no header holds `reconnectMu`, and with it every Send that a session error made
  reconnect, until Close cancels that very dial (`sse_transport.go:56`, `:352`). Close in the moment between two attempts
  cancels none. `SendsReturn` excuses exactly that.
- After the last attempt to reconnect failed, each Send of the SSE transport fails until the server is
  reconnected as a whole; a stream opened while Close runs may stay (`StreamKept` speaks of transports
  that are not closed).

Seen in the code and outside the models: the step watchdog starts only after the stream of a turn returned
(`owned_agent.go:146`), and a turn it aborts in streaming mode ends as cancelled instead of with the
fallback answer; a client whose Connect fails is never closed (`client_registry.go:207`); the
streamable-HTTP transport keeps a session id the server no longer knows; without a tenant in the
context importKnowledgeGraphs fails after the tables are committed, and the registry is not reloaded; the
executor's markFailed writes with the context whose cancellation it reports (`task_executor.go:223`).

## 6. What is left out

*Within the modelled parts.* The checks before `HasSession` in Chat and ResumeInterrupt other than the
gate (schema, agent, ownership), replay of stored events, the interrupt manager and the
event bus of the agent pool (no production code sets or signals them), MaxConcurrent (never
set), the clean-up of run records at start-up, the monitor mode of active users, MarkAbandonedForSession,
InvalidateTenant of the MCP manager (no callers), its Shutdown, the compactor of delegated agents
(never set), reading and filtering of entities, imports that overlap, a change that commits
within the transaction of an import, the single-tenant reload of agents, listing operations, and all text. SendAskUserReply sends after releasing the
lock; nothing outside tests calls it, so the model's one step is all there is to say.

*Parts that are not modelled.*

- Task executor and worker: nothing in production submits a task (`TaskWorker.Submit`); a reading
  shows that a submit during the stop may send on a closed channel (`service/task`), and that an executor
  waits on, and at its end stops, the session of a chat it shares.
- Orchestrator and event bus, and the dispatcher of `service/lifecycle`: no production code
  constructs or calls them.
- Stdio and streamable-HTTP transports of MCP: one request at a time, answered on the same connection.
  The stdio one takes whatever line comes next for the answer and does not look at the context.
- Tools, the shell, the code index and language servers: I/O of one call each. Knowledge search and text
  processing compute data and keep no state.
- Configuration repositories and endpoints, authentication, wiring, start-up: single statements, no state
  between requests. The admin interface is a client of the HTTP interface; the rest is generated code,
  migrations and charts. These are most of the lines of the repository, which is why the map covers
  few of them: there is nothing in them that order, interleaving or failure decides.

The language model, tools, MCP servers and the browser are outside the program: they answer,
fail or stay silent.

*Crashes.* Sessions, loops, agents, connections, caches and breakers live in memory and are gone
after a crash. What is in the database is modelled with one: a call broken off (`Abort` in `EngineTasks`,
`Fail` in `KnowledgeGraph`, an import that stops between its transactions), `InterruptRestart`,
`ServerRestarts`, `ServerStops`. Agents whose record says "running" after a crash are orphans that the start-up
clean-up marks, a single statement.

## 7. What could follow

- The single-tenant reload of the agent registry in `ConfigCaches`, and imports that overlap in
  `ConfigTransfer`.
- `TurnAdmission` and `HumanInterrupts` as refinements of the request steps of `ChatSession`: they use the same
  requests, and today meet only in that each leaves to the other what it does not have.
- The executor and the orchestrator, once something in production uses them.
