# Verification of codex-grok-bridge

TLA+ models of the bridge that lets a Codex desktop client run tasks on Grok Build, and of the
Codex crates vendored with it, checked with TLC on small instances and proved with TLAPS for every
instance where a proof is worth having. Source paths are relative to the repository's `src/`:
the bridge itself is `src/`, the vendored crates are `crates/`.

## The system

One process, the *hybrid multiplexer* (`src/hybrid.rs`), is started in place of the Codex
app-server. It runs two children and is the only one that talks to the client:

    Codex client <-> hybrid mux <-> native Codex app-server       (OpenAI models)
                           \-----> Grok adapter (this binary) <-> Grok agent over ACP

The *Grok adapter* (`src/lib.rs`, `run_session`) translates Codex threads, turns and items
into ACP sessions, prompts and updates. The crates provide the protocol's types and what is
computed from them, the file search, git operations and execution policies.

| Part | State | Operations | Talks to |
|---|---|---|---|
| Gateway session: turns (`lib.rs`, `translation/state.rs`) | `GatewayState`: lifecycles, active prompt ids; the internal completion queue | `thread/*`, `turn/*`, `handle_internal_event` | prompt tasks by a queue; the agent by awaited requests; the client by notifications |
| Gateway session: streamed items (`lib.rs`, `translation/acp_to_codex.rs`) | turn outputs, turn diffs, tool tables of `IdMap` | `handle_acp_event`, the end of a turn | the agent's event channel |
| Gateway session: approvals (`transport/outgoing.rs`, `translation/approval.rs`, `ext_method.rs`, `acp/client_impl.rs`) | pending outgoing requests, one waiting task each | permission requests, tool calls, questions, answers | the agent waits for the client through the loop |
| Session settings (`lib.rs`, `hybrid.rs`, `translation/codex_to_acp.rs`) | routes, model state, the agent's mode, model and options | start, resume, turn, `session/setMode`, `setConfigOption`, rollback | multiplexer, adapter, agent |
| Identity (`translation/id_map.rs`, `RouteStore` in `hybrid.rs`) | thread-session maps and routes, in memory and on disk | create, look up, record, persist, load | both processes share the files of one home |
| Rollouts and names (`rollout/`) | rollout files, archived files, writers, the name index | start, record, fork, roll back, archive, find, list, name | `thread/*` handlers, tasks that append titles |
| Hybrid multiplexer (`hybrid.rs`) | pending requests, aggregates, server-request ids | client line, child line, exit | client and both children |
| Composite lists (`hybrid.rs`) | a cursor carried by the client | `merge_threads` | pages of both children |
| Transports and queues (`transport/`, `hybrid.rs`) | bounded channels and pipes | read, dispatch, write | everybody, in a circle |
| ACP proxy and its commands (`acp_proxy.rs`, `command_exec.rs`) | a frame in hand, a running command | two loops per connection | a WebSocket client, the agent |
| Thread history (`crates/app-server-protocol/…/thread_history.rs`) | turns, the current turn, item numbers | one reducer step per recorded event | `thread/read`, `thread/resume` |
| Items and older events (`crates/protocol/src/items.rs`, `user_input.rs`) | | items to events and back | clients of two ages |
| Prompt images (`crates/protocol/src/models.rs`, `crates/utils/image`, `crates/utils/cache`) | an LRU cache under one lock | build the content of a message | all callers of the process |
| Token usage (`crates/protocol/src/protocol.rs`) | `TokenUsageInfo` | append, fill to the window | the core of Codex |
| Schema generator (`crates/app-server-protocol/src/export.rs`, macros) | files and the bundle | emit, bundle, filter | the build |
| Ghost commits, patches (`crates/utils/git`) | work tree, index, ghosts | create, restore; apply, revert, preflight | git |
| File search (`crates/file-search`) | session flags, signals, the engine | query, cancel, walk, match, report | walker and matcher threads |
| Execution policies (`crates/execpolicy`) | a rules file, rules in memory | load, judge, append | processes that share the file |
| Configuration, errors, launcher, sandbox plan | per process or per call | | |

### Behaviours that are hard, and what must hold of them

* *Turns.* The loop is single-threaded, but a handler that awaits the agent lets prompt
  tasks, the agent and the client go on; completions are queued and taken last. Steering puts several
  prompts of one turn in flight; an answer may be superseded, late or for a turn that is gone. A turn
  must end exactly once, by the answer of its newest prompt; nothing must end a turn of another
  thread; an interrupt must cancel the turn it names; a turn in progress must end.
* *Identity.* One task, one session, one backend, across restarts, rollbacks and forks.
* *Items.* Every delta belongs to an item that was started and is not completed; completed items
  carry the whole text; updates belong to the turn that caused them.
* *Approvals.* A decision reaches the ask it is for, once, as what it was.
* *Multiplexing.* An answer goes to the request it answers; halves are merged when both are in.
* *Lists.* Paging shows every task once and in order, while tasks come and go.
* *Queues.* Bounded channels in a circle must not stop everybody.
* *Files.* What is appended or restored by several processes, or in several steps that may fail,
  must neither be lost nor done twice, and nothing else must be touched.
* *Rebuilt views.* What is computed later from a record must say what was said at the time.

PROJECT.json lists the hazards with the line where each bites and the properties that cover it.

## Modules

Each component is a module of its own, with its state as variables and one action per
operation; comments name the functions where the name of the definition does not. Actions of the
parties a component does not own (client, agent, git, other programs) are limited to what the source
relies on, and marked external in the map of PROJECT.json.

**`GrokTurns`** is the gateway session as far as turns depend on it. `gatewayVars` are the fields of
`GatewayState` and `IdMap` that decide about turns, the queue of `InternalEvent`s and the event loop:
`loop` says whether `run_session` is in its loop, `handler` holds the request whose handler is
suspended at an await on the agent. `promptVars` follow each prompt: its task is `spawned` until
first polled (only then is the request sent), `outstanding` at the agent, `answered` when its
completion is queued, `consumed` when the loop took it. A handler without an await on the agent is
one action; one with an await is two (`TurnStart` and `TurnModeSet`, ...), and `AwaitReturns` is the
error branch. `MidTurnReset` says whether the client resumes, rolls back or archives a thread in its
turn, which the code does not refuse. **`TurnContract`** is the promise about turns, and
**`GrokTurnsContract`** the refinement mapping to it.

**`TurnStream`** is what the client sees of a turn: `events` and `internal` are the two channels of
updates and completions, `outputs` the `TurnOutput` of each turn, `toolItems`, `toolKind` and
`toolChanges` the tool tables, `shown` the notifications sent. `LoopFree` is the biased select.

**`Approvals`** has the agent's asks, the pending table of `OutgoingRequestSender` with its id counter,
the task that waits for each, and a loop that takes nothing while a handler awaits the agent. An ask that
cannot be sent, since the writer to the client has stopped, is given back at once.

**`SessionSettings`** follows backend, model, effort and options of a task through the multiplexer
(`Direct = FALSE`) or at the adapter alone (`Direct = TRUE`). The agent may refuse any setting, the adapter
logs that and goes on, so `taken` is what the client set and the agent took. `ModelsOfOwner` is about
`params.model`, the only field that is looked at, with clients that also name models in `params.config`.

**`TaskIdentity`** holds what remembers a task: `routes` and `diskRoutes` (`RouteStore`), both maps of
`IdMap` and their file, the agent's sessions and what the client knows. Answers wait in `pipe` between
adapter and multiplexer, and a bridge may stop between the two. A save of the id map that fails is only warned
about: the file stays as it was (it is replaced by renaming, so it is never half written) until a later save
succeeds, and a bridge started meanwhile may know no session of a task, or the one before a rollback.

**`HybridMux`** is requests and answers: `pending`, `aggregates`, `nextId`, `grokServerIds`; lines
under way are sets, as children answer in any order. **`Dialogue`** is its abstract specification: a
request is answered at most once, by its own answer, and a merged one with success only if both halves
succeeded. **`ThreadPages`** is `merge_threads` with its cursors in both directions, over two backends
that serve pages of their own kind. **`Backpressure`** has every bounded queue and pipe between client,
multiplexer and adapter, and the tasks that wait at them. **`AcpProxy`** is one connection of the
proxy with both of its loops and the command it runs.

**`RolloutHistory`** is where rollout files lie, who has them open and what is in them, with every write able
to fail: a file may be created and get no header and no writer; a line that is not flushed stays in the
writer's buffer (`unwritten`) and goes out with a later one or never;
**`RolloutPages`** the listing (`get_threads`) page by page while files change; **`RolloutHead`** what
the listing and `thread/read` learn from a file's first lines as it grows. **`SessionIndex`** is the
append-only index of names with its two writers and two readers, **`IndexScan`** the backward search
in it, byte by byte.

**`ThreadHistory`** is the reducer from recorded events to turns, one action per kind of event.
**`TurnItems`** tells the same items live, as events of older versions and as deltas.
**`PromptImages`** builds messages of several callers around the shared cache. **`TokenUse`** adds up
usages. **`SchemaBundle`** generates files and bundle, on types that share names and carry marks, and
generates again in the directory that was emptied (`write_schema_fixtures`) or as the last generation,
finished or not, has left it (`generate_json`); the gate asks whether a member has a value
(`Valued`): null, false and empty ones have none.

**`GhostCommits`** has work tree, index, `HEAD` and ignore rules, with snapshot and restore in the steps
the code takes; **`GitApply`** apply, revert and preflight with the staging before a revert, over each
state of a file; **`ApplyOutput`** the reading of what `git apply` prints. **`FileSearch`** is a session
with its walkers, matcher and reporter, or `run()`. **`ExecPolicy`** has processes that load, judge,
and append to one rules file under its lock, any step of which may fail (`Fails`) or be the last of its
process (`Exit`).

What is abstracted everywhere: message contents are tags or numbers, ids are numbers that nothing
compares but for equality, wording, logging and JSON are left out. Counters are bounded by constants
in guards (`Max…`); a bounded instance simply stops asking.

### Instances

`MCGrokTurns` instantiates `GrokTurns` alone. The others put instances of several components side by
side: `MCDurable`, `MCFrontend`, `MCWorktree`, `MCProtocol` and `MCLiveness`. There a variable `part`,
chosen initially, says which component a behaviour is of; that component's actions are
conjoined with `part = "…"` and with the others unchanged, so the reachable states are the sum, not
the product, of those of the parts, and one run asks one kind of question of all of them. (Nothing is
lost by this: these components share no variable in the models. What they do share in the program is
part of the components, as the routes that `TaskIdentity` and `SessionSettings` both have.) A component
whose constants matter appears with several of them: `MCFrontend` has three instances of `ThreadPages`,
for batches, for tasks that arrive and for tasks that are archived. Some instances share their
variables, since only one part is ever active. An `ASSUME` checks that each instance satisfies the
assumptions its module states.

A property of such a run is either one of the component the module extends, or a conjunction, one line
per part, of named invariants of the components, with a comment that says what it comes to.

## Runs

Deadlock is checked nowhere: sessions, searches and proxies really end, a bounded instance runs out
of requests, and that nobody waits for ever is what `OwedIsGiven` says.

| Run | Module | Shows |
|---|---|---|
| `turns_one_thread` | `MCGrokTurns`, 1 thread, 2 sessions, 2 turns, 3 prompts | `TypeOK`; `AnswerEndsTurn`, the answer of the newest prompt is never lost; `TurnStateReleased`; `EndsOnce`; `ImplementsContract` |
| `turns_two_threads` | 2 threads, 2 sessions, 2 turns, 2 prompts | `InProgressIsActive`; `OneTurnPerSession`; `InterruptIsolation` |
| `turns_reset` | threads reset in their turns; 1 thread, 2 turns, 3 prompts | `ActiveTurnIsLive`; `EndedByNewestPrompt` |
| `durable` | `MCDurable` | `TasksKnown`, `NamesRead`, `RolloutsFound`, `RoutesSurvive`, `TaskKeepsSession`, `RolloutsGrow` |
| `frontend` | `MCFrontend` | `ServerAnswersReachAsker`, `PinnedToBackend`, `ModelsOfOwner`, `AsksDecided`, `StreamKept`, `SettingsLast`, `ImplementsDialogue`, `PagesWhole`, `LinesKept` |
| `worktree` | `MCWorktree` | `RevertUndoes`, `OnlyItsFiles`, `PatchesForetold`, `SnapshotsUndo`, `AppendedOnce`, `StillLoads`, `RulesHold`, `SearchesFindAll` |
| `protocol` | `MCProtocol` | `TotalsAddUp`, `PercentsMakeSense`, `TurnsRebuilt`, `ItemsAndImagesKept`, `SchemasHold` |
| `turns_liveness` | `MCLiveness` | `TurnEnds`; `OwedIsGiven`, whatever was asked for is given in the end |
| `turns_two_active` | resets in a turn | **violated**: `AtMostOneActiveTurn`, `design/feats/first-class-grok.md:19` |
| `turns_lost_interrupt` | 1 turn | **violated**: `InterruptDelivered`, `design/invariants/core.md:17` |
| `turns_refusal` | 1 turn | **violated**: `RefusalIsNotSuccess`, `design/invariants/core.md:17` |
| `turns_agent_crash` | 1 turn | **violated**: `CrashEndsTurns`, `docs/ARCHITECTURE.md:421` |

*Bounds, and why they are enough.*

* Turns: two turns are the smallest number with a turn before and a turn after; three prompts
  allow a turn steered twice, or a steered turn whose late completion meets the next turn.
* `durable` (its constants, one line per component, are in `durable.cfg`): two tasks and three sessions,
  so that a rollback or a resumed session meets another task; two answers in the pipe and any number of
  restarts; three renames of two threads, padded names and failures; a name file of up to six bytes in
  chunks of 1, 2 and 4, which cut it everywhere; two threads over a day boundary, with archives, two
  markers and a restart; lists of three files with two seconds between them, pages of 1 and 2; heads of
  four lines with limits of 2 and 1.
* `frontend`: two requests at the multiplexer, and three asks of each child under the same ids (a hole
  in the table needs three); two tasks with models of each backend in both fields, two efforts and a
  restart; at the adapter one task with two sessions, so that it is rolled back, and changes of the
  agent's own; four tasks in pages of 1 to 3 over native batches of 2, so that batches end inside and
  between pages, with equal times, one task arriving or leaving; four requests and two updates
  in pipes of one line and queues of two; six frames of every kind in the proxy; two asks with
  both orders of options; two threads or two turns of three updates, four updates of two edits.
* `worktree`: patches over two files in every state of index and work tree, with two edits of the user
  in between; two processes that approve the same or different rules, each step of which may fail; four
  lines of output;
  two ghosts with two edits, or one with three and a large directory; two queries over two files and
  two walkers.
* `protocol`: five reports under three windows, one of them at the baseline; five or six events of two
  turns and two calls; three items of three words; two callers of two images in a cache of one; a schema
  tree with two names used by two types each, and two generations one after the other, between which
  a method and what it alone sent may go from the source.
* `turns_liveness`: instances as above or smaller, since liveness needs the whole graph.

Values that nothing tells apart are symmetric (threads, sessions, asks, processes, turns and calls); the
liveness run uses no symmetry.

*Fairness* (`EveryoneRuns` in `MCLiveness`). Every task of the runtime is polled: weak fairness of each
task's steps. Parties that are asked answer in the end: the agent answers prompts, calls and reads its
pipe; the children answer the multiplexer; the client answers asks. Strong fairness stands where a
select or a lock chooses among ready branches: `HandleInternal` and `AgentGone`, because the biased
select takes completions only when updates and requests leave a gap; both branches of the
multiplexer's select and each reader that waits for room in its queue; the proxy's writer, which
selects among two sources; the matcher's tick, whose channel is selected among others. For a client
or an agent that never pauses, nothing is promised: the biased select may then never take a completion, and
no property covers that starvation. Nothing forces an exit, a cancellation or a crash.
`OwedIsGiven` is one leads-to over all parts: each instance asks for finitely many things, so that
nothing is owed in the end means that each of them was given.

Every property has a mutant in PROJECT.json: an operator of the component, commented `mistake`, that
changes one definition as a plausible bug would and makes the run fail.

## Proofs

The theorems hold for all values of the constants that satisfy the assumption the module names.

| Module | Theorem | Statement | Assumes beside the module's assumption |
|---|---|---|---|
| `GrokTurns_proof` | `TypeCorrect`, `ActiveTurnCanEnd`, `TurnsEndOnce` | `[]TypeOK`, `[]ActiveTurnIsLive`, `EndsOnce` | |
| | `TurnStateIsReleased`, `NewestPromptEnds` | `[]TurnStateReleased`, `EndedByNewestPrompt` | |
| | `TurnsAreActive`, `AtMostOneTurn`, `ContractImplemented` | `[]InProgressIsActive`, `[]AtMostOneActiveTurn`, the refinement of `TurnContract` | `~MidTurnReset` |
| | `NoAnswerIsLost`, `OneTurnAtTheAgent`, `InterruptsAreIsolated` | `[]AnswerEndsTurn`, `[]OneTurnPerSession`, `[]InterruptIsolation` | `~MidTurnReset` |
| `Frontend_proof` | `DecisionsReachTheAsker`, `TablesKnowTheLines`, `DialogueImplemented` | `[]ServerAnswersReachAsker`, `[]TablesMatchChildren`, the refinement of `Dialogue` | |
| | `TasksArePinned`, `ModelsStayWithBackend`, `SettingsCorrect` | `[]PinnedToBackend`, `[]ModelsOfOwner`, `[]SettingsTypeOK` | |
| | `EffortsLast`, `ModelsLast` | `[](EffortLasts /\ ModeTold)`, `[]ModelLasts` | |
| | `DecidedAsAsked` | `[](TypeOK /\ AskedOnce /\ ToldAsDecided /\ DecisionOfItsAsk)` of `Approvals` | |
| | `ShownWhereAsked` | `[]ShownInItsThread` | `~ManyTurns` |
| `TaskIdentity_proof` | `RoutesAreKept`, `SessionsAreKept` | `RoutesSurvive`, `TaskKeepsSession` | one bridge at a time |
| | `KnownTasksAreRouted` | `[]KnownIsRouted` | one bridge, `~Forks` |
| | `TasksStayApart` | `[](ListedAsItself /\ OneTaskPerSession /\ MemoriesAgree)`, whichever saves fail | one bridge, `~Forks`, `~Rollbacks` |
| | `TasksKnownHold` | `[]TasksKnown` of `MCDurable` | one bridge |
| `MCDurable_proof` | `NamesAlwaysRead`, `RolloutsAlwaysGrow` | `[]NamesRead`, `RolloutsGrow` of `MCDurable` | |
| | `RolloutsAlwaysFound` | `[]RolloutsFound` of `MCDurable` | fewer files than the scan cap |
| `MCFrontend_proof` | `SettingsAlwaysLast`, `AsksAlwaysDecided` | `[]SettingsLast`, `[]AsksDecided` of `MCFrontend` | |
| `Worktree_proof` | `AppliedIsTakenBack`, `CallsTouchTheirFiles` | `[]RevertUndoes`, `OnlyItsFiles` | names of diff headers are read right; for the first, none is ignored |
| | `PreflightsForetell` | `[]PreflightForetells` | |
| | `RulesAppendedOnce`, `FilesStillLoad` | `[]AppendedOnce`, `StillLoads` | |
| | `RulesAreJudged` | `[](LockIsGivenBack /\ MemoryIsFile /\ ExamplesMatch /\ EachCommandCounts)` | |
| | `OutputIsSorted` | `[](EachInOneGroup /\ LastLineCounts)` | |
| | `UndoLeavesTheRest` | `[](NewRemoved /\ ArtifactsKept /\ OutsideUntouched)` of `GhostCommits` | |
| | `UndoGivesBack` | `[]WasRestored` | nothing unstaged, ignore rules left alone; nothing staged, or nothing a snapshot would pass over |
| `MCWorktree_proof` | `PatchesAreForetold`, `RulesAlwaysHold`, `SnapshotsAlwaysUndo` | `[]PatchesForetold`, `[]RulesHold`, `[]SnapshotsUndo` of `MCWorktree` | |
| `TokenUse_proof` | `TotalsToldAddUp` | `[](TypeOK /\ TotalsAddUp)` | |
| | `PercentsHold` | `PercentsMakeSense` of `MCProtocol` | the agent reports no negative counts |

`Frontend_proof` is about `HybridMux`, `SessionSettings` and `Approvals`, `Worktree_proof` about
`GitApply`, `ExecPolicy`, `ApplyOutput` and `GhostCommits`; `TaskIdentity_proof` and `MCDurable_proof`
extend `MCDurable` and `TokenUse_proof` extends `MCProtocol`, so that the property of the run itself can
be stated, of behaviours of the whole composition. What the instances of `MCDurable` are given is
therefore constants of `MCDurable`, whose values `durable.cfg` has: the theorems are about all of them.
Where a run's property is about components that the MC module only instantiates, the proof module
instantiates their *proofs* with the same substitution (`K == INSTANCE Worktree_proof WITH ...` in
`MCWorktree_proof`, `K` and `J` in `MCFrontend_proof`): the lemmas are used as `K!...`, and a lemma per
action says that the instance's step is the step of `K`. The assumption that each instance satisfies the
assumption of its module is what `InstanceConstants` states and TLC evaluates.

Every inductive invariant was an invariant of a run before it was proved. Each argument is one:

* *GrokTurns* (`IInv`). Neither `ActiveTurnIsLive` nor `InProgressIsActive` is inductive: that a
  completion which ends no turn can be dropped without stranding one needs `PromptInv` (an active
  prompt id names a prompt of its turn) and `ActiveInv` (an active turn was started on its thread); that
  a start disturbs no other turn needs `FreshInv` (nothing refers to ids not generated yet); that a
  suspended handler does not overwrite a turn needs `HandlerInv`. `QuietStep` shows that an action
  which neither starts a turn, prompts again nor takes a completion keeps it; the three others have
  lemmas of their own. `PInv` goes on from there with the prompts: the active prompt is the newest of
  its turn, which is what a completion is compared with; outputs and prompt ids are held for turns in
  progress; and, without resets, a prompt that is not consumed is of the running turn of the thread its
  session is mapped to, and a cancel on its way is for the turn that was interrupted.
* *HybridMux*. `ServerInv` says that an ask under a namespaced id has its entry and that the entry's
  id was never reused, since the counter only grows. `TableInv` pairs `pending` with the lines under way,
  each id once and below `nextId`; `RequestInv` relates both to what the client asked and was answered,
  which the refinement needs: a group is finished by the last of its halves, and only then.
* *TaskIdentity*. With one bridge, the routes in memory and in the file agree while it runs, and the file of
  the id map holds of each task what the memory holds or held (`FilesLoaded`), so a save that writes everything
  loses nothing and one that fails leaves nothing that was not the task's; a session in the map was minted by the agent
  (`MappedWasMinted`), so a new one is not another task's. `KnownInv` adds the answers under way: every
  start in `pipe` that the client will learn of passes the multiplexer, which records it first. `RouteInv`
  and `AnswerInv` say, without rollbacks, that ids, sessions and the files belong together one to one,
  in what was saved and in what still waits to be.
* *SessionSettings*. A route is recorded before the next request, and what it says is the owner
  (`OwnersRouted`), so a request with a model of the other side is refused. `SessInv`: no two tasks share a
  session, in memory or in the file, so a setting made for one disturbs no other; a rollback abandons a session
  with what was set there, and a restart after a save that failed goes back to an older one. `ModelInv` and
  `EffortInv` are the properties of tasks that are not loaded too, since a restart unloads them all.
  `ToldInv` is about the updates that wait: the last of them that names a mode names the one the session
  has, and when none does, the one that was told is. A session a task had before a rollback still speaks for
  the task until the bridge is restarted, hence `OneSession` in `ModeTold`; and `ModeTold` relies on an
  agent that confirms each mode it takes with an update.
* *Approvals* (`AskInv`). An ask is an event, in the table, answered or given back unsent, and in the table under one id
  (`PendingInv`, `PlaceInv`). Ids are never used twice, and one for each ask is enough, since the events
  taken and those that wait are the asks (`EventsInv`). A request the client has not answered shows the
  ask that is in the table under its id, and so does a response on its way, with what was decided
  (`ClientInv`, `InboundInv`). `ThreadInv`: with one turn at a time, the turn cannot end before what was
  asked in it is answered, so it is the one that is found.
* *Worktree: GitApply*. `AppliedInv`: files of the applied patch that can be taken back are as it left them;
  `StagedInv`: after staging the index agrees with them, which is what `git apply` asks. `ForeInv`: while a call and its
  preflight are about the same files and those were let alone, they are as the preflight saw them.
* *Worktree: ExecPolicy*. `FileInv` and `ProcessInv`: the lock holder has read the file as it is, so a line it
  appends is not there yet and stands on a line of its own; who fails or ends lets go of the lock. `HeldInv`:
  the rules a process holds are, as a set, those of the lines it read, and what it has appended itself is
  among them; a rule is taken into memory only after it was written.
* *Worktree: GhostCommits*. A snapshot holds of each path what was there or nothing (`CapturedInv`), and
  between the two steps of a restore the tree is, path by path, what the snapshot, the index and the
  files found before say (`RestoreInv`); that settles what is removed and what is never touched.
  That everything captured comes back needs `QuietInv` as well: what a snapshot holds or passed over
  is still tracked or still on its lists. Unstaging a file or changing an ignore rule breaks it, and
  then undo does lose files (`WasRestored` and `OnlyNewRemoved` in the next section), as does staging
  what a snapshot passed over (`LargeKept`); hence `QuietEdits`.
* *Worktree: ApplyOutput*. `OutInv`: the groups are disjoint, and a path that the last line moved is in the
  group that line names. That git speaks of the files in order is kept as an invariant of what was
  printed so far (`OrderInv`), with the last path of the earlier lines as its bound, where a recursive
  maximum would ask for induction.
* *SessionIndex* (`IndexInv`). Lines are appended in the order the names were announced, and at most one
  rename is between the two, so nothing announced is followed in the file by an older name
  of its thread; `ReadersTakeOne` shows that the list, which keeps the last line of each thread, and
  `thread/read`, which searches from the end, take the same one.
* *IndexScan* (`ScanInv`). What is gathered is, reversed, the stretch of the file from where the scan has
  got to up to the next line end, and no entry begins behind it (`Gathered`). `ChunkTaken` carries that through a
  chunk of any size by induction over its bytes; what is appended meanwhile lies behind what was opened.
* *RolloutHistory* (`HistoryInv`). What stands in a file and what waits in its writer's buffer are, together
  and in order, what was recorded since the file began (`Given`), whichever writes failed, until a writer is
  closed, which may lose the end. A file in `sessions/` lies under the date of its name, and the
  process remembers it nowhere else (`FilesKnown`), so the search by date finds it; no marker is of a
  rollback still to come (`MarkersAsked`), so markers stay in order.
* *RolloutPages* (`ListInv`). Whatever was shown is not after the cursor, and everything else that was let alone is
  (`ShownIsBefore`, `RestIsAfter`). A page shows the newest files after the cursor and puts the cursor at
  the last (`PageShows`, from `FilesSort`: a set of files has an order, newest first); between pages a
  time only grows, and a file whose place changes counts as touched (`WorldStep`). With as many files as
  the scan cap a page stops before the end of its walk, and then the property is false (`AllShown` in
  the next section): hence `FewFiles`.
* *RolloutHead* (`HeadInv`). What the scan of a file of any length knows: the first header, if it is among the
  first lines, and whether a message was found before the scan ended (`HeaderRead`, `UserRead`); one more
  line takes it one step further (`SummaryGrows`), which changes nothing once it has ended.
* *TokenUse*. The totals are the sum of the reports on top of the window last filled. That percentages
  fall needs that totals grow (hence no negative counts) and lemmas on rounded division.

*Induction.* The theorems of the library on induction take an operator as a parameter, which no
installed prover can instantiate. Those on well-founded sets are about sets, and
`NatLessThanWellFounded` with `WFMin` gives what is needed (`LeastNumber`, `Induction`, `GreatestNumber` in
`MCDurable_proof`): that a fold over places has a value at each (`FoldDefined`), and from there what
the scan of a chunk or of a head comes to, for sequences of any length. Operators the prover takes for
opaque stay out of reach: `SelectSeq`, `SortSeq` and what uses them. So `RolloutPages` and `RolloutHead` speak of
sets of files and places, and of the sorted enumeration of a set.

Beyond the prover, and left to TLC: liveness (fairness and `ENABLED`). Only model-checked:

* `StreamKept` of `MCFrontend`: the properties of `TurnStream` compare what is shown with selections,
  flattenings and sortings of what was sent, which are such operators.
* `SchemasHold` of `MCProtocol`: `SchemaBundle` follows references through trees of types by recursion.
* The rest of `MCProtocol` (`TurnsRebuilt`, `ItemsAndImagesKept`), and the properties of the components
  without a proof module: `PagesWhole`, `LinesKept`, `SearchesFindAll`.
* What `GitApply`'s patches and `ExecPolicy`'s rules do once their hypotheses fail, and each hypothesis of the
  table above: the next section names the instance on which TLC shows that it is needed, where there is one.

## Where the code and its text disagree

The four runs named above, with their findings in PROJECT.json, are about turns:

* `AtMostOneActiveTurn`: `thread/resume`, `thread/rollback` and `thread/archive` overwrite the lifecycle of a
  thread that is in a turn (`src/lib.rs:882`, `1512`, `2174`), so the client may start a second one.
* `InterruptDelivered`: a prompt is sent when its task is first polled, and an interrupt handled before
  that cancels nothing (`src/lib.rs:73`).
* `RefusalIsNotSuccess`: a refusal is told as `completed` (`src/translation/acp_to_codex.rs:470`).
* `CrashEndsTurns`: when the agent is gone no turn in progress is ended (`src/lib.rs:214`).

The properties below are stated in their modules, after a text of the repository, and are not among the
runs. Each is violated on a small instance: the constants that matter are in the last column.

| Property | What the code does instead | Seen with |
|---|---|---|
| `TaskIdentity.KnownIsRouted` | `record_route_from_response` knows start and resume (`hybrid.rs:824`): the id a fork answers is never routed, and its requests go to native Codex | `Forks` |
| `TaskIdentity.ListedAsItself` | a rollback records no route for the new session: the list shows it as a task of its own, and the old session as the task | `Rollbacks` |
| `TaskIdentity.RoutesSurvive` | `persist` writes the whole memory over the file (`hybrid.rs:102`): of two bridges on one home the later erases what the other saved. With one bridge it holds, and is proved | 2 bridges |
| `TaskIdentity.UpdatesReachTask` | after a stop between save and answer a session can be under two threads; which of them the reverse map keeps is left to a `HashMap` (`id_map.rs:55`) | one thread, stops |
| `ThreadPages.Ordered` | a page goes on with Grok's tasks when the native batch runs out, though newer native ones come in the next (`hybrid.rs:721`); that order is lost in no other way is `OrderedButForBatches` | `Batch = 1`, `MaxKey = 3`, `Limits = {2}` |
| `ThreadPages.CursorsAreServed` | a cursor's offset may be past a page that has become shorter; the error ends the process (`hybrid.rs:676`) | `Archives` |
| `ThreadPages.NoRepeats` | the adapter ignores `sortDirection`: ascending pages skip and repeat (`hybrid.rs:727`) | `Descending = FALSE` |
| `RolloutPages.AllShown` | a page whose cursor is at the scan cap finds nothing and ends the list (`list.rs:443`) | `ScanCap = 2`, pages of 1 |
| `RolloutPages.SortedAsAsked` | only `updatedAt` is understood as a sort key, the protocol spells it `updated_at` (`lib.rs:1103`) | `SortKeys = {"updated_at"}` |
| `RolloutPages.ListedOnce` | a session is compared with the threads of the page only (`lib.rs:1152`), and listed again from its file | `AgentLists` |
| `RolloutHead.TurnsAreListed` | turns are not recorded (`recorder.rs:129`), so the listing drops the file | a thread of the bridge |
| `RolloutHistory.MarkerRecorded` | a thread whose writer is not open records nothing, and the rollback succeeds (`recorder.rs:130`) | `MaxRestarts = 1` |
| `RolloutHistory.StaleSessionLeft` | the marker is written before the agent is asked; when it refuses, the old session goes on (`lib.rs:1482`) | `AgentFails` |
| `SessionIndex.LastAnnouncedShown` | tasks append titles in any order (`lib.rs:1680`) | `AgentTitles` |
| `SessionIndex.ReadersAgree` | a blank name is passed over by the list and shown by `thread/read` (`session_index.rs:105`) | a blank text |
| `SessionIndex.HolderFound` | a search by name does not ask whether its thread was renamed (`session_index.rs:156`; no handler calls it yet) | 2 threads, 3 renames |
| `TurnStream.DeltaHasTarget` | an update outside of a turn goes to an item never started (`lib.rs:1698`) | `Late` |
| `Approvals.ShownInItsThread` | a tool call names no session and is given to some thread in a turn (`lib.rs:1911`) | `ManyTurns` |
| `Approvals.OnceIsOnce` | consent takes the first option that allows, once or always (`approval.rs:98`) | `allow_always` first |
| `Backpressure.RequestsServed` | the multiplexer waits for a child to read while it reads from none: everybody waits (`hybrid.rs:128`) | `MaxOpen = 4`, queues and pipes of 1, 4 updates |
| `AcpProxy.OneLineEach` | a frame with a line end in it is several lines for the agent (`acp_proxy.rs:182`) | such a frame |
| `ThreadHistory.ErrorOnlyIfFailed` | an abort leaves the error of the turn (`thread_history.rs:716`) | errors and aborts |
| `ThreadHistory.RollbackCountsUserTurns` | a turn that holds a marker alone is counted (`thread_history.rs:788`) | markers and rollbacks |
| `FileSearch.RunReturnsItsQuery` | the walk may end before the query is sent; the completion is of the empty one (`file-search/src/lib.rs:280`) | `OneShot` |
| `FileSearch.QueriesComplete` | a query after a cancellation never completes (`:562`) | `Cancels` |
| `GhostCommits.OnlyNewRemoved` | what was ignored at the snapshot is on no list, and removed once the rule is gone (`ghost_commits.rs:834`) | edits `ignore` |
| `GhostCommits.WasRestored` | a file tracked then and not in the index now is restored and then removed (`:447`) | edits `unstage` |
| `GhostCommits.LargeKept` | a large file that was staged since is removed, and in no commit (`:484`) | edits `stage` |
| `GhostCommits.Created` | a file staged as new and deleted makes `git add` fail, and the snapshot with it (`:364`) | edits `write`, `stage`, `delete` |
| `GhostCommits.NotRefused` | with nothing in the directory `git restore` fails, and nothing new is removed (`:492`) | edits `write` |
| `ApplyOutput.LastSeenIsLast` | the path last seen is the greatest of the set (`apply.rs:459`) | 3 paths |
| `GitApply.PreflightShows` | a preflight looks at the work tree, the call asks for the index (`apply.rs:77`) | 1 edit |
| `GitApply.RevertUndoes` | the bytes of an escaped name become one character each (`apply.rs:295`) | an accented name |
| `GitApply.OnlyItsFiles` | a name in a diff header ends at a space (`apply.rs:242`) | a name with a space |
| `SchemaBundle.BundleRefsResolve` | references of definitions beside a root are not renamed (`export.rs:928`) | types that share names |
| `SchemaBundle.RootRefsKeepTheirType` | a root definition with the name of a v2 type is replaced by that (`:923`) | as above |
| `SchemaBundle.NamespaceKeepsTypes` | the last schema of a name wins (`:971`) | as above |
| `SchemaBundle.GateMatchesSchema` | a marked variant of an enum is refused, and in the stable schema (macros, `lib.rs:154`) | a marked variant |
| `SessionSettings.CrossBackendRefused` | the prefix is stripped from `params.config.model` too (`hybrid.rs:1047`), which is not compared with the backend of the task (`:1059`) and so reaches one that has no such model; of `params.model` it holds: `ModelsOfOwner` | `ConfigModels` |
| `SessionSettings.ModelsKnown` | a resume drops the models of its response (`lib.rs:902`) | `MaxRestarts = 1`, `Direct` |
| `SessionSettings.OptionsTold` | a response overtakes an older update of the options (`lib.rs:1063`) | `AgentChanges`, `Direct` |

Properties of this table that also stand in a run hold there, under the constants of its instance: the run
shows where the code keeps its word, the table where not.

A client that takes what it asked for as done may be wrong about its settings, which no text promises and
no property claims: `turn/start` ignores `params.model` (`lib.rs:674`), a refused model or mode is only
logged (`lib.rs:502`, `675`, `931`) while the answer to `thread/start` names the model asked for, and the
session a rollback makes has the agent's defaults (`lib.rs:1499`). `ModelLasts` and `EffortLasts` say
what becomes of a setting the agent took. Likewise a thread whose handler fails after it set the lifecycle
stays in `Creating` or `Loading` until it is started or resumed again (`lib.rs:471`, `882`): the properties of
turns are about threads in a turn.

## Not modelled, and why

* *Configuration, errors, entry point, launcher script.* Read once, or a table of names: nothing
  changes state in them that a later step could see.
* *The sandbox and its mount plan.* A pure function of the configuration whose correctness is what the
  kernel does with it.
* *The TypeScript side of the generator* (`export.rs`, `schema_fixtures.rs`): text that is spliced; the
  JSON side has the structure the properties are about.
* *Reshaping of Grok's messages* (`normalize_grok_message` and what it calls, `hybrid.rs:846-1043`): a
  field-by-field conversion without state.
* *The WebSocket transport of the gateway* is another reader and writer of the same queues that
  `Backpressure` has for stdio.
* *File and terminal calls of the agent* (`fs_handler`): each is one system call and its answer.
* *Renames, modes and configuration flags of patches, the merge base of branches*: git's own work.
* *Other operations of the LRU cache*: nothing calls them.
* *Generations that fail in the middle of a file*, and fields of a type that was removed from the source in a
  directory generated into as it is: what is registered as experimental is that of the present source.
* *JSON and the spelling of the protocol types* (`crates/protocol`, `crates/app-server-protocol`, most of
  their lines): declarations for serde, of which the models take the parts that some state depends on.

## What could come next

An inductive invariant for `StreamKept`, with the properties of `TurnStream` restated over places of a
sequence as those of `RolloutHead` are; one for `ThreadPages`, whose data are sequences sorted by a
recursive operator; and the reducer of `ThreadHistory`, against a declarative definition of a turn.
