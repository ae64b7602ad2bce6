# Verification of dh-kit

TLA+ modules, TLC configurations and TLAPS proofs for the parts of dh-kit that
keep state across calls, run concurrently or must survive a crash. Paths below
are relative to the repository (`src/` here).

| directory entry | what it is |
|---|---|
| `SessionManager.tla`, `SessionManagerProofs.tla`, `MCSessionManager.tla` | the Rust session and stage manager, its proofs, its instances |
| `HostLifecycle.tla`, `TypeScriptWorker.tla`, `WorkerSupervisor.tla`, `SupervisorClient.tla`, `HostedCommand.tla` | the Rust host and the worker it supervises, bottom up |
| `HostedCommandProofs.tla`, `MCHostedCommand.tla` | proofs and instances of the host |
| `Indexer.tla`, `IndexerProofs.tla`, `MCIndexer.tla` | the incremental indexer over its tables, its proofs, its instance |
| `BridgeClient.tla`, `BridgeClientProofs.tla`, `MCBridgeClient.tla` | the TypeScript client of the engine's stdio bridge, its proofs, its instance |
| `BridgeServer.tla`, `MCBridgeServer.tla` | the engine's loop at the other end of that bridge, composed with the client |
| `PROJECT.json` | components, runs, mutants, the map from definitions to source lines, findings, hazards, theorems |

Run `tlc -config X.cfg M` for a pair of `PROJECT.json`'s `runs`, and `tlapm M.tla`
for a proof module.

## 1. The system

dh-kit is a developer assistant. A Rust binary (`rust-engine/crates`) owns the
process, the code index and the session database. It spawns a TypeScript worker
(`packages/opencode-app`), which runs workflows and asks the Rust side for code
knowledge over JSON-RPC.

| part | state | operations | what makes it hard | what makes it correct |
|---|---|---|---|---|
| session manager (`dh-engine/session_manager.rs`) | rows of a session, its stages, its envelopes | create, activate, transition, pass and waive gate, complete, fail, envelope | several autocommitted statements per operation, several processes, crashes | stages entered in order, completion after the last stage, gates respected |
| worker supervisor (`dh-engine/worker_supervisor.rs`) | process, channel, report, flags, clocks | launch, request, ping, cancel, recover, shutdown, forced cleanup | reader thread, deadlines, grace window, late answers, death of the worker | every call returns; a report never says more than happened |
| hosted commands (`dh-engine/host_commands.rs`) | command, kept outcome, report | launch, run, recover and replay, stop, merge | request and shutdown fail independently | exit code and status tell the truth; replay only when safe |
| TypeScript worker (`opencode-app/src/worker`) | initialization flags, running and pending requests | handlers of the JSON-RPC peer, host queries | handlers overlap, ids of both sides, cancellation | no query lost, shutdown acknowledged |
| indexer (`dh-indexer`, tables of `dh-storage`) | rows, facts and edges per file, run state | workspace, forced and path-scoped run, invalidation | edits during a run, unreadable files, crash between transactions, snapshots used for linking | current facts match the disk, importers revisited, a forced run heals |
| engine RPC router (`dh-engine/bridge.rs`) | session of a bridge | initialize, queries, run command, shutdown | order of lifecycle calls | requests answered once, none before initialization |
| TypeScript bridge client (`dh-jsonrpc-stdio-client.ts`) | pending requests, child process, codec, read buffer | initialize, request, timeout, write error, exit, close | overlapping calls, late answers, one buffer and one codec for all processes, exit while requests are pending | every call ends, with the answer to its own request |
| TypeScript workflow runtime | envelopes, work items, stages, gates | quick, delivery and migration runs, handoff, retry | model calls fail half way, dependent work items | stages and gates in order, dependants after their dependencies |
| TypeScript session runtime | sessions, run status, checkpoints, summaries | run guard, resume, revert, fork, delete, compaction | awaits between reads and writes; SQLite and the file store | never busy for ever, revert and resume agree |
| enforcement hooks, retry policy | decisions and attempts | hook dispatch, backoff | order of hooks, which errors are retried | blocked stays blocked, bounded attempts |
| semantic index, embeddings | chunks, vectors, neighbour file | refresh, search, cleanup | crash between table and file | search names existing chunks |
| operator-safe maintenance | snapshot, applied steps | apply, rollback, prune | failure half way | all or nothing |
| extension state, TUI reducer | a file, a screen | read-modify-write, reduce | several processes | no lost update |
| graph, query, module resolution | none | pure functions of the index | bounds, cycles | agree with reachability and with the budget |

Parsers, providers, the HTTP server, plugin configuration, diagnostics, the
installer and release scripts are conversions or input and output; they are
listed in `PROJECT.json` as not modelled with the reason.

How the parts meet: a hosted command drives the supervisor, which drives the
worker through two pipes and a reader thread; the worker queries the engine
router over the same pipes; the router reads the tables the indexer writes; the
session subcommands and the workflow runtime share the session tables.

## 2. The modules

### SessionManager

One session id. The variables are the three tables (`session`, `stages`,
`envelopes`) and, per process, the next statement (`pc`), the stage it has read
(`view`) and the gate it has read (`gateRead`). Every SQL statement of
`session_manager.rs` is an action named after its operation, and `crash(p)` may
happen between any two. A stage is its position in its lane's chain. Rows of
`workflow_stages` are never deleted, so `stages` is their sequence in id order.
`MCSessionManager` adds a history variable, `overlapped`: two processes have been
in the middle of an operation at the same time. What holds only when processes
take turns (history in chain order, stages left through their gates) is stated
with it.

### The host: HostLifecycle, TypeScriptWorker, WorkerSupervisor, SupervisorClient, HostedCommand

`HostLifecycle` is the vocabulary of a lifecycle report and the pure functions
that build one. `TypeScriptWorker` has the worker process and the two pipes:
one action per handler of `worker-main.ts` and of its JSON-RPC peer, plus the
end of a run, its queries to the host and its death. `WorkerSupervisor` adds the
host's thread: each blocking point of `worker_supervisor.rs` is a value of `pc`
(`send`, `loop`, `recv`, `grace`, `ready`, `exiting`), and the reader thread,
the worker and the clock (`tick`) move between them. A call has returned when
`pc` is `idle`, with its result in `ret`. The clock counts ages up to just
beyond the limit they are compared with. `HostedCommand` is the composition:
`knowledge`, `lane` and `run` commands from launch to the merged report; and
`SupervisorClient` a caller that uses the supervisor in any order. `hist`
records what really happened (runs sent, answers received, kills) for the
properties.

`HeartbeatFailed` is an error kind of its own in the model; in the code it is a
`Timeout` with another message.

### Indexer

`disk` is the workspace, `files`, `facts`, `edges` and `state` are the tables,
`run` holds the locals of the run under way and `hist` what the properties need
to know of the past. The phases of `index_workspace` and `index_paths` are
values of `run.pc`; the transaction of each file is one action, and edits, a
failure or a crash fall between them.

| action | code (`dh-indexer/src/lib.rs` unless named) |
|---|---|
| `BeginWorkspace`, `BeginPaths`, `invalidate_paths` | the three entry points |
| `Scan`, `Hash` | `scanner.rs`, `hasher.rs`, `dirty.rs`: candidates, hashes, plan, link snapshot |
| `ParseTouchedFailure`, `ParsePlanned`, `EndParse`, `MarkFailures` | `process_and_write_file`, `mark_hash_read_failure` |
| `apply_resolution_scope_invalidation`, `InvalidateRoots`, `apply_dependent_invalidation`, `apply_structural_invalidation` | the passes of `apply_confirmed_invalidation_expansion`: what each queues and what it marks |
| `mark_not_current_without_refresh` | the transaction of one marked file; the next pass waits for all of them |
| `Refresh`, `EndRefresh` | the refresh queue; an unreadable file without a row is skipped |
| `Delete`, `refresh_unchanged_files` | `mark_deleted_file`, retained rows |
| `Link`, `Finish` | `relink_contract_changed_files`, `linker.rs`, the closing state |
| `Fail`, `Crash` | the error branch of `index_workspace`; the death of the process |

Abstractions. A content is a record of what the code tells apart: a text (its
hash), two fingerprints, imports, calls, whether it exports, whether it parses.
Edges form a set, so copies of one edge are one. A file exports at most one
function. Left out: embeddings, counters, warnings, run ids, index versions,
freshness reasons, several roots, `max_files`. The fallback that compares the
reason of an unresolved import with a path is left out because the reasons the
linker writes are never paths. Scanning and hashing are each one step: the files
are independent, and an edit between two of them is an edit before or after.
Edits happen in the phases that read the disk or lie before one; the others
cannot see them.

### BridgeClient and BridgeServer

`BridgeClient` is one `DhJsonRpcStdioClient` object and the calls of several
callers on it. Callers share an event loop: the code between two awaits is one
action, and calls overlap only at awaits. `call[c]` is what a caller is
suspended at: `startup` (the answer to `dh.initialize`), `ready` (initialized,
about to send), `request` (the answer to its operation). `pending` has the keys
of `this.pending`; `stdin` and `stdout` are the pipes of each process.

| action | code (`dh-jsonrpc-stdio-client.ts`) |
|---|---|
| `callInitialized`, `ensureInitialized`, `applyNegotiatedTransport` | `ensureInitialized` before, at and after its await |
| `runOperation`, `finishOperation` | `runAskQuery`, `runSessionCommand`, `getRuntimePing`, `getInitializeSnapshot` |
| `request`, `timeout`, `writeFailed` | `request` and its two callbacks |
| `dataHalf`, `dataFrame`, `dataMalformed`, `dataMixed` | the data event and `drainFrames` |
| `onError`, `onExit`, `close` | the other events of the child, `close` |
| `answerAny`, `die` | the process, which may do anything |

The process answers a request at most once, in any order, codec and form, or not
at all. A frame may arrive in two data events. A frame with a header
`drainFrames` refuses empties the buffer, and with it whatever else the event
has brought (`dataMalformed`). The read buffer is one for all processes of a
client, so bytes of two of them may mix (`dataMixed`): they wait, are refused, or
fill up a frame of the other process, which may then still decode and reach its
caller with another content. Whether an initialize result is accepted is
`parseV2Capabilities` (protocol, methods) and `TransportAccepted` (codec,
version, frame size, override). Left out: error codes, the contents of results,
the split of a frame into more than two parts, which waits in the same way.

`BridgeServer` extends it with the loop of `bridge.rs` in place of `answerAny`:
it reads in order, negotiates the codec, and answers in the codec it has at that
moment. Its method list is not the one the client requires;
see section 5.

## 3. The runs

| run | instance | shows |
|---|---|---|
| `session_manager` | two lanes of two and three stages, three rows, two processes (symmetric) that may die anywhere | interleaved: no stage skipped, completion after the final stage, envelopes of entered stages; taking turns: history in chain order, every stage left through its gate (a first stage that never got a row excepted) |
| `session_wedged_after_transition_crash` | one lane of three stages, one process | **violated**: a waived gate does not let the session through after a crash |
| `session_ungated_after_create_crash` | the same | **violated**: a session created only half leaves its first stage with no gate decided |
| `hosted_command` | all three commands and the free client; two queries, two protocol versions, timeouts of 1 to 3 ticks, two client requests | reports tell the truth (replay, exit code, phase, cleanup), a query of the run outside the grace window is answered or on its way, no query is taken for the answer to the run, every command and call ends |
| `forced_cleanup_hidden` | direct run | **violated**: a kill at the request timeout is reported as `NotStarted` |
| `heartbeat_unanswered` | direct run, request timeout of 6 ticks | **violated**: a worker that took the heartbeat is failed for not answering it |
| `lane_exit_code` | lane | **violated**: a lane that failed in the worker exits with 0 |
| `indexer` | a chain of three source files (the middle one imports and calls the last) and a resolution config, two edits, two calls, one broken run | facts and edges belong to current files, imports resolve to live rows, settled runs match the disk, a forced run heals, importers are revisited |
| `indexer_stale_edges` | as above | **violated**: a refreshed file keeps the edges of its previous content |
| `indexer_interrupted` | as above | **violated**: importers of a changed file stay current after an interrupted run |
| `bridge_client` | two callers, two processes, three request ids, good and bad initialize results | callers and pending map agree, answers reach their own call, a closed client waits for nothing, `close` stops the process the client speaks to, every call ends |
| `bridge_bootstrap` | one caller, the engine as process | **violated**: the engine encodes the initialize answer in the codec it has just selected, the client still decodes JSON |

Bounds. Nothing in the session manager depends on a chain's length beyond its
first, next and last stage, so three stages are enough. A request timeout of
three health timeouts lets a heartbeat go out, be missed, and the deadline pass.
Two client requests allow a call after a failed one. With two queries the second
has the id of a run, so that the two may be confused; the worker that replays a
run starts its ids anew and asks once. Three source files are the least in which
invalidation has to go through a file to its importer, and a changed file has a
direct and an indirect one; the config file reaches all; two calls of the
indexer allow a broken run and the run that has to clean up after it, and two
edits allow a change before and a change during a run. The database is empty or
freshly indexed at first; the first case needs one more call for a change to be
incremental. Two callers and two processes are the least for overlapping
initializations and for answers of a process that was replaced; three ids allow
both callers a start and one of them a request after it. An answer with a
malformed header has one codec, because its body is never read. `bridge_client`
leaves `DH_BRIDGE_CODEC` at `auto`: `msgpack` narrows which initialize results
are accepted, `json` changes what the client offers and narrows nothing, and the
process of the model answers whatever it was offered.

Deadlock is not checked for the host, the indexer and the bridge: a command that
has its report stops, and so does a client or a caller at its bound.

Fairness. `AlwaysAnswers` needs weak fairness of the host's thread
(the operating system schedules it) and of the clock (time passes). Nothing is
assumed of the worker or of the reader thread, which may stop at any point.
`CallsEnd` needs weak fairness of a caller whose promise is settled and of the
timer of its request (the event loop goes on and timers fire). Nothing is
assumed of the process at the other end.

Three properties of the indexer speak of settled states: a run has finished and
nothing was edited since its scan. `CurrentFactsMatchDisk` is about files whose
row has the hash of its own facts. A file that is edited between hashing and
parsing has a row with the older hash and the newer facts. The next run that
reads the file sees another hash and refreshes it; but when the edit has been
taken back by then the hash agrees again, and the wrong facts stay current until
the file changes once more or a forced run reads it. The property does not speak
of these rows; `FullRunHeals` shows that a forced run repairs them. It also
leaves out files a path-scoped run cannot read and was not asked for, because the
code retains these as current.

`ImportersRevisited` excepts the importers of a file that the structural pass
alone has queued. Such a file may turn out to have changed or to be unreadable
only while the queue is drained, and the code expands nothing from there (the
instance reaches this, and the property fails without the exception).
`FullRunHeals` is about rows and facts, not about edges or importers; these are
what `RefreshedEdgesAreCurrent` and `NoImporterOwed` are about, and both fail.

## 4. What is proved

For every value of the constants, with `tlapm`:

| theorem | statement |
|---|---|
| `SessionManagerProofs!TypeCorrect` | `Spec => []TypeOK` |
| `SessionManagerProofs!StagesNotSkipped` | no interleaving of any number of processes and no crash skips a stage |
| `SessionManagerProofs!CompletionNeedsFinalStage` | a completed session has entered its final stage |
| `HostedCommandProofs!ReplaySafe` | a run is sent a second time only if it is replay-safe, was sent once and was not answered |
| `IndexerProofs!TypeCorrect` | `Spec => []TypeOK` |
| `IndexerProofs!FactsAreOfCurrentFiles` | no facts and no edges of a deleted, not current or unknown file, in any state |
| `IndexerProofs!ImportsAreOfLiveFiles` | no import is resolved to a file without a live row |
| `BridgeClientProofs!BridgeTypeCorrect` | `Spec => []TypeOK` |
| `BridgeClientProofs!PendingIsWaiters` | the pending map holds exactly the requests somebody waits for |
| `BridgeClientProofs!AnswersReachTheirCaller` | a call goes on only with the answer to its own request, from the process it was sent to |
| `BridgeClientProofs!ClosedWaitsForNothing` | a closed client has nothing pending |

**Sessions.** `IInv` adds to the properties that the session's stage pointer and
every process's copy of it are stages that have a row, and that a process about
to insert or to complete has checked the stage it goes by. It is needed because
a process acts on a copy that may be stale: rows only grow, so a stale copy is
still a stage that was entered, and its successor skips nothing. Assumptions:
chains have at least two stages.

**Replay.** `ReplayInv` says, for each step of a command, how often the run was
sent and whether it was answered. The hard case is the answer that arrives after
the deadline: `final_response_seen_for_supervisor_error` must be true exactly
when an answer was taken. Assumptions: those on timeouts, versions, restarts.

**Index.** `IInv` has four facts beside types and properties. `Visited`: what a
run writes before the expansion was scanned. `CopyCurrent`: until the expansion
the run's copy of a row it has not written is that row. `SnapshotLive`: the
files of the link snapshot have live rows as long as it is used. `MarksKeepLive`:
a row the expansion has still to mark is live in the run's copy, or is of a file
that is not on disk. `SnapshotLive` is why
linking with old rows is safe: until the delete phase no live row dies, because
failures and invalidations keep the deletion mark of the copy, and the copy is
current. Assumptions: ranks are distinct natural numbers, requested paths are
files, contents are well formed.

**Bridge.** `IInv` adds to the properties: ids in use, by calls or in the pipes,
are below the counter (`IdsUsed`); no two calls have the same id
(`DistinctIds`); a message in the pipe of a process that has the id of a call
belongs to the process that call was sent to (`OwnProcess`, `Senders`). They are
needed because an answer is matched by its id alone: a late answer is harmless
only because its id was never given to another request. Assumptions: the two
bounds are natural numbers and initialize results are well formed.

Only model-checked: liveness (`AlwaysAnswers`, `CallsEnd`), `CloseStopsLast`, the
truth of the merged reports, `NoQueryLost` and `QueryIsNoAnswer`,
`TurnsKeepChainOrder` and `TurnsRespectGates`, and the indexer's properties of
settled states and importers. Liveness is out of the prover's reach; the others
are planned.

## 5. Disagreements between the code and its documents

1. `session_manager.rs:233`: `transition_stage` inserts the next row before it
   moves the pointer; after a crash between the two, gate decisions go to the
   old stage and transitions look at the new row's pending gate. The comment on
   `waive_gate` promises a bypass.
2. `worker_supervisor.rs:748`: the kill at a request timeout is not visible in
   the final report, against `docs/solution/2026-04-22-rust-host-lifecycle-authority.md:248`.
3. `worker_supervisor.rs:697`: the heartbeat is a notification, the worker
   answers `runtime.ping` only as a request, against line 226 of that document.
4. `host_commands.rs:812`: the exit code of a lane is looked for where the
   worker does not put it.
5. `dh-indexer/src/lib.rs:2502`: edges are reused when the fingerprints agree,
   and calls are in no fingerprint, against
   `docs/scope/2026-04-19-incremental-indexing-completion.md:150`.
6. `dh-indexer/src/lib.rs:1159`: an error after the first write leaves importers
   current, against line 160 of that document.
7. `dh-engine/src/bridge.rs:512`: the codec is switched before the initialize
   answer is written, against
   `docs/solution/2026-05-05-jsonrpc-binary-bridge.md:58`.
8. `session_manager.rs:202`: a session that `create_session` wrote without its
   first stage row can be resumed, and `transition_stage` looks at no gate when
   it finds no row.

Seen while modelling, and not runs of their own: a completed or failed session
still takes operations; a second forced cleanup reports `Incomplete`; a query
read in the grace window is dropped;
the relaunch budget is three where a document says one; relinking stores import
edges more than once; an import written before its target exists is never
resolved; the deletion of a config file invalidates nothing; importers of a file
that only the structural pass has queued are not queued when it turns out
changed or unreadable. In
the bridge: the engine advertises seven methods (`worker_protocol.rs:56`) where
the client requires exactly eight (`dh-jsonrpc-stdio-client.ts:306`), so
initialization is refused in JSON too; a failed or overlapping initialization,
and a call after `close`, leave a child process behind; `initialized` stays true
after the child is gone; a peer that selects MessagePack is followed even with
`DH_BRIDGE_CODEC=json`.

## 6. Plan

In order of importance. Runs are kept few, twelve in all: a new one asks a
question of its own and takes the place of one that asks less.

1. *TypeScript session runtime* (module `SessionRuntime`): run guard, resume,
   checkpoints, revert, fork, delete, compaction, over the SQLite and file
   stores. Hazards: a callback that throws before the guard's `try`, revert
   and resume on different stores, awaits between read and write. Run: two
   callers, two checkpoints. Theorem: a session that is busy has a run.
2. *TypeScript workflow runtime* (`WorkflowRuntime`): lanes, stages, gates,
   handoffs, work items and their dependencies, retries, composed with the
   session runtime. Abstract specification: the lane as a chain of stages, which
   `SessionManager` implements too (refinement, `INSTANCE ... WITH`).
3. *Rest of the bridge* (`BridgeServer`): the order of the lifecycle methods,
   shutdown, the results of the router's methods. Theorem: `CloseStopsLast`.
4. *Indexer*: two runs at once, the path-scoped run's retained files, edge
   multiplicity. Theorems: `ImportersRevisited` without interruption, and
   `FullRunHeals`.
5. *Pure algorithms* (`GraphQueries`, `ModuleResolver`, `RetryPolicy`, evidence
   budgets): operators against reference definitions over bounded inputs.
6. *Maintenance and semantic index*: snapshot, apply, rollback, prune, and the
   neighbour file across a crash.
7. *Proofs for the host*: exit code and phases (`ExitCodeHonest`,
   `PhasesDistinct`), `QueryIsNoAnswer`; for sessions `TurnsKeepChainOrder`.
