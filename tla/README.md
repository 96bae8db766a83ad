# A TLA+ model of jcowork

jcowork is an agent server written in Rust (`src/crates/`), with a web client
(`src/web/`) and a mini program (`src/miniprogram/`). Users talk to a language
model over WebSockets; the model calls tools, works on files, and runs
periodic tasks. This directory holds the TLA+ modules that model the parts of
the server where concurrency, failure and time make the code hard to test, the
TLC configurations that check them on small instances, and proofs for TLAPS.

    tlc -config TaskStreamFeed.cfg MCTaskStream       # a run
    tlapm TaskStream_proofs.tla                       # the proofs

Contents: [inventory](#inventory) · [modules](#modules) · [runs](#runs) ·
[proofs](#proofs) · [disagreements](#where-code-and-comments-disagree) ·
[not modelled](#what-is-not-modelled) · [plan](#plan)

## Inventory

Paths are below `src/crates/` unless they start with `src/`.

| Component | State it keeps | Operations | What makes it hard | What makes it correct |
|---|---|---|---|---|
| Background task stream: `RunningTask` in `jcowork-gateway/src/session.rs`, the live branch of `ws_handler` in `ws.rs` | a broadcast channel (4096), a replay log, `running`, an abort handle | `emit`, `attach`, `abort`, receive, replay | several emitters, several followers; log and channel are two structures changed one after the other; receivers lag; connections come and go | a follower gets every event once and in order, and learns of the end |
| Conversation: `ws_handler`, `SessionManager`, the store of `Chat.tsx` | per connection a history; per conversation one registered task, its final history; in the client the stored messages | message, stop, `load_history`, reminder action, end of a task | a check and the registration it guards are many awaits apart; a task's result is handed over through a one-shot slot; the client resumes by comparing text | one task at a time; a stop stops; the next question is asked with the answers so far |
| Verification codes: `router/code_store.rs`, with its callers `auth_api.rs`, `email_api.rs`, `admin_mail.rs` | per target a code, its attempts, deadlines and daily count; a global daily counter | `issue`, `commit`, the two `Drop`s, `consume` | the entry is changed before the message is sent and restored when sending fails; the clock is read before any lock; days roll over lazily | cooldown, daily limits and lockout hold; the code a user was last sent works |
| Periodic tasks: `jcowork-cron/src/scheduler.rs`, `jcowork-storage/src/cron_store.rs`, `jcowork-gateway/src/cron_executor.rs` | a map of jobs, a map of loop handles, the loops with their own copies, two tables, a broadcast queue | add, update, remove, trigger now, wake, execute, restart | four places hold a job and are changed one after the other, each under its own lock; saves fail; the server restarts | one loop per job, with its current prompt; memory and database agree; removed means removed |
| One-time reminders: same scheduler, `jcowork-tools/src/cron.rs` | maps of reminders and timers, in memory only | add, remove, fire | a timer fires while it is registered or removed; two maps are changed one after the other; every connection of a user gets it, and may be overtaken | a listed reminder rings, a removed one is silent |
| Schedule arithmetic: `next_local_fire`, `router/cron.rs`, `src/web/src/utils/cron.ts` | none | next fire time, 5 to 7 fields, weekday numbers | local time, rounding to seconds | no fire time is skipped or doubled |
| Agent turn: `run_turn` in `jcowork-agent/src/loop.rs`, the stream parser in `jcowork-llm/src/openai.rs`, `dispatch_isolated` in `jcowork-tools/src/registry.rs` | the message history, the calls collected from the stream, the tools that run | request, stream, tool call, next round, forced last round, stop | each await has a timeout and a tool goes on after its own; calls arrive in pieces; the provider may reuse ids | every tool call has its own result before the next request; a turn ends with one "done" |
| Accounts: `jcowork-storage/src/user_store.rs`, `auth_api.rs`, `email_api.rs`, `admin_users.rs` | users, bindings of phone, mail and external identity, a recycle bin | register, log in, bind, trash, restore, purge | check-then-insert across awaits; purge against restore; a code is spent before a later check fails | one account per identity; a restored account is complete |
| Workspace index: `jcowork-storage/src/workspace_index.rs`, `vector_index.rs`, `excel_db.rs`, over the vendored `usearch` | documents, chunks, embeddings, an in-memory vector index of fixed size, imported databases | add, remove, move, publish, search | minutes of parsing between reading and writing; four stores changed in turn, by handlers that may be dropped | a search finds what is there, and only that |
| Docling manager: `docling_manager.rs`, `src/services/docling` | setup state, a start lock, a child process | set up, start, health check | long start under two locks | one service process |
| Connectors: `jcowork-connectors/src/manager.rs`, `mcp_client.rs` | tool registry, tool index, connections, cached tool lists, the pending requests | sync, execute, invalidate, request/response | caches filled after they were invalidated; a sync that waits for servers under a lock; handlers dropped half way | the registry says what the table says; nothing disabled runs; no request waits for ever |
| Model router: `jcowork-llm` | providers behind a lock | resolve, reload | little | — |
| Memory, skills, logs, settings | rows and files | single statements | read-modify-write in a skill patch | — |
| Feishu bot, mail, SMS | tokens, HTTP and SMTP clients | callbacks, deliveries | external services | — |
| Server, desktop shell | wiring | start, stop | order of start-up | — |
| Clients | stored messages, sockets | send, reconnect | resume after a lost socket | what the server has is shown once |

How they interact. A WebSocket handler (`ws_handler`) is the hub: it takes a
user message, builds a `RunningTask`, registers it with `SessionManager` and
spawns a detached future that runs the agent turn. The turn emits events into
the task, every connection of the conversation may attach to it, and when it is
over the history goes back through the task. The agent's tools call the
scheduler, which triggers jobs over a broadcast channel to the cron executor
(which runs a turn of its own) and reminders to the WebSocket handlers.
Account handlers ask the code store for a code, and the mail or SMS service to
send it.

## Modules

| Module | Models | Lines of state and actions |
|---|---|---|
| `EventFeed` | abstract: what a stream of task events promises its clients | `Publish`, `Settle`, `Subscribe`, `Deliver` |
| `TaskStream` | `RunningTask::emit`, `attach`, `abort` and the follow loop of `ws_handler`; refines `EventFeed` | two steps per `emit`, a cursor per receiver, a snapshot per attach |
| `TaskStream_proofs` | — | theorems about `TaskStream` |
| `Conversation` | the handlers of one conversation as processes, the registered task, adopted histories, stop, reminder actions, the hourly cleanup, the client's store | a `pc` per handler, a phase per task |
| `Conversation_proofs` | — | theorems about `Conversation` |
| `CodeStore` | `issue`, `PendingSend`, `BudgetSlot`, `consume` and a clock with days | a `pc` per request |
| `CodeStore_proofs` | — | theorems about `CodeStore` |
| `AgentTurn` | the turns of one conversation: rounds, the stream, tool calls, stops | a `pc` for the turn, a set of tools that run |
| `AgentTurn_proofs` | — | theorems about `AgentTurn` |
| `CronScheduler` | jobs, loops, handles, tables, the executor, failing saves and restarts | a `pc` per caller, a record per loop |
| `CronScheduler_proofs` | — | theorems about `CronScheduler` |
| `Reminders` | `add_reminder`, `remove_reminder`, the timer task, the broadcast channel, the connections that receive, restarts | a stage per reminder and per timer, a queue per connection |
| `Reminders_proofs` | — | theorems about `Reminders` |
| `Connectors` | the table of connectors, `sync_registry`, the two caches, the tools panel and tool calls | a `pc` and a copy of the row per handler, one holder of the lock |
| `Connectors_proofs` | — | theorems about `Connectors` |
| `DocIndex` | files, `documents`, `doc_chunks`, `chunk_embeddings` and the vector index, with the slots of `usearch` | a `pc` per handler, one step per SQL statement |
| `DocIndex_proofs` | — | theorems about `DocIndex` |
| `MC*` | finite constants for TLC | |

### TaskStream

`emit()` (session.rs:64-69) is `Send` followed by `Push`: it broadcasts first,
and takes the `events` lock only for the append, so an attach may fall between
the two. `attach()` (session.rs:72-81) subscribes and clones the log under that
lock: one step, `Subscribe`. A tokio receiver is a cursor into the sequence of
everything broadcast; it has lagged when more than `Capacity` events are
unread, and the handler then closes the connection (`Lagged`). The agent's
future ends in one of three ways: the end of the turn, dropped by the runtime
after a stop, or a panic, which clears the flag but announces nothing. A stop
is two steps because the flag is read and cleared separately and several
connections may press it. Event contents are abstracted to three kinds; the
end of a turn is "done" whether `run_turn` or the fallback after it sent it.

`EventFeed` forgets how events are stored: an event is published, later
settled, and delivered at most once to each subscriber but for those that were
unsettled at its subscription. `FeedSpec` is the refinement: published is the
length of the channel, settled the set of the log, seen what was sent.

### Conversation

Each connection is a handler that does one thing at a time; while it is away in
an await the others go on. A user message is received (`Receive`: the check for
a running task and the adoption of the finished one's history), then many awaits
later (image conversion, provider lookup) refused (`Refuse`) or registered
(`Register`, `Spawn`, `SetHandle`: three steps because another handler may stop
the task in between). A task's turn ends with or without an answer, publishes
its history, and clears the flag, in that order (`TurnEnds`, `LogEnd`,
`Publish`, `Exit`), or the future is dropped (`Die`). `LoadHistory` is what a
reconnecting client causes: it is re-attached when the text of its last
unanswered message equals that of the registered task. Texts are small constants
(`Says`), so that equal texts of different messages can be given. `Expire` is
the cleanup of `set_task()` done on behalf of other conversations.

A client that is re-attached is shown the task's result before the handler
adopts its history (`Resume`), and one that is told of a stop keeps what it has
been sent as a partial answer (`DeliverStopped`). Two connections stand for two
tabs: they share the stored messages, and that one tab may overwrite what the
other has stored is left out.

Left out: the system prompt, which is rebuilt; the tool messages inside a turn,
which are in `AgentTurn`; images (their conversion is one of the awaits); the
stream itself, which `TaskStream` covers: here `Deliver` gives the client the
result of the task its handler follows in one step, live or replayed. What is
kept of the stream is how its last event can be lost. "done" and "stopped" are
broadcast (`TurnEnds`, `StopAct`) and appended to the log (`LogEnd`, `LogStop`)
in two steps, and a handler that attaches in between (`Split`) gets the event
neither live nor replayed: it has `missed` it, and its client waits in vain.
`TaskStream` excuses the same loss in `ClientSeesEnd`.

### CodeStore

One request is a process: `Begin` (reads clock and day), `Reserve` (the sweep
of idle entries and the budget slot), `Copy` (the rollback copy), `Stage`
(throttle checks and the new code, under the table's lock), and then `Commit`,
or `Rollback` and `Release`. `consume()` runs under the table's lock and is one
step, by outcome: `LockOut`, `Wrong`, `Accept`. The code of request r is r
itself; two codes are never equal by chance. Time is in ticks: the steps before
the send happen within a tick (there is no await among them), a send
takes at most `SendTime`. The constants of the code (60 s, 300 s, 900 s, a day)
are scaled to 2, 3, 3 and 4 or 8 ticks, which keeps the order
cooldown < lifetime ≤ lockout < day where a run needs it.

`held`, `late`, `mail`, `uses` and `crowded` are history variables: no action
reads them to decide anything.

### AgentTurn

`run_turn` (loop.rs:382-740) is a `pc` that names the await it is at: the
request (`calling`), the stream (`streaming`), a tool (`waiting`), or the loop
over the calls of a round (`dispatching`, which has no await of its own but is
kept as a state so that a call is one step). Each await ends in its result or
its timeout: `CallAnswered`/`CallFailed`, `StreamFailed`, `ToolEnds`/
`ToolTimedOut`. The stream is read through its parser (openai.rs:288-405),
which passes a tool call on only when an id, a name and some arguments have
come: a call that never gets there is not seen by `run_turn`. The calls are
collected in a hash map, so they are made in any order (`Orders`). A call that
turns out blank gets an error for a result (`Skip`); the last round drops the
calls it should not have got (`Concluded`).

`dispatch_isolated` (registry.rs:76-93) runs the tool in a task that outlives
its caller. `live` holds the tools that run, `awaited` the one whose handle the
turn waits on, and a tool that ends while it is not awaited is heard of no
more. Results carry the dispatch they came from, as history.

`Publish` and `Stopped` are the task around the turn (ws.rs:877-933): a turn
that has returned hands its history on, a turn that is stopped is dropped with
its copy of the history. A stop takes effect where the future waits; events are
emitted without waiting, so none falls between "done" and the end. The
module gives the handler's next turn the history at once;
`Conversation` has the detours it may take, and reduces a turn to the one step
`TurnEnds`.

### CronScheduler

A job is its current edit (prompt, model and schedule as one value) and the
number of its runs, which stands for `last_run`. An operation is a caller that
steps through the places it changes: the loop, the map of jobs, the map of
handles, the table. A loop is a slot; a handle names a slot; replacing a handle
without aborting it leaves the loop running, as dropping a tokio `JoinHandle`
does. A save may fail (the code logs it). `Crash` empties memory and restores
from the table, which like listing jobs and deleting results may fail. A
schedule may be spent: its loop ends, the job stays registered without one, and
a restart does not bring it back, though its row is still in the table. An
update looks at the schedule a second time after it has aborted the old loop; if
it has run out since the first look, the update fails there (`ReplaceFails`) and
the job has no loop. That window is only open to a schedule with a last fire
time, and those the router builds have none. When a loop fires is left open
(`LoopWake` may come at any time), and the executor takes one reminder at a
time, skipping those of trashed owners.

An aborted loop is dropped at its next await (`LoopDropped`), which may be the
save or the lock before it, or gets through what it was doing (`LoopSend`).

The server drops the handler of a request whose client goes away, at the await
it is suspended in (`DropCaller`); a tool call runs in a task of its own and is
not dropped. A statement that was sent is executed or not; that SQLite may
execute it a moment after the handler is gone is left out. Between the
spawn of a loop and the registration of its handle a drop leaves that loop
without a handle, or the job with the handle of an aborted one; `astray` has these
jobs, until a restart. Any id that was given out may be removed (`Remove`), as
the tool removes what it is told to; the router looks the job up first.

### Reminders

A reminder is in two maps with a lock each: its record (`reminders`) and the
handle of its timer task (`timers`). `add_reminder` (scheduler.rs:596-655) puts
the record there (`Add`), spawns the task (`SpawnTimer`) and registers its
handle (`RegisterTimer`), so the id is listed before its timer can be cancelled.
`remove_reminder` aborts what handle it finds (`Cancel`) and then drops the
record (`Erase`). It waits for a lock before each, and a request whose client
goes away is dropped there (`DropRemoval`); after the abort this leaves a
reminder that is listed and never rings (`abandoned`). The tool's removal is a
task of its own and comes to its end. An abort takes a sleeping task away at
once; one that is awake is dropped only if it waits for the lock of the map
(`Dropped`), and otherwise rings. `Ring` is `reminder_tx.send()`: each open
connection has a queue of `Capacity`, a full one loses its oldest entry and its
next `recv()` says so (`Overtaken`), which the handler ignores. A reminder with
an action keeps the connection busy until the turn ends (`ActionEnds`). The
channel also carries the triggers of periodic tasks and the reminders of other
users (`RingOther`). Nothing is persisted: `Crash` empties everything.

Left out: the time itself. The delay is cut to whole seconds, so a reminder may
ring up to a second early, and one less than a second away is refused.
Triggered records and ended handles stay in their maps for good, which no
property counts.

### Connectors

Each request is a handler that goes through its awaits: the statement on the
table (`Create`, `UpdateWrite`, `Delete`, `Toggle`, `ToolWrite`), the
invalidation of the caches (`Invalidate`; not after `Create` and `ToolWrite`),
and `sync_registry`, from `SyncBegin`, which takes the lock and reads the
enabled rows, over one connector at a time, from the cache (`SyncKnown`) or its
server (`SyncFetch`, `Connected`, `Listed`, `FetchFails`), to `SyncApply`,
which has no await and changes registry and index in one step. The tools panel
(`Panel`) and a call (`CallResolve`, `CallLoad`, `CallStarts`) use the same
caches without the lock. A configuration stands for a whole `config_json`;
which configuration a cached client or list came from is what the properties
are about. `Drop` is axum dropping a handler whose client went away; it also
stands for a failed read of the table, whose error every handler ignores.

`overtaken`, `unreachable`, `unsynced` and `allowed` are history. They name the
exceptions that the code does have: a cache filled by a request that read its
row before an invalidation and finished after it stays stale until the next
change; a connector whose server did not answer the last sync has no tools; a
change whose handler was dropped is not synced. Two updates of one connector
may also lose one of them (`UpdateLoad` and `UpdateWrite`, `ToolLoad` and
`ToolWrite` are a read and a write of a row), which the registry then
reflects faithfully.

### DocIndex

A version stands for the text read of a file, cut into `Pieces` chunks.
`add_document` reads the file (`AddRead`), upserts the document (`AddUpsert`),
clears its old chunks (`ClearSelect`, `ClearVectors`, `ClearEmbeddings`, which
stands for one DELETE per chunk, `ClearChunks`), asks for the embeddings
(`AddEmbed`) and stores chunk, embedding and vector one after the other
(`AddRow`, `AddEmbedding`, `AddVector`). `remove_file` and `remove_directory`
delete the documents and go through the same clearing; a move is one update of
the document (`MoveDoc`). The file system changes first. `Edit` is whatever
changes a file and tells the index nothing: the editor of the web client
(`save_workspace_file`), the agent's `file_write` and `file_copy`, its shell.
The vector index is what `VectorIndex` relies on of usearch: members up to the
reserved capacity, a free list of removed slots that insertions use first, and
an error beyond (`VectorAdd`; the index is vendored and its lines are in the
map). A restart builds it from the embeddings with exactly as much room.
`Matches` is the set of paths a directory's removal matches: its pattern is
`dir%`, so a sibling `dir2` is among them, while only `Inside` leaves the disk.

`expected`, `disturbed`, `raced`, `moved`, `edited` and a handler's `stray` are
history: a property about a file speaks of one that the last operation had for
itself. Two that overlap on one file can leave it indexed twice; a move leaves
the chunks of the file under its old path, where searches find them, and the
removal of the directory does not (`Strays`: it clears the files that it finds
in `documents`); and a file that is edited is found by its old text until it is
indexed again.

## Runs

Passing runs:

| Run | Question | Bounds |
|---|---|---|
| `TaskStreamFeed` | Whatever the interleaving of emits, attaches, stops, lags and reconnects: no duplicates (`NoDuplicate`), losses exactly where the attach split an `emit` (`LossIsExcused`), order per emitter across the seam (`EmitterOrder`); is the stream a feed (`FeedSpec`), and does a client that stays get the end (`ClientSeesEnd`)? | two connections, channel of 1 so that lag is common, one agent event before the end and any stops |
| `ConversationSolo` | With one connection at a time: one task (`OneTaskRuns`), and only one future working, whatever is stopped (`OneFutureWorks`), no answer forgotten (`AdoptionForgetsNothing`, `FollowUpKeepsContext`), no task resumed twice (`ResumesOwnTask`) | three messages of different text, three sockets, no idle hour, no reminder |
| `ConversationEnds` | Does every task free its conversation (`TaskResolved`) and its follower learn the end, unless its attach split the event (`ClientIsAnswered`)? Are histories well formed, whatever is adopted (`AnswersFollowQuestions`)? | two messages, a reconnect, a reminder action, an idle hour |
| `CodeStoreThrottle` | Budget (`BudgetHonest`), cooldown (`CooldownHolds`), daily limit (`DailyHolds`), and the code a user has works (`CodeWorks`) | one target, three requests, a day boundary, budget 2, daily limit 1 |
| `AgentTurns` | Over turns that fail, time out and are stopped: calls and results match in every request (`RequestsArePaired`) and each result is its own call's (`ResultsAreOfTheirCalls`), the last round runs nothing (`LastRoundRunsNothing`), one "done" a turn (`OneDonePerTurn`), every turn ends (`TurnEnds`) | two call ids, two rounds, two turns |
| `CronSerial` | Operations on one job one after the other, against its loops, failing saves, dropped handlers, the executor and a restart: one loop with the current prompt but where a handler ended half way (`OneLoopPerJob`), table and memory agree (`StoreMatchesMemory`), removed jobs stay away (`RemovedStaysRemoved`) | one job, three edits, two triggers, one restart, queue of 1, any drops |
| `Reminders` | Lists and timers match (`ListMatchesTimers`), what was removed in time is silent (`RemovedIsSilent`), a connection misses only what overtook it (`OnlyTheOvertakenAreMissed`), what is listed rings (`ListedRings`), each but for a removal that was dropped after the abort | two reminders, one with an action, two connections, channel of 1, one removal, by a request that may be dropped or by a tool, one restart |
| `Connectors` | When no change is under way, are registry and table in agreement (`Reconciled`)? Which caches can be stale (`StaleOnlyIfOvertaken`)? Can a disabled tool run (`DisabledNeverRuns`)? Does every request end although servers hang (`HandlersFinish`)? | one connector, two MCP configurations and one API, one tool, two handlers, three requests, one drop |
| `DocIndex` | What an undisturbed operation leaves is exact, though files are edited behind the index (`IndexedIsExact`), what is removed is gone, file or directory (`RemovedIsGone`), and the four stores agree at rest (`StoresAgree`) | two files, a directory whose pattern matches both, texts of 0, 1 and 2 chunks, two handlers, three operations or edits, one restart or drop |

The bounds are small but each makes its case happen: two connections are enough
for an attach to fall into another emitter's `emit` and for two stops to race;
a channel smaller than the number of events makes receivers lag; a third
message shows the second one's adoption; a day boundary within the requests
makes counters roll over with slots out; three slots of loops hold the loop
of a job, its aborted predecessor and one that is being dropped; a queue of one
drops reminders; two ids make a round with two calls, and the second turn has a
tool of the first still running while its id is used again; of two rounds one
has tools and one is the last; two handlers are enough for a request that
holds an old row to finish after another's invalidation; a two-chunk document
after a one-chunk one finds the vector index full, and a re-indexed one finds
free slots. The restrictions of `ConversationSolo` and `CronSerial` are
deliberate: the properties fail without them (see below), and within them they
are what a user of one browser tab, or of one request at a time, gets.

`CHECK_DEADLOCK FALSE` is set because every system here may stop: a task that
has ended and a socket that stays closed have nothing more to do, and the
bounds end the input.

`AdoptionForgetsNothing` and `FollowUpKeepsContext` except two kinds of tasks:
the `stopped` ones, which publish no history, and the `spent` ones, whose history
went to a connection that ended before its client had the answer. That takes
three sockets, one that asks, one that takes the history and one that goes on,
and is the subject of `ConversationLostReplay`.

Fairness (`TaskStreamFeed`, `ConversationEnds`, `AgentTurns`, `Connectors`,
`Reminders`). Weak fairness on the second half of an `emit`, on the handler that
is making a task, on replaying and receiving, and on the end of the agent's
turn. The code justifies each: they are straight-line code of a future the
runtime polls, awaiting only a lock that is held briefly or the socket;
`run_turn` has a bounded number of rounds (loop.rs), each under request and tool
timeouts. `AgentTurn` checks this last step: its fairness is on the turn's own
steps, which a timeout makes possible at every await, and not on the tools,
which need not return; a stream that goes on without anything new for the model
ends or fails, as the provider's answers are finite. Nothing is assumed of
users: sending, stopping, reconnecting and closing may never happen.
`Connectors` is fair to a handler's own steps, of which the timeout of a request
to a server is one (`REQUEST_TIMEOUT`, mcp_client.rs), and not to the servers'
answers; `sync_guard` is a fair lock, but weak fairness suffices in the bounded
run. `Reminders` is fair to the timer task and to a removal, which returns or is
dropped with its request, and asks nothing of the connections: `send()` does not
wait for them. A client whose socket blocks is not fair and is the reason
`Lagged` exists; a handler that cannot write any more ends (`Close`,
`Disconnect`).

### Where code and comments disagree

Three are runs that TLC must find violated, each of a sentence the source states:

| Run | The source says | What happens |
|---|---|---|
| `ConversationTwoTasks` | ws.rs:501: "Reject a new task while one is already running for this conversation" | two connections pass the check before either registers |
| `ConversationLostReplay` | session.rs:39-41: the final history is "Adopted by the next connection so follow-up messages keep the right context" | the next connection takes it, once and for all, after a replay whose send errors are ignored; it closes, the connection after it is replayed the answer and has no history to adopt: the follow-up lacks what the user was shown |
| `DocIndexCapacity` | vector_index.rs:41: "Initial capacity hint (number of vectors expected)" | usearch reserves exactly that many and refuses more; nothing reserves again and the error is dropped: after the first document, or after a restart, new chunks are not in the vector index |

Six more follow from what is checked or from a history variable:

- session.rs:62-63: attach "never loses or duplicates an event". `emit`
  broadcasts before it takes the lock, and an attach in between loses the
  event. `LossIsExcused` (and the theorem `LossIsExact`) says that these are
  exactly the losses; the half about duplicates holds and is proved.
- code_store.rs:35: the lockout "survives resends and successful logins". Wrong
  guesses while a message is being sent arm the lockout, and the failed send
  restores the entry from before (`Rollback`).
- scheduler.rs:431: "the running trigger loop is replaced". Two operations that
  schedule the job at the same time register two loops; the handle of one is
  dropped by `cron_handles.insert()`, its loop goes on (`RegisterHandle`).
  `CronSerial` has one operation at a time for that reason. One operation is
  enough when its handler is dropped on the way (`DropCaller`): the new loop runs
  with no handle to abort it, so the next update leaves two.
- scheduler.rs:446-447: the schedule is validated first "so a bad expression can
  never leave the task unscheduled". It is evaluated again after the abort, and
  an expression whose last fire time has passed in between fails there
  (`ReplaceFails`): the job is listed without a loop.
- tools/cron.rs:72: the list is of "all active (untriggered) reminders". One whose
  removal was dropped between scheduler.rs:673 and 674 is listed, and no timer
  will trigger it (`abandoned`).
- workspace_index.rs:517 and 519: "Remove all documents under a directory", "the
  directory itself and all files under it". The pattern is `dir%` (line 523), and
  the documents of a sibling `dir2`, whose files stay on disk, go as well.
  `RemovedIsGone` is stated of all that the pattern matches (`Matches`), and
  `Inside` is what the sentence means.

Others were met while modelling and are recorded as notes on the hazards in
`PROJECT.json`: a task's history is adopted by the first connection that asks,
which may not be the one that gets the next message; it is dropped after an
idle hour; a reminder's answer is overwritten by an adoption; the daily count
and the budget can be reset repeatedly by requests of two days around
midnight; a removal can be undone in the table by a save that was under way;
a run under way when its job is removed leaves its result behind; a stop from
another connection between `set_task()` and `set_abort_handle()` clears the flag
and aborts nothing; a stream that brings neither text nor a whole tool call
completes the turn with an empty answer, though ws.rs:898-900 has every turn
end with a conclusion; a reminder's action runs once per open connection, and
not at all without one; a reminder removed before its timer is registered
still rings; a file whose new text is empty keeps the chunks of the old one; a
move onto an indexed path is refused by the table after the file has moved; a
client of an MCP server that died stays cached.

## Proofs

`TaskStream_proofs`, for any set of connections, any channel size and any
number of events:

- `StreamInvariance`: the inductive invariant `StreamInv` holds. It says where
  each event is. The log has no event twice; an emitter's pending event is
  broadcast, not in the log, and not pending elsewhere; every event broadcast
  is in the log or pending. For an attached connection, the snapshot is a
  prefix of the log with events up to `base` only, and what is neither in
  that prefix nor above `base` is `excused`. The type invariant alone
  is not inductive for the two properties below: nothing in it keeps a pending
  event from being in the log already, or a snapshot from holding an event
  that the receiver will get as well.
- `TypeCorrect`, `NeverDuplicates`, `LossIsExact`: `TypeOK`, `NoDuplicate` and
  `LossIsExcused` follow.
- `EmitterOrderHolds`: `EmitterOrder`. The log is not in the order of the
  broadcasts, so this is not a property of an ordered log; `OrderInv` says that
  what an emitter has in flight is later than whatever it has logged, which is
  enough for the events of one emitter, in the snapshot and across its seam.
- `StreamIsAFeed`: `FeedSpec`, the refinement of `EventFeed`. The broadcast is
  the abstract `Publish`, the append to the log is `Settle`, the attach is
  `Subscribe`; a step of the replay or of the receiver is a `Deliver` of
  one event that is new to the client and not excused; the rest stutter. It
  takes two more invariants of cursors (`CursorInv`): a connection that follows
  no task has forgotten the last one, and live events wait until the snapshot
  is sent.

`Conversation_proofs`, for any messages, connections, reminder actions and idle
hours, and any number of handlers unless a hypothesis says otherwise:

- `TaskInvariance`: the inductive invariant `TaskInv`: types, and who belongs to
  whom. Tasks are numbered without gaps (`Numbered`), each was made for a sent
  message of its own (`Started`), and what a handler prepares is of no task and
  no other handler (`Prepared`). That there is room for the next task
  (`NextTaskIsNew`) is a counting argument over these: the tasks map one to one
  into the messages other than the one prepared.
- `AnswersFollowAlways`: `AnswersFollowQuestions`. What a handler adopts comes
  from a task, a task's history from a handler or from what the client has
  stored, so `OrderInv` says it of all of these and of the histories handed
  over, together with the questions: a task has the message it answers, and the
  client has stored every message it sent.
- `OneTaskRunsAlways`, `OneFutureWorksAlways`: `OneTaskRuns` and
  `OneFutureWorks`, with the hypothesis `OneHandler`, without which
  `ConversationTwoTasks` refutes the first. `RunInv` says that a message is
  prepared while no task runs, that a future has its flag until it is aborted,
  and that a task without an abort handle is still in the hands of the handler
  that made it, which therefore cannot be the one that stops it.
- `ResumesOwnTaskAlways`: `ResumesOwnTask`, for any number of handlers, with the
  hypothesis `DistinctTexts`: re-attaching compares texts, and a message that
  repeats an answered one resumes that one's task. `AnswerInv` says that an
  answer the client has was stored after its question, so the question is not
  the last message stored.
- `AdoptionForgetsNothingAlways`, `FollowUpKeepsContextAlways`:
  `AdoptionForgetsNothing` and `FollowUpKeepsContext`, with the hypothesis
  `Undisturbed`, which is the setting of `ConversationSolo`: one connection at a
  time, no message twice, no idle hour and no reminder action. The hypothesis
  leaves the number of messages, reconnections and stops free. A second handler
  may adopt the history first; a repeated text re-attaches a client to the wrong
  task; the idle hour drops the history before the client has stored it; and an
  action that is answered while a task runs is not in the history of that task.
  `KeepInv` says where each answer is: the history of the registered task has
  every answer of the handler and every one the client has stored
  (`WorkCovers`); the handler's has what is stored, but for the answer it is
  still waiting for (`HistoryCovers`, `StoredAnswers`); and a history that was
  handed out is with the handler that follows the task, or its answer is stored,
  or the user has gone on, or it is `spent` (`TakenIsKept`). All three hold but
  for `Lost`, the messages of stopped and of spent tasks. What `spent` excuses
  is real: the run `ConversationLostReplay` shows an answer that the user saw
  lost in this way.

`CodeStore_proofs`, for any requests, targets and limits:

- `CodeTypeCorrect`: the counters keep their ranges.
- `BudgetIsHonest`: `BudgetHonest`. Its strengthening `BudgetInv` is
  `Cardinality(held) <= counter + late`, with `counter <= Cap`: a release in
  the counter's own period takes one from both sides, a release of an
  earlier period (`late`) takes one from the counter only, and a saturated
  release takes nothing.
- `CooldownHoldsAlways`, `CodeWorksAlways`, `DailyHoldsAlways`: `CooldownHolds`,
  `CodeWorks` and `DailyHolds`, with the hypothesis `Timing`: a send takes at
  least a tick and is over before the cooldown is, and cooldown and lifetime are
  shorter than a day. In the code they are 60 s, 300 s and a day, and a send is
  given up after 10 s (SMS) or 20 s (SMTP). The first hypothesis is needed:
  a send that outlasts the cooldown is rolled back to a copy that is older than
  the next message. The invariant `SpacedInv` says what the entry and each copy
  under way remember of what was staged, `CodeInv` which of them has the last
  code, and `LimitInv` how the count of a day is related to the messages of that
  day, by the progress of the request under way.
- `DailyHoldsAlways` needs a daily limit of at least two (it is ten). A
  request that read the clock in the last second of a day may find its entry
  swept by a request for another target that read it in the first second of the
  next, and with it the count of one message, sent in the first second of that
  day (`SweptIsOver`). With a limit of one it may then be two; TLC finds this
  for two targets, and the run `CodeStoreThrottle`, with a limit of one, has one
  target, of which two requests at a time are excepted.

`AgentTurn_proofs`, for any ids, any budget of rounds and any number of turns:

- `TurnInvariance`, with `TypeCorrect`, `NothingRunsInTheLastRound` and
  `DoneIsSentOnce`: `TurnInv` says which variables are in use at which `pc`, and
  that a round with tools is not the last; `DoneInv` counts the "done" a turn
  under way is still owed, without which the count is off as soon as a turn
  starts.
- `RequestsArePairedAlways`: `RequestsArePaired`. Between two tool calls the
  history is *not* paired, so the invariant `PairInv` is about the history
  continued by results for the calls in `todo`: that one always is. A result
  that arrives takes the place of the first of them (`PairedSimilar`), at a
  request `todo` is empty, and inserting the context after the system prompt or
  appending the hint shifts whole groups (`PairedRequest`).
- `ResultsAreOfTheirCallsAlways`: `ResultsAreOfTheirCalls`. `OwnInv` says where
  the next result will go: the message being answered is the last one before the
  results and is of this turn and round (`Current`), and the dispatch awaited is
  of the first call in `todo`. It speaks of the history *and* of the handler's
  copy `base`, which a stop puts back in its place. That a result has one asker
  only is a lemma (`AskerIs`).

`Reminders_proofs`, for any reminders, connections and restarts, and any number
of removals at a time, dropped or not, which TLC does not reach (the run has one):

- `MapInvariance`: the inductive invariant `MapInv`, with `ListIsHonest`
  (`ListMatchesTimers`) and `RemovalIsSilent` (`RemovedIsSilent`). That what was
  removed is silent is not inductive alone: a removal is a promise from the
  moment it has been through the map of the timers (`HalfRemoved`), so
  `GoneIsSilent` speaks of all that are past that point and may still ring; it
  needs that a sleeping timer that was fully added has its handle in the map
  (`HandleIsKept`). And a timer is aborted only by a removal that has yet to
  drop the record, or has, or was dropped before it could (`AbortedIsRemoved`), so
  no listed reminder loses its timer to an earlier one, those `abandoned` aside.
- `HeardInvariance`, with `OnlyTheOvertakenAlways` (`OnlyTheOvertakenAreMissed`)
  and `TypeCorrect` (`TypeOK`): what was due to a connection is accounted for,
  once (`Accounted`). A broadcast to a full receiver is two changes of that
  account, the first in the queue is lost and the new one is appended; and a
  reminder that was due anywhere has its timer ended, so it is not broadcast
  again, which is what keeps a queue free of repetitions.

`CronScheduler_proofs`, for any jobs, slots of loops, channel size and numbers
of edits, triggers and restarts, and for one operation at a time:

- `CronInvariance`: the inductive invariant `CronInv`, with `TypeCorrect`,
  `OneLoopAlways` (`OneLoopPerJob`), `StoreMatchesMemoryAlways`
  (`StoreMatchesMemory`) and `RemovedStaysRemovedAlways`
  (`RemovedStaysRemoved`). The three properties speak of jobs at rest; the
  invariant says by `pc` how the copies of a job are related while an operation
  is half way through them (`InPhase`), unless an operation on it was dropped or
  failed half way since the last restart (`astray`): when it is at rest or only
  triggered, map, handle, loop and row agree (`Steady`, `StoreOk`); from the
  spawn on the one live loop is the new one (`Runs`), though map, handle and row
  are still the old ones; from a stop on none is live. Loops that were aborted
  may still save, but what they save is what the map of jobs has (`SaveRun`),
  which is why a removal is not undone. A schedule that is spent ends its loop
  for good, and that needs edits to be owned: no edit is in two jobs, and one
  not handed out yet is not spent (`EditInv`).
- Its hypothesis `Serial` (there is one caller) is that of the run, and the
  properties need it: no lock spans an operation, so of two
  updates of one job each may register its loop and drop the other's handle,
  and a removal that comes before an `add` has saved leaves the row there.
  Loops, executor and restarts are not restricted.

`Connectors_proofs`, for any connectors, configurations, tools and handlers and
any number of requests and dropped handlers:

- `ConnInvariance`: the inductive invariant `ConnInv`, with `TypeCorrect`,
  `ReconciledAlways` (`Reconciled`), `StaleOnlyIfOvertakenAlways`
  (`StaleOnlyIfOvertaken`) and `DisabledNeverRunsAlways` (`DisabledNeverRuns`).
  `Reconciled` says nothing until every change has been synced, so the invariant
  follows each connector through a sync: its registry entry is right, or a
  change of it is open, or the running sync is about it (`RegistryInv`); the
  running sync has read the row as it is, or a change is open (`SnapshotInv`);
  and what it has found so far is what that row's configuration offers, or a
  cache was overtaken (`FoundInv`). A stale cache is one that somebody is
  about to drop, or was overtaken (`StaleInv`), for which nobody may be
  `Behind`; and a call is marked as allowed in the step that enables its tool
  or finds it enabled (`CallInv`).

`DocIndex_proofs`, for any files, directories, versions and handlers and any
number of operations, dropped handlers and restarts:

- `DocInvariance`: the inductive invariant `DocInv`, with `TypeCorrect`
  (`TypeOK`: among others, that a vector index never has more than its room,
  which rests on the keys being no more than the slots), `IndexedIsExactAlways`
  (`IndexedIsExact`), `RemovedIsGoneAlways` (`RemovedIsGone`) and
  `StoresAgreeAlways` (`StoresAgree`). Handlers that meet on a file are
  `disturbed`, both of them (`Disturbance`); for one that is not, the invariant
  says how far it is: its document, what it has cleared, how many pieces it has
  stored (`Progress`), and which files of a directory are already empty, or were
  not listed because they were (`EmptyProgress`). Where the stores do not agree,
  somebody is on the way to see to it (`Agreement`): a chunk without a document
  is being cleared, one without an embedding is being stored or deleted, an
  embedding without its vector likewise. A handler's ids are of its own file or
  of no chunk (`OwnIds`), so what it deletes and stores leaves other files
  alone.

They assume what the modules' named assumptions say of the constants, and
`Serial`, `Timing`, `OneHandler`, `DistinctTexts` or `Undisturbed` where it is
said, nothing else. In `Connectors`, `DocIndex` and
`CronScheduler` the marks "no value" (`None`, `"none"`) are assumed not to be
one of the values, which model values and UUIDs are not.

Only model-checked: liveness (`TaskResolved`, `ClientIsAnswered`,
`ClientSeesEnd`, `TurnEnds`, `ListedRings`, `HandlersFinish`), which needs
fairness and `ENABLED` and is beyond the prover. The type invariants of
`Conversation`, `CronScheduler`, `Connectors` and `Reminders` are in no run: the
runs check what rests on them, and they are proved.

## What is not modelled

- Everything marked "not_modelled" in `PROJECT.json`, with the reason there.
- Pure I/O and assembly of text: logs, prompts, HTTP and SMTP clients, file
  operations, database schema. SQLite is taken to serialise statements.
- Security: password hashing, tokens and permissions.
- In the modelled parts: message contents beyond what identity needs; chance
  equality of random codes and ids; a runtime that starves a ready future
  (excluded by fairness, and only in the liveness runs); the connection table
  of `SessionManager`, which only counts.
- `CronScheduler` has no clock; one result row cannot be removed by itself.
- The schedule arithmetic: functions of text and of a calendar that the cron
  crate computes; there is no state to explore.
- Accounts: each operation is one statement, or a look-up and an insert that a
  unique index decides. The user name made for a Feishu identity is its first
  eight characters (user_store.rs:311), so two identities that share them
  collide on the index; that is arithmetic, and not a matter of order.
- The Docling manager, whose hazards are processes, ports and downloads.
- The request table of one MCP client: an entry is removed by its answer or by
  its own timeout under one mutex; `Connectors` has the timeout.

## Plan

Done: `TaskStream` and `EventFeed`, `Conversation`, `CodeStore`,
`CronScheduler`, `AgentTurn`, `Reminders`, `Connectors`, `DocIndex`, and the
proofs above.

Every safety invariant and action property that a passing run checks is stated
by a theorem. Left:

1. `Serial` in `CronScheduler_proofs`: which pairs of operations may overlap
   without harm, and the three theorems for those.
2. `Conversation_proofs`: `Undisturbed` taken apart, so that each part is assumed
   only by the steps of the proof that need it.
