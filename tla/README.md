# A formal model of llm_agent

TLA+ modules, TLC runs and TLAPS proofs about the program in `src/`: a Rust server
that answers questions about a plant's databases with a language model and tools,
and the browser client it serves. Every definition is a translation of the source;
`PROJECT.json` maps each one to its lines.

## 1. The system

```
browser tab ──POST /api/chat──▶ web.rs chat ──▶ agent.rs answer/run ──▶ llm.rs ──▶ provider
  (App.jsx, chat-store.js)        │  events          │    │
                                  ▼                  │    └──▶ execute_batch ─▶ tools/*, oracle.rs,
                               chat log              │             db.rs, search.rs, mcp/*
                                                     ▼
                                session.rs: SessionStore ─▶ Conversation(history, results)
 main.rs: housekeeping (sweep), embed_sync loop, MCP hub, shutdown      admin.rs: saved settings
```

| Part | State it keeps | Operations | What is hard | What must hold | Modules |
|---|---|---|---|---|---|
| Session store (`session.rs`, `agent.rs answer`) | map id → conversation, the run that claims it, last use | `open`, `finish`, `close`, `sweep`, the conversation's lock | a newer question supersedes a run that still waits for or holds the lock; expiry and the limit by count against claims; ends that skip the release; restarts | a claim belongs to the newest question, is never taken from a run nobody cancelled and never outlives its run; the model sees what the browser saw answered | `Sessions`, `Claims` |
| Conversation (`session.rs` history, `context.rs`) | bundles of messages, active or not, next id | `push`, `pop_back`, `prune`, `evict_down_to`, `restore` | several ways for a message to leave, each with exceptions | the context is whole, nothing in it is lost, the history is bounded, what a result offers to read is there | `History` |
| Answer loop (`agent.rs run`) | pieces of a cut answer, five retry counters, the text shown, the deadline | one iteration per request | a dozen outcomes of a request, in any order, with stops and the clock | the screen shows the answer and nothing else; a question ends | `AnswerLoop` |
| Tool batch (`agent.rs execute_batch`, `mcp/mod.rs` calls, `oracle.rs run`) | tasks, futures, the thread of the sources, the history it takes along | prepare, run, share repeats, stop, abandon at the limit | stops and timeouts against answers, sessions and statements; late threads | a call's effect is told truly, a query runs once, sessions go back clean, a batch ends and leaves nothing open | `Question`, `McpCalls`, `QueryRuns`, `ToolBatch` |
| What the model can read (`tools/`, `voc_tools.rs`, `search.rs`, `chunk.rs`) | chunks, pages, cursors | read, search, list, follow a cursor | results cut again beside others; files and documents edited between pages | following the cursors skips nothing | `Chunks`, `Reading`, `Searching`, `FileSearch` |
| Provider client (`llm.rs`, `llm/dns.rs`, `worker.rs`) | learnt refusals, names being looked up | stream a response, try again without what was refused, look a name up | text already shown, lines split anywhere, lookups that cannot be stopped | an answer is one attempt's | `Completion`, `Lines`, `Lookups` |
| Oracle driver (`oracle.rs`) | the client library, a pool per target | load once, take, replace and close a pool | a load that ends between look and wait; pools in use that are replaced | nobody waits for good; a pool is of the settings read, and let go | `Pools` |
| Embedding index (`embed_sync.rs`) | vectors in MariaDB | synchronise with edited rows | edits between reads and writes, two processes, a server that refuses rows | a vector belongs to the text whose hash it carries; every row gets one | `EmbedSync` |
| MCP hub (`mcp/`) | configured servers, connections, processes, catalogue | apply a configuration, connect, list, reconnect, shut down | replacement and shutdown during connects and calls; processes that come late; malformed messages | no server outlives the hub or its configuration, no request waits for good, a name goes on meaning its tool | `McpHub`, `Wire`, `Processes`, `Catalogue` |
| Administration (`admin.rs`, `config.rs`, `app.rs`) | rows of the management DB, settings and secrets in two files | read, save with a revision | two administrators, a save during an answer, a crash between the files | queries name databases there are; a secret goes where it was entered for | `Records`, `Settings` |
| HTTP server, chat log, shutdown (`web.rs`, `main.rs`) | open streams, pending log writes | chat, log, stop | a browser that leaves, a signal during answers | every answer shown is logged before exit, within the limits | `Server` |
| Browser (`App.jsx`, `chat-store.js`, `stream.js`) | conversations in local storage, the stream's reader | ask, stop, store, read lines | what it keeps of ids, split lines | – | `Sessions`, `Lines` |
| Launcher, installers, fixtures | – | – | – | – | none |

`PROJECT.json` lists the components with their status, and the hazards: the places
where a test would hardly reach, each at its line with the properties that watch it.

## 2. How the modules fit together

A module per component, with the state of the code as variables and an action per
handler or step; a module that composes others (`AnswerLoop` over `History`, `ToolBatch`
over `McpCalls` and `QueryRuns`, which share `Question`) EXTENDS them and takes their
actions with its own. `Claims` is an abstract specification that `Sessions` implements.
Modules named `MC…` give constants to TLC, and `…Proofs` hold theorems.

| Run | Modules checked | Question |
|---|---|---|
| `sessions_store`, `sessions_restart`, `sessions_in_progress` | `Sessions`, `Claims` | section 3 |
| `answer_retries`, `answer_context`, `answer_stopped` | `AnswerLoop`, `History` | section 4 |
| `tool_batch` | `ToolBatch`, `McpCalls`, `QueryRuns` | section 5 |
| `knowledge` | `Chunks`, `Reading`, `Searching`, `FileSearch` | section 6 |
| `embed_sync`, `embed_liveness` | `EmbedSync` | section 6 |
| `mcp_hub` | `McpHub` | section 7 |
| `service` | `Server`, `Records`, `Settings`, `Completion`, `Lines`, `Wire`, `Processes`, `Catalogue`, `Lookups`, `Pools` | section 8 |

The modules of `service` share no state in the code, nor do those of `knowledge`. Each
of these two runs is one check of all its modules: a behaviour is one part's, chosen in
its first state, and the other parts rest in one initial state. So the states of the
parts add up and do not multiply, and every property is still one of its module alone.

Types are stated per module (`…TypeOK`) for the reader, for the proofs, and where a
proof module exists they are theorems; the runs check what could really go wrong.

## 3. Sessions and Claims

`Sessions` models a browser's tabs, the store, the lock of each conversation and a
server that may restart. A run is one question; it goes through

`new → waiting (claimed, before the lock) → asking (inside the lock) → done → releasing → ended`.

| Action | Code |
|---|---|
| `Ask` | `ask` in App.jsx, then `SessionStore::open`: the sweep of expired entries (`Retained`), the room made (`MakesRoom`), the claim and the cancellation of the run that had it |
| `Enter`, `Refuse`, `GiveUp` | the `select!` on the lock in `answer`: `restore`, then the question joins; or it is refused because the MCP tools' definitions are too large; or the run was cancelled while waiting |
| `Answer`, `Fail` | what `run` leaves in the conversation (AnswerLoop has the detail) |
| `Unlock`, `Release` | the guard's drop and `Release::drop`: `finish`, or `close` for a request without an id |
| `SeeClosed` | the `tx.closed()` branch of `chat` |
| `Receive`, `Leave` | the end of the stream in the browser; stop, time limit or broken connection |
| `Sweep`, `Tick`, `Restart` | housekeeping, the clock, a new process with empty store |

A conversation object is named after the run whose `open` created it, so an id may
stand for different objects over time. The lock admits any waiting run next
(`Free`): Tokio's mutex is first come first served, but a run first polls it some
time after `open`, so every order occurs. Requests of one tab arrive in the order
they were sent; a stopped request that arrives after its successor is not modelled.

`ClaimsAreRuns` joins the two claim invariants (a run nobody cancelled keeps its
conversation, one that ended keeps none); `ContextIsWhatWasSaid` says that the model
sees every exchange the browser saw answered, each reply right after its question.

`Claims` is the abstract promise: an owner per conversation, a displaced run is told
to stop and never owns again, and ending takes nothing from a successor. `KeepsClaims`
says the store implements it under the mapping `owner = running`.

Runs:

| Run | Instance | Shows |
|---|---|---|
| `sessions_store` | 3 ids, one of them one-shot, 3 questions, room for 1 | `KeepsClaims` |
| `sessions_restart` | 1 id, 3 questions, one tick of the clock, one restart | `ClaimsAreRuns`, `ContextIsWhatWasSaid`, `EveryQuestionSettles` |
| `sessions_in_progress` | 2 ids, none of them one-shot | **violated**: see below |

Three questions are what it takes for one to be superseded while a third evicts or
supersedes again; room for one makes every new id evict; with three ids the entry
evicted and the one that supersedes differ. `Window = 3` stands for the browser's six
turns and is enough for a reply whose question fell out of the window (`sessions_store`,
which is about claims only, has `Window = 1`). The tabs are
symmetric in the run without liveness. Fairness: `WF(Serve(r))`, since Tokio polls
whatever can go on and a run ends within its limit, and `WF(Receive(r))`, since a
stream's last line arrives or the browser's own limit passes. Questions are bounded,
so the model stops: `CHECK_DEADLOCK FALSE`.

**Finding.** `RunInProgressKeepsItsConversation` states what the store's test and
comments say, that a run still in progress keeps its conversation. A run that was
superseded and has not yet returned is in progress and holds the lock; when the run
that superseded it ends first (it gave up waiting), `finish` empties `running`
(session.rs:512) and the entry counts as idle: a sweep or another question may drop
it, and the next question of that id starts a second object beside the first.

## 4. History and AnswerLoop

`History` has the operators of a conversation's messages; `AnswerLoop` is the loop of
`run` with one action per outcome of a request.

Abstractions: a text is its length; one unit of size serves bytes and tokens; how
many tokens a request is over and whether it fits after eviction are open; the clock
`left` is 2 before the final reserve, 1 inside it, 0 when the time is over; a response
makes at most one call; the conditions under which an answer may be sent back for a
search are a choice at the question. `complete` is always true and `mark_left` only
words a notice: both are left out. An archive is found by its id and by its call's,
merged in `continues`.

| Action | Code in `run` |
|---|---|
| `Ask` | the question's bundle and the loop's variables |
| `StopAtTop`, `TimeOver`, `Request` | the top: stop, no time, eviction and the request |
| `Write`, `EndOfStream` | the relay's deltas, with an opening held back until it is decided |
| `KeepStopped`, `SearchFirst`, `ReserveReached`, `AskAgain`, `Overflow`, `Unusable`, `Outage`, `RequestFails`, `RunTimeout` | the `Err` arm, in its order |
| `ServedCut`, `RefuseClaim`, `Whole`, `Cut`, `Blank`, `CutCalls`, `WithheldCalls`, `OversizedCalls`, `Calls` | the `Ok` arm |
| `CallsEnd` | `execute_batch` and its messages, kept after a stop too |
| `Stop`, `Tick`, `WaitOver` | cancellation, the clock, a wait between retries |

Runs:

| Run | Instance | Shows |
|---|---|---|
| `answer_retries` | 1 question of up to 1 word a response, 2 continuations, 1 batch of calls, every retry and the wait once | `ScreenIsTheAnswer`, `PiecesAreOneMessage`, `EveryQuestionEnds` |
| `answer_context` | 2 questions, or 1 after a restored exchange, 2 batches of calls, 1 continuation, history limit 1, up to 2 over | `ContextIsWhole`, `PruningIsSafe`, `WhatWasDoneStays`, `NothingInContextIsLost` |
| `answer_stopped` | 1 question of one word, 1 call, 1 continuation, 1 wait | `StoppedTextStays`, **violated**: see below |

The code's retry limits are 2 each; they are the parameters `Retries`, `Waits` and
`Continuations`, and one of each already interleaves every retry with every other. Two
continuations make a piece of pieces, and the screen's text then comes from up to three
responses; one word a response leaves it held, streamed or taken back (that an opening may
also be decided by a later word is in the action `Write`, past this bound). Two batches let the
second read what an eviction left of the first; a history of one unit prunes whatever may
go, and two over the mark evict more than one message. `answer_context` has no retries: of
these a message leaves the context only as it does when a request is made anew, which its
`AskAgain` does. Fairness is only on the clock, the loop's own steps, its timers and the tools'
end; nothing is asked of the provider, so `EveryQuestionEnds` covers one that never
answers. `PruningIsSafe` joins the history's bound with
`WhatIsOfferedIsReadable`, which is claimed when a request is out, which is when the
model can use what it was offered; between questions a failed answer's popped piece
can let it lapse.

**Finding.** `StoppedTextStays` is the comment at the cancelled arm (agent.rs:465-467):
"What a stopped answer has written stays in the conversation, as the browser keeps what it
showed for the next question." That arm runs only when the `select!` at agent.rs:427 takes
the cancellation. It is unbiased, and the relay is awaited after it (agent.rs:452), so the
browser may close while the response ends in its own way: asked again, cut calls, an outage.
What it showed is then taken back by an event that no longer reaches the browser
(agent.rs:362-363), and the top of the loop (269-271), or the wait (625-626), bails with
nothing pushed: the browser keeps a text that the conversation lacks. In the model the screen
keeps it too (`Retracted`, `ServedCut`). What does hold is `WhatWasDoneStays`, in two parts:
`StopKeepsAnswer`, that a stop seen while a response streams leaves all the browser shows in
the conversation, and one seen between two responses the pieces of the answer; and
`CallsAreRecorded`, that calls which began are in the conversation.

## 5. ToolBatch, McpCalls and QueryRuns

`execute_batch` runs the calls of one response: MCP calls as tasks, registered queries and
reads as futures, source calls one after another on a blocking thread that takes the
conversation's history with it. `Question` has what they share, the token that stops them.

| Action | Code |
|---|---|
| `BatchBegins` | `prepared_call` for each: repeats and bad calls refused, lines opened |
| `Located`, `LocateNone`, `LocateStopped`, `FinderReturns` | the search for the projects of source calls, on its own thread |
| `SourceCall`, `SourceEnds`, `SourceJoined`, `SourceAbandoned` | the thread of the source calls; joined, or abandoned `SOURCE_STOP_GRACE` after a stop (`GivesUp`), when the conversation goes on with the backup (`GivesBack`) |
| `McpStep` → `McpStart`, `McpCarry`, `McpSend`, `McpAnswer`, `McpStop`, `McpOverdue`, `McpUnsent`, `McpPanics` | `Offered::call`: the permit, the SDK's queue, the answer, and what is said when it does not come (`McpCut`) |
| `ServerRuns`, `ConnEnds`, `ConnMade` | external: the server runs a call, perhaps after it was given up; connections are lost and made |
| `QueryStep` → `RunStart`, `RunNotFound`, `RunFound`, `RunPrepared`, `TakeSession`, `Break`, `Joined` | `query_run` and `Oracle::run` as their future sees them, the break at a stop included |
| `QueryThreadStep` → `GetSession`, `NoSessionFree`, `CheckStopped`, `SetFormats`, `Work`, `Clean`, `Leave` | the blocking thread of a run: the session from the pool, what it leaves there, or drops |
| `Read` | a call that only reads |
| `BatchReturns` | one message for each call, the results fitted, what offers a rest kept in the history |
| `NextQuestion`, `StopCalls`, `Stopped` | a new question forgets what ran; the stop and its timer |

One run, `tool_batch`: four calls in up to two batches (a mixed batch of queries and a read; a
refused call, a source and a repeat; two MCP calls; then one more query or source, so that
a repeat in the same and in the next batch, and an abandoned thread that comes back during the
next batch, occur), one pooled session for two runs, one permit for two MCP calls and one
connection that ends and is made again.

| Property | Says |
|---|---|
| `EffectIsSaid` | a call the server ran, or will yet run, never tells the model that it had no effect |
| `PooledSessionsAreFree` | a pooled session has no transaction, no open cursor and nobody who would still break its statement |
| `BatchLeavesNothingOpen` | every line opened on the screen is closed, and what a result offers to read is in the history, threads that took it away, died or came back late notwithstanding |
| `QueriesRunOnce` | a query whose rows are kept is not run again, and the same run is never made twice at once |
| `BatchEnds` | each batch ends, whatever a file system does |

Fairness is weak and only on what the runtime drives: tasks and futures it polls, the
stop's timer, the time limit each session call has. Nothing is asked of source threads, finders
or MCP servers: `BatchEnds` holds because a stop comes in the end (the answer loop's
clock) and the wait for a thread after it is bounded.

## 6. Chunks, what is read, and EmbedSync

`embed_sync.rs` runs in every process on one management database, from time to time
and after a change; it first splits documents into chunks (`rebuild_chunks`), then
embeds the rows of every searched table whose vector is not of their content. What the
model then reads goes through pages that are cut and followed.

In `Chunks` and `EmbedSync` a content stands for its MD5 hash as well; a row read is a
record of the content and of the hash under which it will be stored, so that the two can
differ. Rows and documents are never given a used key again (AUTO_INCREMENT).

| Action of `Chunks` | Code |
|---|---|
| `ListDocs`, `ReadHave` | the two statements of `rebuild_chunks` that find what to split |
| `ReadDoc` | a document's text and hash, in one statement |
| `WritePart`, `Commit`, `NoDocument` | the transaction: the chunks inserted one by one, those past the last deleted |
| `Stop` | a rollback for a stop or an error; a document that fails is skipped |
| `Edit` | external: an administrator; the foreign key deletes the chunks |

`Reading`: a knowledge document by chunks, a file by lines, an archive of a result by
characters, rows of a query. `ReadChunks`, `ReadLines`, `PastLastLine`, `ReadOnInFile`,
`ReadArchive`, `ReadRows` make a page; `CutChunks`, `CutPage`, `CutAway` cut it again
beside the other results of its response; `Deliver` gives it to the model, which follows
what it says (`follow`); `TextChanges`, `Dropped`, `StartOver` are edits and refusals.

`Searching`: `SearchTarget` makes a page of vector results merged with an exact name and
title matches, `VectorFails`, `CutItem`, `DeliverListing`. `FileSearch`: `CallTool` or
`CallWithCursorAlone`, `Walk`, then for each file `PassOver`, `ListFile` or `OpenFile`, for
each block of an opened one `NextBlock`, `TestLine` for each line it tests and `BlockEnds`,
`NextFile`, then `GivePage`; `OtherList` and `CallFails`, while `ChangeFile` edits under it.

| Action of `EmbedSync` | Code |
|---|---|
| `Start`, `Finish`, `Fail` | `run`: GET_LOCK, RELEASE_LOCK, an error or the end of the process |
| `LoseLock` | the connection that holds the lock dies, which the sync does not notice |
| `ListRows`, `ReadStored`, `DeleteOrphans` | the first half of `sync`, a table at a time: stale rows, held rows, vectors of deleted rows |
| `ReadBatch`, `BatchTaken`, `BatchRefused`, `ProbeRefused` | a batch, which first of all may be the row held back the longest, alone |
| `RowTaken`, `RowRefused`, `BatchDone` | the rows of a refused batch one by one |
| `Unanswered`, `Unwritable`, `TableDone` | what ends a table |
| `Store` | `store`: all vectors of the batch, or each alone after a failure |
| `Edit`, `ServerChanges` | external: administrators, the embedding server |

`refused` has the rows held back in the order of refusal; `lost` is a history variable.

Runs:

| Run | Instance | Shows |
|---|---|---|
| `knowledge` | 2 processes, 2 documents, a content of one chunk and one of two, 2 edits, 1 stop; texts of 4 units; lists of 3 near results, 2 candidates, 2 title matches, pages of 3; 2 files in blocks of 2 lines, 1 change, lists of 2 paths in pages of 1 | `ChunksAreOneContent`, `EveryDocumentIsSplit`, `NothingIsSkipped`, `NoResultIsPassed`, `SearchesAreWhole` |
| `embed_sync` | 2 processes, 1 row, 2 edits, 1 fault | `VectorsAreOfTheirHash`, `OneSyncAtATime` |
| `embed_liveness` | 1 process, 3 rows in 2 tables, batches of 2, the server down at its first failed row, 1 edit, 1 fault | `EveryRowSettles` |

Two processes are enough for a sync to overtake another whose lock is lost. Three
rows with batches of two give a batch with a bad row beside a good one and a row
left for the next batch. `Down = 1` (4 in the code) lets a single bad row make the
server count as down, the hard case for the other rows: the held row is tried last
to be refused first, so that each gets its turn. Four units of text give a page, one cut
again and a third; three near results against two candidates a list that is cut short;
two files whose blocks have a match, a near miss or neither, in either order, every way
a block's match may mislead. Fairness: the periodic job begins a sync after each wait, and
statements and requests have time limits; in `knowledge` only the splitting processes have it.

Abstractions: the embedding URL is fixed and set; a process that stops is a `Fail` or
a `Stop`; a statement is one step. In `Reading` and `FileSearch` which start of a page
fits is chosen freely; in `FileSearch` the content of a line is whether it matches, nearly
matches or does not. Not modelled: `rebuild_index` and the counts it reports, and the HTTP
client `embedding.rs`. `search.rs` passes over vectors whose hash is not the row's, so
that a stale vector finds nothing.

## 7. McpHub

`mcp/mod.rs` keeps a slot per configured tool server, with a supervisor task that
connects it, and runs connection checks as tasks with slots of their own. A task goes

`connecting → listing → serving → closing → connecting | waiting | ended`,

or from `connecting` by `attempt` (the process of an attempt given up is ended); `then`
says what follows a close or an attempt.

| Action | Code |
|---|---|
| `Apply`, `Remove` | a save of one server: `apply` with `retire`, under the lock of the slots |
| `Restart`, `Probe`, `GiveUp` | a request for reconnection (the permit of a `Notify`); a check; its request dropped |
| `StartProcess`, `Connected`, `ConnectFails`, `StopConnecting`, `AskedConnecting`, `EndAttempt` | the first `select!` of `supervise`, `connect`, `end_attempt` |
| `Listed`, `ListFails`, `StopServing`, `AskedServing`, `Lost`, `Close` | `serve`, what its `Ended` leads to, `close` |
| `WaitOver`, `AskedWaiting`, `StopWaiting` | the second `select!` |
| `CallLate`, `PingEnds`, `Ring` | `check_alive`, and what else rings `link.broken` |
| `CloseHub`, `CancelChecks`, `TakeRetired`, `StopSlot`, `Down` | `shutdown`, a statement each |
| `ProcessFails` | external: a server's process |

One run, `mcp_hub`: a name, two slots (a server and the one that replaces it, or a
check), one request and one failing process, checks
`NothingOutlivesShutdown`, `NoRequestLost`, `OneProcess`, `HealthyConnectionsStay` and
`EveryServerSettles`, which includes that a silent server is left. Two slots are
enough for a retired task to close beside a current one during a shutdown, and one
failure for a ping of a lost connection to end on the next; three slots were also
checked for the invariants (8.1 million states). Fairness: Tokio polls the tasks, each
of whose waits has a limit, and pings end; nothing is asked of servers and people.

Abstractions: a `select!` takes any branch that is ready; the wait's length, the
settings that apply in place, a reading of a changed tool list (which ends as serving
does, or asks whether the server is alive) and HTTP servers (no process, the same
supervisor) are left out. A process is `mute` when it reads and answers nothing, for
good. The permit of a `Notify` that wakes a branch not taken stays, as Tokio has it.
Not modelled: a supervisor that panics, so that none is started again (`apply` and
`restart` would); and the limit of `shutdown` (`CLOSE_SECS` and a second), which the close of a
connection keeps. A start left on its blocking thread is in `Processes`, a call in
`McpCalls`.

## 8. The modules of the run `service`

| Module | Actions | Code | Property, and what it says |
|---|---|---|---|
| `Server` | `Bind`, `Ask`, `AskRejected`, `Leave`, `RunEnds`, `Tell`, `Close`, `WriteRow`, `Signal`, `Drained`, `DrainOver`, `LookAtRows`, `HubCloses`, `JoinJobs`, `Exit` | `web.rs` chat, finish, record_chat_log; `main.rs` serve; `db.rs` Db::close | `AnsweredIsLogged`: a told answer's row is written, refused or skipped before the exit unless a limit passed. `ServerWindsDown`: a signal ends in the close of the pools, the last step before the exit |
| `Records` | `Submit`, `Lock`, `LockNotHad`, `CheckRecord`, `WriteRecord`, `Commit`, `Rollback`, `Release`, `Drop`, `SessionEnds` | `admin.rs` save_record, remove; `db.rs` Conn | `TargetsAreRegistered`: every target of a query is a database, though they are saved by different screens |
| `Settings` | `Open`, `Put`, `CreateServer`, `PutServer`, `SaveProject`, `Refused`, `PersistFirst`, `PersistSettings`, `SettingsNotReplaced`, `CannotWrite`, `Publish`, `CheckConnection`, `Restart` | `admin.rs` drafts, `config.rs` save, `app.rs` | `SecretsStayHome`: a secret goes only to the address it was entered for |
| `Completion` | `Compose`, `RequestRefused`, `Streams`, `Text`, `Call`, `Reasons`, `Finish`, `StreamFails`, `Spoiled`, `Succeeds`, `WaitOver`, `Cancel`, `Forget`, `NextRequest` | `llm.rs` complete, attempt | `ShownIsTheAnswer`: the screen never has pieces of two attempts |
| `Lines` | `FeedProvider`, `ProviderChunkEnds`, `ProviderEnds`, `FeedPage`, `PageChunkEnds`, `PageEnds`, `FeedOutput`, `OutputChunkEnds`, `OutputEnds`, `FeedEvents`, `EventsChunkEnds`, `EventsEnd` | `llm.rs` SseDecoder, `stream.js`, `mcp/mod.rs` LineLimit, `mcp/wire.rs` bounded_events | `LinesAreWhole`: what is read byte by byte, with what each chunk's end does, is what the bytes say as a whole, for every cut |
| `Wire` | `Request`, `ReadMessage`, `JsonBody`, `EventStream`, `Event`, `EventTooLong`, `StreamEnds`, `PostFails`, `Accepted`, `SessionExpired`, `AnsweredWithError`, `Initialized`, `GivesUp` | `mcp/wire.rs` | `AnswersFindTheirRequest`: a badly written answer still ends its request, and no other |
| `Processes` | `BeginStart`, `ThreadBegins`, `Sticks`, `Spawns`, `WatchChild`, `SendStarted`, `TakeStarted`, `AttemptGivenUp`, `TakeAbandoned`, `EndProcess`, `GroupKilled`, `ConnectionMade`, `ConnectionEnds`, `SupervisorPanics`, `GuardianDies`, `BackendEnds`, `GuardianEndsThem`, `ProcessForks`, `ProcessExits` | `mcp/mod.rs` Started, end_attempt; `mcp/guardian.rs` | `NoProcessIsLost`: a live process always has someone who will end it |
| `Catalogue` | `ServeOther`, `BeginList`, `ReadPage`, `ListEnds`, `ListFails`, `Disconnect`, `TakeSnapshot`, `RefuseTools`, `QuestionEnds`, `ForgetRefusals` | `mcp/mod.rs` set_tools, `mcp/schema.rs` exposed_names | `ListedAgainStays`: a tool listed again keeps its name and what was refused of it |
| `Lookups` | `AskForName`, `JoinOrBegin`, `JoinedAnswer`, `JoinedNothing`, `NoWorker`, `BeginLookup`, `AskRefused`, `GiveUpAsk`, `DropVoice`, `LookupReturns`, `TellAnswer`, `ThreadEnds`, `LookupPanics` | `llm/dns.rs`, `worker.rs` | `LookupsAreShared`: one lookup of a name at a time, and who joined one waits for somebody who is still to speak |
| `Pools` | `SaveTarget`, `ReadTarget`, `Listen`, `ReadClient`, `BeginLoad`, `AwaitLoad`, `Load`, `LoadingOff`, `TellListeners`, `Told`, `StopRun`, `TakePool`, `PoolNotMade`, `LetPoolGo`, `CloseIdle`, `ClosePool` | `oracle.rs` load_by, pool, close_idle, close_later | `RunsComeToAPool`: nobody waits for a load that will not tell it; a run's pool is open and of the settings it read; one nobody holds is closed |

Bounds, and why they are enough. `Server`: two questions, one pending row and one look at
the rows let a row be skipped and the wait for rows run out. `Records`: two screens, one
database that may be renamed, one query. `Settings`: one screen whose editor may be as old
as it likes (every save of another is an older editor's), two addresses. `Completion`:
one caller with one retry and one piece of text an attempt; what requests share is the
cache of refusals, which `Forget` empties. `Lines`: streams of 5 bytes with a limit of 3,
every string over the bytes that matter (an end of line in one or two bytes, a character
of two bytes, others). `Wire`: one request beside an id nothing
waits for (section 9 proves its property for any). `Processes`: two
attempts, one guardian's death. `Catalogue`: two tools whose names clean alike, two
versions, two listings, two endpoints; a version is the definition as it is sent, with the
other tools' names put in its description (`RemoteTool::same` after `Renamer`), so that a change
made only by those names is a change. `Lookups`: three asks for two names with two threads,
so that one joins, one gives up and one begins anew, and an ask finds no worker. `Pools`: two runs,
two settings; a run takes a pool once, so two pools are all there can be.

Fairness is asked only for `Limits` and `HubCloses`, the shutdown's own time limits; browsers,
runs, the databases and the jobs may do nothing for ever. None is asked for `Exit`: `Db::close`
(db.rs:284) waits for every pool to disconnect with no limit, unlike the close of one connection,
so a database that stops answering may hold the process there until the stop script kills it.

## 9. Proofs

All theorems hold for every value of the constants their module's assumption allows.

* `SessionsProofs`: with `IInv == StoreTypeOK /\ Opened /\ NoClaimLeft /\ ClaimOwned`
  inductive (`Opened` ties a claiming run to an opened id and an ended run to no claim),
  the type, the claim invariants (`ClaimsMatchRuns` states `ClaimsAreRuns`), and the
  refinement of `Claims`: a step of the store is a step of `Claims` or a stutter under
  the mapping. `ClaimOwned` alone is not inductive: a release must be known to come from
  a run that opened that very id. `ContextIsWhatWasSaid` (`ContextIsTrue`) from `TalkInv`, of
  which the hard parts are `HoldsWhatIsShown` (each reply its tab shows is in the conversation,
  or of a run still being answered in it, or of one that never will be) and
  `BringsWhatIsShown`: of the runs that wait for a conversation still empty, whichever comes
  first restores the same, since what they brought differs only by questions that got no answer.
  `restore` keeps the order of the turns (`RestorableTells`), shown by counting places
  (`PlacesAreInOrder`), as an induction over turns is out of reach.
* `HistoryProofs`: eviction keeps the context whole, whatever it must take
  (`EvictKeeps`), pruning drops nothing of the context (`PruneKeeps`) and reaches its limit
  unless nothing more may go (`PruneFits`), from facts
  about pushes and pops of a well-formed history (ids below `nextId`, unique, and in
  the order of questions).
* `AnswerLoopProofs`: with `IInv == LoopTypeOK /\ ReplyOK /\ TalkOK /\ ScreenOK`
  inductive, the type, `ContextIsWhole` and `ScreenIsTheAnswer`. `ReplyOK` ties what the
  relay passed on to what the model wrote, without which a stopped opening could be
  shown twice; `TalkOK` is a well-formed history in which the question asked stands
  and is protected, without which eviction could take it. `KeepInv` adds what stays:
  `PiecesAreOneMessage` from `PiecesOK` (the piece is the last message of all and in the
  context, so eviction, which spares the last, leaves it there for the answer to replace),
  `WhatWasDoneStays` from `TextOK` (while a response streams, stopped or not, the screen shows
  no more than is written, so that what the stop pushes is all of it) and `KeepsCalls` (a step
  that loses calls raises `prunedThrough`), and the action
  property `NothingInContextIsLost` from `LeavesInOrder` (eviction leaves nothing of the
  context before what it takes, but the question). Every step goes one of eleven ways
  (`HowItGoes`), each looked at once. A stronger form, that nothing in the context is lost at
  all, is false: a request may evict and prune a message in one step. `PruningIsSafe`
  from `ReadInv`: a bundle refers only to bundles before it (`RefersBack`, so the piece that
  leaves at the back is referred to by none), and the newest of the context stays through an
  eviction with what it found (`FindsThere`). That pruning reaches its limit (`PruneFits`) is
  the oldest droppable bundle that those before it made room for: they all went, and sizes
  count units of finite sets, so what is left fits.
* `KnowledgeProofs`: with `IInv == TypeOK /\ DocOK /\ ChunksAreOneContent` inductive, that
  a document's chunks are all of one content. `DocOK` says that a document with a
  written chunk cannot be gone, so a commit never writes chunks of a deleted one.
  `NothingIsSkipped` from `ReadingInv`: a continuation, the one told and that of the result
  under way, leaves nothing out (`GoesOnOK`), and the archive of a result says at its end
  what the result itself said (`InTheArchive`), however often it is cut. `LinesFollow`, that
  each line begins past the break that ends the one before, rests on counting the breaks
  (`RanksAreNumbers`), which finite sets let one prove without an induction.
  `NoResultIsPassed` from `SearchInv`: a page under way has its vector results where the list
  has them and before the place it goes on at (`ListingOK`), so the one that is cut off is
  past every other; and the titles shown first leave room for one (`TitlesLeaveRoom`), so a
  page that goes on goes on past its call. `SearchesAreWhole` from `FileInv`: while a file
  is searched every line before the place reached was tested or has no match (`PlaceOK`,
  `LinesOK`), the files listed are those of the lines found (`ListedOK`), and what was
  handed to the model is the start of the listing its cursor is known by (`GoesOK`). A
  cursor of files is known by their lines, so two calls may list the files twice over:
  `SameListing`, that two increasing listings of the same files are one, makes the second
  page go on from the first.
* `EmbedSyncProofs`: `VectorsAreOfTheirHash`, since rows read and vectors waiting to be
  stored have the hash of their text (`ReadsAgree`), and `OneSyncAtATime`, since the
  one sync that runs while no connection died has the lock (`LInv`).
* `McpHubProofs`: `NothingOutlivesShutdown` and `OneProcess` from an `IInv` with `ProcOK`
  (what processes a task may have at each stage), the fact that every running task is
  `Kept` (its slot is in the hub, or its task is in a list `shutdown` reads) and `DownOK`
  (what each step of `shutdown` has emptied). A task could otherwise be dropped from
  the one list after it was taken. `NoRequestLost` is inductive beside the types. The action
  property `HealthyConnectionsStay` from `RingOK`: a connection found broken is of a slot
  whose own process fails, since what was heard of a connection goes before the next begins.
* `ToolBatchProofs`, from one invariant of the composed batch (`IInv`), the conjunction of:
  - `McpInv` (what a call's place says of whether its request was sent), for `EffectIsSaid`;
  - `RunInv`: `SlotOK` and `HeldOK` (which session a run has at each of its steps, and that
    no other has it), `DirtyOK` (a session that holds something of a run is one a run is
    cleaning), for `PooledSessionsAreFree`;
  - `BatchOK`, for `BatchLeavesNothingOpen`: `ThreadOK` (a thread that is done ran all its
    calls), `LinesOK` (why each open line still goes on, so that what is left when nothing runs
    is what the batch closes itself), `OffersOK` (while a thread has the history, both it and
    the copy hold what is offered, whichever of the two the batch goes on with), and
    `IdsOK`, `FreshOK`, `PhaseOK` for the identities of calls and the runs of a response;
  - `OnceOK` while a batch runs, for `QueriesRunOnce`: a query that runs is among those
    the response started, which are compared with the next call's.
* `ServiceProofs`, the parts around the answer, each with its own invariant:
  - `NoProcessIsLost` for any number of attempts and guardians that die. `ProcessesInv` adds
    `HandsOK` (which thread, attempt or kill holds each process), `PidOK` (a child let go of
    while its group lives is the one of `Slot::pid`, whose group is killed next) and `WatchOK`
    (what is watched, and what a living guardian knows, are the children held).
  - `AnsweredIsLogged` from `ServerInv`: the counter of pending rows is the number of rows
    being written or stuck (`PendingOK`), so that zero means none is; nobody is told
    anything once the connections have ended (`ClosedOK`).
  - `LookupsAreShared` from `AsksOK` (what an ask may have of a lookup at each point) and
    `FlightsOK` (a flight is listed under its own name until its thread knows).
  - `SecretsStayHome` from `SavingOK`: what is being stored has its secrets at home, and
    between the two files the secrets are the new ones.
  - `RunsComeToAPool` from `LoadOK` (a load under way has a thread that will end it) and
    `OwnersOK` (who holds a pool at each moment).
  - `TargetsAreRegistered` and `PasswordsStayHome` from `RecordsInv`: `AdminLockOK` (a save
    from its lock to its commit is the one the lock belongs to) and `ChecksOK` (what the
    save checked of either table is still so when it commits), which holds because
    `AdminLockOK` leaves no other save to write in between (`CommitIsAlone`).
  - `AnswersFindTheirRequest` from the lemma that a mended message is `Faithful` to the one
    sent, for every message, and `IdleOK` (what came before a request was not for it).
    The run has one request; the proof, for any, showed that what a POST's body failed on
    must not count as handed to the others: `mended_response` fails that one request.
  - `ListedAgainStays`, an action property, from `ListedOnce`: a tool is listed once, so what
    is known of it is its own.
  - `ShownIsTheAnswer` from `ScreenOK`: a request that may be sent again has shown nothing,
    which is what `silent` (`Started`) is for, and what is shown of one being read is what
    its attempt has read.
  - `LinesAreWhole` from `LinesInv`, one conjunct a reader: `ProviderOK` (besides the events
    out, the data lines since the last empty line and the line begun are kept), `PageOK` (the
    whole characters of the line begun are its part, whether or not one waits for its other
    half), `OutputOK`, and `EventsOK` (what is held follows the last line end passed on). What
    is to be read of a stream is stated over sets of places (`Each`), which grow at their end
    with each byte (`EachGrows`), so no induction over the bytes is needed; `LineText` and
    `CharEnds` of the bytes read do not change with those to come.

Only model-checked: liveness and anything with ENABLED (out of the prover's reach). Every
safety invariant and action property a passing run checks is a theorem.

## 10. Findings

Two have a run: `sessions_in_progress` (section 3) and `answer_stopped` (section 4). The models
also showed the following, each left as the code has it:

* `mcp/wire.rs put_right`: an answer without a version whose result is `null` is not mended, so
  its request waits out its time limit (`LeftUnread` in `Wire`).
* `config.rs`: a crash between the two files' replacements leaves the new secrets beside the old
  addresses for the next start (`behind` in `Settings`).
* `oracle.rs load_by`: after a load that panicked, a newcomer may begin a second load between the
  first's flag and its notification; that notification wakes it and it reports the client
  as missing while its own load goes on.
* `oracle.rs pool`: a run that read a target's row before a save may come to the pool after a run
  that read it later, and puts a pool with the old settings in place of the new one.
* `voc_tools.rs`: `fit_chunks` can give a cursor that `check_skip` then refuses; a cursor by chunk
  number, followed after an edit of its document, may skip text.
* `mcp/mod.rs`: a process is not watched between its spawn and `watched`, nor between the end of
  the process and the kill of its group; a backend that dies just there leaves it.
* `mcp/schema.rs exposed_names`: a new slot has no previous names and a tool that is gone frees
  its name, so a name of the conversation may come to mean another tool (`ListedAgainStays`
  speaks of tools listed again).
* `agent.rs` says of an MCP task that panicked only that it stopped, not that it may have had
  an effect (`panicked` in `EffectIsSaid`); an abandoned source thread may still report a
  tool's end to the screen after the answer is done.
* `llm.rs`: a generation refused in a request that withheld its tools teaches the client that
  `tool_choice: "none"` is unsupported.

## 11. Not modelled

* A request that arrives after its successor (`web.rs`, section 3), and a supervisor started
  again after a panic (`mcp/mod.rs apply`, `restart`): each multiplies the states of its
  module past what a run can visit.
* The storage of conversations in the browser (`chat-store.js`) and its rendering: sequential.
* `rebuild_index`: it changes what a search costs, not what it finds.
* The launcher: it starts the server, waits for its port and ends it through its input, which is
  the signal of `Server`. Installers and fixtures.
* Layout of prompts and results, argument checks (`arguments.rs`, `execution.rs`), suggestions and
  recovery hints, schema and result conversions, driver conversions, the mock database:
  sequential code whose outcome the models take as a choice.
