# my-qq-bot in TLA+

This directory specifies the bot of `src/src/bot/package` (a QQ group/private
chat bot: Satori WebSocket in, LangGraph agent in the middle, Satori HTTP out)
in TLA+, checks the specifications with TLC on small instances, and proves the
central ones with TLAPS for every value of their constants.

Paths below are relative to `src/src/bot/package` unless they start with `src/`.

## 1. The system

One asyncio process. A single receive loop reads platform events and awaits the
handler of each before it reads the next. A handler normalises a message and
enqueues it. A pool of worker tasks takes messages from one shared queue,
routes them, and hands them to the dispatcher: a command is executed, any other
burst of messages becomes one *turn*: an invocation of a LangGraph graph whose
state (the conversation) is checkpointed in SQLite per `thread_id`. A finished
turn is published on an event bus, from where it is projected into a vector
index by a background task. A second process (FastAPI) serves a console that
tails the log file over WebSockets and edits the `.env` configuration.

| Component | State it keeps | Operations | Interacts with |
|---|---|---|---|
| Message worker pool (`pipeline/worker.py`, `utils/queue.py`) | shared queue, dedup window, per-thread locks and their last use, one deferred slot per worker, auto-reply cooldown table | enqueue, worker loop, batch collection, segment dispatch, lock cleanup, stop | awaited by the receive loop; awaits the dispatcher; told of auto-replies by it |
| Router and reply policy (`pipeline/router.py`, `conversation/policy.py`) | none (reads global config, cooldown) | classify a message: command, respond, record, ignore | called by the workers |
| Dispatcher (`pipeline/dispatcher.py`) | none of its own | command execution, record-only append, reply turn, publish, send | graph, repository, event bus, Satori HTTP |
| Agent graph (`orchestration/graph.py`, `nodes/`) | checkpointed conversation: messages, summary, active skills, tool rounds, reply text | describe_image, call_llm, tools, skill_manager, compaction | LLM, tools, checkpointer |
| Conversation repository (`orchestration/conversation_repository.py`, `compaction.py`, `summarize.py`) | through the checkpoint | append a record, clear, compact | dispatcher, commands |
| Event bus and turn projection (`utils/event_bus.py`, `knowledge/turn_index_projection.py`) | handler lists | publish, on_turn_completed | dispatcher, index worker |
| Index worker (`knowledge/index_worker.py`) | bounded queue, stop flag, task | enqueue, run, stop | projection, RAG service |
| RAG service (`knowledge/service.py`, `rrf.py`, `cache.py`, `embedder.py`, `milvus.py`) | collections in Milvus, embedding cache | index a turn, hybrid search, prune | index worker, tools |
| Documents (`knowledge/document_store.py`, `document_ingestion.py`, `mineru_client.py`) | document collection | import files, parse PDFs (two remote MinerU services, local), split, store, delete | scripts, tools, files on disk |
| Satori client (`platform/satori`) | socket, sequence number, login, handlers | connect, receive loop, reconnect with backoff, dispatch, HTTP calls | adapter, pipeline |
| Content and ingress (`platform/satori/content_parser.py`, `ingress.py`, `conversation/content.py`) | none | parse attachments, mentions, kind, clean text, text for the LLM | adapter, router, image node |
| Images (`orchestration/nodes/action_node/describe_image.py`, `vision/service.py`) | none | fetch or describe the images of a turn in parallel, put them back into the text | vision LLM, HTTP |
| Lifecycle (`core/app.py`, `core/boot.py`, `src/main.py`, the factories, `tools/factory.py`) | which parts were built, which tools are offered | create_app, start, run, stop in a fixed order | everything |
| Commands (`commands/`) | mutate global config, checkpoint | /clear, /compact, /context, /auto_reply, ... | workers via dispatcher |
| Log hub (`api/loghub.py`, `api/logs.py`, `utils/logging.py`) | file position, subscribers and their queues | subscribe, tail, broadcast | browser WebSockets, the bot's log file |
| Settings store (`api/settings_store.py`, `api/router.py`) | the `.env` file | read, merge, validate, write; GET and PUT from a thread pool | settings pages, other clients |
| Settings page (`src/web/src/stores/settings.ts`) | fields as shown, draft | load, edit, undo, clear a field, save what differs | settings store |
| Log page (`src/web/src/stores/logs.ts`) | the socket, a retry timer | open, show lines, connect again after 2 s | log hub |
| Memory store (`memory/__init__.py`) | lazily opened store | open, read/write user memory, close | tools, commands |
| Tools (`tools/`), MCP (`mcp/`), skills (`skill/`) | per call | shell, files, search, remote tools | agent graph |
| Other parts of the web front end (`src/web`), scripts (`src/scripts`, `src/*.sh`), skills content | - | - | API, processes |

### What is hard in it, and what makes each part correct

* **Worker pool.** Workers share one queue but each has a private slot for the
  message that ended its batch; per-conversation locks are created on demand
  and deleted by age while workers may be queued on them; the queue may be full
  when `stop()` needs room in it for its sentinels. Correct means: one
  conversation is never processed twice at once, messages of a conversation are
  processed in order, each exactly once, a command takes effect for what
  follows it and nothing else, a redelivered event is dropped and a first
  delivery never, a full queue delays the platform only for a while, `stop()`
  returns and leaves nothing behind.
* **Turn.** A turn is a chain of awaits with checkpoints written behind its
  back; it may fail or the process may die between any two of them, and the
  next turn starts from whatever was written. Correct means: the conversation
  stays in order and well formed (every tool call has its results, compaction
  cuts at a message of a user), nothing is forgotten but by `/clear`, a reply
  the user has seen is one the bot remembers, every turn ends with an answer.
* **Message.** A batch mixes messages that ask for a reply with others, media,
  commands and quotes; images are fetched in parallel and put back by position;
  the clock of automatic replies lives in a table that forgets idle threads.
  Correct means: who speaks to the bot has a turn with everything that was said,
  nobody else does unless the switch allows it, only an administrator sets the
  switch, automatic replies keep their distance, images stay in their places.
* **Process.** Parts fail to build and are done without, connections break with
  events on the wire, the main task is interrupted wherever it waits, and the
  parts are closed one after the other while work is still flowing through
  them. Correct means: no tool is offered without what it works with, no event
  is lost but with its connection, accepted messages are answered and indexed,
  nothing is used after it was closed, shutdown ends.
* **Knowledge.** Indexing and searching interleave; vectors come partly from a
  cache that forgets, partly from one call for the rest; insertion and pruning
  are two steps, the second of which may fail. Correct means: every row carries
  the vector of its own text, pruning takes the oldest rows only and a search
  never sees an unpruned conversation, an answer is sound, own rows come first.
* **Documents.** An import of many files is a chain of lookups, uploads, polls,
  downloads and inserts, each of which may fail, over files that change
  meanwhile. Correct means: a content is stored once and whole or not at all,
  the report is true, a remote parser never hides a text that is there, every
  import ends.
* **Settings.** Two requests, a page with an old draft and another client
  change one file by reading it, merging and writing it anew. Correct means: the
  file always holds a configuration the bot can start with, a secret is never
  replaced by its mask nor lost by the save of another field nor told by more
  answers than the code means to, saves that do not race compose.
* **Log hub.** Two processes share a file that one of them truncates at every
  start; a line may be read half; a slow browser has a bounded queue; its
  connection breaks. Correct means: lines come once and in order, the oldest
  are dropped first, and every line that can be shown is shown.

## 2. Modules

| Module | Models | Kind |
|---|---|---|
| `WorkerPool` | `pipeline/worker.py`, `utils/queue.py`, first step of `core/app.py` stop | state machine |
| `ThreadFifo` | what the pipeline promises one conversation | abstract specification |
| `PoolRefinement` | `WorkerPool` as an implementation of `ThreadFifo` | refinement mapping |
| `WorkerPoolProofs`, `TurnProofs`, `MessageProofs`, `BotProcessProofs`, `KnowledgeProofs`, `DocumentsProofs`, `SettingsProofs`, `LogHubProofs` | theorems about the modules named | TLAPS |
| `Turn` | `pipeline/dispatcher.py`, `orchestration/`, checkpoints | state machine |
| `Content` | `platform/satori/content_parser.py`, `conversation/content.py`, the text functions of `describe_image.py` | pure operators |
| `Message` | `pipeline/router.py`, `conversation/policy.py`, `commands/`, batches of `pipeline/worker.py`, `vision/service.py` | state machine over `Content` |
| `BotProcess` | `core/boot.py`, `core/app.py`, the factories, `tools/factory.py`, `platform/satori/websocket.py`, `adapter.py`, `utils/event_bus.py`, `knowledge/turn_index_projection.py`, `knowledge/index_worker.py` | state machine composing the parts |
| `Knowledge` | `knowledge/service.py`, `embedder.py`, `cache.py`, `milvus.py`, `rrf.py` | state machine with pure operators for the fusion |
| `Documents` | `knowledge/document_ingestion.py`, `document_store.py`, `mineru_client.py` | state machine with the splitter as a recursive function |
| `Settings` | `api/settings_store.py`, `api/router.py`, `src/web/src/stores/settings.ts` | state machine of server and pages |
| `LogHub` | `api/loghub.py`, `api/logs.py`, the console handler of `utils/logging.py`, `src/web/src/stores/logs.ts` | state machine |
| `MC...` | one per checked module | instances for TLC |

An operator whose comment begins with "Mutant:" is a plausible bug of the
definition behind it. It is not part of any specification; replacing the
definition by it must make TLC report the property named in `PROJECT.json`.

How the modules fit: `BotProcess` takes the pipeline as a queue served in
bursts, `WorkerPool` is what happens to that queue, `Message` what happens
inside one batch of a worker, `Turn` what happens inside one turn, `Knowledge`
what happens to a published one. `Settings`, `Documents` and `LogHub` are run by
other processes or threads and share only files and the collection with these.

### WorkerPool

Every action is the code between two suspension points of asyncio, so it is
atomic in the program.

| Code | Model |
|---|---|
| `_EventDeduplicator` | `window`, `Duplicate`, `Remember` |
| `enqueue`, `InMemoryMessageQueue.put` | `Enqueue`, `PutResumes`; `putting` is the suspended `put()` |
| `_worker`: take an item, acquire the lock | `TakeDeferred`, `TakeFromQueue` (both `Consume`), `Wake` |
| `asyncio.Lock` with its waiters | `lockOf`, `waiters`, `LockFree`, `FirstInLine`; a lock object is a thread and a generation, so that a deleted lock and its successor are two objects |
| `_collect_batch` | `Collects`, `Blocked` inside `StartBatch` |
| `_process_batch`, `_run_segment` | `StartSegment`, `EndSegment`, `NextSegment`, `FinishBatch`; `routedAt` records what configuration a message was routed with |
| `_maybe_cleanup` | `Idle`, `Cleanup`, `Age` (the clock, reduced to "longer ago than `idle_ttl`") |
| `stop` | `Stop`, `PutSentinel`, `StopReturns` |

A message whose routing raises (`Unroutable`) is dealt with like the code does:
skipped alone. Whether the dispatcher returns or raises makes no difference to
the pool (`_run_segment` logs and goes on), so `EndSegment` covers both.

### Turn

One conversation; the bursts arrive one at a time because the pool serializes
them. `Conv` is the state the graph run works on, `disk` the newest checkpoint
written, `unsaved` those on their way (`AsyncSqliteSaver` in the graph's default
asynchronous durability). `Node` is one node of the graph; `DescribeImage`,
`CallLLM`, `RunTools`, `ManageSkills` are its instances. The LLM is
nondeterministic over `CallLists`. `Summarize` is compaction with every legal
cut, which abstracts the token estimate. A burst nobody answers is recorded by
`Record`, one message per step. `Crash` is the end of the process at any point
(`SIGTERM` of the stop script is not handled).

### Content and Message

A content is a sequence of tokens: words, images, files, mentions, quotes,
comments, and the placeholder `[图片]` (`"[img]"`), which a user may also type.
The parsing functions of `content_parser.py` are operators over such sequences;
nothing is matched character by character.

| Code | Model |
|---|---|
| `is_explicit_request`, `decide_reply`, `should_keep_in_context` | `IsExplicitRequest`, `DecideReply`, `KeepInContext` |
| `ConversationRouter.route`, `_auto_reply_allowed` | `Route`, `Action`, `ShouldAllowAutoReply` |
| `can_run`, `run_command`, `/auto_reply` | `CanRun`, `Command`, `Sets` |
| `_process_batch`, `_run_segment`, `dispatch_batch` | `Take`, `Route`, `Segment` (the look whether to compact may fail and end it), `Done`; one batch of a thread at a time, as `WorkerPool` shows |
| `_describe_all_local`, `_describe_all_multimodal`, `VisionService` | `Describe` (one image, fetched or failed, in any order), `Fetched`, `Text` |
| `replace_placeholders`, `build_multimodal_content` | the operators of those names in `Content` |
| `mark_reply_sent`, `_maybe_cleanup` of the cooldown table | `Reply`, `Done`, `Tick` |

### BotProcess

`create_app` (`Assemble`, `LoadServer`, `CreateGraph`, `Abort`): which parts are
there follows from the settings and from what failed, which tools are offered
follows from the parts (`Backing`), the MCP servers and the two lists. Then the
main coroutine (`main`, `closing`), `SatoriClient.run` (`client`, `attempt`,
`ws`), the receive loop and its handler (`wire`, `hand`), the pipeline taken as a
queue served in bursts, and the index worker (`indexQueue`, `indexer`,
`indexStop`). `CloseOrder` is the order of `BotApplication.stop`.

### Knowledge

`index_turn` as lookup, embed, cache, insert, prune; `hybrid_search` as vector,
dense search, sparse search, the same again over all conversations if the own
one has too few candidates, fusion. Vectors are pairs of role and text, so a
mix-up is visible; closeness is part of the query. A sorted list, cut off, is
described by what it is (`FirstOf`), not by how it is sorted; the order is total
wherever it is used, so there is only one. The scores of RRF are
computed in units of 10^-9, enough to order the sums that candidate lists of
this length can produce. Times have the resolution of a second, as in the
database, and what happens within one second is left to choice.

### Documents

`Start` expands the arguments and opens the collection, `NextFile` hashes and
looks a file up. The two remote parsers follow the same protocol in two clients:
`RequestBatchUrls`, `UploadFile`, `PollBatchResult`, `DownloadMarkdown`,
`ParsePdfFails` are the precise one, `RequestAgentFileUrl`, `UploadFile`,
`PollAgentResult`, `DownloadAgentText`, `ParsePdfAgentFails` the light one, which
needs no key and takes over when the first gives nothing (`TryAgent`); what each
makes of a content is its own (`RemoteText`). `LoadLocal`, `Insert` and `AddFails`
are the rest.
`SimpleSplit` is the built-in splitter, a piece being an interval of the text.
`Edit` changes a file, `DeleteDoc` is the delete script, `Reconfigure` changes
the settings between two runs, `Crash` stops the importer anywhere.
`Insert` stores all pieces of a file: `add_texts` makes one insert call, which
Milvus carries out as a whole; its answer may be lost (`AddFails`).

### Settings

A slot is a thread of the server with the page it serves. `Request`,
`ReadAndMerge`, `Truncate`, `WriteText`, `Load` are the handler between two
accesses to the file: `Path.write_text` empties the file first. `page` is the
store of the front end with its fields as shown and its draft; `SetDraft`,
`ResetAll`, `LoadPage`, `Save`, `ClearField` are its operations, `OtherClient`
is any other sender of a PUT. Of 72 fields five are kept: two ratios that
constrain each other, two secrets of which one stands in for the other, and the
prefix of commands, the one text that must not be empty. `Valid` looks at texts as
`validate()` does, with the quotes of `_format_env_value`; what the bot reads is
without them (`Parse`). A refusal is an answer too: `Input` is what the error of
`update_settings` has of the secrets. Values are texts of one line without quotes,
backslashes or variables of their own; `"a #b"`, `" "` and `""` stand for those that
need quotes and lose them with the next save.
`given`, `told`, `intended`, `raced` and `mixed` are history variables.

### LogHub

`StartBot`, `Emit`, `EmitRest` write the file; a line longer than the buffer of
the stream is two writes. `Subscribe`, `Poll`, `Read`, `ReadRaises` are
`LogHub._read_new` with its size taken first and the files read later; `Send`
and `Unsubscribe` are `logs_ws`. `OpenPage`, `ClosePage` and `Break` are the page
and its connection; a page that is open connects again.

## 3. Runs

All runs are exhaustive for their instance. "Violation" runs document a
disagreement of the code with what the repository says of it (section 6).

| Run | Instance | Shows |
|---|---|---|
| `pool_single` | 1 worker, batches of 3, window 2, 5 messages in 2 conversations, 2 commands of which one cannot be routed, a redelivery | `TypeOK`, `GlobalOrder`, `CommandsInOrder`, `WindowExact`, and that the pool implements `ThreadFifo`, liveness included |
| `pool_live` | 3 workers, batches of 2, a queue of 1, 4 messages, one command, no lock in use for `idle_ttl` | `ThreadExclusive`, its inductive invariant `LockInv`, `Conservation`; every accepted message is processed, ingress resumes, `stop()` returns (`EventuallyServed`, `Progress`) |
| `pool_order` | 2 workers, batches of 4 | violation of `ThreadOrder` |
| `turn` | 3 messages, one tool round, step limits 4 and 6, loads and releases of a skill of which one raises, crashes everywhere, `/clear`, `/compact` | the context is well formed whenever the LLM is called, skills are applied in call order, order, durability of what was seen, memory, every turn ends, with an answer if the step limit is large enough |
| `message` | 3 messages of a group and a private thread, batches of 2, 2 images per message, cooldown 1, idle threads forgotten after 2, clock up to 4 | `AsAsked`, `Spaced`, `ImagesInPlace` |
| `process` | a start with stores that may fail and a tool server with a clashing and a denied tool; 4 events, queues of 2, connections that break, an interrupt at any time | `EventsAccounted`, `IndexDrained`, `UsedWhileOpen`, `StopEnds`, `AcceptedServed` |
| `process_stop` | 1 event | violation of `AllClosed` |
| `knowledge` | 2 conversations, 2 texts, 2 index tasks, 1 search, retention 2, cache of 2 | `VectorsTrue`, `CacheForgetsOldest`, `Retention`, `AnswerSound`, `OwnFirst` |
| `documents` | 3 paths, 2 contents, 2 imports, 2 polls, one change from outside, every combination of parsers | `StoredOnce`, `ReportTrue`, `ImportsEnd` |
| `settings` | 2 threads with a page each, 3 requests, 2 edits, another client | `AlwaysValid`, `SecretsKept`, `SavesCompose` |
| `settings_quotes` | the same with a value that needs quotes | violation of `SavesCompose` |
| `loghub` | 2 pages, 2 starts of the bot, 2 lines each of which one is long, queues of 1, one broken connection | `OrderOnce`, `Complete`, `DropsOldest`, `EventuallyShown` |

### Why the bounds are enough

* **Pool.** Overtaking needs two messages of one conversation and one that
  ends a batch; routing around a command needs one on each side of it; a replay
  inside and outside the window needs a window of two and four further events.
  Five messages in two conversations contain all of these. A holder, a waiter
  and a newcomer are the three roles a lock can tell apart: three workers. With
  a queue of one a `put()` suspends, a sentinel waits for room, and a worker's
  private slot holds what ended its batch, at the same time.
* **Turn.** One round suffices for a call that is answered and a call of the
  LLM without tools after it; the limits 4 and 6 are one that cuts a run and one
  that does not; three messages for a burst, something compacted before it and
  something after it.
* **Message.** Two messages form a burst, the third comes before, behind or in
  another thread. Two images out of three: one is too many. Quotes stand in front
  of, around and inside of each other. A clock of 4 is
  enough for a reply, the cooldown, the time until a thread is forgotten, and a
  second reply.
* **Process.** Four events: one served, one in a turn, one waiting, one lost.
  `Exponents = 3` stands for the 1024 attempts after which the backoff overflows.
* **Knowledge.** Two tasks of up to two rows exceed the retention and the cache;
  the query limit (16384 in the code) is above what is stored, as with the
  default retention.
* **Documents.** A duplicate needs two names for one content, a repetition needs
  a second import, a replaced file one change. Two polls: pending, then a
  result or the deadline. One of the contents has no text for the local loader.
* **Settings.** Two requests at a time are all a race needs; the third comes behind
  it. Two edits: a field set and another one, or the same changed back; two are also
  what it takes to want ratios that do not fit. A prefix is set to nothing, which
  `AlwaysValid` excepts by name: for every value that is not blank it is as strict
  as for the other fields.
* **LogHub.** Two starts for one truncation, a queue of one for a line dropped.

### Deadlock

TLC checks for deadlock in every run. Terminal states stutter explicitly
(`Terminated`, `Over`, `Rest`, `Finished`); `Turn` and `LogHub` have none: a user
can always send `/clear`, a page can always be opened or closed.

## 4. Fairness

Only the scheduling of asyncio and the time limits of calls are assumed.

* `WorkerPool`: weak fairness of each worker's step - the event loop runs every
  task that is ready, and each dispatch ends because LLM, HTTP and shell calls
  have timeouts - and of a suspended `put()` and of `stop()`. Nothing is assumed
  of arrivals, of time, or of who gets a message.
* `Turn`: weak fairness of the turn as a whole and of the checkpoint writer.
  The LLM may call tools for ever as far as fairness is concerned; the round and
  step limits end the turn.
* `BotProcess`: weak fairness of the program's own tasks. Nothing is assumed of
  the platform, not even that it ever accepts a connection, nor of the user.
* `Documents`: weak fairness of a running importer: each of its requests has a
  time limit. That the remote parser ever finishes a task is not assumed.
* `LogHub`: weak fairness of polling and of the bot finishing a line it has
  begun, strong fairness of sending to a browser and of a page's subscription:
  both are disabled while a poll is in progress, and the loop alternates between
  them; the page tries again every 2 seconds (`src/web/src/stores/logs.ts`).
* `ThreadFifo` promises weak fairness per conversation; the refinement run shows
  that the pool's fairness provides it for one worker.
* `Knowledge`, `Message` and `Settings` state no liveness property: what would
  have to happen there is a matter of `Turn` and `WorkerPool`, or of a user.

## 5. Proofs

Nothing bounds the constants in a proof: the theorems hold for any number of
workers, conversations, messages, events and requests, any queue and batch
bounds, and any settings that the named assumptions admit.

| Theorem | States | Assumptions |
|---|---|---|
| `WorkerPoolProofs!TypeCorrect` | `Spec => []TypeOK` | `PoolAssumption` |
| `WorkerPoolProofs!LocksSound` | `Spec => []LockInv` | `PoolAssumption` |
| `WorkerPoolProofs!MutualExclusion` | `~SlowBatches => (Spec => []ThreadExclusive)` | `PoolAssumption` |
| `WorkerPoolProofs!WindowAlwaysExact` | `Spec => WindowExact` | `PoolAssumption` |
| `WorkerPoolProofs!NothingLost` | `Spec => []Conservation` | `PoolAssumption` |
| `WorkerPoolProofs!CommandsAlwaysInOrder` | `Spec => []CommandsInOrder` | `PoolAssumption`; `~SlowBatches` or one worker |
| `WorkerPoolProofs!OneWorkerKeepsOrder` | `Spec => []GlobalOrder` | `PoolAssumption`; one worker |
| `WorkerPoolProofs!OneWorkerKeepsThreadOrder` | `Spec => []ThreadOrder` | `PoolAssumption`; one worker |
| `TurnProofs!ContextAlwaysWellFormed` | `Spec => []ContextWellFormed` | `TurnAssumption` |
| `TurnProofs!HistoryKeepsOrder` | `Spec => []HistoryOrdered` | `TurnAssumption` |
| `TurnProofs!SkillsAlwaysApplied` | `Spec => []SkillsApplied` | `TurnAssumption` |
| `TurnProofs!LimitNeverCuts` | `Spec => []EndsWithAnswer` | `TurnAssumption` |
| `TurnProofs!DiskRemembers` | `Spec => Remembers` | `TurnAssumption`; `~EmptySummary` |
| `TurnProofs!SeenStaysDurable` | `Spec => []SeenIsDurable` | `TurnAssumption`; `~EmptySummary` |
| `MessageProofs!RepliesSpaced` | `Spec => []Spaced` | `MessageAssumption` |
| `MessageProofs!AnsweredAsAsked` | `Spec => []AsAsked` | `MessageAssumption`, `ContentAssumption` |
| `MessageProofs!ImagesFoundInPlace` | `Spec => []ImagesInPlace` | the same |
| `BotProcessProofs!EventsNeverDoubled` | `Spec => []EventsAccounted` | `ProcessAssumption` |
| `BotProcessProofs!IndexNeverLoses` | `Spec => []IndexDrained` | `ProcessAssumption` |
| `BotProcessProofs!NothingUsedTooLate` | `Spec => []UsedWhileOpen` | `ProcessAssumption` |
| `KnowledgeProofs!OldestForgotten` | `Spec => CacheForgetsOldest` | `KnowledgeAssumption` |
| `KnowledgeProofs!VectorsAlwaysTrue` | `Spec => []VectorsTrue` | `KnowledgeAssumption` |
| `KnowledgeProofs!AnswersAlwaysSound` | `Spec => []AnswerSound` | `KnowledgeAssumption` |
| `KnowledgeProofs!RetentionKept` | `Spec /\ []Fits => Retention` | `KnowledgeAssumption`; `Fits`: a conversation has no more rows than one query returns |
| `KnowledgeProofs!OwnAlwaysFirst` | `Spec => []OwnFirst` | `KnowledgeAssumption`; `RanksCount`: 2 * `CandidateK` + 60 is at most 10^9 |
| `DocumentsProofs!SplitterLosesNothing` | `SimpleSplit` covers its text | none |
| `DocumentsProofs!StoredOnceAlways` | `Spec => []StoredOnce` | `DocumentsAssumption` |
| `DocumentsProofs!ReportAlwaysTrue` | `Spec => []ReportTrue` | `DocumentsAssumption` |
| `SettingsProofs!FileAlwaysValid` | `Spec => []AlwaysValid` | `SettingsAssumption`, `FilesAssumption` |
| `SettingsProofs!SecretsAlwaysKept` | `Spec => []SecretsKept` | the same; `OutsideAvoids(Cut)`, `NoMaskInFiles` |
| `SettingsProofs!SavesAlwaysCompose` | `Spec => []SavesCompose` | the same; `OutsideAvoids(Unstable)` |
| `WorkerPoolProofs!PoolKeepsInboxes` | `Spec => Turns!Safety`, the steps of `ThreadFifo` | `PoolAssumption`; `Undisturbed`: a single worker, or no merging and no lock in use for `idle_ttl` |
| `LogHubProofs!EveryLineOnce` | `Spec => []OrderOnce` | `LogAssumption` |
| `LogHubProofs!NoLineMissing` | `Spec => []Complete` | `LogAssumption` |
| `LogHubProofs!OnlyTheOldestDropped` | `Spec => DropsOldest` | `LogAssumption` |

### The pool

`ThreadExclusive` is not inductive: that two workers do not hold
*one* lock says nothing while they may hold *two* locks of one conversation.
`LockInv` has the three parts that are needed. `BatchShape`: a worker that waits
for or holds a lock has an item, so its conversation is defined, and a busy
worker is inside its batch. `OneHolder`: two busy workers of one conversation
have different lock objects; preserved because the fast path of
`asyncio.Lock.acquire` wants the lock unused and a woken waiter wants it unheld.
`LocksCurrent`, under `~SlowBatches`: a lock in use is the one the table hands out
and not stale, because taking it refreshes its last use and the cleanup passes
over what was used lately. From the last two, two busy workers of one
conversation would have the same current lock and different locks. The
assumption is needed: with `SlowBatches = TRUE` TLC finds two workers in one
conversation (section 6). `LockInv` is checked by TLC in `pool_live`. There is one
lemma per action (`ConsumeKeepsInv`, `WakeKeepsInv`, `FinishBatchKeepsInv`, ...), and
`NextInv` combines them.

*The window.* `WindowExact` compares accepted events with each other; the code has a
deque. `WindowInv`: the deque holds exactly the events of the last messages
admitted, a message whose `put()` is suspended included.

*Conservation and order.* A place is the queue, a deferred slot, the unprocessed
rest of a batch, or what was served; `Once`: an accepted message is found at
exactly one index of one place, any other at none. `InLine` adds, for a single
worker, that of two messages the one accepted first is ahead in the line rest of
the batch, deferred slot, queue. Both are moved by the one operation `Takes`: the
first item, the items drawn behind it, the one that ended the drawing, the rest.
`Sentinels` counts the sentinels in the queue, those put still to come and the
workers that drew theirs, behind which nothing is left to serve; `Counted` says
what `unfinished` counts. Hence, when `stop()` returns, the queue and all slots
are empty and the count is zero.

*Commands.* `Commanded`: a batch in progress is at a segment that was routed with
all commands before it executed, and the command that ended a burst was routed
with that burst. Only the holder of a conversation changes the number of its
commands, so mutual exclusion is needed, and with it `~SlowBatches` or a
single worker.

*The inboxes.* `PoolKeepsInboxes` is the safety half of what `ImplementsThreadFifo`
says of `pool_single`, for any number of messages, conversations and any batch
bound, and, without merging, of workers. `Lined` is what the mapping needs beyond
the invariants above: who is in the line for a lock waits for the lock of that
conversation, each once; nothing waits while there is one worker, nothing is set
aside while there are several; and the segment in progress is a turn.
`MappingOne` and `MappingMany` then say what the inbox is: with one worker the
part of the line rest of the batch, deferred slot, queue that belongs to the
conversation; without merging the rest of the one batch in progress, the items of
the waiters, its part of the queue. An item that is taken, set aside or woken for
stays where it is in that sequence (`TakeOneMapped`, `TakeManyMapped`,
`WakeMapped`), an accepted message joins one inbox at its end (`AcceptMapped`), a
sentinel none, and the end of a segment takes the front of one inbox away
(`EndMapped`). `InThread` is a recursive function; what the proofs need of it - an
appended item, concatenation, a sequence of one conversation - rests on induction
over the naturals, derived in `NaturalsInSet` from the well-foundedness of
inclusion among finite sets.

The theorems for one worker need their hypothesis: with two workers and
merging TLC finds `ThreadOrder` violated (`pool_order`, section 6).

### The conversation

The state of a conversation exists several times: the checkpoint on the disk,
where a crash falls back to, those on their way, and the newest, on which the
run works. `PointsSound` says of each by itself what is said of the context -
types, order, results behind their calls, calls answered but for those of runs
that were cut or are not finished, skills as the last calls want them - and
`Chain` that each holds, in its messages or its summary, all that the one
before holds. `Crash` then is the return to a member of the chain, and
durability is a statement about its first member. `RunOK` says how far the
run has come, `BurstOK` how the burst relates to what was heard, and `BurstKept`,
`HistoryBounded` relate what was sent and published to the disk.

`DiskRemembers` and `SeenStaysDurable` have the hypothesis `~EmptySummary`, the
constant of the run `turn` too: a summarizing LLM that answers with an empty text
does lose messages (section 6).

### Automatic replies

`Spaced` compares replies of the past; the code keeps one time per
conversation, and forgets it. `SpacedInv` says why one time is enough. `Noted`:
the last automatic reply is the one that is noted, or is as long ago as the
cooldown. `LetThrough`: a message that was let through is in a batch of a
conversation whose cooldown is over, and stays so, since only the batch's own
reply notes a new time. `Timely`: a reply is sent within `MaxTurn` of the last
use of its conversation, so what is idle for `IdleTtl >= Cooldown + MaxTurn` may
be forgotten. A reply that nobody asked for comes from a batch in which every
message that wants a reply was let through, so it is noted (`UnaskedIsFlagged`).
The inequality is an assumption, not something the code checks (section 6).

### Who is answered, and with what

`AskedInv` carries `AsAsked` and `ImagesInPlace` together, on top of `SpacedInv`.
`Bounds` repeats of the variables what the parser needs; `ThreadOK` follows a
thread through its stages:

* `Judged`: what `Route` decided of a message agrees with the content it was decided
  on, and stays so while the login, other threads or a command change what it was
  decided with. This is where the parser enters. `KindByFirst`: a message is of a
  kind the bot replies to if each file stands behind an image.
  `QuotedByDepth`: the counter of `_top_level_text`, which never falls below zero, is
  zero exactly where no quote is open, said with the numbers of tags between
  two places (`Open`) instead of a counter; `MentionNotQuoted` adds the part behind
  the last tag, and needs that quotes are closed.
* `SilentText`: a message without a text that counts contributes no word, so that the
  ones left out of a burst cost nothing; `AllWordsOfChosen` says so of the words of
  all messages.
* `ShownOK`: what the LLM is shown is `Faithful` to the message: its words are those
  of the message (`WordsReplaced`, `WordsBuilt`), and its images stand where they stood:
  the placeholders are the images in their order (`MarkersAreImages`), so the k-th
  of one gets the k-th of the other (`ReplacedInPlace`).

The operators of `Content` are recursive functions over the places of a sequence.
`RecursionSolved` and `RecursionOnce` give each of them its value from its
step, and `ChosenPlaces` turns the one most of them are built from into arithmetic: the
n-th thing chosen is the one with n chosen places up to it (`Count`).

That quotes are closed is an assumption on the contents (`Depth` ends at zero),
since the platform sends well-formed markup. Without it `_top_level_text` takes
what follows the last tag for top level, however deep it is.

### The process

`ProcessInv` has four parts: types; `Phase`, what the client, the pipeline and
the index worker can be doing while main is where it is (no turn once the
pipeline was closed, no handler without a receiving client); `Equipment`, which
parts are there when tools are offered and the index worker runs; and
`Backlog`: what was admitted is what was handled, the task in work, and the queue
up to the mark that ends the worker - the mark is the last thing ever queued,
because nothing is admitted once `stop()` refuses. For the events, `EventOrder`
has what `EventsAccounted` does not say: accepted ones are older than the one in
its handler, and that is older than those on the wire.

### Memory, documents, log

*Cache.* `CacheInv`: the cache fits, and its entries are of the past. An entry that is
missing after a write was dropped behind newer ones, or replaced by one of now
which was dropped in turn, so everything that stayed is of now.

*Vectors and answers.* `IInv` has a part per piece of state. `VectorsOfTask`: a text
that is no longer missing has its own vector; the j-th new vector goes to the
j-th missing text because an increasing list of places is what it is
(`IndexOfRank`). `KeysUsed` in `RowsTrue`: earlier tasks used smaller keys. `Found`
and `Searched`: what a search has collected is what was asked for, and if it went
no further than its own conversation it had enough.

*Retention.* `Retained`: a conversation has more rows than allowed only while the
lock is held for its pruning, or after that failed. The hypothesis `Fits` is
needed: of more than 16384 rows (`_QUERY_LIMIT`) one query returns only some, in
no order, and pruning among those may take newer rows than it leaves. A
conversation gets there only by thousands of failed prunings in a row, or with
a retention of that size (section 6).

*Own rows first.* `OwnFirst` is not inductive, because what a row has gathered from
each list decides its place. `Parts`: in both lists the rows of the own conversation
come first, and behind them, each once, what the wide search adds. A foreign row
found by as many lists as an own one is thus met later in each of them, gathers
less, and comes later in the answer. The scores are fractions of 10^9 in the model,
so two ranks may only count as different if they are small enough: `RanksCount`.

*Documents.* `SplitterLosesNothing` is by induction over the position the loop has
reached: what is stripped is blank, and the next piece begins no later than
where the last one ended. `RunOK` says what the importer knows of its file at each
stage, `StoreOK` that a stored content is whole and alone, `PromisesOK` that what was
reported is still there unless somebody deleted it. `StoreOK` survives a crash
because an insert is one call; two importers do not run at once.

*Log.* `FileShape`: the file has the entries of the current run in their order.
`Given`: what a browser was given is of an earlier run, or ends before its
offset, which lies within the file. `InLine`: what was sent and what waits in the
queue is one list in the order of the file. `Caught`: unless the browser is behind
a restart (`stale`), every short line before its offset was sent, waits or was
dropped. The three properties follow.

### Settings

For validity: what a request holds once it begins to write has been validated
as a whole (`HeldValid`), and the file is valid (`FileValid`): an emptied file by the
defaults, a written one because a number needs no quotes and so reads back as
what was validated. A prefix of commands may need them: `validate()` sees the quotes
as part of the text, so an empty prefix passes and is read as empty. `FileValid` and
`AlwaysValid` except exactly that, a prefix somebody set to an element of `Blank`;
`NoneGiven(Prefix, Blank)` shows that no other prefix gets there. Files that two
requests wrote at the same time are excepted too (`mixed`).
`FilesAssumption`: the bot could start with the file it had.

For secrets: `TracedFor` - a value in the file or on its way to it was given to
its very field, and a page holds only masks - and `KeptFor` - a request that
was computed from the present file still has the secret. For what answers tell:
`InputIsUnfit` - only two explicit ratios do not fit, since the defaults do - and
`NoneGiven` for both (`ToldIInv`). For composition: `Composed` - such a request holds the
file with its own updates, and the file is what the history of saves makes of it.

All rest on `Avoids(f, X)`: no value of the field f, in the file, a request or a
draft, is in X. It is kept by every step if nothing of X is given for f
(`NoneGiven`) or none comes from outside at all (`AllAvoid`), for sets that reading
does not add to (`Closed`). `Cut` are the values that lose something when they stand
without quotes (`"a #b"` stands for those read as having a comment, `" "` for
blanks); `Unstable` adds the empty one, whose line is removed. The hypotheses say
that no such value comes from outside, and that no file has a mask for a secret; the
inputs of `settings` satisfy the one for secrets. The empty prefix among them
violates the one for composition; there `SavesCompose` holds for another reason, as
every save after it is refused that does not set the prefix again. With a key that
needs quotes it fails (`settings_quotes`).

### Only model-checked

* Liveness (`EventuallyServed`, `Progress`, `StopEnds`, `AcceptedServed`, `ImportsEnd`,
  `EventuallyShown`, the turns that end) and the fairness in `ImplementsThreadFifo`
  (its steps are proved, `PoolKeepsInboxes`): fairness and ENABLED are out of the
  prover's reach.

Every safety property of a passing run is stated by a theorem.

Induction is within reach where a definition is a recursive function or
a quantified set: it is derived from the well-foundedness of inclusion among
finite sets (`LeastNumber`, `NaturalsInSet`), since the library's induction theorems
take an operator.

## 6. Findings

* **Overtaking with several workers** (`pool_order`). The message that ends a
  batch waits in the private slot of its worker while later messages of its
  conversation are taken from the queue by others. `_collect_batch` promises that
  the global FIFO is not disturbed; that holds with one worker (`pool_single`) or
  without merging.
* **Shutdown stops half way** (`process_stop`). `disconnect()` reads an attribute
  that connections of the pinned `websockets` no longer have; every step behind
  `platform.close()` is skipped. The connection of the checkpoints is closed by
  no step on any path.
* **Quotes lost by a later save** (`settings_quotes`). A value that needs quotes is
  written with them, read without, and written back bare by the next save of any
  other field: it is cut at its hash, or its line disappears if it was empty.

Observations without a run (each is a case a property of section 3 leaves out,
and says so in its comment, or one outside of the models):

Pool and turn

* Between the release and the wake-up of the first waiter a lock is not
  `locked()`; if it was last taken more than `idle_ttl` ago (an hour by default),
  the cleanup deletes it and the next message gets another one. With
  `SlowBatches = TRUE` and three workers TLC finds `ThreadExclusive` violated.
* The summarizing LLM may answer with an empty text; messages leave the
  checkpoint and the empty text takes the place of the summary
  (`orchestration/summarize.py:143`). With `EmptySummary = TRUE` TLC finds
  `Remembers` violated.
* `unload_skill` with an empty name raises `ValueError` outside the tool node's error
  handling and ends the graph run without a reply (`GraphFails` models it).
* A graph run that is killed, or fails, between `call_llm` and the end of `tools`
  leaves an unanswered tool call in the conversation; `CallsAnswered` excepts
  exactly those (`cut`).

Messages

* A cooldown longer than the time after which idle threads are forgotten (3600 s)
  is forgotten with them; `MessageAssumption` excludes it.
* In the multimodal mode a failed download shifts the images behind it
  (`describe_image.py:198`; its docstring at line 44 says they are aligned); a
  typed `[图片]` or an image in a comment shifts descriptions in both modes.
* Behind a quote that is never closed a mention counts as if it were outside
  (`content_parser.py:92`); `MessageAssumption` excludes such contents.
* A mention, an attachment or a quote inside a comment counts as if it were shown;
  a command is recognised in quoted text too, since the clean text keeps it.

Process and boot

* After 1024 failed connection attempts in a row `2 ** attempt * 1.0` raises
  `OverflowError` outside the `try` of `SatoriClient.run`, and the bot ends
  (`Exponents`, in `process`).
* The docstring of `create_app` (`core/boot.py:68-69`) says that failures of vision,
  MCP and skills only degrade; an MCP file that cannot be read ends the start
  (`Abort`), and nothing that was opened before is closed.
* An MCP tool may have the name of a built-in one; both are offered.

Knowledge and documents

* With fewer own rows than asked for, rows of other conversations found by both
  signals can displace an own row found by one (`knowledge/service.py:169` says own
  rows come first). `OwnFirst` states the weaker order that does hold.
* Retention at or above the query limit of 16384 rows never prunes; a document
  of more pieces than that is deleted in part.
* A failing lookup or hash ends the whole import without a report
  (`LookupFails`); a file replaced while it is imported is stored under the hash
  of the old content (`changed`).
* The document store inherits the drop of a collection whose dimension differs
  from the configured one: changing the embedding model empties it.

Settings and logs

* Two saves that overlap lose one of them (`raced`), and two that write at the
  same time may mix their texts (`mixed`); a process stopped between emptying
  and writing leaves an empty file.
* `PUT` of `command_prefix` with an empty text passes `validate()`, which looks at
  the quoted text of two characters (`settings_store.py:48-50`, `159`), is written,
  and is read back as empty, where `min_length=1` fails
  (`config/settings.py:356-359`): the request is answered with an error, but the
  file has been written, the bot does not start with it, and every save is refused
  that does not set the prefix. The docstring of `update` says that nothing is
  written when the validation fails (`settings_store.py:147`),
  `tests/test_config.py:260` that an empty prefix is refused. A blank gets there
  with the next save of any field. `AlwaysValid` excepts the case; without the
  exception TLC finds it violated.
* Ratios that do not fit each other are refused with the error in full
  (`api/router.py:102-103`): the `input` of an error found after the fields were
  read is the whole configuration, secrets in plain text, which every other answer
  masks. The page shows of it only place and message. `SecretsKept` says that it takes
  somebody who wanted such ratios.
* Values of several lines, with quotes or backslashes of their own, or with `${...}`
  are read by dotenv in other ways once they stand without quotes; they are outside
  of the model.
* What is typed while a save is on its way is lost: the answer replaces the draft.
* Keys that are absent from the file are still taken from the environment, so
  clearing a field need not clear it (`settings_store.py:62-69`); values
  with `${...}` are interpolated when they are read, and written back so.
* After its connection broke, the page shows lines a second time: the server
  starts the file again, the store keeps what it has.
* The hub notices a restart of the bot by the file being shorter than the
  offset: if the new file outgrows the offset within one poll, its beginning is
  not shown. `EventuallyShown` excludes exactly that (`stale`).

## 7. What is not modelled, and the plan

Done: the pool with its abstract specification and the proof that its steps are
those of that specification; the turn; the message with its routing, commands and
images; the process with its boot; the vector memory; the document import; the
settings with their page; the log hub with its page.

Left, in this order:

1. User memory (`memory/__init__.py`, `tools/builtin/user_memory.py`): whom a note is
   about when a burst has several speakers and the LLM names none; the store
   itself is upserts behind a connection opened under a lock.
2. The collection of `Knowledge` at start: created, dropped, loaded (`Documents` has
   the drop).

Left out for good: the wrappers of the REST calls (no state, no retries), the file
of MCP servers and the skill files (read once at start), shell and file tools (what
they do is up to the operating system), declarations of settings and protocol
messages, Vue components, start scripts - pure input and output, or straight-line
code that runs before anything is concurrent. Abstracted throughout: texts (members
of small sets), token estimates (a choice), metrics, logging, and the values of
timeouts.
