----------------------------- MODULE BotProcess -----------------------------
(***************************************************************************)
(* The life of the bot process: it builds its parts, doing without those   *)
(* that fail, and the tools they allow; it connects to the platform, reads *)
(* events one at a time and puts them into the message pipeline,           *)
(* reconnects with a growing delay when the connection is lost, publishes  *)
(* what a turn has to index to a background worker behind a bounded queue, *)
(* and at the end closes its parts one after the other.                    *)
(*                                                                         *)
(* The pipeline is taken as a queue served in bursts (module WorkerPool    *)
(* refines it), a turn as one that succeeds or fails (module Turn).        *)
(***************************************************************************)
EXTENDS Integers, FiniteSets, Sequences, SequencesExt

CONSTANTS
    LastEvent,  \* events of the platform (bound of the model)
    QueueMax,   \* message_queue_maxsize
    BatchMax,   \* message_batch_max
    IndexMax,   \* maxsize of the index queue (1000 in the code)
    Exponents,  \* 2^attempt fits a float for smaller attempts (1024 in the code)
    Reconnect,  \* the setting of that name
    Enabled,    \* settings that switch a part on
    Servers,    \* MCP servers: for each the names of its tools
    Allowlist, Denylist   \* tools_allowlist, tools_denylist

Switches == {"rag", "vision", "mcp", "skills", "bash"}
OptionalParts == {"index", "rag", "documents", "vision", "memory", "db"}

(* What a tool of the bot's own works with.                                *)
Backing ==
    [search_chat_history |-> "rag", search_documents |-> "documents",
     remember_user_memory |-> "memory", recall_user_memory |-> "memory",
     load_skill |-> "skills", unload_skill |-> "skills",
     run_bash |-> "bash", send_file |-> "platform"]

(* No server is called "builtin": that is what marks tools of the bot's.   *)
ASSUME ProcessAssumption ==
    /\ LastEvent \in Nat /\ QueueMax \in Nat \ {0} /\ BatchMax \in Nat \ {0}
    /\ IndexMax \in Nat \ {0} /\ Exponents \in Nat \ {0, 1}
    /\ Reconnect \in BOOLEAN
    /\ Enabled \subseteq Switches
    /\ IsFiniteSet(DOMAIN Servers)
    /\ "builtin" \notin DOMAIN Servers
    /\ \A s \in DOMAIN Servers : Servers[s] \subseteq STRING
    /\ Allowlist \subseteq STRING /\ Denylist \subseteq STRING

VARIABLES
    main,      \* the main coroutine: new, booting, ready, running, stopping,
               \* ended; broken if stop() raised, aborted if the start did
    parts,     \* the parts that have been built
    servers,   \* MCP servers that have not been asked yet
    tools,     \* the tools: [name, from], from a server or "builtin"
    closing,   \* which part stop() is at
    client,    \* run() of the client: where it is
    attempt,   \* failed connections in a row
    ws,        \* the connection: none yet, open, or a dead one
    sent,      \* events the platform has produced
    wire,      \* events on their way through the open connection
    hand,      \* the event whose handler runs, or 0
    pending,   \* the pipeline: accepted messages
    turn,      \* the burst that is being answered
    indexQueue, indexer, indexing, indexStop,
               \* the index worker: queue, task, task in work (or 0), how far
               \* its stop() is
    unheard,   \* history: events that never reached the pipeline
    accepted,  \* history: messages accepted by the pipeline
    admitted,  \* history: index tasks put into the queue
    handled,   \* history: index tasks worked off
    told       \* history: was the process told to end?

clientVars == <<client, attempt, ws>>
eventVars  == <<sent, wire, hand, unheard>>
turnVars   == <<pending, turn, accepted>>
indexVars  == <<indexQueue, indexer, indexing, indexStop, admitted, handled>>
bootVars   == <<parts, servers, tools>>
mainVars   == <<main, closing, told, bootVars>>
vars == <<clientVars, eventVars, turnVars, indexVars, mainVars>>

Sentinel == -1

Init ==
    /\ main = "new" /\ closing = 1 /\ told = FALSE
    /\ parts = {} /\ servers = {} /\ tools = {}
    /\ client = "off" /\ attempt = 0 /\ ws = "none"
    /\ sent = 0 /\ wire = <<>> /\ hand = 0 /\ unheard = {}
    /\ pending = <<>> /\ turn = <<>> /\ accepted = <<>>
    /\ indexQueue = <<>> /\ indexer = "off" /\ indexing = 0 /\ indexStop = "no"
    /\ admitted = <<>> /\ handled = <<>>

-----------------------------------------------------------------------------
(* create_app                                                              *)

(* Parts that need nothing but their switch, and those always there.       *)
Certain == {"memory", "db", "platform"} \cup (Enabled \cap {"vision", "skills", "bash"})

(* The vector store and the document store are opened one after the other; *)
(* one that fails is done without.  Indexing goes with the former.         *)
Stores(built) ==
    built \cup (IF "rag" \in built THEN {"index"} ELSE {})

AskedServers == IF "mcp" \in Enabled THEN DOMAIN Servers ELSE {}

Assemble ==
    /\ main = "new" /\ main' = "booting"
    /\ \E built \in SUBSET (IF "rag" \in Enabled THEN {"rag", "documents"} ELSE {}) :
          parts' = Certain \cup Stores(built)
    /\ servers' = AskedServers
    /\ UNCHANGED <<tools, closing, told, clientVars, eventVars, turnVars, indexVars>>

(* load_mcp_tools: a server that fails is left out.                        *)
LoadServer(s) ==
    /\ main = "booting" /\ s \in servers
    /\ servers' = servers \ {s}
    /\ \/ UNCHANGED tools
       \/ tools' = tools \cup {[name |-> n, from |-> s] : n \in Servers[s]}
    /\ UNCHANGED <<main, closing, told, parts, clientVars, eventVars, turnVars, indexVars>>

(* An empty allowlist allows everything; the denylist has the last word.   *)
IsSelected(tool) ==
    /\ Allowlist # {} => tool.name \in Allowlist
    /\ tool.name \notin Denylist

(* build_tools: the tools of the parts that are there and of the servers.  *)
BuildTools(mcpTools) ==
    LET own == {n \in DOMAIN Backing : Backing[n] \in parts}
    IN  {t \in [name : own, from : {"builtin"}] \cup mcpTools : IsSelected(t)}

(* create_graph opens the checkpoints, which nobody closes; the rest of    *)
(* the wiring follows.                                                     *)
CreateGraph ==
    /\ main = "booting" /\ servers = {}
    /\ main' = "ready"
    /\ tools' = BuildTools(tools)
    /\ parts' = parts \cup {"checkpointer"}
    /\ UNCHANGED <<servers, closing, told, clientVars, eventVars, turnVars, indexVars>>

(* The settings are not valid, the LLM has no address or key, a directory  *)
(* or a file cannot be opened, or SIGINT comes while the servers are asked *)
(* or the checkpoints opened: nothing is closed.                           *)
Abort ==
    /\ main \in {"new", "booting"} /\ main' = "aborted"
    /\ told' = TRUE
    /\ UNCHANGED <<closing, bootVars, clientVars, eventVars, turnVars, indexVars>>

(* BotApplication.start, run.                                              *)
Start ==
    /\ main = "ready" /\ main' = "running"
    /\ client' = "connecting"
    /\ indexer' = IF "index" \in parts THEN "on" ELSE "off"
    /\ UNCHANGED <<closing, told, bootVars, attempt, ws, eventVars, turnVars, indexQueue,
                   indexing, indexStop, admitted, handled>>

-----------------------------------------------------------------------------
(* SatoriClient.run                                                        *)

Connect ==
    /\ client = "connecting"
    /\ ws' = "open" /\ client' = "receiving"
    /\ attempt' = 0
    /\ UNCHANGED <<eventVars, turnVars, indexVars, mainVars>>

(* run() returns or raises: main goes on to stop().                        *)
RunEnds ==
    /\ client' = "returned"
    /\ main' = "stopping"
    /\ UNCHANGED <<closing, bootVars, attempt>>

(* min(1.0 * 2 ** attempt, max) raises once 2 ** attempt exceeds a float.  *)
Retries == Reconnect /\ attempt + 1 < Exponents

RetryOrEnd ==
    IF Retries
    THEN client' = "sleeping" /\ attempt' = attempt + 1
         /\ UNCHANGED <<main, closing, bootVars>>
    ELSE RunEnds

(* The connection is refused, or it breaks before IDENTIFY is sent.        *)
ConnectFails ==
    /\ client = "connecting"
    /\ ws' \in {ws, "dead"}
    /\ RetryOrEnd
    /\ UNCHANGED <<eventVars, turnVars, indexVars, told>>

(* A malformed URI is not tried again.                                     *)
InvalidURI ==
    /\ client = "connecting" /\ ws = "none" /\ attempt = 0
    /\ RunEnds
    /\ told' = TRUE
    /\ UNCHANGED <<ws, eventVars, turnVars, indexVars>>

(* The receive loop has read what had arrived and finds no connection.     *)
LoopEnds ==
    /\ client = "receiving" /\ ws = "dead" /\ wire = <<>> /\ hand = 0
    /\ RetryOrEnd
    /\ UNCHANGED <<ws, eventVars, turnVars, indexVars, told>>

Wake ==
    /\ client = "sleeping" /\ client' = "connecting"
    /\ UNCHANGED <<attempt, ws, eventVars, turnVars, indexVars, mainVars>>

(* SIGINT cancels the main task wherever it waits.                         *)
Interrupt ==
    /\ main = "running" /\ main' = "stopping" /\ told' = TRUE
    /\ client' = "returned"
    /\ hand' = 0
    /\ unheard' = unheard \cup ({hand} \ {0})
    /\ UNCHANGED <<closing, bootVars, attempt, ws, sent, wire, turnVars, indexVars>>

-----------------------------------------------------------------------------
(* The platform: events that find no connection are gone for good, and a   *)
(* connection that breaks takes with it what has not arrived.              *)
PlatformEvent ==
    /\ sent < LastEvent /\ main = "running" /\ sent' = sent + 1
    /\ IF ws = "open"
       THEN wire' = Append(wire, sent + 1) /\ UNCHANGED unheard
       ELSE unheard' = unheard \cup {sent + 1} /\ UNCHANGED wire
    /\ UNCHANGED <<hand, clientVars, turnVars, indexVars, mainVars>>

ConnectionLost ==
    /\ ws = "open" /\ ws' = "dead"
    /\ \E n \in 0..Len(wire) :
          /\ wire' = SubSeq(wire, 1, n)
          /\ unheard' = unheard \cup {wire[i] : i \in (n + 1)..Len(wire)}
    /\ UNCHANGED <<client, attempt, sent, hand, turnVars, indexVars, mainVars>>

(* Mutant: the loop does not wait for the handler before.                  *)
HandFreeAlways == TRUE

HandFree == hand = 0

(* _receive_loop: the next event, once the handler of the one before has   *)
(* returned.                                                               *)
Receive ==
    /\ client = "receiving" /\ wire # <<>> /\ HandFree
    /\ hand' = Head(wire) /\ wire' = Tail(wire)
    /\ UNCHANGED <<sent, unheard, clientVars, turnVars, indexVars, mainVars>>

(* _on_message: nothing to be normalized, or put into the pipeline, which  *)
(* waits while its queue is full.                                          *)
Ignore ==
    /\ hand # 0 /\ hand' = 0
    /\ unheard' = unheard \cup {hand}
    /\ UNCHANGED <<sent, wire, clientVars, turnVars, indexVars, mainVars>>

Put ==
    /\ hand # 0 /\ hand' = 0
    /\ Len(pending) < QueueMax
    /\ pending' = Append(pending, hand)
    /\ accepted' = Append(accepted, hand)
    /\ UNCHANGED <<turn, sent, wire, unheard, clientVars, indexVars, mainVars>>

-----------------------------------------------------------------------------
(* The pipeline and the index worker                                       *)

(* When main is over, asyncio.run cancels the tasks that are left.         *)
LoopRuns == main \notin {"ended", "broken", "aborted"}

StartTurn ==
    /\ LoopRuns /\ turn = <<>>
    /\ \E k \in 1..BatchMax :
          /\ k <= Len(pending)
          /\ turn' = SubSeq(pending, 1, k)
          /\ pending' = SubSeq(pending, k + 1, Len(pending))
    /\ UNCHANGED <<accepted, eventVars, clientVars, indexVars, mainVars>>

Queued(tasks) == indexQueue \o tasks

(* IndexWorker.enqueue for one task after the other: refused after stop()  *)
(* and while the queue is full.                                            *)
EnqueueTasks(tasks) ==
    LET room == IF indexStop # "no" \/ indexer = "off" THEN 0
                ELSE IndexMax - Len(indexQueue)
        n    == IF room < Len(tasks) THEN room ELSE Len(tasks)
    IN  /\ indexQueue' = Queued(SubSeq(tasks, 1, n))
        /\ admitted' = admitted \o SubSeq(tasks, 1, n)

(* A turn ends: it failed, or it is published and every record with a text *)
(* or a reply becomes an index task, in the order they came.               *)
FinishTurn ==
    /\ LoopRuns /\ turn # <<>> /\ turn' = <<>>
    /\ \/ UNCHANGED <<indexQueue, admitted>>
       \/ \E n \in 0..Len(turn) : \E tasks \in [1..n -> Range(turn)] :
             /\ \A i, j \in 1..n : i < j => tasks[i] < tasks[j]
             /\ EnqueueTasks(tasks)
    /\ UNCHANGED <<pending, accepted, indexer, indexing, indexStop, handled,
                   eventVars, clientVars, mainVars>>

IndexTake ==
    /\ LoopRuns /\ indexer = "on" /\ indexing = 0 /\ indexQueue # <<>>
    /\ indexQueue' = Tail(indexQueue)
    /\ IF Head(indexQueue) = Sentinel
       THEN indexer' = "ended" /\ UNCHANGED indexing
       ELSE indexing' = Head(indexQueue) /\ UNCHANGED indexer
    /\ UNCHANGED <<indexStop, admitted, handled, eventVars, clientVars, turnVars,
                   mainVars>>

(* index_turn has returned or failed; a failure is only logged.            *)
IndexDone ==
    /\ LoopRuns /\ indexing # 0 /\ indexing' = 0
    /\ handled' = Append(handled, indexing)
    /\ UNCHANGED <<indexQueue, indexer, indexStop, admitted, eventVars,
                   clientVars, turnVars, mainVars>>

-----------------------------------------------------------------------------
(* BotApplication.stop                                                     *)

(* Mutant: the background task is stopped before the pipeline.             *)
CloseOrderIndexFirst ==
    <<"index", "pipeline", "platform", "rag", "documents", "vision", "memory", "db">>

CloseOrder ==
    <<"pipeline", "index", "platform", "rag", "documents", "vision", "memory", "db">>

At(part) ==
    main = "stopping" /\ closing <= Len(CloseOrder) /\ CloseOrder[closing] = part

PartClosed ==
    /\ closing' = closing + 1
    /\ main' = IF closing = Len(CloseOrder) THEN "ended" ELSE main
    /\ UNCHANGED <<told, bootVars, clientVars, eventVars, turnVars, indexVars>>

(* Mutant: stop() does not wait for the turns in progress.                 *)
PipelineDrainedQueue == pending = <<>>

PipelineDrained == pending = <<>> /\ turn = <<>>

ClosePipeline == At("pipeline") /\ PipelineDrained /\ PartClosed

(* IndexWorker.stop: refuse new tasks, put None when there is room, wait.  *)
RefuseTasks ==
    /\ At("index") /\ "index" \in parts /\ indexStop = "no"
    /\ indexStop' = "refusing"
    /\ UNCHANGED <<indexQueue, indexer, indexing, admitted, handled, mainVars,
                   eventVars, clientVars, turnVars>>

(* Mutant: None is not put at all.                                         *)
SentinelQueuedNever == indexQueue

SentinelQueued == Append(indexQueue, Sentinel)

StopIndex ==
    /\ indexStop = "refusing"
    /\ Len(indexQueue) < IndexMax
    /\ indexStop' = "sent"
    /\ indexQueue' = SentinelQueued
    /\ UNCHANGED <<indexer, indexing, admitted, handled, mainVars, eventVars,
                   clientVars, turnVars>>

(* Mutant: stop() does not wait for the task to end.                       *)
IndexJoinedAtOnce == indexStop = "sent"

IndexJoined == indexStop = "sent" /\ indexer = "ended"

JoinIndex == At("index") /\ IndexJoined /\ PartClosed

(* A connection of websockets 14 and later has no attribute `closed`:      *)
(* disconnect() raises if there ever was a connection, and stop() with it. *)
ClosePlatform ==
    /\ At("platform")
    /\ \/ ws = "none" /\ PartClosed
       \/ /\ ws # "none" /\ main' = "broken"
          /\ UNCHANGED <<closing, told, bootVars, clientVars, eventVars, turnVars,
                         indexVars>>

CloseResource ==
    /\ \E part \in OptionalParts \ (parts \cap {"index"}) : At(part)
    /\ PartClosed

Over == main \in {"ended", "broken", "aborted"} /\ UNCHANGED vars

BootStep == Assemble \/ (\E s \in servers : LoadServer(s)) \/ CreateGraph \/ Abort
ClientStep == Connect \/ ConnectFails \/ InvalidURI \/ LoopEnds \/ Wake
HandlerStep == Receive \/ Ignore \/ Put
IndexStep == IndexTake \/ IndexDone
StopStep == ClosePipeline \/ RefuseTasks \/ StopIndex \/ JoinIndex \/ ClosePlatform \/ CloseResource

Next ==
    \/ BootStep \/ Start \/ ClientStep \/ Interrupt \/ PlatformEvent \/ ConnectionLost
    \/ HandlerStep \/ StartTurn \/ FinishTurn \/ IndexStep \/ StopStep \/ Over

Spec == Init /\ [][Next]_vars

(* The event loop runs every task that can run; connecting, a turn and     *)
(* indexing end (their calls carry timeouts).  Nothing is assumed of the   *)
(* platform, not even that it accepts a connection.                        *)
Fairness ==
    /\ WF_vars(Start) /\ WF_vars(ClientStep) /\ WF_vars(HandlerStep)
    /\ WF_vars(StartTurn) /\ WF_vars(FinishTurn)
    /\ WF_vars(IndexStep) /\ WF_vars(StopStep)

FairSpec == Spec /\ Fairness

-----------------------------------------------------------------------------
(* Properties                                                              *)

Events == 1..LastEvent

TypeOK ==
    /\ main \in {"new", "booting", "ready", "running", "stopping", "ended", "broken",
                "aborted"}
    /\ parts \subseteq OptionalParts \cup {"platform", "skills", "bash", "checkpointer"}
    /\ servers \subseteq DOMAIN Servers
    /\ \A t \in tools : t.from \in {"builtin"} \cup DOMAIN Servers
    /\ closing \in 1..(Len(CloseOrder) + 1)
    /\ client \in {"off", "connecting", "receiving", "sleeping", "returned"}
    /\ attempt \in 0..(Exponents - 1)
    /\ ws \in {"none", "open", "dead"}
    /\ sent \in 0..LastEvent /\ hand \in {0} \cup Events
    /\ wire \in Seq(Events) /\ pending \in Seq(Events) /\ turn \in Seq(Events)
    /\ indexQueue \in Seq(Events \cup {Sentinel}) /\ indexing \in {0} \cup Events
    /\ indexer \in {"off", "on", "ended"} /\ indexStop \in {"no", "refusing", "sent"}
    /\ unheard \subseteq Events /\ told \in BOOLEAN
    /\ accepted \in Seq(Events) /\ admitted \in Seq(Events)
    /\ handled \in Seq(Events)

Closed(part) == \E i \in 1..(closing - 1) : CloseOrder[i] = part

(* Every event the platform produced is in exactly one place: on the wire, *)
(* in its handler, accepted, or known to be lost; and the accepted ones    *)
(* are in order, across reconnections too.                                 *)
EventsAccounted ==
    /\ TypeOK
    /\ Range(wire) \cup ({hand} \ {0}) \cup Range(accepted) \cup unheard = 1..sent
    /\ Range(accepted) \cap unheard = {}
    /\ \A i, j \in DOMAIN accepted : i < j => accepted[i] < accepted[j]

(* What the index worker works off is what was admitted, in that order,    *)
(* and when its stop() has returned nothing is left behind.                *)
IndexDrained ==
    /\ IsPrefix(handled, admitted)
    /\ Closed("index") /\ "index" \in parts
          => handled = admitted /\ indexQueue = <<>>

(* Nothing is used that is not there, be it that it was closed or that it  *)
(* could not be built: a turn in progress needs the platform, what stands  *)
(* behind every tool it is offered, the stores that are there and an index *)
(* worker that still accepts its result; a task of the index worker needs  *)
(* the vector store.                                                       *)
UsedWhileOpen ==
    /\ turn # <<>> =>
          /\ indexStop = "no"
          /\ \A t \in tools : t.from = "builtin" => Backing[t.name] \in parts
          /\ \A part \in OptionalParts \cup {"platform"} : ~Closed(part)
    /\ indexing # 0 => "rag" \in parts /\ ~Closed("rag")

(* stop() comes to an end, whatever is queued and in progress.             *)
StopEnds == main = "stopping" ~> main \in {"ended", "broken"}

(* What the pipeline accepted is answered, an interrupt notwithstanding.   *)
AcceptedServed ==
    \A m \in Events : m \in Range(accepted) ~> m \notin Range(pending) \cup Range(turn)

(* stop() closes every part that was opened.                               *)
AllClosed ==
    main \in {"ended", "broken"} =>
        \A part \in parts \ {"skills", "bash"} : Closed(part)

=============================================================================
