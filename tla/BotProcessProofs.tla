------------------------- MODULE BotProcessProofs --------------------------
(***************************************************************************)
(* The safety of the bot process, for any number of events and tools and   *)
(* any bounds of the queues: events are accounted for and stay in order,   *)
(* nothing that was admitted to the index queue is lost by a shutdown, and *)
(* nothing is used before it is there or after it was closed.              *)
(***************************************************************************)
EXTENDS BotProcess, SequenceTheorems, TLAPS

-----------------------------------------------------------------------------
(* Facts about constants                                                   *)

LEMMA CloseOrderFacts ==
    /\ Len(CloseOrder) = 8
    /\ CloseOrder[1] = "pipeline" /\ CloseOrder[2] = "index" /\ CloseOrder[3] = "platform"
    /\ CloseOrder[4] = "rag" /\ CloseOrder[5] = "documents" /\ CloseOrder[6] = "vision"
    /\ CloseOrder[7] = "memory" /\ CloseOrder[8] = "db"
BY DEF CloseOrder

LEMMA Bounds ==
    /\ LastEvent \in Nat /\ QueueMax \in Nat /\ BatchMax \in Nat /\ IndexMax \in Nat
    /\ Exponents \in Nat /\ Exponents > 1
    /\ Reconnect \in BOOLEAN /\ "builtin" \notin DOMAIN Servers
BY ProcessAssumption DEF ProcessAssumption

-----------------------------------------------------------------------------
(* Types                                                                   *)

Mains == {"new", "booting", "ready", "running", "stopping", "ended", "broken", "aborted"}
AllParts == OptionalParts \cup {"platform", "skills", "bash", "checkpointer"}

MainTypes ==
    /\ main \in Mains /\ parts \subseteq AllParts /\ servers \subseteq DOMAIN Servers
    /\ \A t \in tools : t.from \in {"builtin"} \cup DOMAIN Servers
    /\ closing \in 1..9 /\ told \in BOOLEAN

ClientTypes ==
    /\ client \in {"off", "connecting", "receiving", "sleeping", "returned"}
    /\ attempt \in 0..(Exponents - 1) /\ ws \in {"none", "open", "dead"}

EventTypes ==
    /\ sent \in 0..LastEvent /\ hand \in {0} \cup Events /\ wire \in Seq(Events)
    /\ unheard \subseteq Events

TurnTypes ==
    pending \in Seq(Events) /\ turn \in Seq(Events) /\ accepted \in Seq(Events)

IndexTypes ==
    /\ indexQueue \in Seq(Events \cup {Sentinel}) /\ indexing \in {0} \cup Events
    /\ indexer \in {"off", "on", "ended"} /\ indexStop \in {"no", "refusing", "sent"}
    /\ admitted \in Seq(Events) /\ handled \in Seq(Events)

Types == MainTypes /\ ClientTypes /\ EventTypes /\ TurnTypes /\ IndexTypes

LEMMA TypesAreTypeOK == Types <=> TypeOK
BY CloseOrderFacts DEF Types, MainTypes, ClientTypes, EventTypes, TurnTypes, IndexTypes,
                       TypeOK, Mains, AllParts

(* Tasks of a turn are events.                                             *)
LEMMA TasksAreEvents ==
    ASSUME NEW s \in Seq(Events), NEW n \in 0..Len(s), NEW tasks \in [1..n -> Range(s)]
    PROVE  tasks \in Seq(Events)
<1>1. Range(s) \subseteq Events
  BY DEF Range
<1>2. tasks \in [1..n -> Events] /\ n \in Nat
  BY <1>1
<1>3. QED
  BY <1>2

LEMMA PartOf ==
    ASSUME NEW S, NEW s \in Seq(S), NEW m \in Nat, NEW n \in Nat, m >= 1, n <= Len(s)
    PROVE  SubSeq(s, m, n) \in Seq(S)
<1>1. \A i \in m..n : s[i] \in S
  OBVIOUS
<1>2. QED
  BY <1>1, SubSeqProperties

(* What is published adds events to the index queue.                       *)
LEMMA EnqueueTypes ==
    ASSUME Types, NEW tasks \in Seq(Events), EnqueueTasks(tasks)
    PROVE  /\ indexQueue' \in Seq(Events \cup {Sentinel}) /\ admitted' \in Seq(Events)
           /\ \E some \in Seq(Events) :
                 /\ indexQueue' = indexQueue \o some /\ admitted' = admitted \o some
                 /\ indexStop # "no" => some = <<>>
<1> DEFINE room == IF indexStop # "no" \/ indexer = "off" THEN 0
                   ELSE IndexMax - Len(indexQueue)
           n == IF room < Len(tasks) THEN room ELSE Len(tasks)
           some == SubSeq(tasks, 1, n)
<1>1. indexQueue' = indexQueue \o some /\ admitted' = admitted \o some
  BY DEF EnqueueTasks, Queued
<1>2. /\ indexQueue \in Seq(Events \cup {Sentinel}) /\ Len(indexQueue) \in Nat
      /\ admitted \in Seq(Events)
  BY DEF Types, IndexTypes
<1>3. n \in Int /\ n <= Len(tasks) /\ Len(tasks) \in Nat
  BY <1>2, Bounds
<1>4. indexStop # "no" => n = 0
  BY <1>3
<1> HIDE DEF n
<1>5. \A i \in 1..n : tasks[i] \in Events
  BY <1>3
<1>6. some \in Seq(Events)
  BY <1>3, <1>5, SubSeqProperties
<1>7. indexStop # "no" => some = <<>>
  BY <1>4, SubSeqEmpty
<1> HIDE DEF some
<1>8. some \in Seq(Events \cup {Sentinel})
  BY <1>6
<1>9. indexQueue \o some \in Seq(Events \cup {Sentinel}) /\ admitted \o some \in Seq(Events)
  BY <1>2, <1>6, <1>8
<1>10. QED
  <2>1. /\ indexQueue' \in Seq(Events \cup {Sentinel}) /\ admitted' \in Seq(Events)
    BY <1>1, <1>9
  <2>2. \E e \in Seq(Events) : /\ indexQueue' = indexQueue \o e /\ admitted' = admitted \o e
                               /\ indexStop # "no" => e = <<>>
    BY <1>1, <1>6, <1>7
  <2>3. QED
    BY <2>1, <2>2

LEMMA MainTypesNext ==
    ASSUME Types, [Next]_vars
    PROVE  MainTypes'
<1> USE CloseOrderFacts DEF Types, MainTypes, Mains
<1>1. CASE Assemble
  BY <1>1 DEF Assemble, Certain, Stores, AskedServers, Switches, AllParts, OptionalParts
<1>2. ASSUME NEW s \in servers, LoadServer(s) PROVE MainTypes'
  BY <1>2 DEF LoadServer
<1>3. CASE CreateGraph
  <2>1. \A t \in BuildTools(tools) : t.from = "builtin" \/ t \in tools
    BY DEF BuildTools
  <2>2. QED
    BY <1>3, <2>1 DEF CreateGraph, AllParts
<1>4. CASE Abort
  BY <1>4 DEF Abort, bootVars
<1>5. CASE Start \/ Interrupt
  BY <1>5 DEF Start, Interrupt, bootVars
<1>6. CASE ClientStep
  BY <1>6 DEF ClientStep, Connect, ConnectFails, InvalidURI, LoopEnds, Wake, RetryOrEnd,
              RunEnds, mainVars, bootVars
<1>7. CASE PlatformEvent \/ ConnectionLost \/ HandlerStep \/ StartTurn \/ FinishTurn
           \/ IndexStep \/ UNCHANGED vars \/ Over
  BY <1>7 DEF PlatformEvent, ConnectionLost, HandlerStep, Receive, Ignore, Put, StartTurn,
              FinishTurn, IndexStep, IndexTake, IndexDone, Over, vars, mainVars, bootVars
<1>8. CASE StopStep
  BY <1>8 DEF StopStep, ClosePipeline, RefuseTasks, StopIndex, JoinIndex, ClosePlatform,
              CloseResource, PartClosed, At, mainVars, bootVars
<1>9. QED
  BY <1>1, <1>2, <1>3, <1>4, <1>5, <1>6, <1>7, <1>8 DEF Next, BootStep

LEMMA ClientTypesNext ==
    ASSUME Types, [Next]_vars
    PROVE  ClientTypes'
<1> USE DEF Types, ClientTypes
<1>1. CASE ClientStep
  BY <1>1, Bounds DEF ClientStep, Connect, ConnectFails, InvalidURI, LoopEnds, Wake,
              RetryOrEnd, RunEnds, Retries, clientVars
<1>2. CASE Start \/ Interrupt \/ ConnectionLost
  BY <1>2 DEF Start, Interrupt, ConnectionLost
<1>3. CASE BootStep
  BY <1>3 DEF BootStep, Assemble, LoadServer, CreateGraph, Abort, clientVars
<1>4. CASE PlatformEvent \/ HandlerStep \/ StartTurn \/ FinishTurn \/ IndexStep
           \/ UNCHANGED vars \/ Over
  BY <1>4 DEF PlatformEvent, HandlerStep, Receive, Ignore, Put, StartTurn,
              FinishTurn, IndexStep, IndexTake, IndexDone, Over, vars, clientVars
<1>5. CASE StopStep
  BY <1>5 DEF StopStep, ClosePipeline, RefuseTasks, StopIndex, JoinIndex, ClosePlatform,
              CloseResource, PartClosed, clientVars
<1>6. QED
  BY <1>1, <1>2, <1>3, <1>4, <1>5 DEF Next

LEMMA EventTypesNext ==
    ASSUME Types, [Next]_vars
    PROVE  EventTypes'
<1> USE DEF Types, EventTypes
<1>1. CASE PlatformEvent
  <2>1. sent + 1 \in Events /\ sent + 1 \in 0..LastEvent
    BY <1>1, Bounds DEF PlatformEvent, Events
  <2>2. Append(wire, sent + 1) \in Seq(Events)
    BY <2>1
  <2>3. UNCHANGED hand /\ sent' = sent + 1
    BY <1>1 DEF PlatformEvent
  <2>4. wire' \in Seq(Events) /\ unheard' \subseteq Events
    BY <1>1, <2>1, <2>2 DEF PlatformEvent
  <2>5. QED
    BY <2>1, <2>3, <2>4
<1>2. CASE ConnectionLost
  <2>1. PICK n \in 0..Len(wire) :
          /\ wire' = SubSeq(wire, 1, n)
          /\ unheard' = unheard \cup {wire[i] : i \in (n + 1)..Len(wire)}
    BY <1>2 DEF ConnectionLost
  <2>2. wire' \in Seq(Events)
    <3>1. n \in Nat /\ n <= Len(wire)
      OBVIOUS
    <3>2. SubSeq(wire, 1, n) \in Seq(Events)
      BY <3>1, PartOf
    <3>3. QED
      BY <2>1, <3>2
  <2>3. \A i \in (n + 1)..Len(wire) : wire[i] \in Events
    OBVIOUS
  <2>4. QED
    BY <1>2, <2>1, <2>2, <2>3 DEF ConnectionLost
<1>3. CASE Receive
  <2>1. Head(wire) \in Events /\ Tail(wire) \in Seq(Events)
    BY <1>3, HeadTailProperties DEF Receive
  <2>2. QED
    BY <1>3, <2>1 DEF Receive
<1>4. CASE Ignore \/ Put \/ Interrupt
  BY <1>4 DEF Ignore, Put, Interrupt
<1>5. CASE BootStep \/ Start
  BY <1>5 DEF BootStep, Assemble, LoadServer, CreateGraph, Abort, Start, eventVars
<1>6. CASE ClientStep
  BY <1>6 DEF ClientStep, Connect, ConnectFails, InvalidURI, LoopEnds, Wake, eventVars
<1>7. CASE StartTurn \/ FinishTurn \/ IndexStep \/ UNCHANGED vars \/ Over
  BY <1>7 DEF StartTurn, FinishTurn, IndexStep, IndexTake, IndexDone, Over, vars, eventVars
<1>8. CASE StopStep
  BY <1>8 DEF StopStep, ClosePipeline, RefuseTasks, StopIndex, JoinIndex, ClosePlatform,
              CloseResource, PartClosed, eventVars
<1>9. QED
  BY <1>1, <1>2, <1>3, <1>4, <1>5, <1>6, <1>7, <1>8 DEF Next, HandlerStep

LEMMA TurnTypesNext ==
    ASSUME Types, [Next]_vars
    PROVE  TurnTypes'
<1> USE DEF Types, TurnTypes
<1>1. CASE Put
  <2>1. hand \in Events
    BY <1>1 DEF Put, EventTypes
  <2>2. QED
    BY <1>1, <2>1 DEF Put
<1>2. CASE StartTurn
  <2>1. PICK k \in 1..BatchMax : /\ k <= Len(pending) /\ turn' = SubSeq(pending, 1, k)
                                 /\ pending' = SubSeq(pending, k + 1, Len(pending))
    BY <1>2 DEF StartTurn
  <2>2. k \in Nat /\ Len(pending) \in Nat
    BY Bounds
  <2>3. turn' \in Seq(Events) /\ pending' \in Seq(Events)
    BY <2>1, <2>2, PartOf
  <2>4. QED
    BY <1>2, <2>3 DEF StartTurn
<1>3. CASE FinishTurn
  BY <1>3 DEF FinishTurn
<1>4. CASE BootStep \/ Start \/ ClientStep
  BY <1>4 DEF BootStep, Assemble, LoadServer, CreateGraph, Abort, Start,
              ClientStep, Connect, ConnectFails, InvalidURI, LoopEnds, Wake, turnVars
<1>5. CASE PlatformEvent \/ ConnectionLost \/ Interrupt \/ Receive \/ Ignore \/ IndexStep
           \/ UNCHANGED vars \/ Over
  BY <1>5 DEF PlatformEvent, ConnectionLost, Interrupt, Receive, Ignore, IndexStep,
              IndexTake, IndexDone, Over, vars, turnVars
<1>6. CASE StopStep
  BY <1>6 DEF StopStep, ClosePipeline, RefuseTasks, StopIndex, JoinIndex, ClosePlatform,
              CloseResource, PartClosed, turnVars
<1>7. QED
  BY <1>1, <1>2, <1>3, <1>4, <1>5, <1>6 DEF Next, HandlerStep

LEMMA IndexTypesNext ==
    ASSUME Types, [Next]_vars
    PROVE  IndexTypes'
<1> USE DEF Types, IndexTypes
<1>1. CASE FinishTurn
  <2>1. CASE UNCHANGED <<indexQueue, admitted>>
    BY <1>1, <2>1 DEF FinishTurn
  <2>2. ASSUME NEW n \in 0..Len(turn), NEW tasks \in [1..n -> Range(turn)],
               EnqueueTasks(tasks)
        PROVE  IndexTypes'
    <3>1. tasks \in Seq(Events)
      BY TasksAreEvents DEF TurnTypes
    <3>2. QED
      BY <1>1, <2>2, <3>1, EnqueueTypes DEF FinishTurn
  <2>3. QED
    BY <1>1, <2>1, <2>2 DEF FinishTurn
<1>2. CASE IndexTake
  <2>1. Head(indexQueue) \in Events \cup {Sentinel} /\ Tail(indexQueue) \in Seq(Events \cup {Sentinel})
    BY <1>2, HeadTailProperties DEF IndexTake
  <2>2. QED
    BY <1>2, <2>1 DEF IndexTake
<1>3. CASE IndexDone
  <2>1. indexing \in Events
    BY <1>3 DEF IndexDone
  <2>2. QED
    BY <1>3, <2>1 DEF IndexDone
<1>4. CASE Start
  BY <1>4 DEF Start
<1>5. CASE BootStep \/ ClientStep \/ Interrupt \/ PlatformEvent \/ ConnectionLost
           \/ HandlerStep \/ StartTurn \/ UNCHANGED vars \/ Over
  BY <1>5 DEF BootStep, Assemble, LoadServer, CreateGraph, Abort,
              ClientStep, Connect, ConnectFails, InvalidURI, LoopEnds, Wake, Interrupt,
              PlatformEvent, ConnectionLost, HandlerStep, Receive, Ignore, Put, StartTurn,
              Over, vars, indexVars
<1>6. CASE StopIndex \/ RefuseTasks
  <2>1. Append(indexQueue, Sentinel) \in Seq(Events \cup {Sentinel})
    OBVIOUS
  <2>2. indexQueue' \in Seq(Events \cup {Sentinel})
    BY <1>6, <2>1 DEF StopIndex, RefuseTasks, SentinelQueued
  <2>3. UNCHANGED <<indexer, indexing, admitted, handled>> /\ indexStop' \in {"refusing", "sent"}
    BY <1>6 DEF StopIndex, RefuseTasks
  <2>4. QED
    BY <2>2, <2>3
<1>7. CASE ClosePipeline \/ JoinIndex \/ ClosePlatform \/ CloseResource
  BY <1>7 DEF ClosePipeline, JoinIndex, ClosePlatform, CloseResource, PartClosed, indexVars
<1>8. QED
  BY <1>1, <1>2, <1>3, <1>4, <1>5, <1>6, <1>7 DEF Next, IndexStep, StopStep

LEMMA TypesNext ==
    ASSUME Types, [Next]_vars
    PROVE  Types'
BY MainTypesNext, ClientTypesNext, EventTypesNext, TurnTypesNext, IndexTypesNext DEF Types

LEMMA InitTypes == Init => Types
<1> SUFFICES ASSUME Init PROVE Types
  OBVIOUS
<1>1. MainTypes
  <2>1. /\ main = "new" /\ closing = 1 /\ told = FALSE
        /\ parts = {} /\ servers = {} /\ tools = {}
    BY DEF Init
  <2>2. main \in Mains /\ closing \in 1..9
    BY <2>1 DEF Mains
  <2>3. told \in BOOLEAN
    BY <2>1
  <2>4. parts \subseteq AllParts /\ servers \subseteq DOMAIN Servers
    BY <2>1
  <2>5. \A t \in tools : t.from \in {"builtin"} \cup DOMAIN Servers
    BY <2>1
  <2>6. QED
    BY <2>2, <2>3, <2>4, <2>5 DEF MainTypes
<1>2. ClientTypes
  BY Bounds DEF Init, ClientTypes
<1>3. EventTypes
  BY Bounds DEF Init, EventTypes
<1>4. TurnTypes /\ IndexTypes
  BY DEF Init, TurnTypes, IndexTypes
<1>5. QED
  BY <1>1, <1>2, <1>3, <1>4 DEF Types

-----------------------------------------------------------------------------
(* Phases: what the other parts can be doing while main is where it is     *)

Phase ==
    /\ main \in {"new", "booting", "ready"} => indexer = "off"
    /\ main \in {"new", "booting", "ready", "aborted"} => turn = <<>> /\ pending = <<>>
    /\ main \in {"new", "booting", "ready", "running", "aborted"}
          => closing = 1 /\ indexStop = "no"
    /\ client \in {"connecting", "receiving", "sleeping"} => main = "running"
    /\ hand # 0 => client = "receiving"
    /\ closing > 1 => turn = <<>> /\ pending = <<>>
    /\ indexStop # "no" => closing > 1

LEMMA PhaseNext ==
    ASSUME Types, Phase, [Next]_vars
    PROVE  Phase'
<1>t. /\ main \in Mains /\ closing \in 1..9
      /\ client \in {"off", "connecting", "receiving", "sleeping", "returned"}
  BY DEF Types, MainTypes, ClientTypes
<1> USE DEF Phase, Mains
<1>1. CASE BootStep
  BY <1>1, <1>t DEF BootStep, Assemble, LoadServer, CreateGraph, Abort, clientVars, eventVars,
              turnVars, indexVars, bootVars
<1>2. CASE Start
  BY <1>2, <1>t DEF Start, eventVars, turnVars, bootVars
<1>3. CASE ClientStep
  BY <1>3, <1>t DEF ClientStep, Connect, ConnectFails, InvalidURI, LoopEnds, Wake,
              RetryOrEnd, RunEnds, mainVars, bootVars, eventVars, turnVars, indexVars
<1>4. CASE Interrupt
  BY <1>4, <1>t DEF Interrupt, turnVars, indexVars, bootVars
<1>5. CASE PlatformEvent \/ ConnectionLost \/ Receive \/ Ignore
  BY <1>5, <1>t DEF PlatformEvent, ConnectionLost, Receive, Ignore, clientVars, turnVars,
              indexVars, mainVars
<1>6. CASE Put
  BY <1>6, <1>t DEF Put, clientVars, indexVars, mainVars
<1>7. CASE StartTurn
  <2>1. pending # <<>>
    <3>1. PICK k \in 1..BatchMax : k <= Len(pending)
      BY <1>7 DEF StartTurn
    <3>2. QED
      BY <3>1, Bounds
  <2>2. QED
    BY <1>7, <1>t, <2>1 DEF StartTurn, eventVars, clientVars, indexVars, mainVars
<1>8. CASE FinishTurn
  BY <1>8, <1>t DEF FinishTurn, eventVars, clientVars, mainVars
<1>9. CASE IndexStep
  BY <1>9, <1>t DEF IndexStep, IndexTake, IndexDone, eventVars, clientVars, turnVars, mainVars
<1>10. CASE StopStep
  <2>1. CASE ClosePipeline
    <3>1. main = "stopping" /\ closing = 1 /\ pending = <<>> /\ turn = <<>>
      BY <2>1, <1>t, CloseOrderFacts DEF ClosePipeline, At, PipelineDrained
    <3>2. /\ closing' = 2 /\ main' = main
          /\ UNCHANGED <<clientVars, eventVars, turnVars, indexVars>>
      BY <2>1, <3>1, CloseOrderFacts DEF ClosePipeline, PartClosed
    <3>3. QED
      BY <3>1, <3>2, <1>t DEF clientVars, eventVars, turnVars, indexVars
  <2>2. CASE RefuseTasks
    <3>1. main = "stopping" /\ closing = 2
      BY <2>2, <1>t, CloseOrderFacts DEF RefuseTasks, At
    <3>2. QED
      BY <2>2, <3>1 DEF RefuseTasks, mainVars, eventVars, clientVars, turnVars
  <2>3. CASE StopIndex
    BY <2>3, <1>t DEF StopIndex, mainVars, eventVars, clientVars, turnVars
  <2>4. CASE JoinIndex \/ CloseResource
    <3>1. main = "stopping" /\ closing > 1
      BY <2>4, <1>t, CloseOrderFacts DEF JoinIndex, CloseResource, At, OptionalParts
    <3>2. /\ closing' > 1 /\ main' \in {"stopping", "ended"}
          /\ UNCHANGED <<clientVars, eventVars, turnVars, indexVars>>
      BY <2>4, <3>1, <1>t, CloseOrderFacts DEF JoinIndex, CloseResource, PartClosed
    <3>3. QED
      BY <3>1, <3>2, <1>t DEF clientVars, eventVars, turnVars, indexVars
  <2>5. CASE ClosePlatform
    <3>1. main = "stopping" /\ closing > 1
      BY <2>5, <1>t, CloseOrderFacts DEF ClosePlatform, At
    <3>2. /\ closing' > 1 /\ main' \in {"stopping", "ended", "broken"}
          /\ UNCHANGED <<clientVars, eventVars, turnVars, indexVars>>
      BY <2>5, <3>1, <1>t, CloseOrderFacts DEF ClosePlatform, PartClosed
    <3>3. QED
      BY <3>1, <3>2, <1>t DEF clientVars, eventVars, turnVars, indexVars
  <2>6. QED
    BY <1>10, <2>1, <2>2, <2>3, <2>4, <2>5 DEF StopStep
<1>11. CASE Over \/ UNCHANGED vars
  BY <1>11 DEF Over, vars, clientVars, eventVars, turnVars, indexVars, mainVars
<1>12. QED
  BY <1>1, <1>2, <1>3, <1>4, <1>5, <1>6, <1>7, <1>8, <1>9, <1>10, <1>11
     DEF Next, HandlerStep

-----------------------------------------------------------------------------
(* What there is: parts, tools, and the index worker                       *)

Equipment ==
    /\ main \in {"new", "booting"} => \A t \in tools : t.from # "builtin"
    /\ \A t \in tools : t.from = "builtin" => Backing[t.name] \in parts
    /\ "index" \in parts => "rag" \in parts
    /\ indexer = "on" => "index" \in parts
    /\ indexing # 0 => indexer = "on"
    /\ indexer = "ended" => indexQueue = <<>> /\ indexStop = "sent"
    /\ closing > 2 /\ "index" \in parts => indexer = "ended"

(* What is queued: first what was admitted and is not worked on yet, then  *)
(* the mark that ends the worker, once stop() has put it.                  *)
InWork == IF indexing = 0 THEN <<>> ELSE <<indexing>>
Mark == IF indexStop = "sent" /\ indexer # "ended" THEN <<Sentinel>> ELSE <<>>

Backlog ==
    \E w \in Seq(Events) : indexQueue = w \o Mark /\ admitted = handled \o InWork \o w

ProcessInv == Types /\ Phase /\ Equipment /\ Backlog

(* A step that touches nothing of the kind.                                *)
LEMMA QuietStep ==
    ASSUME Equipment, Backlog,
           UNCHANGED <<bootVars, closing, indexVars>>,
           main' \in {"new", "booting"} => main \in {"new", "booting"}
    PROVE  Equipment' /\ Backlog'
BY DEF Equipment, Backlog, Mark, InWork, bootVars, indexVars

LEMMA BootEquipment ==
    ASSUME ProcessInv, BootStep
    PROVE  Equipment' /\ Backlog'
<1>1. Backlog'
  BY DEF BootStep, Assemble, LoadServer, CreateGraph, Abort, indexVars, ProcessInv,
         Backlog, Mark, InWork
<1>2. CASE Assemble
  <2>1. main = "new" /\ indexer = "off" /\ closing = 1
    BY <1>2 DEF Assemble, ProcessInv, Phase
  <2>2. "index" \in parts' => "rag" \in parts'
    BY <1>2 DEF Assemble, Stores, Certain
  <2>3. QED
    BY <1>1, <1>2, <2>1, <2>2 DEF Assemble, ProcessInv, Equipment, indexVars
<1>3. ASSUME NEW s \in servers, LoadServer(s) PROVE Equipment'
  <2>1. s # "builtin"
    BY Bounds DEF ProcessInv, Types, MainTypes
  <2>2. \A t \in tools' : t \in tools \/ t.from = s
    BY <1>3 DEF LoadServer
  <2>3. QED
    BY <1>3, <2>1, <2>2 DEF LoadServer, ProcessInv, Equipment, indexVars
<1>4. CASE CreateGraph
  <2>1. \A t \in tools' : t \in tools \/ (t.from = "builtin" /\ Backing[t.name] \in parts)
    BY <1>4 DEF CreateGraph, BuildTools
  <2>2. parts' = parts \cup {"checkpointer"} /\ main = "booting" /\ main' = "ready"
    BY <1>4 DEF CreateGraph
  <2>3. indexer = "off" /\ closing = 1
    BY <2>2 DEF ProcessInv, Phase
  <2>4. "index" \in parts' => "rag" \in parts'
    BY <2>2 DEF ProcessInv, Equipment
  <2>5. UNCHANGED <<closing, indexVars>>
    BY <1>4 DEF CreateGraph
  <2>6. QED
    BY <1>1, <2>1, <2>2, <2>3, <2>4, <2>5 DEF ProcessInv, Equipment, indexVars
<1>5. CASE Abort
  BY <1>5, QuietStep DEF Abort, ProcessInv
<1>6. QED
  BY <1>1, <1>2, <1>3, <1>4, <1>5 DEF BootStep

LEMMA StartEquipment ==
    ASSUME ProcessInv, Start
    PROVE  Equipment' /\ Backlog'
<1>1. main = "ready" /\ indexer = "off" /\ indexStop = "no" /\ closing = 1
  BY DEF Start, ProcessInv, Phase
<1>2. /\ UNCHANGED <<bootVars, closing, indexQueue, indexing, indexStop, admitted, handled>>
      /\ indexer' = IF "index" \in parts THEN "on" ELSE "off"
      /\ main' = "running"
  BY DEF Start
<1>3. QED
  BY <1>1, <1>2 DEF ProcessInv, Equipment, Backlog, Mark, InWork, bootVars

LEMMA FinishTurnEquipment ==
    ASSUME ProcessInv, FinishTurn
    PROVE  Equipment' /\ Backlog'
<1>1. UNCHANGED <<bootVars, main, closing, indexer, indexing, indexStop, handled>>
  BY DEF FinishTurn, mainVars
<1>2. CASE UNCHANGED <<indexQueue, admitted>>
  BY <1>1, <1>2, QuietStep DEF ProcessInv, indexVars
<1>3. ASSUME NEW n \in 0..Len(turn), NEW tasks \in [1..n -> Range(turn)],
             EnqueueTasks(tasks)
      PROVE  Equipment' /\ Backlog'
  <2>1. tasks \in Seq(Events)
    BY TasksAreEvents DEF ProcessInv, Types, TurnTypes
  <2>2. PICK some \in Seq(Events) :
          /\ indexQueue' = indexQueue \o some /\ admitted' = admitted \o some
          /\ indexStop # "no" => some = <<>>
    BY <1>3, <2>1, EnqueueTypes DEF ProcessInv
  <2>3. indexQueue \in Seq(Events \cup {Sentinel}) /\ handled \in Seq(Events)
        /\ admitted \in Seq(Events) /\ InWork \in Seq(Events)
    BY DEF ProcessInv, Types, IndexTypes, InWork
  <2>4. PICK w \in Seq(Events) : indexQueue = w \o Mark /\ admitted = handled \o InWork \o w
    BY DEF ProcessInv, Backlog
  <2>5. CASE indexStop # "no"
    <3>1. indexQueue' = indexQueue /\ admitted' = admitted
      BY <2>2, <2>3, <2>5
    <3>2. QED
      BY <1>1, <3>1, QuietStep DEF ProcessInv, indexVars
  <2>6. CASE indexStop = "no"
    <3>1. Mark = <<>> /\ Mark' = <<>> /\ InWork' = InWork /\ indexer # "ended"
      BY <1>1, <2>6 DEF Mark, InWork, ProcessInv, Equipment
    <3>2. w \o some \in Seq(Events)
      OBVIOUS
    <3>3. indexQueue' = (w \o some) \o <<>>
      BY <2>2, <2>4, <3>1, <3>2
    <3>4. admitted' = handled \o InWork \o (w \o some)
      <4> DEFINE before == handled \o InWork
      <4>1. before \in Seq(Events)
        BY <2>3
      <4>2. admitted' = (before \o w) \o some
        BY <2>2, <2>4
      <4> HIDE DEF before
      <4>3. (before \o w) \o some = before \o (w \o some)
        BY <4>1, ConcatAssociative
      <4>4. QED
        BY <4>2, <4>3 DEF before
    <3>5. Backlog'
      BY <1>1, <3>1, <3>2, <3>3, <3>4 DEF Backlog
    <3>6. Equipment'
      BY <1>1, <3>1 DEF ProcessInv, Equipment, bootVars
    <3>7. QED
      BY <3>5, <3>6
  <2>7. QED
    BY <2>5, <2>6
<1>4. QED
  BY <1>2, <1>3 DEF FinishTurn

LEMMA IndexTakeEquipment ==
    ASSUME ProcessInv, IndexTake
    PROVE  Equipment' /\ Backlog'
<1>1. /\ UNCHANGED <<bootVars, main, closing, indexStop, admitted, handled>>
      /\ indexer = "on" /\ indexing = 0 /\ indexQueue # <<>>
      /\ indexQueue' = Tail(indexQueue)
  BY DEF IndexTake, mainVars
<1>2. PICK w \in Seq(Events) : indexQueue = w \o Mark /\ admitted = handled \o InWork \o w
  BY DEF ProcessInv, Backlog
<1>3. handled \in Seq(Events) /\ InWork = <<>> /\ admitted = handled \o w
  BY <1>1, <1>2 DEF ProcessInv, Types, IndexTypes, InWork
<1>4. Sentinel \notin Events /\ 0 \notin Events
  BY DEF Sentinel, Events
<1>5. CASE w = <<>>
  (* Only the mark is left: the worker ends.                               *)
  <2>1. indexStop = "sent" /\ indexQueue = <<Sentinel>>
    <3>1. indexQueue = Mark
      BY <1>2, <1>5 DEF Mark
    <3>2. QED
      BY <1>1, <3>1 DEF Mark
  <2>2. indexer' = "ended" /\ indexing' = indexing /\ indexQueue' = <<>>
    BY <1>1, <2>1 DEF IndexTake
  <2>3. Mark' = <<>> /\ InWork' = <<>> /\ admitted = handled \o <<>> \o <<>>
    BY <1>1, <1>3, <1>5, <2>2 DEF Mark, InWork
  <2>4. Backlog'
    <3>1. <<>> \in Seq(Events) /\ indexQueue' = <<>> \o Mark'
      BY <2>2, <2>3
    <3>2. admitted' = handled' \o InWork' \o <<>>
      BY <1>1, <2>3
    <3>3. QED
      BY <3>1, <3>2 DEF Backlog
  <2>5. Equipment'
    BY <1>1, <2>1, <2>2 DEF ProcessInv, Equipment, bootVars
  <2>6. QED
    BY <2>4, <2>5
<1>6. CASE w # <<>>
  <2>1. Head(w) \in Events /\ Tail(w) \in Seq(Events) /\ w = <<Head(w)>> \o Tail(w)
    BY <1>6
  <2>2. Mark \in Seq({Sentinel})
    <3>1. <<Sentinel>> \in Seq({Sentinel}) /\ <<>> \in Seq({Sentinel})
      OBVIOUS
    <3>2. Mark = <<Sentinel>> \/ Mark = <<>>
      BY DEF Mark
    <3>3. QED
      BY <3>1, <3>2
  <2>3. Head(indexQueue) = Head(w) /\ Tail(indexQueue) = Tail(w) \o Mark
    BY <1>2, <1>6, <2>1, <2>2
  <2>4. indexing' = Head(w) /\ indexer' = indexer
    BY <1>4, <2>1, <2>3 DEF IndexTake
  <2>5. Mark' = Mark /\ InWork' = <<Head(w)>>
    BY <1>1, <1>4, <2>1, <2>4 DEF Mark, InWork
  <2>6. admitted' = handled' \o InWork' \o Tail(w)
    <3>1. (handled \o <<Head(w)>>) \o Tail(w) = handled \o (<<Head(w)>> \o Tail(w))
      BY <1>3, <2>1
    <3>2. QED
      BY <1>1, <1>3, <2>1, <2>5, <3>1
  <2>7. Backlog'
    BY <1>1, <2>1, <2>3, <2>5, <2>6 DEF Backlog
  <2>8. Equipment'
    BY <1>1, <2>4 DEF ProcessInv, Equipment, bootVars
  <2>9. QED
    BY <2>7, <2>8
<1>7. QED
  BY <1>5, <1>6

LEMMA IndexDoneEquipment ==
    ASSUME ProcessInv, IndexDone
    PROVE  Equipment' /\ Backlog'
<1>1. /\ UNCHANGED <<bootVars, main, closing, indexStop, admitted, indexQueue, indexer>>
      /\ indexing # 0 /\ indexing' = 0 /\ handled' = Append(handled, indexing)
  BY DEF IndexDone, mainVars
<1>2. PICK w \in Seq(Events) : indexQueue = w \o Mark /\ admitted = handled \o InWork \o w
  BY DEF ProcessInv, Backlog
<1>3. handled \in Seq(Events) /\ indexing \in Events /\ InWork = <<indexing>>
  BY <1>1 DEF ProcessInv, Types, IndexTypes, InWork
<1>4. InWork' = <<>> /\ Mark' = Mark
  BY <1>1 DEF InWork, Mark
<1>5. handled' = handled \o InWork /\ handled' \in Seq(Events)
  BY <1>1, <1>3
<1>6. handled' \o InWork' = handled'
  BY <1>4, <1>5
<1>7. Backlog'
  BY <1>1, <1>2, <1>4, <1>5, <1>6 DEF Backlog
<1>8. Equipment'
  BY <1>1 DEF ProcessInv, Equipment, bootVars
<1>9. QED
  BY <1>7, <1>8

LEMMA StopEquipment ==
    ASSUME ProcessInv, StopStep
    PROVE  Equipment' /\ Backlog'
<1>t. closing \in 1..9
  BY DEF ProcessInv, Types, MainTypes
<1>1. CASE RefuseTasks
  <2>1. indexStop = "no" /\ indexStop' = "refusing"
        /\ UNCHANGED <<bootVars, main, closing, indexQueue, indexer, indexing, admitted, handled>>
    BY <1>1 DEF RefuseTasks, mainVars
  <2>2. QED
    BY <2>1 DEF ProcessInv, Equipment, Backlog, Mark, InWork, bootVars
<1>2. CASE StopIndex
  <2>1. /\ indexStop = "refusing" /\ indexStop' = "sent" /\ indexQueue' = Append(indexQueue, Sentinel)
        /\ UNCHANGED <<bootVars, main, closing, indexer, indexing, admitted, handled>>
    BY <1>2 DEF StopIndex, SentinelQueued, mainVars
  <2>2. PICK w \in Seq(Events) : indexQueue = w \o Mark /\ admitted = handled \o InWork \o w
    BY DEF ProcessInv, Backlog
  <2>3. indexer # "ended" /\ Mark = <<>> /\ Mark' = <<Sentinel>> /\ InWork' = InWork
    BY <2>1 DEF ProcessInv, Equipment, Mark, InWork
  <2>4. indexQueue' = w \o Mark'
    BY <2>1, <2>2, <2>3
  <2>5. Backlog'
    BY <2>1, <2>2, <2>3, <2>4 DEF Backlog
  <2>6. Equipment'
    BY <2>1, <2>3 DEF ProcessInv, Equipment, bootVars
  <2>7. QED
    BY <2>5, <2>6
<1>3. CASE ClosePipeline \/ JoinIndex \/ ClosePlatform \/ CloseResource
  <2>1. UNCHANGED <<bootVars, indexVars>> /\ main = "stopping"
    BY <1>3 DEF ClosePipeline, JoinIndex, ClosePlatform, CloseResource, PartClosed, At
  <2>2. main' \in {"stopping", "ended", "broken"}
    BY <1>3, <2>1 DEF ClosePipeline, JoinIndex, ClosePlatform, CloseResource, PartClosed
  <2>3. Backlog'
    BY <2>1 DEF ProcessInv, Backlog, Mark, InWork, indexVars
  <2>4. closing' > 2 /\ "index" \in parts => indexer = "ended"
    <3>1. CASE closing > 2
      BY <3>1 DEF ProcessInv, Equipment
    <3>2. CASE JoinIndex
      BY <3>2 DEF JoinIndex, IndexJoined
    <3>3. CASE closing <= 2 /\ ClosePipeline
      <4>1. closing = 1
        BY <1>t, <3>3, CloseOrderFacts DEF ClosePipeline, At
      <4>2. QED
        BY <3>3, <4>1 DEF ClosePipeline, PartClosed
    <3>4. CASE closing <= 2 /\ ClosePlatform
      BY <1>t, <3>4, CloseOrderFacts DEF ClosePlatform, At
    <3>5. CASE closing <= 2 /\ CloseResource
      <4>1. closing = 2 /\ "index" \notin parts
        BY <1>t, <3>5, CloseOrderFacts DEF CloseResource, At, OptionalParts
      <4>2. QED
        BY <4>1
    <3>6. QED
      BY <1>t, <1>3, <3>1, <3>2, <3>3, <3>4, <3>5
  <2>5. Equipment'
    BY <2>1, <2>2, <2>4 DEF ProcessInv, Equipment, bootVars, indexVars
  <2>6. QED
    BY <2>3, <2>5
<1>4. QED
  BY <1>1, <1>2, <1>3 DEF StopStep

LEMMA EquipmentNext ==
    ASSUME ProcessInv, [Next]_vars
    PROVE  Equipment' /\ Backlog'
<1>1. CASE BootStep \/ Start \/ FinishTurn \/ IndexStep \/ StopStep
  BY <1>1, BootEquipment, StartEquipment, FinishTurnEquipment, IndexTakeEquipment,
     IndexDoneEquipment, StopEquipment DEF IndexStep
<1>2. CASE ClientStep \/ Interrupt
  <2>1. UNCHANGED <<bootVars, closing, indexVars>>
    BY <1>2 DEF ClientStep, Connect, ConnectFails, InvalidURI, LoopEnds, Wake, RetryOrEnd,
                RunEnds, mainVars, Interrupt
  <2>2. main' = main \/ main' = "stopping"
    BY <1>2 DEF ClientStep, Connect, ConnectFails, InvalidURI, LoopEnds, Wake, RetryOrEnd,
                RunEnds, mainVars, Interrupt
  <2>3. QED
    BY <2>1, <2>2, QuietStep DEF ProcessInv
<1>3. CASE PlatformEvent \/ ConnectionLost \/ HandlerStep \/ StartTurn \/ Over \/ UNCHANGED vars
  <2>1. UNCHANGED <<mainVars, indexVars>>
    BY <1>3 DEF PlatformEvent, ConnectionLost, HandlerStep, Receive, Ignore, Put, StartTurn,
                Over, vars
  <2>2. QED
    BY <2>1, QuietStep DEF ProcessInv, mainVars
<1>4. QED
  BY <1>1, <1>2, <1>3 DEF Next

LEMMA InitInv == Init => ProcessInv
<1> SUFFICES ASSUME Init PROVE ProcessInv
  OBVIOUS
<1>1. Phase
  BY DEF Init, Phase
<1>2. Equipment
  BY DEF Init, Equipment
<1>3. Backlog
  <2>1. Mark = <<>> /\ InWork = <<>> /\ indexQueue = <<>> /\ admitted = <<>> /\ handled = <<>>
    BY DEF Init, Mark, InWork
  <2>2. <<>> \in Seq(Events) /\ <<>> = <<>> \o <<>>
    OBVIOUS
  <2>3. QED
    BY <2>1, <2>2 DEF Backlog
<1>4. QED
  BY <1>1, <1>2, <1>3, InitTypes DEF ProcessInv

LEMMA InvNext == ProcessInv /\ [Next]_vars => ProcessInv'
BY TypesNext, PhaseNext, EquipmentNext DEF ProcessInv

LEMMA InvAlways == Spec => []ProcessInv
BY InitInv, InvNext, PTL DEF Spec

-----------------------------------------------------------------------------
(* What follows                                                            *)

LEMMA PrefixOf ==
    ASSUME NEW S, NEW s \in Seq(S), NEW t \in Seq(S)
    PROVE  IsPrefix(s, s \o t)
<1>1. Len(s) \in Nat /\ Len(s \o t) >= Len(s)
  OBVIOUS
<1>2. \A i \in 1..Len(s) : (s \o t)[i] = s[i]
  OBVIOUS
<1>3. SubSeq(s \o t, 1, Len(s)) = SubSeq(s, 1, Len(s))
  BY <1>1, <1>2
<1>4. QED
  BY <1>1, <1>3 DEF IsPrefix

(* IndexWorker: whatever is published and whenever the bot is stopped, the *)
(* worker handles what was admitted, in order, and all of it before its    *)
(* stop() returns.                                                         *)
THEOREM IndexNeverLoses == Spec => []IndexDrained
<1>1. ProcessInv => IndexDrained
  <2> SUFFICES ASSUME ProcessInv PROVE IndexDrained
    OBVIOUS
  <2>1. PICK w \in Seq(Events) : indexQueue = w \o Mark /\ admitted = handled \o InWork \o w
    BY DEF ProcessInv, Backlog
  <2>2. handled \in Seq(Events) /\ InWork \in Seq(Events)
    BY DEF ProcessInv, Types, IndexTypes, InWork
  <2>3. IsPrefix(handled, admitted)
    <3>1. InWork \o w \in Seq(Events) /\ admitted = handled \o (InWork \o w)
      BY <2>1, <2>2
    <3>2. QED
      BY <2>2, <3>1, PrefixOf
  <2>4. ASSUME Closed("index"), "index" \in parts
        PROVE  handled = admitted /\ indexQueue = <<>>
    <3>1. closing > 2
      BY <2>4, CloseOrderFacts DEF Closed, ProcessInv, Types, MainTypes
    <3>2. indexer = "ended" /\ indexQueue = <<>> /\ indexing = 0
      BY <2>4, <3>1 DEF ProcessInv, Equipment
    <3>3. w = <<>> /\ InWork = <<>>
      BY <2>1, <3>2 DEF Mark, InWork
    <3>4. QED
      BY <2>1, <2>2, <3>2, <3>3
  <2>5. QED
    BY <2>3, <2>4 DEF IndexDrained
<1>2. QED
  BY <1>1, InvAlways, PTL

(* BotApplication.stop, create_app and build_tools: no turn is worked on   *)
(* after anything it needs was closed, nor with a tool of a part that is   *)
(* not there; no index task without an open store.                         *)
THEOREM NothingUsedTooLate == Spec => []UsedWhileOpen
<1>1. ProcessInv => UsedWhileOpen
  <2> SUFFICES ASSUME ProcessInv PROVE UsedWhileOpen
    OBVIOUS
  <2>1. closing \in 1..9
    BY DEF ProcessInv, Types, MainTypes
  <2>2. ASSUME turn # <<>>
        PROVE  /\ indexStop = "no"
               /\ \A t \in tools : t.from = "builtin" => Backing[t.name] \in parts
               /\ \A part \in OptionalParts \cup {"platform"} : ~Closed(part)
    <3>1. closing = 1
      BY <2>1, <2>2 DEF ProcessInv, Phase
    <3>2. QED
      BY <3>1 DEF ProcessInv, Phase, Equipment, Closed
  <2>3. ASSUME indexing # 0
        PROVE  "rag" \in parts /\ ~Closed("rag")
    <3>1. indexer = "on" /\ "index" \in parts /\ "rag" \in parts /\ closing <= 2
      BY <2>1, <2>3 DEF ProcessInv, Equipment
    <3>2. \A i \in 1..(closing - 1) : i = 1
      BY <2>1, <3>1
    <3>3. QED
      BY <3>1, <3>2, CloseOrderFacts DEF Closed
  <2>4. QED
    BY <2>2, <2>3 DEF UsedWhileOpen
<1>2. QED
  BY <1>1, InvAlways, PTL

-----------------------------------------------------------------------------
(* Events: where they are, and that they stay in order                     *)

Increasing(s) == \A i, j \in DOMAIN s : i < j => s[i] < s[j]

(* What was accepted is older than what is in its handler, and that is     *)
(* older than what is still on the wire.                                   *)
EventOrder ==
    /\ Increasing(accepted) /\ Increasing(wire)
    /\ hand # 0 => \A i \in DOMAIN accepted : accepted[i] < hand
    /\ \A j \in DOMAIN wire : hand < wire[j]
    /\ \A i \in DOMAIN accepted, j \in DOMAIN wire : accepted[i] < wire[j]

Placed ==
    /\ Range(wire) \cup ({hand} \ {0}) \cup Range(accepted) \cup unheard = 1..sent
    /\ (Range(wire) \cup {hand} \cup Range(accepted)) \cap unheard = {}

EventInv == EventOrder /\ Placed

LEMMA EventNumbers ==
    ASSUME NEW s \in Seq(Events)
    PROVE  \A i \in DOMAIN s : s[i] \in Events /\ s[i] \in Int /\ 0 < s[i]
<1>1. \A e \in Events : e \in Int /\ 0 < e
  BY Bounds DEF Events
<1>2. DOMAIN s = 1..Len(s) /\ \A i \in 1..Len(s) : s[i] \in Events
  OBVIOUS
<1>3. QED
  BY <1>1, <1>2

LEMMA AppendRange ==
    ASSUME NEW S, NEW s \in Seq(S), NEW e \in S
    PROVE  /\ Range(Append(s, e)) = Range(s) \cup {e}
           /\ DOMAIN Append(s, e) = 1..(Len(s) + 1) /\ DOMAIN s = 1..Len(s) /\ Len(s) \in Nat
           /\ Append(s, e)[Len(s) + 1] = e
           /\ \A i \in DOMAIN s : Append(s, e)[i] = s[i]
<1>1. /\ DOMAIN Append(s, e) = 1..(Len(s) + 1) /\ DOMAIN s = 1..Len(s) /\ Len(s) \in Nat
      /\ Append(s, e)[Len(s) + 1] = e
      /\ \A i \in DOMAIN s : Append(s, e)[i] = s[i]
  OBVIOUS
<1>2. \A x : x \in Range(Append(s, e)) <=> x \in Range(s) \cup {e}
  BY <1>1 DEF Range
<1>3. QED
  BY <1>1, <1>2

LEMMA TailRange ==
    ASSUME NEW S, NEW s \in Seq(S), s # <<>>
    PROVE  /\ Range(s) = {Head(s)} \cup Range(Tail(s))
           /\ DOMAIN Tail(s) = 1..(Len(s) - 1) /\ DOMAIN s = 1..Len(s) /\ Len(s) \in Nat
           /\ Len(s) >= 1 /\ Head(s) = s[1]
           /\ \A i \in DOMAIN Tail(s) : Tail(s)[i] = s[i + 1]
<1>1. /\ DOMAIN Tail(s) = 1..(Len(s) - 1) /\ DOMAIN s = 1..Len(s) /\ Len(s) \in Nat
      /\ Len(s) >= 1 /\ Head(s) = s[1]
      /\ \A i \in DOMAIN Tail(s) : Tail(s)[i] = s[i + 1]
  OBVIOUS
<1>2. ASSUME NEW i \in DOMAIN s
      PROVE  i = 1 \/ (i - 1 \in DOMAIN Tail(s) /\ Tail(s)[i - 1] = s[i])
  BY <1>1
<1>3. ASSUME NEW i \in DOMAIN Tail(s)
      PROVE  i + 1 \in DOMAIN s /\ Tail(s)[i] = s[i + 1]
  BY <1>1
<1>4. ASSUME NEW x \in Range(s)
      PROVE  x \in {Head(s)} \cup Range(Tail(s))
  <2>1. PICK i \in DOMAIN s : x = s[i]
    BY DEF Range
  <2>2. CASE i = 1
    BY <1>1, <2>1, <2>2
  <2>3. CASE i # 1
    <3>1. i - 1 \in DOMAIN Tail(s) /\ x = Tail(s)[i - 1]
      BY <1>2, <2>1, <2>3
    <3>2. QED
      BY <3>1 DEF Range
  <2>4. QED
    BY <2>2, <2>3
<1>5. \A x : x \in {Head(s)} \cup Range(Tail(s)) => x \in Range(s)
  BY <1>1, <1>3 DEF Range
<1>6. QED
  BY <1>1, <1>4, <1>5

(* A step that moves no event.                                             *)
LEMMA EventsQuiet ==
    ASSUME EventInv, UNCHANGED <<eventVars, accepted>>
    PROVE  EventInv'
BY DEF EventInv, EventOrder, Placed, Increasing, eventVars

LEMMA PlatformEventKeeps ==
    ASSUME Types, EventInv, PlatformEvent
    PROVE  EventInv'
<1>1. /\ sent \in Nat /\ sent' = sent + 1 /\ hand' = hand /\ accepted' = accepted
      /\ wire \in Seq(Events) /\ accepted \in Seq(Events)
      /\ sent + 1 \in Events
  BY Bounds DEF PlatformEvent, Types, EventTypes, TurnTypes, turnVars, Events
<1>2. \A x \in Range(wire) \cup ({hand} \ {0}) \cup Range(accepted) \cup unheard : x < sent + 1
  <2>1. Range(wire) \cup ({hand} \ {0}) \cup Range(accepted) \cup unheard = 1..sent
    BY DEF EventInv, Placed
  <2>2. \A x \in 1..sent : x < sent + 1
    BY <1>1
  <2>3. QED
    BY <2>1, <2>2
<1>3. 1..(sent + 1) = 1..sent \cup {sent + 1}
  BY <1>1
<1>4. \A i \in DOMAIN wire : wire[i] \in Range(wire)
  BY DEF Range
<1>5. \A i \in DOMAIN accepted : accepted[i] \in Range(accepted)
  BY DEF Range
<1>6. hand < sent + 1
  BY <1>1, <1>2
<1>7. CASE ws = "open"
  <2>1. wire' = Append(wire, sent + 1) /\ unheard' = unheard
    BY <1>7 DEF PlatformEvent
  <2>2. /\ Range(wire') = Range(wire) \cup {sent + 1}
        /\ DOMAIN wire' = 1..(Len(wire) + 1) /\ DOMAIN wire = 1..Len(wire)
        /\ Len(wire) \in Nat /\ wire'[Len(wire) + 1] = sent + 1
        /\ \A i \in DOMAIN wire : wire'[i] = wire[i]
    BY <1>1, <2>1, AppendRange
  <2>3. Placed'
    <3>1. sent + 1 \notin unheard
      BY <1>1, <1>2
    <3>2. QED
      BY <1>1, <1>3, <2>1, <2>2, <3>1 DEF EventInv, Placed
  <2>4. \A j \in DOMAIN wire' : j \in DOMAIN wire \/ (j = Len(wire) + 1 /\ wire'[j] = sent + 1)
    BY <2>2
  <2>5. Increasing(wire')
    BY <1>2, <1>4, <2>2, <2>4 DEF EventInv, EventOrder, Increasing
  <2>6. \A j \in DOMAIN wire' : hand < wire'[j]
    BY <1>6, <2>2, <2>4 DEF EventInv, EventOrder
  <2>7. \A i \in DOMAIN accepted, j \in DOMAIN wire' : accepted[i] < wire'[j]
    BY <1>2, <1>5, <2>2, <2>4 DEF EventInv, EventOrder
  <2>8. QED
    BY <1>1, <2>3, <2>5, <2>6, <2>7 DEF EventInv, EventOrder
<1>8. CASE ws # "open"
  <2>1. wire' = wire /\ unheard' = unheard \cup {sent + 1}
    BY <1>8 DEF PlatformEvent
  <2>2. sent + 1 \notin Range(wire) \cup {hand} \cup Range(accepted)
    BY <1>1, <1>2, <1>6
  <2>3. Placed'
    BY <1>1, <1>3, <2>1, <2>2 DEF EventInv, Placed
  <2>4. QED
    BY <1>1, <2>1, <2>3 DEF EventInv, EventOrder
<1>9. QED
  BY <1>7, <1>8

LEMMA ConnectionLostKeeps ==
    ASSUME Types, EventInv, ConnectionLost
    PROVE  EventInv'
<1>1. PICK n \in 0..Len(wire) :
        /\ wire' = SubSeq(wire, 1, n)
        /\ unheard' = unheard \cup {wire[i] : i \in (n + 1)..Len(wire)}
  BY DEF ConnectionLost
<1>2. /\ wire \in Seq(Events) /\ Len(wire) \in Nat /\ DOMAIN wire = 1..Len(wire)
      /\ n \in Nat /\ n <= Len(wire) /\ hand \in Int
  BY DEF Types, EventTypes, Events
<1>3. UNCHANGED <<sent, hand, accepted>>
  BY DEF ConnectionLost, turnVars
<1>4. \A i \in 1..n : wire[i] \in Events
  BY <1>2
<1>5. /\ DOMAIN wire' = 1..n
      /\ \A i \in 1..n : wire'[i] = wire[i]
  <2>1. wire' \in Seq(Events) /\ Len(wire') = n
    BY <1>1, <1>2, <1>4, SubSeqProperties
  <2>2. \A i \in 1..n : wire'[i] = wire[i]
    BY <1>1, <1>2
  <2>3. QED
    BY <2>1, <2>2
<1>6. Range(wire') \cup {wire[i] : i \in (n + 1)..Len(wire)} = Range(wire)
  <2>1. \A i \in DOMAIN wire : i \in 1..n \/ i \in (n + 1)..Len(wire)
    BY <1>2
  <2>2. \A i \in 1..n : i \in DOMAIN wire
    BY <1>2
  <2>3. \A i \in (n + 1)..Len(wire) : i \in DOMAIN wire
    BY <1>2
  <2>4. QED
    BY <1>5, <2>1, <2>2, <2>3 DEF Range
<1>7. ASSUME NEW i \in (n + 1)..Len(wire)
      PROVE  wire[i] \notin Range(wire') \cup {hand} \cup Range(accepted)
  <2>1. i \in DOMAIN wire /\ \A k \in 1..n : k \in DOMAIN wire /\ k < i
    BY <1>2
  <2>2. wire[i] \in Int /\ \A k \in DOMAIN wire : wire[k] \in Int
    BY <1>2, <2>1, EventNumbers
  <2>3. \A k \in 1..n : wire'[k] # wire[i]
    BY <1>5, <2>1, <2>2 DEF EventInv, EventOrder, Increasing
  <2>4. hand # wire[i]
    BY <1>2, <2>1, <2>2 DEF EventInv, EventOrder
  <2>5. \A k \in DOMAIN accepted : accepted[k] \in Int /\ accepted[k] # wire[i]
    <3>1. \A k \in DOMAIN accepted : accepted[k] \in Int
      BY EventNumbers DEF Types, TurnTypes
    <3>2. QED
      BY <2>1, <2>2, <3>1 DEF EventInv, EventOrder
  <2>6. QED
    BY <1>5, <2>3, <2>4, <2>5 DEF Range
<1>8. Placed'
  <2> DEFINE gone == {wire[i] : i \in (n + 1)..Len(wire)}
  <2>1. (Range(wire') \cup {hand} \cup Range(accepted)) \cap gone = {}
    BY <1>7
  <2>2. unheard' = unheard \cup gone /\ Range(wire') \cup gone = Range(wire)
    BY <1>1, <1>6
  <2> HIDE DEF gone
  <2>3. QED
    BY <1>3, <2>1, <2>2 DEF EventInv, Placed
<1>9. EventOrder'
  <2>1. \A i \in DOMAIN wire' : i \in DOMAIN wire /\ wire'[i] = wire[i]
    BY <1>2, <1>5
  <2>2. QED
    BY <1>3, <2>1 DEF EventInv, EventOrder, Increasing
<1>10. QED
  BY <1>8, <1>9 DEF EventInv

LEMMA ReceiveKeeps ==
    ASSUME Types, EventInv, Receive
    PROVE  EventInv'
<1>1. /\ hand = 0 /\ hand' = Head(wire) /\ wire' = Tail(wire) /\ wire # <<>>
      /\ UNCHANGED <<sent, unheard, accepted>>
  BY DEF Receive, HandFree, turnVars
<1>2. wire \in Seq(Events)
  BY DEF Types, EventTypes
<1>3. /\ Range(wire) = {hand'} \cup Range(wire')
      /\ DOMAIN wire' = 1..(Len(wire) - 1) /\ DOMAIN wire = 1..Len(wire)
      /\ Len(wire) \in Nat /\ Len(wire) >= 1 /\ hand' = wire[1]
      /\ \A i \in DOMAIN wire' : wire'[i] = wire[i + 1]
  BY <1>1, <1>2, TailRange
<1>4. hand' # 0
  <2>1. 1 \in DOMAIN wire
    BY <1>3
  <2>2. wire[1] \in Int /\ 0 < wire[1]
    BY <1>2, <2>1, EventNumbers
  <2>3. QED
    BY <1>3, <2>2
<1>5. Placed'
  BY <1>1, <1>3, <1>4 DEF EventInv, Placed
<1>6. \A i \in DOMAIN wire' : i + 1 \in DOMAIN wire /\ i + 1 > 1 /\ wire'[i] = wire[i + 1]
  BY <1>3
<1>7. 1 \in DOMAIN wire
  BY <1>3
<1>8. Increasing(wire')
  <2>1. \A i, j \in DOMAIN wire' : i < j => i + 1 < j + 1
    BY <1>3
  <2>2. QED
    BY <1>6, <2>1 DEF EventInv, EventOrder, Increasing
<1>9. \A j \in DOMAIN wire' : hand' < wire'[j]
  BY <1>3, <1>6, <1>7 DEF EventInv, EventOrder, Increasing
<1>10. \A i \in DOMAIN accepted : accepted[i] < hand'
  BY <1>3, <1>7 DEF EventInv, EventOrder
<1>11. \A i \in DOMAIN accepted, j \in DOMAIN wire' : accepted[i] < wire'[j]
  BY <1>6 DEF EventInv, EventOrder
<1>12. QED
  BY <1>1, <1>5, <1>8, <1>9, <1>10, <1>11 DEF EventInv, EventOrder

LEMMA PutKeeps ==
    ASSUME Types, EventInv, Put
    PROVE  EventInv'
<1>1. /\ hand # 0 /\ hand' = 0 /\ accepted' = Append(accepted, hand)
      /\ UNCHANGED <<sent, wire, unheard>>
  BY DEF Put
<1>2. hand \in Events /\ accepted \in Seq(Events) /\ wire \in Seq(Events)
      /\ unheard \subseteq Events
  BY <1>1 DEF Types, EventTypes, TurnTypes
<1>3. /\ Range(accepted') = Range(accepted) \cup {hand}
      /\ DOMAIN accepted' = 1..(Len(accepted) + 1) /\ DOMAIN accepted = 1..Len(accepted)
      /\ Len(accepted) \in Nat /\ accepted'[Len(accepted) + 1] = hand
      /\ \A i \in DOMAIN accepted : accepted'[i] = accepted[i]
  BY <1>1, <1>2, AppendRange
<1>4. Placed'
  <2>1. 0 \notin unheard
    BY <1>2 DEF Events
  <2>2. QED
    BY <1>1, <1>3, <2>1 DEF EventInv, Placed
<1>5. \A i \in DOMAIN accepted' :
        i \in DOMAIN accepted \/ (i = Len(accepted) + 1 /\ accepted'[i] = hand)
  BY <1>3
<1>6. Increasing(accepted')
  BY <1>1, <1>3, <1>5 DEF EventInv, EventOrder, Increasing
<1>7. \A j \in DOMAIN wire : 0 < wire[j]
  BY <1>2, EventNumbers
<1>8. \A i \in DOMAIN accepted', j \in DOMAIN wire : accepted'[i] < wire[j]
  BY <1>3, <1>5 DEF EventInv, EventOrder
<1>9. QED
  BY <1>1, <1>4, <1>6, <1>7, <1>8 DEF EventInv, EventOrder

(* The event in the handler is dropped: nothing in it, or main cancelled.  *)
LEMMA DropKeeps ==
    ASSUME Types, EventInv, Ignore \/ Interrupt
    PROVE  EventInv'
<1>1. /\ hand' = 0 /\ unheard' = unheard \cup ({hand} \ {0})
      /\ UNCHANGED <<sent, wire, accepted>>
  BY DEF Ignore, Interrupt, turnVars
<1>2. /\ accepted \in Seq(Events) /\ wire \in Seq(Events) /\ unheard \subseteq Events
      /\ hand \in {0} \cup Events
  BY DEF Types, EventTypes, TurnTypes
<1>3. \A j \in DOMAIN wire : wire[j] \in Int /\ 0 < wire[j] /\ hand # wire[j]
  <2>1. \A j \in DOMAIN wire : wire[j] \in Int /\ 0 < wire[j]
    BY <1>2, EventNumbers
  <2>2. hand \in Int
    BY <1>2 DEF Events
  <2>3. QED
    BY <2>1, <2>2 DEF EventInv, EventOrder
<1>4. hand # 0 => \A i \in DOMAIN accepted : accepted[i] # hand
  <2>1. hand \in Int
    BY <1>2 DEF Events
  <2>2. \A i \in DOMAIN accepted : accepted[i] \in Int
    BY <1>2, EventNumbers
  <2>3. QED
    BY <2>1, <2>2 DEF EventInv, EventOrder
<1>5. 0 \notin unheard \cup ({hand} \ {0})
  BY <1>2 DEF Events
<1>6. Placed'
  <2>1. (Range(wire) \cup Range(accepted)) \cap ({hand} \ {0}) = {}
    BY <1>3, <1>4 DEF Range
  <2>2. QED
    BY <1>1, <1>5, <2>1 DEF EventInv, Placed
<1>7. QED
  BY <1>1, <1>3, <1>6 DEF EventInv, EventOrder

LEMMA EventNext ==
    ASSUME Types, EventInv, [Next]_vars
    PROVE  EventInv'
<1>1. CASE PlatformEvent \/ ConnectionLost \/ Receive \/ Put \/ Ignore \/ Interrupt
  BY <1>1, PlatformEventKeeps, ConnectionLostKeeps, ReceiveKeeps, PutKeeps, DropKeeps
<1>2. CASE BootStep \/ Start \/ ClientStep \/ StartTurn \/ FinishTurn
  BY <1>2, EventsQuiet
     DEF BootStep, Assemble, LoadServer, CreateGraph, Abort, Start, ClientStep, Connect,
         ConnectFails, InvalidURI, LoopEnds, Wake, StartTurn, FinishTurn, turnVars
<1>3. CASE IndexStep \/ StopStep \/ Over \/ UNCHANGED vars
  BY <1>3, EventsQuiet
     DEF IndexStep, IndexTake, IndexDone, StopStep, ClosePipeline, RefuseTasks, StopIndex,
         JoinIndex, ClosePlatform, CloseResource, PartClosed, Over, vars, turnVars
<1>4. QED
  BY <1>1, <1>2, <1>3 DEF Next, HandlerStep

(* SatoriClient and _on_message: however often the connection breaks and   *)
(* whenever the bot is interrupted, every event is in exactly one place,   *)
(* and the pipeline gets the events in the order of the platform.          *)
THEOREM EventsNeverDoubled == Spec => []EventsAccounted
<1>1. Init => EventInv
  <2> SUFFICES ASSUME Init PROVE EventInv
    OBVIOUS
  <2>1. /\ sent = 0 /\ wire = <<>> /\ hand = 0 /\ unheard = {} /\ accepted = <<>>
    BY DEF Init
  <2>2. DOMAIN wire = {} /\ DOMAIN accepted = {}
    BY <2>1
  <2>3. EventOrder
    BY <2>2 DEF EventOrder, Increasing
  <2>4. Range(wire) = {} /\ Range(accepted) = {}
    BY <2>2 DEF Range
  <2>5. 1..sent = {}
    BY <2>1
  <2>6. QED
    BY <2>1, <2>3, <2>4, <2>5 DEF EventInv, Placed
<1>2. ProcessInv /\ EventInv /\ [Next]_vars => EventInv'
  BY EventNext DEF ProcessInv
<1>3. ProcessInv /\ EventInv => EventsAccounted
  BY TypesAreTypeOK DEF ProcessInv, EventInv, EventOrder, Increasing, Placed, EventsAccounted
<1>4. QED
  BY <1>1, <1>2, <1>3, InvAlways, PTL DEF Spec

=============================================================================
