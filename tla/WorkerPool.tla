----------------------------- MODULE WorkerPool -----------------------------
(***************************************************************************)
(* The message worker pool of pipeline/worker.py: one bounded FIFO shared  *)
(* by Workers asyncio tasks, a bounded event-id window in front of it, one *)
(* asyncio.Lock per conversation thread, opportunistic batching of         *)
(* consecutive messages of a thread, the per-worker "deferred" slot, the   *)
(* periodic deletion of idle locks, and the sentinel-based stop.           *)
(*                                                                         *)
(* Every action is one stretch of code between two awaits of asyncio, so   *)
(* it is atomic in the program as well.  Where a worker goes from one      *)
(* batch straight to its next item without suspending, the model allows an *)
(* extra interleaving point.                                               *)
(***************************************************************************)
EXTENDS Integers, Sequences, FiniteSets, Functions

CONSTANTS
    Workers,      \* the worker tasks, message_worker_count of them
    Threads,      \* conversation threads (IncomingMessage.thread_id)
    Messages,     \* the message objects that may arrive, each at most once
    Events,       \* event ids
    EventOf,      \* event id of a message; a redelivery is another message
                  \* object with the event id of the first
    ThreadOf,     \* thread of a message
    Commands,     \* messages the router classifies as commands
    Unroutable,   \* messages on which the router raises
    BatchMax,     \* message_batch_max, 0 or 1 switches merging off
    QueueMax,     \* message_queue_maxsize, 0 is unbounded
    DedupWindow,  \* message_dedup_size, 0 switches deduplication off
    SlowBatches,  \* may a thread's lock be in use for longer than idle_ttl?
    None          \* Python's None: the stop sentinel, and "no message"

ASSUME PoolAssumption ==
    /\ Workers # {} /\ IsFiniteSet(Workers)
    /\ EventOf \in [Messages -> Events]
    /\ ThreadOf \in [Messages -> Threads]
    /\ Commands \subseteq Messages
    /\ Unroutable \subseteq Messages
    /\ BatchMax \in Nat /\ QueueMax \in Nat /\ DedupWindow \in Nat
    /\ SlowBatches \in BOOLEAN
    /\ None \notin Messages

VARIABLES
    phase,      \* "running", "stopping" (sentinels are being put), "stopped"
    sentinels,  \* sentinels stop() still has to put
    received,   \* messages handed to enqueue() so far
    window,     \* _EventDeduplicator._order: the event ids remembered
    putting,    \* the message whose put() waits for room, or None
    queue,      \* the shared FIFO of messages and sentinels
    unfinished, \* asyncio.Queue's count of items without task_done()
    pc,         \* "idle", "waiting" (for a lock), "busy", "stopped"
    deferred,   \* the local deque of a worker
    batch,      \* the batch of a worker; its first item while it waits
    pos,        \* how many messages of the batch have been dealt with
    segment,    \* index of the last message of the segment being dispatched
    lockOf,     \* the lock object a worker waits for or holds (generation)
    waiters,    \* workers waiting for a lock of the thread, in arrival order
    locks,      \* keys of the _locks dictionary
    generation, \* which lock object _locks maps (or would map) a thread to
    stale,      \* threads whose last use is longer ago than idle_ttl
    accepted,   \* history: the messages put on the queue, in order
    served,     \* history: per thread, the messages dealt with, in order
    commandsRun,\* history: how many commands the thread has executed
    routedAt    \* history: commandsRun of the thread when a message was routed

ingress == <<phase, sentinels, received, window, putting, accepted>>
lockVars == <<lockOf, waiters, locks, generation, stale>>
history == <<served, commandsRun, routedAt>>
vars == <<ingress, queue, unfinished, pc, deferred, batch, pos, segment,
          lockVars, history>>

-----------------------------------------------------------------------------
Item == Messages \cup {None}

IsCommand(m) == m \in Commands /\ m \notin Unroutable

HasRoom == QueueMax = 0 \/ Len(queue) < QueueMax

(* Mutant: a full window takes every event for a duplicate.                *)
DuplicateWhenFull(e) ==
    \/ DedupWindow > 0 /\ Len(window) >= DedupWindow
    \/ \E i \in DOMAIN window : window[i] = e

Duplicate(e) == \E i \in DOMAIN window : window[i] = e

(* The window after event e was registered: the oldest id leaves when the  *)
(* deque is full.                                                          *)
Remember(e) ==
    IF DedupWindow = 0 THEN window
    ELSE Append(IF Len(window) >= DedupWindow THEN Tail(window) ELSE window, e)

ThreadOfWorker(w) == ThreadOf[Head(batch[w])]

Engaged(w) == pc[w] \in {"waiting", "busy"}

(* w holds or waits for the lock object g of thread t.                     *)
UsesLock(w, t, g) == Engaged(w) /\ ThreadOfWorker(w) = t /\ lockOf[w] = g

Holds(w, t, g) == pc[w] = "busy" /\ ThreadOfWorker(w) = t /\ lockOf[w] = g

(* Mutant: a lock per worker.                                              *)
LockFreeAlways(t) == TRUE

(* asyncio.Lock.acquire takes its fast path only when the lock is free and *)
(* nobody waits for it.                                                    *)
LockFree(t) == \A w \in Workers : ~UsesLock(w, t, generation[t])

-----------------------------------------------------------------------------
Init ==
    /\ phase = "running" /\ sentinels = 0
    /\ received = {} /\ window = <<>> /\ putting = None /\ accepted = <<>>
    /\ queue = <<>> /\ unfinished = 0
    /\ pc = [w \in Workers |-> "idle"]
    /\ deferred = [w \in Workers |-> <<>>]
    /\ batch = [w \in Workers |-> <<>>]
    /\ pos = [w \in Workers |-> 0]
    /\ segment = [w \in Workers |-> 0]
    /\ lockOf = [w \in Workers |-> 0]
    /\ waiters = [t \in Threads |-> <<>>]
    /\ locks = {}
    /\ generation = [t \in Threads |-> 0]
    /\ stale = {}
    /\ served = [t \in Threads |-> <<>>]
    /\ commandsRun = [t \in Threads |-> 0]
    /\ routedAt = [m \in Messages |-> 0]

-----------------------------------------------------------------------------
(* enqueue(): the platform's receive loop awaits it, so one call at a time. *)
(* The event id is registered before put() may suspend.                    *)
Put(m) ==
    /\ queue' = Append(queue, m)
    /\ accepted' = Append(accepted, m)
    /\ unfinished' = unfinished + 1

Enqueue(m) ==
    /\ phase = "running" /\ putting = None /\ m \notin received
    /\ received' = received \cup {m}
    /\ \/ /\ Duplicate(EventOf[m])
          /\ UNCHANGED <<window, putting, queue, accepted, unfinished>>
       \/ /\ ~Duplicate(EventOf[m])
          /\ window' = Remember(EventOf[m])
          /\ \/ HasRoom /\ Put(m) /\ UNCHANGED putting
             \/ ~HasRoom /\ putting' = m /\ UNCHANGED <<queue, accepted, unfinished>>
    /\ UNCHANGED <<phase, sentinels, pc, deferred, batch, pos, segment,
                   lockVars, history>>

PutResumes ==
    /\ putting # None /\ HasRoom
    /\ Put(putting)
    /\ putting' = None
    /\ UNCHANGED <<phase, sentinels, received, window, pc, deferred, batch,
                   pos, segment, lockVars, history>>

-----------------------------------------------------------------------------
(* The k messages _collect_batch draws behind the first one: all of thread *)
(* t, at most BatchMax - 1, and as many as the rule allows.                *)
SameThread(item, t) == item # None /\ ThreadOf[item] = t

Collects(q, t, k) ==
    /\ k > 0 => k < BatchMax
    /\ \A i \in 1..k : SameThread(q[i], t)
    /\ (k < Len(q) /\ k + 1 < BatchMax) => ~SameThread(q[k + 1], t)

(* The item that ended the drawing: it has left the queue already.         *)
Blocked(q, k) ==
    IF k + 1 < BatchMax /\ k < Len(q) THEN <<q[k + 1]>> ELSE <<>>

(* Mutant: a batch is routed and dispatched in one go.                     *)
IsSegmentWhole(b, i, e) == e = Len(b)

(* Messages i+1..e of batch b are one segment: a command on its own, or    *)
(* everything up to the next command.                                      *)
IsSegment(b, i, e) ==
    IF IsCommand(b[i + 1]) THEN e = i + 1
    ELSE /\ \A j \in (i + 1)..e : ~IsCommand(b[j])
         /\ e < Len(b) => IsCommand(b[e + 1])

(* What is routed when the segment i+1..e starts: its messages, and the    *)
(* command that ended a burst; when that command's turn comes it is not    *)
(* routed again.                                                           *)
RoutedNow(b, i, e) ==
    IF ~IsCommand(b[i + 1]) THEN (i + 1)..(IF e < Len(b) THEN e + 1 ELSE e)
    ELSE IF i > 0 /\ ~IsCommand(b[i]) THEN {} ELSE {e}

(* Routing the messages behind index i of batch b until a segment is       *)
(* complete, and calling the dispatcher for it: configuration and cooldown *)
(* are read here.  runs counts the commands executed by then.              *)
StartSegment(w, b, i, runs) ==
    \E e \in (i + 1)..Len(b) :
        /\ IsSegment(b, i, e)
        /\ segment' = [segment EXCEPT ![w] = e]
        /\ routedAt' = [m \in Messages |->
                           IF \E j \in RoutedNow(b, i, e) : b[j] = m
                           THEN runs[ThreadOf[m]] ELSE routedAt[m]]

(* With the lock of the first item's thread held: note the use, draw the   *)
(* batch from queue q, start its first segment.                            *)
StartBatch(w, first, q) ==
    \E k \in 0..Len(q) :
        LET b == <<first>> \o SubSeq(q, 1, k)
            r == Blocked(q, k)
        IN  /\ Collects(q, ThreadOf[first], k)
            /\ queue' = SubSeq(q, k + Len(r) + 1, Len(q))
            /\ deferred' = [deferred EXCEPT ![w] = r]
            /\ batch' = [batch EXCEPT ![w] = b]
            /\ pos' = [pos EXCEPT ![w] = 0]
            /\ pc' = [pc EXCEPT ![w] = "busy"]
            /\ stale' = stale \ {ThreadOf[first]}
            /\ StartSegment(w, b, 0, commandsRun)

(* A worker consumes `item`, leaving q as the shared queue: the sentinel   *)
(* ends it; otherwise it acquires the thread's lock, or joins its waiters. *)
Consume(w, item, q) ==
    \/ /\ item = None
       /\ pc' = [pc EXCEPT ![w] = "stopped"]
       /\ unfinished' = unfinished - 1
       /\ queue' = q
       /\ deferred' = [deferred EXCEPT ![w] = <<>>]
       /\ UNCHANGED <<batch, pos, segment, lockVars, routedAt>>
    \/ /\ item # None
       /\ locks' = locks \cup {ThreadOf[item]}
       /\ lockOf' = [lockOf EXCEPT ![w] = generation[ThreadOf[item]]]
       /\ \/ /\ LockFree(ThreadOf[item])
             /\ StartBatch(w, item, q)
             /\ UNCHANGED waiters
          \/ /\ ~LockFree(ThreadOf[item])
             /\ pc' = [pc EXCEPT ![w] = "waiting"]
             /\ waiters' = [waiters EXCEPT ![ThreadOf[item]] = Append(@, w)]
             /\ batch' = [batch EXCEPT ![w] = <<item>>]
             /\ queue' = q
             /\ deferred' = [deferred EXCEPT ![w] = <<>>]
             /\ UNCHANGED <<pos, segment, stale, routedAt>>
       /\ UNCHANGED <<unfinished, generation>>

TakeDeferred(w) ==
    /\ pc[w] = "idle" /\ deferred[w] # <<>>
    /\ Consume(w, Head(deferred[w]), queue)
    /\ UNCHANGED <<ingress, served, commandsRun>>

(* Mutant: the deferred item is forgotten when the queue has another one.  *)
TakeFromQueueFirst(w) ==
    /\ pc[w] = "idle" /\ queue # <<>>
    /\ Consume(w, Head(queue), Tail(queue))
    /\ UNCHANGED <<ingress, served, commandsRun>>

TakeFromQueue(w) ==
    /\ pc[w] = "idle" /\ deferred[w] = <<>> /\ queue # <<>>
    /\ Consume(w, Head(queue), Tail(queue))
    /\ UNCHANGED <<ingress, served, commandsRun>>

(* Nobody before place i of the waiters waits for the lock object of w.    *)
FirstInLine(w, i) ==
    \A j \in 1..(i - 1) : lockOf[waiters[ThreadOfWorker(w)][j]] # lockOf[w]

(* The lock was released and w is the first waiter of that lock object.    *)
Wake(w) ==
    /\ pc[w] = "waiting"
    /\ LET t == ThreadOfWorker(w)
       IN  /\ \A v \in Workers : ~Holds(v, t, lockOf[w])
           /\ \E i \in DOMAIN waiters[t] :
                 /\ waiters[t][i] = w
                 /\ FirstInLine(w, i)
                 /\ waiters' = [waiters EXCEPT ![t] =
                                   SubSeq(@, 1, i - 1) \o SubSeq(@, i + 1, Len(@))]
    /\ StartBatch(w, Head(batch[w]), queue)
    /\ UNCHANGED <<ingress, unfinished, lockOf, locks, generation,
                   served, commandsRun>>

(* The dispatcher returned (or raised: logged, same effect on the pool).   *)
EndSegment(w) ==
    LET t == ThreadOfWorker(w)
        done == SubSeq(batch[w], pos[w] + 1, segment[w])
    IN  /\ pc[w] = "busy"
        /\ served' = [served EXCEPT ![t] = @ \o done]
        /\ commandsRun' = [commandsRun EXCEPT ![t] =
                              @ + (IF IsCommand(done[1]) THEN 1 ELSE 0)]

(* ... and the batch goes on with the messages behind the segment.         *)
NextSegment(w) ==
    /\ EndSegment(w)
    /\ segment[w] < Len(batch[w])
    /\ pos' = [pos EXCEPT ![w] = segment[w]]
    /\ StartSegment(w, batch[w], segment[w], commandsRun')
    /\ UNCHANGED <<ingress, queue, unfinished, pc, deferred, batch, lockVars>>

(* Mutant: age is not looked at.                                           *)
IdleAnyAge(t, w) ==
    /\ t \in locks
    /\ \A v \in Workers \ {w} : ~Holds(v, t, generation[t])

(* _maybe_cleanup once w has let go of its lock: the locks nobody holds    *)
(* and not used for idle_ttl are deleted -- a waiter does not count.       *)
Idle(t, w) ==
    /\ t \in locks \cap stale
    /\ \A v \in Workers \ {w} : ~Holds(v, t, generation[t])

Cleanup(w) ==
    LET gone == {t \in Threads : Idle(t, w)}
    IN  /\ locks' = locks \ gone
        /\ generation' = [t \in Threads |->
                             generation[t] + (IF t \in gone THEN 1 ELSE 0)]

TasksDone(w) == Len(batch[w])

(* ... or it is over: task_done per message, the lock is released, and     *)
(* cleanup runs when cleanup_interval has passed since it last did.        *)
FinishBatch(w) ==
    /\ EndSegment(w)
    /\ segment[w] = Len(batch[w])
    /\ unfinished' = unfinished - TasksDone(w)
    /\ pc' = [pc EXCEPT ![w] = "idle"]
    /\ batch' = [batch EXCEPT ![w] = <<>>]
    /\ pos' = [pos EXCEPT ![w] = 0]
    /\ segment' = [segment EXCEPT ![w] = 0]
    /\ lockOf' = [lockOf EXCEPT ![w] = 0]
    /\ \/ Cleanup(w)
       \/ UNCHANGED <<locks, generation>>
    /\ UNCHANGED <<ingress, queue, deferred, waiters, stale, routedAt>>

(* Time: idle_ttl has passed since thread t last got its lock.  Unless     *)
(* SlowBatches, a lock is never in use (or waited for) that long.          *)
Age(t) ==
    /\ t \in locks \ stale
    /\ SlowBatches \/ \A w \in Workers : ~(Engaged(w) /\ ThreadOfWorker(w) = t)
    /\ stale' = stale \cup {t}
    /\ UNCHANGED <<ingress, queue, unfinished, pc, deferred, batch, pos,
                   segment, lockOf, waiters, locks, generation, history>>

-----------------------------------------------------------------------------
(* Mutant: one sentinel for all workers.                                   *)
SentinelCountOne == 1

SentinelCount == Cardinality(Workers)

(* stop() runs after the receive loop was cancelled, and a put() in        *)
(* progress with it.                                                       *)
Stop ==
    /\ phase = "running"
    /\ phase' = "stopping"
    /\ sentinels' = SentinelCount
    /\ putting' = None
    /\ UNCHANGED <<received, window, accepted, queue, unfinished, pc, deferred,
                   batch, pos, segment, lockVars, history>>

(* Mutant: one sentinel too many.                                          *)
SentinelDueMore == phase = "stopping" /\ sentinels >= 0

SentinelDue == phase = "stopping" /\ sentinels > 0

PutSentinel ==
    /\ SentinelDue /\ HasRoom
    /\ queue' = Append(queue, None)
    /\ unfinished' = unfinished + 1
    /\ sentinels' = sentinels - 1
    /\ UNCHANGED <<phase, received, window, putting, accepted, pc, deferred,
                   batch, pos, segment, lockVars, history>>

(* Mutant: stop() waits for the first worker only.                         *)
WorkersGoneSome == \E w \in Workers : pc[w] = "stopped"

WorkersGone == \A w \in Workers : pc[w] = "stopped"

StopReturns ==
    /\ phase = "stopping" /\ sentinels = 0 /\ WorkersGone
    /\ phase' = "stopped"
    /\ UNCHANGED <<sentinels, received, window, putting, accepted, queue,
                   unfinished, pc, deferred, batch, pos, segment, lockVars, history>>

Terminated == phase = "stopped" /\ UNCHANGED vars

WorkerStep(w) ==
    TakeDeferred(w) \/ TakeFromQueue(w) \/ Wake(w) \/ NextSegment(w) \/ FinishBatch(w)

Next ==
    \/ \E m \in Messages : Enqueue(m)
    \/ PutResumes
    \/ \E w \in Workers : WorkerStep(w)
    \/ \E t \in Threads : Age(t)
    \/ Stop \/ PutSentinel \/ StopReturns \/ Terminated

Spec == Init /\ [][Next]_vars

(* The event loop runs every task that can run, and every dispatch ends    *)
(* (LLM, download and shell calls all carry a timeout).                    *)
Fairness ==
    /\ \A w \in Workers : WF_vars(WorkerStep(w))
    /\ WF_vars(PutResumes) /\ WF_vars(PutSentinel) /\ WF_vars(StopReturns)

FairSpec == Spec /\ Fairness

-----------------------------------------------------------------------------
(* Properties                                                              *)

(* Every variable keeps its type; a worker defers at most one item.        *)
TypeOK ==
    /\ phase \in {"running", "stopping", "stopped"}
    /\ sentinels \in Nat
    /\ received \subseteq Messages
    /\ window \in Seq(Events)
    /\ putting \in Item
    /\ queue \in Seq(Item)
    /\ unfinished \in Int
    /\ pc \in [Workers -> {"idle", "waiting", "busy", "stopped"}]
    /\ deferred \in [Workers -> Seq(Item)]
    /\ batch \in [Workers -> Seq(Messages)]
    /\ pos \in [Workers -> Nat]
    /\ segment \in [Workers -> Nat]
    /\ lockOf \in [Workers -> Nat]
    /\ waiters \in [Threads -> Seq(Workers)]
    /\ locks \subseteq Threads
    /\ generation \in [Threads -> Nat]
    /\ stale \subseteq Threads
    /\ accepted \in Seq(Messages)
    /\ served \in [Threads -> Seq(Messages)]
    /\ commandsRun \in [Threads -> Nat]
    /\ routedAt \in [Messages -> Nat]

(* Per-thread locks serialize a conversation: two workers never process    *)
(* batches of the same thread at once.                                     *)
ThreadExclusive ==
    \A v, w \in Workers :
        v # w /\ pc[v] = "busy" /\ pc[w] = "busy"
            => ThreadOfWorker(v) # ThreadOfWorker(w)

(* Why ThreadExclusive holds as long as no batch outlives idle_ttl.  A     *)
(* worker with an item has it in its batch; a lock object has one holder;  *)
(* a lock somebody holds or waits for is the one _locks hands out, because *)
(* it was used lately and cleanup passes over it.                          *)
BatchShape ==
    \A w \in Workers :
        /\ Engaged(w) => batch[w] # <<>>
        /\ pc[w] = "busy" => pos[w] < segment[w] /\ segment[w] <= Len(batch[w])

OneHolder ==
    \A v, w \in Workers :
        v # w /\ pc[v] = "busy" /\ pc[w] = "busy"
        /\ ThreadOfWorker(v) = ThreadOfWorker(w) => lockOf[v] # lockOf[w]

LocksCurrent ==
    \A w \in Workers :
        Engaged(w) => /\ ThreadOfWorker(w) \in locks \ stale
                      /\ lockOf[w] = generation[ThreadOfWorker(w)]

LockInv == BatchShape /\ OneHolder /\ (~SlowBatches => LocksCurrent)

IsServed(m) == m \in Range(served[ThreadOf[m]])

(* Messages of one conversation are processed in the order in which they   *)
(* were accepted, none left out.                                           *)
ThreadOrder ==
    \A i, j \in DOMAIN accepted :
        i < j /\ ThreadOf[accepted[i]] = ThreadOf[accepted[j]] /\ IsServed(accepted[j]) =>
            LET mine == served[ThreadOf[accepted[j]]]
            IN  \E a, c \in DOMAIN mine :
                   a < c /\ mine[a] = accepted[i] /\ mine[c] = accepted[j]

(* The queue is one FIFO for all conversations: nothing is processed       *)
(* before everything accepted earlier has been.                            *)
GlobalOrder ==
    \A i, j \in DOMAIN accepted :
        i < j /\ IsServed(accepted[j]) => IsServed(accepted[i])

Copies(m, s) == Cardinality({i \in DOMAIN s : s[i] = m})

(* Where a message can be: the queue, the deferred slot or the unprocessed *)
(* rest of the batch of some worker, or behind it all.                     *)
Places(m) ==
    Copies(m, queue) + Copies(m, served[ThreadOf[m]])
    + Cardinality({w \in Workers : m \in Range(deferred[w])})
    + Cardinality({w \in Workers :
                     \E i \in (pos[w] + 1)..Len(batch[w]) : batch[w][i] = m})

(* An accepted message is in exactly one place from put() on: batching,    *)
(* deferring, waiting for a lock and stopping neither lose nor repeat it.  *)
(* When stop() returns that place is behind it: everything accepted was    *)
(* processed and every item of the queue is accounted for.                 *)
Conservation ==
    /\ \A m \in Range(accepted) : Places(m) = 1
    /\ phase = "stopped" =>
          /\ queue = <<>> /\ unfinished = 0
          /\ \A m \in Range(accepted) : IsServed(m)

(* A command changes state for exactly the messages behind it: a message   *)
(* is routed after all commands before it in its conversation were run,    *)
(* and before any behind it.                                               *)
CommandsInOrder ==
    \A t \in Threads : \A i \in DOMAIN served[t] :
        routedAt[served[t][i]] =
            Cardinality({j \in 1..(i - 1) : IsCommand(served[t][j])})

(* The deduplication window does what it is for and no more: no event is   *)
(* accepted twice within the window, and an event is turned away only if   *)
(* it is accepted or being put already.                                    *)
WindowExact ==
    /\ [](\A i, j \in DOMAIN accepted :
             i < j /\ j <= i + DedupWindow
                 => EventOf[accepted[i]] # EventOf[accepted[j]])
    /\ [][\A m \in received' \ received :
             \/ m \in Range(accepted') \/ m = putting'
             \/ \E n \in Range(accepted) \cup {putting} :
                   n # None /\ EventOf[n] = EventOf[m]]_vars

(* Every accepted message is processed eventually.                         *)
EventuallyServed ==
    \A m \in Messages : m \in Range(accepted) ~> IsServed(m)

(* Nobody waits for ever: a full queue holds the platform back only until  *)
(* the workers catch up, and stop() returns though it needs room in that   *)
(* queue and the attention of workers that wait for each other's locks.    *)
Progress ==
    /\ putting # None ~> putting = None
    /\ phase = "stopping" ~> phase = "stopped"

=============================================================================
