--------------------------- MODULE PoolRefinement ---------------------------
(***************************************************************************)
(* The worker pool as an implementation of ThreadFifo.  The inbox of a     *)
(* thread is everything accepted and not yet served, in the order in which *)
(* the pool is going to serve it: the rest of the batch in progress, then  *)
(* the items of the workers that wait for the thread's lock, the deferred  *)
(* one, then the shared queue.                                             *)
(***************************************************************************)
EXTENDS WorkerPool

(* The items of s that belong to thread t, in their order.                 *)
InThread(s, t) ==
    LET upTo[n \in 0..Len(s)] ==
            IF n = 0 THEN <<>>
            ELSE IF SameThread(s[n], t) THEN Append(upTo[n - 1], s[n])
            ELSE upTo[n - 1]
    IN  upTo[Len(s)]

Serves(w, t) == pc[w] = "busy" /\ ThreadOfWorker(w) = t

InProgress(t) ==
    IF \E w \in Workers : Serves(w, t)
    THEN LET w == CHOOSE w \in Workers : Serves(w, t)
         IN  SubSeq(batch[w], pos[w] + 1, Len(batch[w]))
    ELSE <<>>

(* A worker waits with one item in its batch.                              *)
Waiting(t) == [i \in DOMAIN waiters[t] |-> batch[waiters[t][i]][1]]

SetAside ==
    IF \E w \in Workers : deferred[w] # <<>>
    THEN deferred[CHOOSE w \in Workers : deferred[w] # <<>>]
    ELSE <<>>

Inbox(t) == InProgress(t) \o Waiting(t) \o InThread(SetAside \o queue, t)

(* A single worker, or several that do not merge and hold no lock for      *)
(* longer than idle_ttl: at most one worker serves a thread then, and at   *)
(* most one has an item set aside.                                         *)
OneWorker == \E w \in Workers : Workers = {w}

Undisturbed == OneWorker \/ (BatchMax <= 1 /\ ~SlowBatches)

BurstMax == IF BatchMax = 0 THEN 1 ELSE BatchMax

Turns == INSTANCE ThreadFifo WITH
    Commands <- Commands \ Unroutable,
    inbox <- [t \in Threads |-> Inbox(t)],
    done <- served

(* When it is undisturbed, the pool gives every conversation what          *)
(* ThreadFifo promises: order, turns that respect commands, and service    *)
(* whatever the other conversations do.                                    *)
ImplementsThreadFifo == Turns!Spec

=============================================================================
