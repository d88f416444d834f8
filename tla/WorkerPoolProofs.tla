--------------------------- MODULE WorkerPoolProofs ---------------------------
(***************************************************************************)
(* Proofs about the worker pool, for any number of workers, threads and    *)
(* messages: type correctness, mutual exclusion per conversation, the      *)
(* deduplication window, conservation, order, commands, and the step       *)
(* simulation of ThreadFifo.                                               *)
(***************************************************************************)
EXTENDS PoolRefinement, SequenceTheorems, FiniteSetTheorems, TLAPS

-----------------------------------------------------------------------------
(* Sequences                                                               *)

(* A stretch of a sequence whose ends lie inside it, or that is empty, has *)
(* the type of the sequence.                                               *)
LEMMA StretchType ==
    ASSUME NEW S, NEW s \in Seq(S), NEW i \in Nat, NEW j \in Nat,
           i >= 1, j <= Len(s)
    PROVE  SubSeq(s, i, j) \in Seq(S)
<1>1. Len(s) \in Nat
  BY LenProperties
<1>2. \A n \in i..j : s[n] \in S
  BY <1>1, ElementOfSeq
<1>3. QED
  BY <1>2, SubSeqProperties

(* Putting an element in front of a sequence.                              *)
LEMMA ConsType ==
    ASSUME NEW S, NEW s \in Seq(S), NEW x \in S
    PROVE  /\ <<x>> \o s \in Seq(S)
           /\ <<x>> \o s # <<>>
           /\ Len(<<x>> \o s) \in Nat
           /\ Head(<<x>> \o s) = x
<1>1. <<x>> \in Seq(S) /\ Len(<<x>>) = 1
  OBVIOUS
<1>2. /\ <<x>> \o s \in Seq(S)
      /\ Len(<<x>> \o s) = 1 + Len(s)
      /\ \A i \in 1..(1 + Len(s)) :
            (<<x>> \o s)[i] = IF i <= 1 THEN <<x>>[i] ELSE s[i - 1]
  BY <1>1, ConcatProperties
<1>3. Len(s) \in Nat
  BY LenProperties
<1>4. (<<x>> \o s)[1] = x
  BY <1>2, <1>3
<1>5. <<x>> \o s # <<>>
  BY <1>2, <1>3, EmptySeq
<1>6. QED
  BY <1>2, <1>3, <1>4, <1>5

-----------------------------------------------------------------------------
(* What the building blocks of the worker's steps do                       *)

(* StartBatch: the batch is the first item and what was drawn, the worker  *)
(* is busy with its first segment, and the thread counts as just used.     *)
LEMMA StartBatchFacts ==
    ASSUME PoolAssumption, TypeOK, NEW w \in Workers, NEW first \in Messages,
           NEW q \in Seq(Item), StartBatch(w, first, q)
    PROVE  /\ queue' \in Seq(Item)
           /\ deferred' \in [Workers -> Seq(Item)]
           /\ pos' = [pos EXCEPT ![w] = 0]
           /\ pc' = [pc EXCEPT ![w] = "busy"]
           /\ stale' = stale \ {ThreadOf[first]}
           /\ routedAt' \in [Messages -> Nat]
           /\ \E b \in Seq(Messages) :
                 /\ batch' = [batch EXCEPT ![w] = b]
                 /\ b # <<>> /\ Head(b) = first
                 /\ \E e \in 1..Len(b) : segment' = [segment EXCEPT ![w] = e]
<1>1. PICK k \in 0..Len(q) :
        LET b == <<first>> \o SubSeq(q, 1, k)
            r == Blocked(q, k)
        IN  /\ Collects(q, ThreadOf[first], k)
            /\ queue' = SubSeq(q, k + Len(r) + 1, Len(q))
            /\ deferred' = [deferred EXCEPT ![w] = r]
            /\ batch' = [batch EXCEPT ![w] = b]
            /\ pos' = [pos EXCEPT ![w] = 0]
            /\ pc' = [pc EXCEPT ![w] = "busy"]
            /\ stale' = stale \ {ThreadOf[first]}
            /\ StartSegment(w, b, 0, commandsRun)
  BY DEF StartBatch
<1> DEFINE b == <<first>> \o SubSeq(q, 1, k)
           r == Blocked(q, k)
<1>2. Len(q) \in Nat /\ k \in Nat /\ k <= Len(q)
  BY LenProperties
<1>3. SubSeq(q, 1, k) \in Seq(Messages)
  <2>1. \A i \in 1..k : q[i] \in Item
    BY <1>2, ElementOfSeq
  <2>2. \A i \in 1..k : q[i] # None
    BY <1>1 DEF Collects, SameThread
  <2>3. \A i \in 1..k : q[i] \in Messages
    BY <2>1, <2>2 DEF Item
  <2>4. QED
    BY <1>2, <2>3, SubSeqProperties
<1>4. b \in Seq(Messages) /\ b # <<>> /\ Len(b) \in Nat /\ Head(b) = first
  BY <1>3, ConsType
<1>5. r \in Seq(Item) /\ Len(r) \in Nat
  <2>1. k < Len(q) => q[k + 1] \in Item
    BY <1>2, ElementOfSeq
  <2>2. CASE k < Len(q) /\ r = <<q[k + 1]>>
    <3>1. r = <<q[k + 1]>> /\ q[k + 1] \in Item
      BY <2>1, <2>2
    <3> HIDE DEF r
    <3>2. QED
      BY <3>1
  <2>3. CASE r = <<>>
    <3> HIDE DEF r
    <3>1. QED
      BY <2>3
  <2>4. r = <<>> \/ (k < Len(q) /\ r = <<q[k + 1]>>)
    BY DEF Blocked
  <2>5. QED
    BY <2>2, <2>3, <2>4
<1>6. queue' \in Seq(Item)
  <2>1. queue' = SubSeq(q, k + Len(r) + 1, Len(q))
    BY <1>1
  <2>2. QED
    BY <1>2, <1>5, <2>1, StretchType
<1>7. deferred' \in [Workers -> Seq(Item)]
  BY <1>1, <1>5 DEF TypeOK
<1>8. StartSegment(w, b, 0, commandsRun)
  BY <1>1
<1>9. PICK e \in (0 + 1)..Len(b) :
        /\ segment' = [segment EXCEPT ![w] = e]
        /\ routedAt' = [m \in Messages |->
                           IF \E j \in RoutedNow(b, 0, e) : b[j] = m
                           THEN commandsRun[ThreadOf[m]] ELSE routedAt[m]]
  BY <1>8 DEF StartSegment
<1>10. routedAt' \in [Messages -> Nat]
  BY <1>9 DEF TypeOK, PoolAssumption
<1>11. batch' = [batch EXCEPT ![w] = b]
  BY <1>1
<1>12. \E e2 \in 1..Len(b) : segment' = [segment EXCEPT ![w] = e2]
  <2>1. e \in 1..Len(b)
    BY <1>4
  <2>2. segment' = [segment EXCEPT ![w] = e]
    BY <1>9
  <2>3. QED
    BY <2>1, <2>2
<1>13. pos' = [pos EXCEPT ![w] = 0] /\ pc' = [pc EXCEPT ![w] = "busy"]
       /\ stale' = stale \ {ThreadOf[first]}
  BY <1>1
<1> HIDE DEF b, r
<1>14. QED
  BY <1>4, <1>6, <1>7, <1>10, <1>11, <1>12, <1>13

(* Acquiring: w starts a batch with lock object g of the thread, nobody    *)
(* holds g, and g is the current object unless batches may be slow.        *)
LEMMA AcquireKeepsLockInv ==
    ASSUME PoolAssumption, TypeOK, LockInv,
           NEW w \in Workers, NEW first \in Messages, NEW q \in Seq(Item), NEW g \in Nat,
           StartBatch(w, first, q),
           \A v \in Workers \ {w} : ~Holds(v, ThreadOf[first], g),
           lockOf' = [lockOf EXCEPT ![w] = g],
           ~SlowBatches => g = generation[ThreadOf[first]],
           ~SlowBatches => ThreadOf[first] \in locks',
           locks \subseteq locks', generation' = generation
    PROVE  LockInv'
<1> DEFINE t == ThreadOf[first]
<1>1. PICK b \in Seq(Messages) :
        /\ batch' = [batch EXCEPT ![w] = b]
        /\ b # <<>> /\ Head(b) = first
        /\ \E e \in 1..Len(b) : segment' = [segment EXCEPT ![w] = e]
  BY StartBatchFacts
<1>2. PICK e \in 1..Len(b) : segment' = [segment EXCEPT ![w] = e]
  BY <1>1
<1>3. /\ pos' = [pos EXCEPT ![w] = 0]
      /\ pc' = [pc EXCEPT ![w] = "busy"]
      /\ stale' = stale \ {t}
  BY StartBatchFacts
<1>4. /\ pc'[w] = "busy" /\ batch'[w] = b /\ pos'[w] = 0 /\ segment'[w] = e
      /\ lockOf'[w] = g /\ ThreadOfWorker(w)' = t
  BY <1>1, <1>2, <1>3 DEF TypeOK, ThreadOfWorker
<1>5. ASSUME NEW v \in Workers \ {w}
      PROVE  /\ pc'[v] = pc[v] /\ batch'[v] = batch[v] /\ pos'[v] = pos[v]
             /\ segment'[v] = segment[v] /\ lockOf'[v] = lockOf[v]
             /\ ThreadOfWorker(v)' = ThreadOfWorker(v)
             /\ Engaged(v)' = Engaged(v)
  BY <1>1, <1>2, <1>3 DEF TypeOK, ThreadOfWorker, Engaged
<1>6. BatchShape'
  <2>1. Len(b) \in Nat
    BY LenProperties
  <2>2. QED
    BY <1>1, <1>4, <1>5, <2>1 DEF BatchShape, LockInv, Engaged
<1>7. OneHolder'
  <2>1. ASSUME NEW v \in Workers \ {w}, pc[v] = "busy", ThreadOfWorker(v) = t
        PROVE  lockOf[v] # g
    BY <2>1 DEF Holds
  <2>2. QED
    BY <1>4, <1>5, <2>1 DEF OneHolder, LockInv
<1>8. ASSUME ~SlowBatches
      PROVE  LocksCurrent'
  <2>1. ASSUME NEW v \in Workers \ {w}, Engaged(v)'
        PROVE  /\ ThreadOfWorker(v)' \in locks' \ stale'
               /\ lockOf'[v] = generation'[ThreadOfWorker(v)']
    BY <1>3, <1>5, <1>8, <2>1 DEF LocksCurrent, LockInv
  <2>2. /\ ThreadOfWorker(w)' \in locks' \ stale'
        /\ lockOf'[w] = generation'[ThreadOfWorker(w)']
    BY <1>3, <1>4, <1>8
  <2>3. QED
    BY <2>1, <2>2 DEF LocksCurrent
<1>9. QED
  BY <1>6, <1>7, <1>8 DEF LockInv

(* A worker that takes an item: a sentinel ends it, a message gets it the  *)
(* free lock or a place among the waiters of the one in use.               *)
LEMMA ConsumeKeepsInv ==
    ASSUME PoolAssumption, TypeOK, LockInv,
           NEW w \in Workers, NEW item \in Item, NEW q \in Seq(Item),
           pc[w] = "idle", Consume(w, item, q),
           UNCHANGED <<ingress, served, commandsRun>>
    PROVE  TypeOK' /\ LockInv'
<1>1. CASE item = None
  <2>1. /\ pc' = [pc EXCEPT ![w] = "stopped"]
        /\ unfinished' = unfinished - 1
        /\ queue' = q
        /\ deferred' = [deferred EXCEPT ![w] = <<>>]
        /\ UNCHANGED <<batch, pos, segment, lockVars, routedAt>>
    BY <1>1 DEF Consume
  <2>2. TypeOK'
    <3>1. deferred' \in [Workers -> Seq(Item)] /\ unfinished' \in Int
      BY <2>1, EmptySeq DEF TypeOK
    <3>2. pc' \in [Workers -> {"idle", "waiting", "busy", "stopped"}]
      BY <2>1 DEF TypeOK
    <3>3. QED
      BY <2>1, <3>1, <3>2 DEF TypeOK, ingress, lockVars
  <2>3. LockInv'
    BY <2>1 DEF LockInv, BatchShape, OneHolder, LocksCurrent, Engaged,
                ThreadOfWorker, TypeOK, lockVars
  <2>4. QED
    BY <2>2, <2>3
<1>2. CASE item # None /\ LockFree(ThreadOf[item])
  <2>1. item \in Messages /\ ThreadOf[item] \in Threads
    BY <1>2 DEF Item, PoolAssumption
  <2>2. /\ locks' = locks \cup {ThreadOf[item]}
        /\ lockOf' = [lockOf EXCEPT ![w] = generation[ThreadOf[item]]]
        /\ StartBatch(w, item, q)
        /\ UNCHANGED <<waiters, unfinished, generation>>
    BY <1>2 DEF Consume
  <2>3. generation[ThreadOf[item]] \in Nat
    BY <2>1 DEF TypeOK
  <2>4. \A v \in Workers \ {w} : ~Holds(v, ThreadOf[item], generation[ThreadOf[item]])
    BY <1>2 DEF LockFree, UsesLock, Holds, Engaged
  <2>5. LockInv'
    BY <2>1, <2>2, <2>3, <2>4, AcquireKeepsLockInv
  <2>6. TypeOK'
    <3>1. PICK b \in Seq(Messages) :
            /\ batch' = [batch EXCEPT ![w] = b]
            /\ \E e \in 1..Len(b) : segment' = [segment EXCEPT ![w] = e]
      BY <2>1, <2>2, StartBatchFacts
    <3>2. Len(b) \in Nat
      BY LenProperties
    <3>3. segment' \in [Workers -> Nat] /\ batch' \in [Workers -> Seq(Messages)]
      <4>1. PICK e \in 1..Len(b) : segment' = [segment EXCEPT ![w] = e]
        BY <3>1
      <4>2. e \in Nat
        BY <3>2
      <4>3. QED
        BY <3>1, <4>1, <4>2 DEF TypeOK
    <3>4. /\ queue' \in Seq(Item)
          /\ deferred' \in [Workers -> Seq(Item)]
          /\ pos' = [pos EXCEPT ![w] = 0]
          /\ pc' = [pc EXCEPT ![w] = "busy"]
          /\ stale' = stale \ {ThreadOf[item]}
          /\ routedAt' \in [Messages -> Nat]
      BY <2>1, <2>2, StartBatchFacts
    <3>5. QED
      BY <2>1, <2>2, <2>3, <3>3, <3>4 DEF TypeOK, ingress
  <2>7. QED
    BY <2>5, <2>6
<1>3. CASE item # None /\ ~LockFree(ThreadOf[item])
  <2> DEFINE t == ThreadOf[item]
  <2>1. item \in Messages /\ t \in Threads
    BY <1>3 DEF Item, PoolAssumption
  <2>2. /\ locks' = locks \cup {t}
        /\ lockOf' = [lockOf EXCEPT ![w] = generation[t]]
        /\ pc' = [pc EXCEPT ![w] = "waiting"]
        /\ waiters' = [waiters EXCEPT ![t] = Append(@, w)]
        /\ batch' = [batch EXCEPT ![w] = <<item>>]
        /\ queue' = q
        /\ deferred' = [deferred EXCEPT ![w] = <<>>]
        /\ UNCHANGED <<pos, segment, stale, routedAt, unfinished, generation>>
    BY <1>3 DEF Consume
  <2>3. TypeOK'
    <3>1. /\ batch' \in [Workers -> Seq(Messages)]
          /\ deferred' \in [Workers -> Seq(Item)]
      BY <2>1, <2>2, EmptySeq, SMTT(30) DEF TypeOK
    <3>2. waiters' \in [Threads -> Seq(Workers)]
      BY <2>1, <2>2 DEF TypeOK
    <3>3. /\ pc' \in [Workers -> {"idle", "waiting", "busy", "stopped"}]
          /\ lockOf' \in [Workers -> Nat]
          /\ locks' \subseteq Threads
      BY <2>1, <2>2 DEF TypeOK
    <3>4. QED
      BY <2>2, <3>1, <3>2, <3>3 DEF TypeOK, ingress
  <2>4. /\ pc'[w] = "waiting" /\ batch'[w] = <<item>> /\ lockOf'[w] = generation[t]
        /\ ThreadOfWorker(w)' = t
    BY <2>1, <2>2 DEF TypeOK, ThreadOfWorker
  <2>5. ASSUME NEW v \in Workers \ {w}
        PROVE  /\ pc'[v] = pc[v] /\ batch'[v] = batch[v] /\ pos'[v] = pos[v]
               /\ segment'[v] = segment[v] /\ lockOf'[v] = lockOf[v]
               /\ ThreadOfWorker(v)' = ThreadOfWorker(v)
               /\ Engaged(v)' = Engaged(v)
    BY <2>2 DEF TypeOK, ThreadOfWorker, Engaged
  <2>6. BatchShape'
    BY <2>4, <2>5 DEF BatchShape, LockInv, Engaged
  <2>7. OneHolder'
    BY <2>4, <2>5 DEF OneHolder, LockInv
  <2>8. ASSUME ~SlowBatches
        PROVE  LocksCurrent'
    <3>1. PICK v \in Workers : UsesLock(v, t, generation[t])
      BY <1>3 DEF LockFree
    <3>2. t \notin stale
      BY <2>8, <3>1 DEF UsesLock, LocksCurrent, LockInv
    <3>3. QED
      BY <2>1, <2>2, <2>4, <2>5, <2>8, <3>2 DEF LocksCurrent, LockInv
  <2>9. QED
    BY <2>3, <2>6, <2>7, <2>8 DEF LockInv
<1>4. QED
  BY <1>1, <1>2, <1>3

-----------------------------------------------------------------------------
(* The steps                                                               *)

LEMMA TakeDeferredKeepsInv ==
    ASSUME PoolAssumption, TypeOK, LockInv, NEW w \in Workers, TakeDeferred(w)
    PROVE  TypeOK' /\ LockInv'
<1>1. pc[w] = "idle" /\ deferred[w] \in Seq(Item) /\ deferred[w] # <<>>
  BY DEF TakeDeferred, TypeOK
<1>2. Head(deferred[w]) \in Item
  BY <1>1, HeadTailProperties
<1>3. Consume(w, Head(deferred[w]), queue) /\ UNCHANGED <<ingress, served, commandsRun>>
  BY DEF TakeDeferred
<1>4. queue \in Seq(Item)
  BY DEF TypeOK
<1>5. QED
  BY <1>1, <1>2, <1>3, <1>4, ConsumeKeepsInv

LEMMA TakeFromQueueKeepsInv ==
    ASSUME PoolAssumption, TypeOK, LockInv, NEW w \in Workers, TakeFromQueue(w)
    PROVE  TypeOK' /\ LockInv'
<1>1. pc[w] = "idle" /\ queue \in Seq(Item) /\ queue # <<>>
  BY DEF TakeFromQueue, TypeOK
<1>2. Head(queue) \in Item /\ Tail(queue) \in Seq(Item)
  BY <1>1, HeadTailProperties
<1>3. Consume(w, Head(queue), Tail(queue)) /\ UNCHANGED <<ingress, served, commandsRun>>
  BY DEF TakeFromQueue
<1>4. QED
  BY <1>1, <1>2, <1>3, ConsumeKeepsInv

LEMMA WakeKeepsInv ==
    ASSUME PoolAssumption, TypeOK, LockInv, NEW w \in Workers, Wake(w)
    PROVE  TypeOK' /\ LockInv'
<1> DEFINE first == Head(batch[w])
           t == ThreadOfWorker(w)
<1>1. pc[w] = "waiting" /\ Engaged(w) /\ batch[w] \in Seq(Messages) /\ batch[w] # <<>>
  BY DEF Wake, TypeOK, LockInv, BatchShape, Engaged
<1>2. first \in Messages /\ t = ThreadOf[first] /\ t \in Threads
  BY <1>1, HeadTailProperties DEF ThreadOfWorker, PoolAssumption
<1>3. /\ StartBatch(w, first, queue)
      /\ \A v \in Workers : ~Holds(v, t, lockOf[w])
      /\ UNCHANGED <<ingress, unfinished, lockOf, locks, generation, served, commandsRun>>
  BY DEF Wake
<1>4. queue \in Seq(Item) /\ lockOf[w] \in Nat /\ lockOf' = [lockOf EXCEPT ![w] = lockOf[w]]
  BY <1>3 DEF TypeOK
<1>5. ~SlowBatches => lockOf[w] = generation[t] /\ t \in locks
  BY <1>1 DEF LockInv, LocksCurrent
<1>6. LockInv'
  BY <1>2, <1>3, <1>4, <1>5, AcquireKeepsLockInv, ZenonT(40)
<1>7. waiters' \in [Threads -> Seq(Workers)]
  <2>1. PICK i \in DOMAIN waiters[t] :
          waiters' = [waiters EXCEPT ![t] =
                         SubSeq(@, 1, i - 1) \o SubSeq(@, i + 1, Len(@))]
    BY DEF Wake
  <2>2. waiters[t] \in Seq(Workers)
    BY <1>2 DEF TypeOK
  <2>3. i \in 1..Len(waiters[t]) /\ Len(waiters[t]) \in Nat
    BY <2>1, <2>2, LenProperties
  <2>4. /\ SubSeq(waiters[t], 1, i - 1) \in Seq(Workers)
        /\ SubSeq(waiters[t], i + 1, Len(waiters[t])) \in Seq(Workers)
    BY <2>2, <2>3, StretchType
  <2>5. SubSeq(waiters[t], 1, i - 1) \o SubSeq(waiters[t], i + 1, Len(waiters[t]))
            \in Seq(Workers)
    BY <2>4, ConcatProperties
  <2>6. QED
    BY <1>2, <2>1, <2>5 DEF TypeOK
<1>8. TypeOK'
  <2>1. PICK b \in Seq(Messages) :
          /\ batch' = [batch EXCEPT ![w] = b]
          /\ \E e \in 1..Len(b) : segment' = [segment EXCEPT ![w] = e]
    BY <1>2, <1>3, <1>4, StartBatchFacts
  <2>2. PICK e \in 1..Len(b) : segment' = [segment EXCEPT ![w] = e]
    BY <2>1
  <2>3. e \in Nat
    BY LenProperties
  <2>4. segment' \in [Workers -> Nat] /\ batch' \in [Workers -> Seq(Messages)]
    BY <2>1, <2>2, <2>3 DEF TypeOK
  <2>5. /\ queue' \in Seq(Item)
        /\ deferred' \in [Workers -> Seq(Item)]
        /\ pos' = [pos EXCEPT ![w] = 0]
        /\ pc' = [pc EXCEPT ![w] = "busy"]
        /\ stale' = stale \ {ThreadOf[first]}
        /\ routedAt' \in [Messages -> Nat]
    BY <1>2, <1>3, <1>4, StartBatchFacts
  <2>6. QED
    BY <1>3, <1>7, <2>4, <2>5 DEF TypeOK, ingress
<1>9. QED
  BY <1>6, <1>8

(* The history a finished segment leaves behind keeps its types.           *)
LEMMA EndSegmentType ==
    ASSUME PoolAssumption, TypeOK, LockInv, NEW w \in Workers, EndSegment(w)
    PROVE  /\ pc[w] = "busy"
           /\ served' \in [Threads -> Seq(Messages)]
           /\ commandsRun' \in [Threads -> Nat]
           /\ pos[w] < segment[w] /\ segment[w] <= Len(batch[w])
           /\ pos[w] \in Nat /\ segment[w] \in Nat /\ Len(batch[w]) \in Nat
<1> DEFINE t == ThreadOfWorker(w)
           done == SubSeq(batch[w], pos[w] + 1, segment[w])
<1>1. /\ pc[w] = "busy"
      /\ served' = [served EXCEPT ![t] = @ \o done]
      /\ commandsRun' = [commandsRun EXCEPT ![t] =
                            @ + (IF IsCommand(done[1]) THEN 1 ELSE 0)]
  BY DEF EndSegment
<1>2. /\ pos[w] < segment[w] /\ segment[w] <= Len(batch[w])
      /\ batch[w] \in Seq(Messages) /\ pos[w] \in Nat /\ segment[w] \in Nat
  BY <1>1 DEF LockInv, BatchShape, TypeOK
<1>3. done \in Seq(Messages)
  BY <1>2, StretchType
<1>4. t \in Threads
  <2>1. batch[w] # <<>>
    BY <1>1 DEF LockInv, BatchShape, Engaged
  <2>2. QED
    BY <1>2, <2>1, HeadTailProperties DEF ThreadOfWorker, PoolAssumption
<1>5. served' \in [Threads -> Seq(Messages)]
  <2>1. served[t] \in Seq(Messages)
    BY <1>4 DEF TypeOK
  <2>2. served[t] \o done \in Seq(Messages)
    BY <1>3, <2>1, ConcatProperties
  <2> HIDE DEF done
  <2>3. QED
    BY <1>1, <1>4, <2>2 DEF TypeOK
<1>6. commandsRun' \in [Threads -> Nat]
  <2> DEFINE d == IF IsCommand(done[1]) THEN 1 ELSE 0
  <2>1. d \in Nat
    OBVIOUS
  <2>2. commandsRun' = [commandsRun EXCEPT ![t] = @ + d]
    BY <1>1
  <2> HIDE DEF d
  <2>3. QED
    BY <1>4, <2>1, <2>2, SMTT(30) DEF TypeOK
<1>7. QED
  BY <1>1, <1>2, <1>5, <1>6, LenProperties

LEMMA NextSegmentKeepsInv ==
    ASSUME PoolAssumption, TypeOK, LockInv, NEW w \in Workers, NextSegment(w)
    PROVE  TypeOK' /\ LockInv'
<1>1. /\ pc[w] = "busy"
      /\ served' \in [Threads -> Seq(Messages)]
      /\ commandsRun' \in [Threads -> Nat]
      /\ pos[w] < segment[w] /\ segment[w] <= Len(batch[w])
      /\ pos[w] \in Nat /\ segment[w] \in Nat /\ Len(batch[w]) \in Nat
  BY EndSegmentType DEF NextSegment
<1>2. /\ pos' = [pos EXCEPT ![w] = segment[w]]
      /\ StartSegment(w, batch[w], segment[w], commandsRun')
      /\ UNCHANGED <<ingress, queue, unfinished, pc, deferred, batch, lockVars>>
  BY DEF NextSegment
<1>3. PICK e \in (segment[w] + 1)..Len(batch[w]) :
        /\ segment' = [segment EXCEPT ![w] = e]
        /\ routedAt' = [m \in Messages |->
                           IF \E j \in RoutedNow(batch[w], segment[w], e) : batch[w][j] = m
                           THEN commandsRun'[ThreadOf[m]] ELSE routedAt[m]]
  BY <1>2 DEF StartSegment
<1>4. e \in Nat /\ segment[w] < e /\ e <= Len(batch[w])
  BY <1>1, <1>3
<1>5. routedAt' \in [Messages -> Nat]
  BY <1>1, <1>3 DEF TypeOK, PoolAssumption
<1>6. segment' \in [Workers -> Nat] /\ pos' \in [Workers -> Nat]
  BY <1>1, <1>2, <1>3, <1>4 DEF TypeOK
<1>7. TypeOK'
  BY <1>1, <1>2, <1>5, <1>6 DEF TypeOK, ingress, lockVars
<1>8. BatchShape'
  BY <1>1, <1>2, <1>3, <1>4 DEF LockInv, BatchShape, TypeOK, Engaged
<1>9. OneHolder' /\ (~SlowBatches => LocksCurrent')
  BY <1>2 DEF LockInv, OneHolder, LocksCurrent, Engaged, ThreadOfWorker, lockVars
<1>10. QED
  BY <1>7, <1>8, <1>9 DEF LockInv

LEMMA FinishBatchKeepsInv ==
    ASSUME PoolAssumption, TypeOK, LockInv, NEW w \in Workers, FinishBatch(w)
    PROVE  TypeOK' /\ LockInv'
<1>1. /\ served' \in [Threads -> Seq(Messages)]
      /\ commandsRun' \in [Threads -> Nat]
      /\ Len(batch[w]) \in Nat
  BY EndSegmentType DEF FinishBatch
<1>2. /\ unfinished' = unfinished - Len(batch[w])
      /\ pc' = [pc EXCEPT ![w] = "idle"]
      /\ batch' = [batch EXCEPT ![w] = <<>>]
      /\ pos' = [pos EXCEPT ![w] = 0]
      /\ segment' = [segment EXCEPT ![w] = 0]
      /\ lockOf' = [lockOf EXCEPT ![w] = 0]
      /\ Cleanup(w) \/ UNCHANGED <<locks, generation>>
      /\ UNCHANGED <<ingress, queue, deferred, waiters, stale, routedAt>>
  BY DEF FinishBatch, TasksDone
<1>3. generation' \in [Threads -> Nat] /\ locks' \subseteq locks
  <2>1. CASE UNCHANGED <<locks, generation>>
    BY <2>1 DEF TypeOK
  <2>2. CASE Cleanup(w)
    <3> DEFINE gone == {t \in Threads : Idle(t, w)}
               up(t) == IF t \in gone THEN 1 ELSE 0
    <3>1. locks' = locks \ gone
          /\ generation' = [t \in Threads |-> generation[t] + up(t)]
      BY <2>2 DEF Cleanup
    <3>2. \A t \in Threads : up(t) \in Nat
      OBVIOUS
    <3> HIDE DEF gone, up
    <3>3. QED
      BY <3>1, <3>2, SMTT(30) DEF TypeOK
  <2>3. QED
    BY <1>2, <2>1, <2>2
<1>4. TypeOK'
  <2>1. unfinished' \in Int
    BY <1>1, <1>2 DEF TypeOK
  <2>2. batch' \in [Workers -> Seq(Messages)]
    BY <1>2, EmptySeq DEF TypeOK
  <2>3. /\ pc' \in [Workers -> {"idle", "waiting", "busy", "stopped"}]
        /\ pos' \in [Workers -> Nat] /\ segment' \in [Workers -> Nat]
        /\ lockOf' \in [Workers -> Nat]
    BY <1>2 DEF TypeOK
  <2>4. QED
    BY <1>1, <1>2, <1>3, <2>1, <2>2, <2>3 DEF TypeOK, ingress
<1>5. /\ ~Engaged(w)' /\ pc'[w] = "idle"
      /\ \A v \in Workers \ {w} :
            /\ pc'[v] = pc[v] /\ batch'[v] = batch[v] /\ pos'[v] = pos[v]
            /\ segment'[v] = segment[v] /\ lockOf'[v] = lockOf[v]
            /\ ThreadOfWorker(v)' = ThreadOfWorker(v)
            /\ Engaged(v)' = Engaged(v)
  BY <1>2 DEF TypeOK, ThreadOfWorker, Engaged
<1>6. BatchShape'
  BY <1>5 DEF BatchShape, LockInv
<1>7. OneHolder'
  BY <1>5 DEF OneHolder, LockInv
<1>8. ASSUME ~SlowBatches
      PROVE  LocksCurrent'
  <2>1. SUFFICES ASSUME NEW v \in Workers \ {w}, Engaged(v)
                 PROVE  /\ ThreadOfWorker(v) \in locks' \ stale
                        /\ lockOf[v] = generation'[ThreadOfWorker(v)]
    BY <1>2, <1>5 DEF LocksCurrent
  <2>2. /\ ThreadOfWorker(v) \in locks \ stale
        /\ lockOf[v] = generation[ThreadOfWorker(v)]
    BY <1>8, <2>1 DEF LockInv, LocksCurrent
  <2>3. ThreadOfWorker(v) \in Threads /\ generation[ThreadOfWorker(v)] \in Nat
    BY <2>2 DEF TypeOK
  <2>4. CASE Cleanup(w)
    BY <2>2, <2>3, <2>4 DEF Cleanup, Idle
  <2>5. CASE UNCHANGED <<locks, generation>>
    BY <2>2, <2>5
  <2>6. QED
    BY <1>2, <2>4, <2>5
<1>9. QED
  BY <1>4, <1>6, <1>7, <1>8 DEF LockInv

LEMMA AgeKeepsInv ==
    ASSUME PoolAssumption, TypeOK, LockInv, NEW t \in Threads, Age(t)
    PROVE  TypeOK' /\ LockInv'
<1>1. /\ stale' = stale \cup {t}
      /\ SlowBatches \/ \A w \in Workers : ~(Engaged(w) /\ ThreadOfWorker(w) = t)
      /\ UNCHANGED <<ingress, queue, unfinished, pc, deferred, batch, pos,
                     segment, lockOf, waiters, locks, generation, history>>
  BY DEF Age
<1>2. TypeOK'
  BY <1>1 DEF TypeOK, ingress, history
<1>3. LockInv'
  BY <1>1 DEF LockInv, BatchShape, OneHolder, LocksCurrent, Engaged, ThreadOfWorker
<1>4. QED
  BY <1>2, <1>3

(* Steps of enqueue() and stop() do not touch workers or locks.            *)
LEMMA FrameKeepsLockInv ==
    ASSUME LockInv, UNCHANGED <<pc, batch, pos, segment, lockVars>>
    PROVE  LockInv'
  BY DEF LockInv, BatchShape, OneHolder, LocksCurrent, Engaged, ThreadOfWorker, lockVars

LEMMA PutType ==
    ASSUME TypeOK, NEW m \in Messages, Put(m)
    PROVE  queue' \in Seq(Item) /\ accepted' \in Seq(Messages) /\ unfinished' \in Int
  BY DEF Put, TypeOK, Item

LEMMA RememberType ==
    ASSUME PoolAssumption, TypeOK, NEW e \in Events
    PROVE  Remember(e) \in Seq(Events)
<1>1. window \in Seq(Events) /\ Len(window) \in Nat
  BY LenProperties DEF TypeOK
<1>2. CASE DedupWindow = 0
  BY <1>1, <1>2 DEF Remember
<1>3. CASE DedupWindow # 0 /\ Len(window) >= DedupWindow
  <2>1. window # <<>>
    BY <1>1, <1>3, EmptySeq DEF PoolAssumption
  <2>2. Tail(window) \in Seq(Events)
    BY <1>1, <2>1, HeadTailProperties
  <2>3. QED
    BY <1>3, <2>2 DEF Remember
<1>4. CASE DedupWindow # 0 /\ ~(Len(window) >= DedupWindow)
  BY <1>1, <1>4 DEF Remember
<1>5. QED
  BY <1>2, <1>3, <1>4

LEMMA EnqueueKeepsInv ==
    ASSUME PoolAssumption, TypeOK, LockInv, NEW m \in Messages, Enqueue(m)
    PROVE  TypeOK' /\ LockInv'
<1>1. /\ received' = received \cup {m}
      /\ UNCHANGED <<phase, sentinels, pc, deferred, batch, pos, segment,
                     lockVars, history>>
  BY DEF Enqueue
<1>2. EventOf[m] \in Events
  BY DEF PoolAssumption
<1>3. /\ window' \in Seq(Events) /\ putting' \in Item
      /\ queue' \in Seq(Item) /\ accepted' \in Seq(Messages) /\ unfinished' \in Int
  <2>1. CASE UNCHANGED <<window, putting, queue, accepted, unfinished>>
    BY <2>1 DEF TypeOK
  <2>2. CASE window' = Remember(EventOf[m]) /\ Put(m) /\ UNCHANGED putting
    BY <1>2, <2>2, PutType, RememberType DEF TypeOK
  <2>3. CASE /\ window' = Remember(EventOf[m])
             /\ putting' = m /\ UNCHANGED <<queue, accepted, unfinished>>
    BY <1>2, <2>3, RememberType DEF TypeOK, Item
  <2>4. QED
    BY <2>1, <2>2, <2>3 DEF Enqueue
<1>4. TypeOK'
  BY <1>1, <1>3 DEF TypeOK, lockVars, history
<1>5. QED
  BY <1>1, <1>4, FrameKeepsLockInv

LEMMA PutResumesKeepsInv ==
    ASSUME PoolAssumption, TypeOK, LockInv, PutResumes
    PROVE  TypeOK' /\ LockInv'
<1>1. /\ Put(putting) /\ putting' = None
      /\ UNCHANGED <<phase, sentinels, received, window, pc, deferred, batch,
                     pos, segment, lockVars, history>>
  BY DEF PutResumes
<1>2. putting \in Messages
  BY DEF PutResumes, TypeOK, Item
<1>3. queue' \in Seq(Item) /\ accepted' \in Seq(Messages) /\ unfinished' \in Int
  BY <1>1, <1>2, PutType
<1>4. TypeOK'
  BY <1>1, <1>3 DEF TypeOK, Item, lockVars, history
<1>5. QED
  BY <1>1, <1>4, FrameKeepsLockInv

LEMMA StoppingKeepsInv ==
    ASSUME PoolAssumption, TypeOK, LockInv, Stop \/ PutSentinel \/ StopReturns \/ Terminated
    PROVE  TypeOK' /\ LockInv'
<1>1. CASE Stop
  <2>1. Cardinality(Workers) \in Nat
    BY FS_CardinalityType DEF PoolAssumption
  <2>2. TypeOK'
    BY <1>1, <2>1 DEF Stop, SentinelCount, TypeOK, Item, lockVars, history
  <2>3. QED
    BY <1>1, <2>2, FrameKeepsLockInv DEF Stop
<1>2. CASE PutSentinel
  <2>1. /\ sentinels > 0 /\ sentinels' = sentinels - 1
        /\ unfinished' = unfinished + 1 /\ queue' = Append(queue, None)
        /\ UNCHANGED <<phase, received, window, putting, accepted, pc, deferred,
                       batch, pos, segment, lockVars, history>>
    BY <1>2 DEF PutSentinel, SentinelDue
  <2>2. sentinels' \in Nat /\ unfinished' \in Int /\ queue' \in Seq(Item)
    BY <2>1 DEF TypeOK, Item
  <2>3. TypeOK'
    BY <2>1, <2>2 DEF TypeOK, lockVars, history
  <2>4. QED
    BY <2>1, <2>3, FrameKeepsLockInv
<1>3. CASE StopReturns
  <2>1. TypeOK'
    BY <1>3 DEF StopReturns, TypeOK, lockVars, history
  <2>2. QED
    BY <1>3, <2>1, FrameKeepsLockInv DEF StopReturns
<1>4. CASE Terminated
  <2>1. TypeOK'
    BY <1>4 DEF Terminated, vars, TypeOK, ingress, lockVars, history
  <2>2. QED
    BY <1>4, <2>1, FrameKeepsLockInv DEF Terminated, vars
<1>5. QED
  BY <1>1, <1>2, <1>3, <1>4

-----------------------------------------------------------------------------
(* The theorems                                                            *)

LEMMA InitInv ==
    ASSUME PoolAssumption, Init
    PROVE  TypeOK /\ LockInv
<1>1. TypeOK
  BY EmptySeq DEF Init, TypeOK, Item
<1>2. LockInv
  BY DEF Init, LockInv, BatchShape, OneHolder, LocksCurrent, Engaged
<1>3. QED
  BY <1>1, <1>2

LEMMA NextInv ==
    ASSUME PoolAssumption, TypeOK, LockInv, [Next]_vars
    PROVE  TypeOK' /\ LockInv'
<1>1. CASE \E m \in Messages : Enqueue(m)
  BY <1>1, EnqueueKeepsInv
<1>2. CASE PutResumes
  BY <1>2, PutResumesKeepsInv
<1>3. CASE \E w \in Workers : WorkerStep(w)
  BY <1>3, TakeDeferredKeepsInv, TakeFromQueueKeepsInv, WakeKeepsInv,
     NextSegmentKeepsInv, FinishBatchKeepsInv DEF WorkerStep
<1>4. CASE \E t \in Threads : Age(t)
  BY <1>4, AgeKeepsInv
<1>5. CASE Stop \/ PutSentinel \/ StopReturns \/ Terminated
  BY <1>5, StoppingKeepsInv
<1>6. CASE UNCHANGED vars
  <2>1. TypeOK'
    BY <1>6 DEF vars, TypeOK, ingress, lockVars, history
  <2>2. QED
    BY <1>6, <2>1, FrameKeepsLockInv DEF vars
<1>7. QED
  BY <1>1, <1>2, <1>3, <1>4, <1>5, <1>6 DEF Next

(* The variables of the pool keep their types, for every number of workers *)
(* and every configuration of window, batch and queue bounds.              *)
THEOREM TypeCorrect == Spec => []TypeOK
<1>1. Init => TypeOK /\ LockInv
  BY PoolAssumption, InitInv
<1>2. TypeOK /\ LockInv /\ [Next]_vars => TypeOK' /\ LockInv'
  BY PoolAssumption, NextInv
<1>3. QED
  BY <1>1, <1>2, PTL DEF Spec

(* The inductive invariant behind mutual exclusion.                        *)
THEOREM LocksSound == Spec => []LockInv
<1>1. Init => TypeOK /\ LockInv
  BY PoolAssumption, InitInv
<1>2. TypeOK /\ LockInv /\ [Next]_vars => TypeOK' /\ LockInv'
  BY PoolAssumption, NextInv
<1>3. QED
  BY <1>1, <1>2, PTL DEF Spec

(* Conversations are processed by one worker at a time, whatever the       *)
(* number of workers, as long as no lock is in use for idle_ttl.           *)
THEOREM MutualExclusion ==
    ASSUME ~SlowBatches
    PROVE  Spec => []ThreadExclusive
<1>1. LockInv => ThreadExclusive
  BY DEF LockInv, OneHolder, LocksCurrent, ThreadExclusive, Engaged
<1>2. QED
  BY <1>1, LocksSound, PTL

-----------------------------------------------------------------------------
(* The deduplication window                                                *)

(* The messages admitted: those put on the queue, and the one that waits   *)
(* for room.                                                               *)
Admitted == IF putting = None THEN accepted ELSE Append(accepted, putting)

Spread(s) ==
    \A i, j \in DOMAIN s :
        i < j /\ j <= i + DedupWindow => EventOf[s[i]] # EventOf[s[j]]

(* While the pool runs, the window holds the events of the messages that   *)
(* were admitted last, as many as fit.                                     *)
WindowIs(held, s) ==
    LET n == Len(held)
    IN  /\ n <= DedupWindow /\ n <= Len(s) /\ (n = DedupWindow \/ n = Len(s))
        /\ \A k \in 1..n : held[k] = EventOf[s[Len(s) - n + k]]

WindowInv ==
    /\ putting # None => phase = "running"
    /\ phase = "running" => WindowIs(window, Admitted)
    /\ Spread(Admitted)

(* Another event behind the last ones, and the oldest out of the window.   *)
LEMMA RememberKeeps ==
    ASSUME PoolAssumption, TypeOK, NEW s \in Seq(Messages), NEW m \in Messages,
           WindowIs(window, s), Spread(s), ~Duplicate(EventOf[m]),
           window' = Remember(EventOf[m])
    PROVE  WindowIs(window', Append(s, m)) /\ Spread(Append(s, m))
<1> DEFINE n == Len(window)
           l == Len(s)
           e == EventOf[m]
           a == Append(s, m)
<1>1. /\ window \in Seq(Events) /\ n \in Nat /\ l \in Nat /\ DedupWindow \in Nat
      /\ e \in Events /\ DOMAIN window = 1..n
  BY LenProperties DEF TypeOK, PoolAssumption
<1>2. /\ a \in Seq(Messages) /\ Len(a) = l + 1 /\ a[l + 1] = m /\ DOMAIN a = 1..(l + 1)
      /\ \A i \in 1..l : a[i] = s[i]
  BY AppendProperties, LenProperties
<1>3. /\ n <= DedupWindow /\ n <= l /\ (n = DedupWindow \/ n = l)
      /\ \A k \in 1..n : window[k] = EventOf[s[l - n + k]]
  BY DEF WindowIs
<1>4. \A k \in 1..n : window[k] # e
  BY <1>1 DEF Duplicate
<1> HIDE DEF e, n, l
<1>5. WindowIs(window', a)
  <2>1. CASE DedupWindow = 0
    <3>1. window' = window /\ n = 0
      BY <1>1, <1>3, <2>1 DEF Remember
    <3>2. Len(window') = 0
      BY <3>1 DEF n
    <3> HIDE DEF a
    <3>3. QED
      BY <1>1, <1>2, <2>1, <3>2 DEF WindowIs
  <2>2. CASE DedupWindow # 0 /\ n >= DedupWindow
    <3> DEFINE t == Tail(window)
    <3>1. n = DedupWindow /\ n > 0
      BY <1>1, <1>3, <2>2
    <3>2. window' = Append(t, e)
      BY <2>2 DEF Remember, e, n
    <3>7. window # <<>>
      BY <1>1, <3>1, EmptySeq DEF n
    <3>3. t \in Seq(Events) /\ Len(t) = n - 1 /\ \A k \in 1..(n - 1) : t[k] = window[k + 1]
      BY <1>1, <3>7, HeadTailProperties DEF n
    <3> HIDE DEF t
    <3>4. /\ Len(window') = n /\ window'[n] = e
          /\ \A k \in 1..(n - 1) : window'[k] = t[k]
      BY <1>1, <3>1, <3>2, <3>3, AppendProperties
    <3>5. ASSUME NEW k \in 1..n
          PROVE  window'[k] = EventOf[a[(l + 1) - n + k]]
      <4>1. CASE k = n
        <5>1. (l + 1) - n + k = l + 1
          BY <1>1, <4>1
        <5>2. QED
          BY <1>2, <3>4, <4>1, <5>1 DEF e
      <4>2. CASE k # n
        <5>1. k \in 1..(n - 1) /\ k + 1 \in 1..n
          BY <1>1, <4>2
        <5>2. window'[k] = EventOf[s[l - n + (k + 1)]]
          BY <1>3, <3>3, <3>4, <5>1
        <5>3. (l + 1) - n + k = l - n + (k + 1) /\ l - n + (k + 1) \in 1..l
          BY <1>1, <1>3, <5>1
        <5>4. QED
          BY <1>2, <5>2, <5>3
      <4>3. QED
        BY <4>1, <4>2
    <3> HIDE DEF a
    <3>6. Len(window') <= Len(a) /\ Len(window') = DedupWindow
      BY <1>1, <1>2, <1>3, <3>1, <3>4
    <3>8. QED
      BY <1>1, <1>2, <3>4, <3>5, <3>6 DEF WindowIs
  <2>3. CASE DedupWindow # 0 /\ ~(n >= DedupWindow)
    <3>1. n = l /\ n < DedupWindow
      BY <1>1, <1>3, <2>3
    <3>6. window' = Append(window, e)
      BY <2>3 DEF Remember, e, n
    <3>2. /\ Len(window') = n + 1 /\ window'[n + 1] = e
          /\ \A k \in 1..n : window'[k] = window[k]
      BY <1>1, <3>1, <3>6, AppendProperties DEF n
    <3>3. ASSUME NEW k \in 1..(n + 1)
          PROVE  window'[k] = EventOf[a[(l + 1) - (n + 1) + k]]
      <4>1. (l + 1) - (n + 1) + k = k /\ k \in 1..(l + 1)
        BY <1>1, <3>1
      <4>2. CASE k = n + 1
        BY <1>2, <3>1, <3>2, <4>1, <4>2 DEF e
      <4>3. CASE k # n + 1
        <5>1. k \in 1..n /\ l - n + k = k
          BY <1>1, <3>1, <4>3
        <5>2. k \in 1..l /\ window[k] = EventOf[s[k]] /\ a[k] = s[k]
          <6>1. k \in 1..l
            BY <3>1, <5>1
          <6>2. window[k] = EventOf[s[l - n + k]]
            BY <1>3, <5>1
          <6>3. QED
            BY <1>2, <5>1, <6>1, <6>2
        <5>3. QED
          BY <3>2, <4>1, <5>1, <5>2
      <4>4. QED
        BY <4>2, <4>3
    <3> HIDE DEF a
    <3>4. Len(window') <= Len(a) /\ Len(window') = Len(a) /\ Len(window') <= DedupWindow
      BY <1>1, <1>2, <3>1, <3>2
    <3>5. QED
      BY <1>1, <1>2, <3>2, <3>3, <3>4 DEF WindowIs
  <2>4. QED
    BY <1>1, <2>1, <2>2, <2>3
<1>6. Spread(a)
  <2>1. ASSUME NEW i \in 1..(l + 1), NEW j \in 1..(l + 1), i < j, j <= i + DedupWindow
        PROVE  EventOf[a[i]] # EventOf[a[j]]
    <3>1. i \in 1..l
      BY <1>1, <2>1
    <3>2. CASE j = l + 1
      <4>1. i - (l - n) \in 1..n
        <5>1. n = DedupWindow \/ n = l
          BY <1>3
        <5>2. n \in Nat /\ l \in Nat /\ DedupWindow \in Nat /\ n <= l
          BY <1>1, <1>3
        <5>3. QED
          BY <2>1, <3>1, <3>2, <5>1, <5>2
      <4>2. window[i - (l - n)] = EventOf[s[i]]
        <5>1. l - n + (i - (l - n)) = i
          BY <1>1, <3>1
        <5>2. QED
          BY <1>3, <4>1, <5>1
      <4>3. QED
        BY <1>2, <1>4, <3>1, <3>2, <4>1, <4>2 DEF e
    <3>3. CASE j # l + 1
      <4>1. j \in 1..l /\ DOMAIN s = 1..l
        BY <1>1, <3>3, LenProperties DEF l
      <4>2. QED
        BY <1>2, <2>1, <3>1, <4>1 DEF Spread
    <3>4. QED
      BY <3>2, <3>3
  <2> HIDE DEF a
  <2>2. QED
    BY <1>2, <2>1 DEF Spread
<1>7. QED
  BY <1>5, <1>6

LEMMA WindowKept ==
    ASSUME PoolAssumption, TypeOK, WindowInv, [Next]_vars
    PROVE  WindowInv'
<1>1. accepted \in Seq(Messages) /\ None \notin Messages
  BY DEF TypeOK, PoolAssumption
<1>2. ASSUME UNCHANGED <<phase, window, putting, accepted>>
      PROVE  WindowInv'
  BY <1>2, ZenonT(40) DEF WindowInv, WindowIs, Admitted, Spread
<1>3. CASE \E m \in Messages : Enqueue(m)
  <2>1. PICK m \in Messages : Enqueue(m)
    BY <1>3
  <2>2. phase = "running" /\ putting = None /\ phase' = phase
    BY <2>1 DEF Enqueue
  <2>3. CASE UNCHANGED <<window, putting, queue, accepted, unfinished>>
    BY <1>2, <2>2, <2>3
  <2>4. CASE /\ ~Duplicate(EventOf[m]) /\ window' = Remember(EventOf[m])
             /\ \/ HasRoom /\ Put(m) /\ UNCHANGED putting
                \/ ~HasRoom /\ putting' = m /\ UNCHANGED <<queue, accepted, unfinished>>
    <3>1. Admitted = accepted /\ Admitted' = Append(accepted, m)
      BY <1>1, <2>2, <2>4 DEF Admitted, Put
    <3>2. WindowIs(window, accepted) /\ Spread(accepted)
      BY <2>2, <3>1 DEF WindowInv
    <3>3. WindowIs(window', Append(accepted, m)) /\ Spread(Append(accepted, m))
      BY <1>1, <2>4, <3>2, RememberKeeps
    <3>4. Spread(Admitted')
      BY <3>1, <3>3
    <3>5. Spread(Admitted)' = Spread(Admitted')
      BY DEF Spread
    <3>6. QED
      BY <2>2, <3>1, <3>3, <3>4, <3>5 DEF WindowInv
  <2>5. QED
    BY <2>1, <2>3, <2>4 DEF Enqueue
<1>4. CASE PutResumes
  <2>1. putting # None /\ putting' = None /\ accepted' = Append(accepted, putting)
        /\ UNCHANGED <<phase, window>>
    BY <1>4 DEF PutResumes, Put
  <2>2. Admitted' = Admitted
    BY <2>1 DEF Admitted
  <2>3. QED
    BY <2>1, <2>2 DEF WindowInv, WindowIs, Spread
<1>5. CASE Stop
  <2>1. phase' = "stopping" /\ putting' = None /\ accepted' = accepted
    BY <1>5 DEF Stop
  <2>2. Admitted' = accepted
    BY <2>1 DEF Admitted
  <2>3. Spread(accepted)
    <3>1. CASE putting = None
      BY <3>1 DEF WindowInv, Admitted
    <3>2. CASE putting # None
      <4>1. putting \in Messages /\ Spread(Append(accepted, putting))
        BY <3>2 DEF WindowInv, Admitted, TypeOK, Item
      <4>2. \A i \in DOMAIN accepted : /\ i \in DOMAIN Append(accepted, putting)
                                       /\ Append(accepted, putting)[i] = accepted[i]
        BY <1>1, <4>1, AppendProperties, LenProperties
      <4> DEFINE longer == Append(accepted, putting)
      <4> HIDE DEF longer
      <4>3. Spread(longer) /\ \A i \in DOMAIN accepted : i \in DOMAIN longer /\ longer[i] = accepted[i]
        BY <4>1, <4>2 DEF longer
      <4>4. QED
        BY <4>3 DEF Spread
    <3>3. QED
      BY <3>1, <3>2
  <2>4. QED
    BY <2>1, <2>2, <2>3 DEF WindowInv, Spread
<1>6. CASE \/ \E w \in Workers : WorkerStep(w)
           \/ \E t \in Threads : Age(t)
           \/ PutSentinel \/ Terminated \/ UNCHANGED vars
  <2>1. UNCHANGED ingress \/ UNCHANGED <<phase, window, putting, accepted>>
    BY <1>6 DEF WorkerStep, TakeDeferred, TakeFromQueue, Wake, NextSegment, FinishBatch,
                Age, PutSentinel, Terminated, vars
  <2>2. QED
    BY <1>2, <2>1 DEF ingress
<1>7. CASE StopReturns
  <2>1. phase = "stopping" /\ phase' = "stopped" /\ UNCHANGED <<putting, accepted>>
    BY <1>7 DEF StopReturns
  <2>2. QED
    BY <2>1 DEF WindowInv, Admitted, Spread
<1>8. QED
  BY <1>3, <1>4, <1>5, <1>6, <1>7 DEF Next

(* enqueue(): no event is accepted twice within the window, and none is    *)
(* turned away that is not accepted already, for any size of the window,   *)
(* of the queue and any number of workers.                                 *)
THEOREM WindowAlwaysExact == Spec => WindowExact
<1> DEFINE Apart ==
             \A i, j \in DOMAIN accepted :
                 i < j /\ j <= i + DedupWindow
                     => EventOf[accepted[i]] # EventOf[accepted[j]]
           Turned ==
             \A m \in received' \ received :
                 \/ m \in Range(accepted') \/ m = putting'
                 \/ \E n \in Range(accepted) \cup {putting} :
                       n # None /\ EventOf[n] = EventOf[m]
           Inv == TypeOK /\ LockInv /\ WindowInv
<1>1. Init => Inv
  <2> SUFFICES ASSUME Init PROVE WindowInv
    BY PoolAssumption, InitInv
  <2>1. Admitted = <<>> /\ window = <<>> /\ putting = None
    BY DEF Init, Admitted
  <2>2. Len(window) = 0 /\ Len(Admitted) = 0 /\ DOMAIN Admitted = {}
    BY <2>1
  <2>3. QED
    BY <2>1, <2>2, PoolAssumption DEF WindowInv, WindowIs, Spread, PoolAssumption
<1>2. Inv /\ [Next]_vars => Inv'
  BY PoolAssumption, NextInv, WindowKept
<1>3. Inv => Apart
  <2> SUFFICES ASSUME Inv PROVE Apart
    OBVIOUS
  <2>1. CASE putting = None
    BY <2>1 DEF WindowInv, Admitted, Spread
  <2>2. CASE putting # None
    <3> DEFINE longer == Append(accepted, putting)
    <3>1. putting \in Messages /\ accepted \in Seq(Messages) /\ Spread(longer)
      BY <2>2 DEF WindowInv, Admitted, TypeOK, Item
    <3>2. \A i \in DOMAIN accepted : i \in DOMAIN longer /\ longer[i] = accepted[i]
      BY <3>1, AppendProperties, LenProperties
    <3> HIDE DEF longer
    <3>3. QED
      BY <3>1, <3>2 DEF Spread
  <2>3. QED
    BY <2>1, <2>2
<1>4. Inv /\ [Next]_vars => [Turned]_vars
  <2> SUFFICES ASSUME Inv, [Next]_vars, NEW m \in received' \ received
               PROVE  \/ m \in Range(accepted') \/ m = putting'
                      \/ \E n \in Range(accepted) \cup {putting} :
                            n # None /\ EventOf[n] = EventOf[m]
    OBVIOUS
  <2>1. PICK x \in Messages : Enqueue(x)
    BY DEF Next, PutResumes, WorkerStep, TakeDeferred, TakeFromQueue, Wake, NextSegment,
           FinishBatch, Age, Stop, PutSentinel, StopReturns, Terminated, vars, ingress
  <2>2. x = m /\ phase = "running" /\ putting = None
    BY <2>1 DEF Enqueue
  <2>3. accepted \in Seq(Messages) /\ Len(accepted) \in Nat /\ DOMAIN accepted = 1..Len(accepted)
        /\ None \notin Messages
    BY LenProperties, PoolAssumption DEF TypeOK, PoolAssumption
  <2>4. CASE Duplicate(EventOf[m])
    <3>1. window \in Seq(Events) /\ Len(window) \in Nat /\ DOMAIN window = 1..Len(window)
      BY LenProperties DEF TypeOK
    <3>2. PICK k \in 1..Len(window) : window[k] = EventOf[m]
      BY <2>4, <3>1 DEF Duplicate
    <3>3. WindowIs(window, accepted)
      BY <2>2 DEF WindowInv, Admitted
    <3> DEFINE i == Len(accepted) - Len(window) + k
    <3>4. EventOf[accepted[i]] = EventOf[m] /\ i \in 1..Len(accepted)
      <4>1. i \in 1..Len(accepted)
        <5> DEFINE n == Len(window)
                   l == Len(accepted)
        <5>1. n \in Nat /\ l \in Nat /\ n <= l /\ k \in 1..n
          BY <2>3, <3>1, <3>3 DEF WindowIs
        <5> HIDE DEF n, l
        <5>2. l - n + k \in 1..l
          BY <5>1
        <5>3. QED
          BY <5>2 DEF n, l
      <4>2. window[k] = EventOf[accepted[i]]
        BY <3>2, <3>3 DEF WindowIs
      <4>3. QED
        BY <3>2, <4>1, <4>2
    <3>5. accepted[i] \in Messages /\ accepted[i] \in Range(accepted)
      BY <2>3, <3>4, ElementOfSeq DEF Range
    <3>6. QED
      BY <2>3, <3>4, <3>5
  <2>5. CASE Put(m)
    <3>1. accepted' = Append(accepted, m)
      BY <2>5 DEF Put
    <3>2. m \in Messages
      BY <2>1, <2>2
    <3>3. DOMAIN accepted' = 1..(Len(accepted) + 1) /\ accepted'[Len(accepted) + 1] = m
      BY <2>3, <3>1, <3>2, AppendProperties, LenProperties
    <3>4. Len(accepted) + 1 \in DOMAIN accepted'
      BY <2>3, <3>3
    <3>5. m \in Range(accepted')
      BY <3>3, <3>4 DEF Range
    <3>6. QED
      BY <3>5
  <2>6. QED
    BY <2>1, <2>2, <2>4, <2>5 DEF Enqueue
<1>5. Spec => []Apart /\ [][Turned]_vars
  <2> HIDE DEF Inv, Apart, Turned
  <2>1. QED
    BY <1>1, <1>2, <1>3, <1>4, PTL DEF Spec
<1>6. QED
  BY <1>5 DEF WindowExact

-----------------------------------------------------------------------------
(* Where the items are.  A message that was accepted is found at one index *)
(* of one place: the queue, the deferred slot of a worker, the unprocessed *)
(* rest of a batch, or what was served of its thread.                      *)

Found(m, p, i) ==
    \/ p = <<"queue", None>> /\ i \in DOMAIN queue /\ queue[i] = m
    \/ /\ p = <<"served", None>>
       /\ i \in DOMAIN served[ThreadOf[m]] /\ served[ThreadOf[m]][i] = m
    \/ \E w \in Workers :
          p = <<"deferred", w>> /\ i \in DOMAIN deferred[w] /\ deferred[w][i] = m
    \/ \E w \in Workers :
          p = <<"batch", w>> /\ i \in DOMAIN batch[w] /\ i > pos[w] /\ batch[w][i] = m

Once ==
    \A m \in Messages :
        /\ \A p, q, i, j : Found(m, p, i) /\ Found(m, q, j) => p = q /\ i = j
        /\ (\E p, i : Found(m, p, i)) <=> m \in Range(accepted)

(* With one worker there is a line: what is still to be served is first in *)
(* the batch, then in the deferred slot, then in the queue.                *)
Ahead(w, p, i, q, j) ==
    \/ p = <<"served", None>>
    \/ p = q /\ i < j
    \/ p = <<"batch", w>> /\ q \in {<<"deferred", w>>, <<"queue", None>>}
    \/ p = <<"deferred", w>> /\ q = <<"queue", None>>

Ordered(w, x, y) ==
    \A p, q, i, j : Found(x, p, i) /\ Found(y, q, j) =>
        /\ Ahead(w, p, i, q, j)
        /\ p = q /\ ThreadOf[x] = ThreadOf[y] => i < j

InLine ==
    \A w : Workers = {w} =>
        \A a, c \in DOMAIN accepted : a < c => Ordered(w, accepted[a], accepted[c])

(* A step that lets nobody jump the line.                                  *)
SameOrder ==
    \A w : Workers = {w} => \A x, y \in Messages : Ordered(w, x, y) => Ordered(w, x, y)'

Ingress ==
    /\ Range(accepted) \subseteq received
    /\ putting # None => phase = "running" /\ putting \in received \ Range(accepted)

(* What a worker has at which point of its loop.                           *)
Shape ==
    \A w \in Workers :
        /\ Len(deferred[w]) <= 1
        /\ pc[w] \in {"waiting", "stopped"} => deferred[w] = <<>>
        /\ pc[w] \in {"idle", "stopped"} => batch[w] = <<>>
        /\ pc[w] = "waiting" => Len(batch[w]) = 1
        /\ pc[w] # "busy" => pos[w] = 0
        /\ \A i \in DOMAIN batch[w] : ThreadOf[batch[w][i]] = ThreadOfWorker(w)

(* Before: w takes the item `first` from place p, and q is behind it in    *)
(* the queue; d tells whether `first` was in the queue itself.             *)
Source(w, first, q, p, d) ==
    /\ Len(queue) = Len(q) + d /\ \A j \in 1..Len(q) : queue[j + d] = q[j]
    /\ \/ /\ d = 1 /\ p = <<"queue", None>> /\ queue[1] = first
          /\ deferred[w] = <<>> /\ batch[w] = <<>>
       \/ /\ d = 0 /\ p = <<"deferred", w>> /\ batch[w] = <<>>
          /\ Len(deferred[w]) = 1 /\ deferred[w][1] = first
       \/ /\ d = 0 /\ p = <<"batch", w>> /\ deferred[w] = <<>>
          /\ Len(batch[w]) = 1 /\ batch[w][1] = first /\ pos[w] = 0

(* After: `first` and the k items behind it are the batch of w, the next   *)
(* one is deferred or still in the queue.                                  *)
Takes(w, first, q, k, r) ==
    /\ k \in 0..Len(q)
    /\ r \in Seq(Item) /\ Len(r) \in {0, 1}
    /\ Len(r) = 1 => k < Len(q) /\ r[1] = q[k + 1]
    /\ \A i \in 1..k : q[i] \in Messages /\ ThreadOf[q[i]] = ThreadOf[first]
    /\ Len(batch'[w]) = k + 1 /\ batch'[w][1] = first
    /\ \A i \in 1..k : batch'[w][i + 1] = q[i]
    /\ deferred'[w] = r /\ pos'[w] = 0
    /\ Len(queue') = Len(q) - k - Len(r)
    /\ \A i \in 1..Len(queue') : queue'[i] = q[k + Len(r) + i]
    /\ pc'[w] \in {"busy", "waiting"}
    /\ pc'[w] = "waiting" => k = 0 /\ Len(r) = 0
    /\ \A v \in Workers \ {w} : /\ batch'[v] = batch[v] /\ deferred'[v] = deferred[v]
                                /\ pos'[v] = pos[v] /\ pc'[v] = pc[v]

LEMMA StartBatchTakes ==
    ASSUME PoolAssumption, TypeOK, NEW w \in Workers, NEW first \in Messages,
           NEW q \in Seq(Item), StartBatch(w, first, q)
    PROVE  \E k, r : Takes(w, first, q, k, r) /\ pc'[w] = "busy"
<1>1. PICK k \in 0..Len(q) :
        LET b == <<first>> \o SubSeq(q, 1, k)
            r == Blocked(q, k)
        IN  /\ Collects(q, ThreadOf[first], k)
            /\ queue' = SubSeq(q, k + Len(r) + 1, Len(q))
            /\ deferred' = [deferred EXCEPT ![w] = r]
            /\ batch' = [batch EXCEPT ![w] = b]
            /\ pos' = [pos EXCEPT ![w] = 0]
            /\ pc' = [pc EXCEPT ![w] = "busy"]
            /\ stale' = stale \ {ThreadOf[first]}
            /\ StartSegment(w, b, 0, commandsRun)
  BY DEF StartBatch
<1> DEFINE drawn == SubSeq(q, 1, k)
           b == <<first>> \o drawn
           r == Blocked(q, k)
           n == Len(q)
<1>2. n \in Nat /\ k \in Nat /\ k <= n
  BY LenProperties
<1>3. \A i \in 1..k : q[i] \in Messages /\ ThreadOf[q[i]] = ThreadOf[first]
  <2>1. \A i \in 1..k : q[i] \in Item
    BY <1>2, ElementOfSeq
  <2>2. \A i \in 1..k : q[i] # None /\ ThreadOf[q[i]] = ThreadOf[first]
    BY <1>1 DEF Collects, SameThread
  <2>3. QED
    BY <2>1, <2>2 DEF Item
<1>4. drawn \in Seq(Messages) /\ Len(drawn) = k /\ \A i \in 1..k : drawn[i] = q[i]
  <2>1. \A i \in 1..k : q[i] \in Messages
    BY <1>3
  <2>2. /\ drawn \in Seq(Messages)
        /\ Len(drawn) = IF 1 <= k THEN k - 1 + 1 ELSE 0
        /\ \A i \in 1..(k - 1 + 1) : drawn[i] = q[1 + i - 1]
    BY <1>2, <2>1, SubSeqProperties
  <2> HIDE DEF drawn
  <2>3. QED
    BY <1>2, <2>2
<1>5. /\ b \in Seq(Messages) /\ Len(b) = k + 1 /\ b[1] = first
      /\ \A i \in 1..k : b[i + 1] = q[i]
  <2>1. <<first>> \in Seq(Messages) /\ Len(<<first>>) = 1 /\ <<first>>[1] = first
    OBVIOUS
  <2> DEFINE one == <<first>>
  <2> HIDE DEF one, drawn
  <2>2. one \in Seq(Messages) /\ Len(one) = 1 /\ one[1] = first
    BY <2>1 DEF one
  <2>3. /\ one \o drawn \in Seq(Messages)
        /\ Len(one \o drawn) = Len(one) + Len(drawn)
        /\ \A i \in 1..(Len(one) + Len(drawn)) :
              (one \o drawn)[i] = IF i <= Len(one) THEN one[i] ELSE drawn[i - Len(one)]
    BY <1>4, <2>2, ConcatProperties, ZenonT(40)
  <2>4. QED
    BY <1>2, <1>4, <2>2, <2>3 DEF one
<1>6. r \in Seq(Item) /\ Len(r) \in {0, 1} /\ (Len(r) = 1 => k < n /\ r[1] = q[k + 1])
  <2>1. k < n => q[k + 1] \in Item
    BY <1>2, ElementOfSeq
  <2>2. CASE k < n /\ r = <<q[k + 1]>>
    <3>1. r = <<q[k + 1]>> /\ q[k + 1] \in Item
      BY <2>1, <2>2
    <3> HIDE DEF r
    <3>2. QED
      BY <2>2, <3>1
  <2>3. CASE r = <<>>
    <3> HIDE DEF r
    <3>1. QED
      BY <2>3
  <2>4. r = <<>> \/ (k < n /\ r = <<q[k + 1]>>)
    BY DEF Blocked
  <2>5. QED
    BY <2>2, <2>3, <2>4
<1> HIDE DEF r
<1>7. /\ Len(queue') = n - k - Len(r)
      /\ \A i \in 1..Len(queue') : queue'[i] = q[k + Len(r) + i]
  <2> DEFINE s == k + Len(r) + 1
             rest == SubSeq(q, s, n)
  <2>1. s \in Int /\ n \in Int /\ s >= 1 /\ s <= n + 1
    BY <1>2, <1>6, SMTT(30)
  <2>2. \A i \in s..n : q[i] \in Item
    <3> HIDE DEF s
    <3>1. \A i \in s..n : i \in 1..n
      BY <2>1
    <3> HIDE DEF n
    <3>2. \A i \in 1..n : q[i] \in Item
      BY ElementOfSeq DEF n
    <3>3. QED
      BY <3>1, <3>2
  <2>3. /\ Len(rest) = IF s <= n THEN n - s + 1 ELSE 0
        /\ \A i \in 1..(n - s + 1) : rest[i] = q[s + i - 1]
    <3> HIDE DEF s, n
    <3>1. QED
      BY <2>1, <2>2, SubSeqProperties
  <2>4. queue' = rest
    BY <1>1 DEF r
  <2> HIDE DEF rest
  <2>5. Len(rest) = n - k - Len(r)
    BY <1>2, <1>6, <2>1, <2>3
  <2>6. ASSUME NEW i \in 1..Len(rest)
        PROVE  rest[i] = q[k + Len(r) + i]
    <3>1. i \in 1..(n - s + 1) /\ s + i - 1 = k + Len(r) + i
      BY <1>2, <1>6, <2>5
    <3>2. QED
      BY <2>3, <3>1
  <2>7. QED
    BY <2>4, <2>5, <2>6
<1> HIDE DEF b, n
<1>8. /\ deferred'[w] = r /\ batch'[w] = b /\ pos'[w] = 0 /\ pc'[w] = "busy"
      /\ \A v \in Workers \ {w} : /\ batch'[v] = batch[v] /\ deferred'[v] = deferred[v]
                                  /\ pos'[v] = pos[v] /\ pc'[v] = pc[v]
  BY <1>1 DEF TypeOK, b, r
<1>9. Takes(w, first, q, k, r)
  BY <1>3, <1>5, <1>6, <1>7, <1>8 DEF Takes, n
<1>10. QED
  BY <1>8, <1>9

LEMMA WaitTakes ==
    ASSUME PoolAssumption, TypeOK, Shape, NEW w \in Workers, NEW item \in Messages,
           NEW q \in Seq(Item), pc[w] = "idle", Consume(w, item, q)
    PROVE  \E k, r : Takes(w, item, q, k, r)
<1>1. item # None
  BY DEF PoolAssumption
<1>2. CASE StartBatch(w, item, q)
  BY <1>2, StartBatchTakes
<1>3. CASE ~LockFree(ThreadOf[item])
  <2> DEFINE none == <<>>
             b == <<item>>
  <2>1. /\ pc' = [pc EXCEPT ![w] = "waiting"]
        /\ batch' = [batch EXCEPT ![w] = b]
        /\ queue' = q
        /\ deferred' = [deferred EXCEPT ![w] = none]
        /\ pos' = pos
    BY <1>1, <1>3 DEF Consume
  <2>2. none \in Seq(Item) /\ Len(none) = 0 /\ Len(b) = 1 /\ b[1] = item
    BY EmptySeq
  <2> HIDE DEF none, b
  <2>3. /\ pc'[w] = "waiting" /\ batch'[w] = b /\ deferred'[w] = none
        /\ pos'[w] = 0 /\ queue' = q
        /\ \A v \in Workers \ {w} : /\ batch'[v] = batch[v] /\ deferred'[v] = deferred[v]
                                    /\ pos'[v] = pos[v] /\ pc'[v] = pc[v]
    BY <2>1 DEF TypeOK, Shape
  <2>4. Len(q) \in Nat
    BY LenProperties
  <2>5. Takes(w, item, q, 0, none)
    <3> DEFINE n == Len(q)
    <3>1. n \in Nat /\ Len(queue') = n - 0 - Len(none)
      BY <2>2, <2>3, <2>4
    <3>2. \A i \in 1..Len(queue') : queue'[i] = q[0 + Len(none) + i]
      BY <2>2, <2>3, <2>4
    <3>3. QED
      BY <2>2, <2>3, <2>4, <3>1, <3>2 DEF Takes
  <2>6. QED
    BY <2>5
<1>4. QED
  BY <1>1, <1>2, <1>3 DEF Consume

(* Types of what lies at the places, for the lemmas below.                 *)
LEMMA PlaceTypes ==
    ASSUME TypeOK
    PROVE  /\ queue \in Seq(Item) /\ Len(queue) \in Nat /\ DOMAIN queue = 1..Len(queue)
           /\ \A w \in Workers :
                 /\ deferred[w] \in Seq(Item) /\ Len(deferred[w]) \in Nat
                 /\ DOMAIN deferred[w] = 1..Len(deferred[w])
                 /\ batch[w] \in Seq(Messages) /\ Len(batch[w]) \in Nat
                 /\ DOMAIN batch[w] = 1..Len(batch[w])
                 /\ pos[w] \in Nat /\ segment[w] \in Nat
           /\ \A t \in Threads : /\ served[t] \in Seq(Messages) /\ Len(served[t]) \in Nat
                                 /\ DOMAIN served[t] = 1..Len(served[t])
BY LenProperties DEF TypeOK

(* The served are ahead of everybody; at any other place the index tells.  *)
LEMMA AheadAtOnePlace ==
    ASSUME NEW w
    PROVE  /\ \A q, i, j : Ahead(w, <<"served", None>>, i, q, j)
           /\ \A p, i, j : p # <<"served", None>> /\ Ahead(w, p, i, p, j) => i < j
<1>1. <<"batch", w>> \notin {<<"deferred", w>>, <<"queue", None>>}
  OBVIOUS
<1>2. <<"deferred", w>> # <<"queue", None>>
  OBVIOUS
<1>3. QED
  BY <1>1, <1>2 DEF Ahead

(* Taking items moves each of them to another place, and no two to the     *)
(* same one: item 0 is `first`, item a the a-th of q.                      *)
LEMMA TakeKeepsOnce ==
    ASSUME PoolAssumption, TypeOK, TypeOK', Once, NEW w \in Workers, NEW first \in Messages,
           NEW q \in Seq(Item), NEW p0, NEW d \in {0, 1}, NEW k, NEW r,
           Source(w, first, q, p0, d), Takes(w, first, q, k, r),
           UNCHANGED <<served, accepted>>
    PROVE  Once' /\ SameOrder
<1> DEFINE n == Len(q)
           l == Len(r)
           Q == <<"queue", None>>
           D == <<"deferred", w>>
           B == <<"batch", w>>
           Item0(a) == IF a = 0 THEN first ELSE q[a]
           Was(a, p, i) == \/ a = 0 /\ p = p0 /\ i = 1
                           \/ a \in 1..n /\ p = Q /\ i = a + d
           Is(a, p, i) == \/ a \in 0..k /\ p = B /\ i = a + 1
                          \/ a = k + 1 /\ l = 1 /\ p = D /\ i = 1
                          \/ a \in (k + l + 1)..n /\ p = Q /\ i = a - k - l
           Mine(p) == p \in {Q, D, B}
<1>1. /\ n \in Nat /\ k \in 0..n /\ k \in Nat /\ l \in {0, 1} /\ l \in Nat
      /\ l = 1 => k < n
  BY LenProperties DEF Takes
<1> HIDE DEF n, l
<1>2. p0 \in {Q, D, B} /\ (p0 = Q => d = 1) /\ Q # D /\ Q # B /\ D # B
  BY DEF Source
<1>3. ASSUME NEW m \in Messages, NEW p, NEW i, Mine(p)
      PROVE  Found(m, p, i) <=> \E a \in 0..n : Item0(a) = m /\ Was(a, p, i)
  <2>1. /\ Len(queue) = n + d /\ \A j \in 1..n : queue[j + d] = q[j]
        /\ DOMAIN queue = 1..(n + d)
    BY PlaceTypes DEF Source, n
  <2>2. CASE p = Q
    <3>1. Found(m, p, i) <=> i \in 1..(n + d) /\ queue[i] = m
      BY <1>2, <2>1, <2>2 DEF Found
    <3>2. CASE p0 = Q
      <4>1. d = 1 /\ queue[1] = first
        BY <1>2, <3>2 DEF Source
      <4>2. ASSUME i \in 1..(n + d), queue[i] = m
            PROVE  \E a \in 0..n : Item0(a) = m /\ Was(a, p, i)
        <5>1. CASE i = 1
          <6>1. 0 \in 0..n /\ Item0(0) = m /\ Was(0, p, i)
            BY <1>1, <2>2, <3>2, <4>1, <4>2, <5>1
          <6>2. QED
            BY <6>1
        <5>2. CASE i # 1
          <6>1. i - 1 \in 1..n /\ (i - 1) + d = i
            BY <1>1, <4>1, <4>2, <5>2
          <6>2. queue[(i - 1) + d] = q[i - 1]
            BY <2>1, <6>1
          <6>3. Item0(i - 1) = m
            BY <1>1, <4>2, <6>1, <6>2
          <6>4. Was(i - 1, p, i)
            BY <2>2, <6>1
          <6>5. i - 1 \in 0..n
            BY <1>1, <6>1
          <6>6. QED
            BY <6>3, <6>4, <6>5
        <5>3. QED
          BY <5>1, <5>2
      <4>3. ASSUME NEW a \in 0..n, Item0(a) = m, Was(a, p, i)
            PROVE  i \in 1..(n + d) /\ queue[i] = m
        BY <1>1, <2>1, <4>1, <4>3
      <4>4. QED
        BY <3>1, <4>2, <4>3
    <3>3. CASE p0 # Q
      <4>1. d = 0
        BY <3>3 DEF Source
      <4>2. ASSUME i \in 1..(n + d), queue[i] = m
            PROVE  \E a \in 0..n : Item0(a) = m /\ Was(a, p, i)
        <5>1. i \in 1..n /\ i + d = i /\ i # 0
          BY <1>1, <4>1, <4>2
        <5>2. Item0(i) = m /\ Was(i, p, i)
          BY <2>1, <2>2, <4>2, <5>1
        <5>3. QED
          BY <5>1, <5>2
      <4>3. ASSUME NEW a \in 0..n, Item0(a) = m, Was(a, p, i)
            PROVE  i \in 1..(n + d) /\ queue[i] = m
        <5>1. a \in 1..n /\ i = a + d
          BY <2>2, <3>3, <4>3
        <5>2. QED
          BY <1>1, <2>1, <4>1, <4>3, <5>1
      <4>4. QED
        BY <3>1, <4>2, <4>3
    <3>4. QED
      BY <3>2, <3>3
  <2>3. CASE p = D
    <3>1. Found(m, p, i) <=> i \in DOMAIN deferred[w] /\ deferred[w][i] = m
      BY <1>2, <2>3 DEF Found
    <3>2. CASE p0 = D
      <4>1. /\ Len(deferred[w]) = 1 /\ deferred[w][1] = first
            /\ DOMAIN deferred[w] = 1..1
        BY <1>2, <3>2, PlaceTypes DEF Source
      <4>2. Found(m, p, i) <=> i = 1 /\ first = m
        BY <3>1, <4>1
      <4>3. 0 \in 0..n /\ Item0(0) = first
        BY <1>1
      <4>4. QED
        BY <1>2, <2>3, <3>2, <4>2, <4>3
    <3>3. CASE p0 # D
      <4>1. deferred[w] = <<>>
        BY <3>3 DEF Source
      <4>2. QED
        BY <1>2, <2>3, <3>1, <3>3, <4>1
    <3>4. QED
      BY <3>2, <3>3
  <2>4. CASE p = B
    <3>1. Found(m, p, i) <=> i \in DOMAIN batch[w] /\ i > pos[w] /\ batch[w][i] = m
      BY <1>2, <2>4 DEF Found
    <3>2. CASE p0 = B
      <4>1. /\ Len(batch[w]) = 1 /\ batch[w][1] = first /\ pos[w] = 0
            /\ DOMAIN batch[w] = 1..1
        BY <1>2, <3>2, PlaceTypes DEF Source
      <4>2. Found(m, p, i) <=> i = 1 /\ first = m
        BY <3>1, <4>1
      <4>3. 0 \in 0..n /\ Item0(0) = first
        BY <1>1
      <4>4. QED
        BY <1>2, <2>4, <3>2, <4>2, <4>3
    <3>3. CASE p0 # B
      <4>1. batch[w] = <<>>
        BY <3>3 DEF Source
      <4>2. QED
        BY <1>2, <2>4, <3>1, <3>3, <4>1
    <3>4. QED
      BY <3>2, <3>3
  <2>5. QED
    BY <1>3, <2>2, <2>3, <2>4
<1>4. ASSUME NEW m \in Messages, NEW p, NEW i, Mine(p)
      PROVE  Found(m, p, i)' <=> \E a \in 0..n : Item0(a) = m /\ Is(a, p, i)
  <2>1. /\ DOMAIN queue' = 1..Len(queue') /\ Len(queue') \in Nat
        /\ DOMAIN deferred'[w] = 1..Len(deferred'[w])
        /\ DOMAIN batch'[w] = 1..Len(batch'[w])
    BY LenProperties DEF TypeOK
  <2>2. CASE p = Q
    <3>1. Found(m, p, i)' <=> i \in 1..Len(queue') /\ queue'[i] = m
      BY <1>2, <2>1, <2>2 DEF Found
    <3>2. /\ Len(queue') = n - k - l
          /\ \A j \in 1..Len(queue') : queue'[j] = q[k + l + j]
      BY DEF Takes, n, l
    <3>3. ASSUME i \in 1..Len(queue'), queue'[i] = m
          PROVE  \E a \in 0..n : Item0(a) = m /\ Is(a, p, i)
      <4> DEFINE a == k + l + i
      <4>1. a \in (k + l + 1)..n /\ a \in 1..n /\ i = a - k - l /\ a \in 0..n
        BY <1>1, <3>2, <3>3
      <4>2. Item0(a) = m
        BY <3>2, <3>3, <4>1
      <4> HIDE DEF a
      <4>3. QED
        BY <2>2, <4>1, <4>2
    <3>4. ASSUME NEW a \in 0..n, Item0(a) = m, Is(a, p, i)
          PROVE  i \in 1..Len(queue') /\ queue'[i] = m
      <4>1. a \in (k + l + 1)..n /\ i = a - k - l
        BY <1>2, <2>2, <3>4
      <4>2. i \in 1..(n - k - l) /\ a = k + l + i /\ a # 0
        BY <1>1, <4>1
      <4>3. QED
        BY <3>2, <3>4, <4>2
    <3>5. QED
      BY <3>1, <3>3, <3>4
  <2>3. CASE p = D
    <3>1. Found(m, p, i)' <=> i \in 1..l /\ r[i] = m
      BY <1>2, <2>1, <2>3 DEF Found, Takes, l
    <3>2. l = 1 => r[1] = q[k + 1] /\ k + 1 \in 0..n /\ k + 1 # 0
      BY <1>1 DEF Takes, l
    <3>3. Found(m, p, i)' <=> l = 1 /\ i = 1 /\ q[k + 1] = m
      BY <1>1, <3>1, <3>2
    <3>4. Item0(k + 1) = q[k + 1]
      BY <1>1
    <3>5. QED
      BY <1>2, <2>3, <3>2, <3>3, <3>4
  <2>4. CASE p = B
    <3>1. Found(m, p, i)' <=> i \in 1..(k + 1) /\ i > 0 /\ batch'[w][i] = m
      BY <1>2, <2>1, <2>4 DEF Found, Takes
    <3>2. batch'[w][1] = first /\ \A j \in 1..k : batch'[w][j + 1] = q[j]
      BY DEF Takes
    <3>3. ASSUME i \in 1..(k + 1), batch'[w][i] = m
          PROVE  \E a \in 0..n : Item0(a) = m /\ Is(a, p, i)
      <4>1. i - 1 \in 0..k /\ i - 1 \in 0..n /\ i = (i - 1) + 1
        BY <1>1, <3>3
      <4>2. Item0(i - 1) = m
        BY <1>1, <3>2, <3>3, <4>1
      <4>3. QED
        BY <2>4, <4>1, <4>2
    <3>4. ASSUME NEW a \in 0..n, Item0(a) = m, Is(a, p, i)
          PROVE  i \in 1..(k + 1) /\ batch'[w][i] = m
      <4>1. a \in 0..k /\ i = a + 1
        BY <1>2, <2>4, <3>4
      <4>2. QED
        BY <1>1, <3>2, <3>4, <4>1
    <3>5. QED
      BY <1>1, <3>1, <3>3, <3>4
  <2>5. QED
    BY <1>4, <2>2, <2>3, <2>4
<1>5. ASSUME NEW m \in Messages, NEW p, NEW i, ~Mine(p)
      PROVE  Found(m, p, i)' <=> Found(m, p, i)
  BY <1>5 DEF Found, Takes
<1>6. ASSUME NEW a \in 0..n, NEW b \in 0..n, NEW p, NEW i, Was(a, p, i), Was(b, p, i)
      PROVE  a = b
  BY <1>1, <1>2, <1>6
<1>7. ASSUME NEW a \in 0..n
      PROVE  \E p, i : Was(a, p, i) /\ Mine(p)
  <2>1. CASE a = 0
    <3>1. Was(a, p0, 1) /\ Mine(p0)
      BY <1>2, <2>1
    <3>2. QED
      BY <3>1
  <2>2. CASE a # 0
    <3>1. a \in 1..n
      BY <1>1, <2>2
    <3>2. Was(a, Q, a + d) /\ Mine(Q)
      BY <3>1
    <3>3. QED
      BY <3>2
  <2>3. QED
    BY <2>1, <2>2
<1>8. ASSUME NEW a \in 0..n, NEW p, NEW i, NEW p2, NEW j, Is(a, p, i), Is(a, p2, j)
      PROVE  p = p2 /\ i = j
  <2>1. a \in Nat
    BY <1>1
  <2>2. CASE a <= k
    <3>1. a # k + 1 /\ a \notin (k + l + 1)..n
      BY <1>1, <2>1, <2>2
    <3>2. QED
      BY <1>8, <3>1
  <2>3. CASE a > k /\ l = 1 /\ a = k + 1
    <3>1. a \notin 0..k /\ a \notin (k + l + 1)..n
      BY <1>1, <2>1, <2>3
    <3>2. QED
      BY <1>8, <3>1
  <2>4. CASE a > k /\ ~(l = 1 /\ a = k + 1)
    <3>1. a \notin 0..k
      BY <1>1, <2>1, <2>4
    <3>2. QED
      BY <1>8, <2>4, <3>1
  <2>5. QED
    BY <1>1, <2>1, <2>2, <2>3, <2>4
<1>9. ASSUME NEW a \in 0..n
      PROVE  \E p, i : Is(a, p, i) /\ Mine(p)
  <2>1. a \in Nat /\ a <= n
    BY <1>1
  <2>2. a \in 0..k \/ (a = k + 1 /\ l = 1) \/ a \in (k + l + 1)..n
    BY <1>1, <2>1
  <2>3. CASE a \in 0..k
    <3>1. Is(a, B, a + 1) /\ Mine(B)
      BY <2>3
    <3>2. QED
      BY <3>1
  <2>4. CASE a = k + 1 /\ l = 1
    <3>1. Is(a, D, 1) /\ Mine(D)
      BY <2>4
    <3>2. QED
      BY <3>1
  <2>5. CASE a \in (k + l + 1)..n
    <3>1. Is(a, Q, a - k - l) /\ Mine(Q)
      BY <2>5
    <3>2. QED
      BY <3>1
  <2>6. QED
    BY <2>2, <2>3, <2>4, <2>5
<1>10. ASSUME NEW a \in 0..n, NEW b \in 0..n, NEW p, NEW i, NEW p2, NEW j,
              Was(a, p, i), Was(b, p2, j), Ahead(w, p, i, p2, j)
       PROVE  a < b
  <2>1. p # <<"served", None>>
    BY <1>2, <1>10
  <2>2. a \in Nat /\ b \in Nat
    BY <1>1
  <2>3. CASE a = 0 /\ b = 0
    <3>1. p = p0 /\ i = 1 /\ p2 = p0 /\ j = 1
      BY <1>1, <1>10, <2>3
    <3>2. QED
      BY <1>2, <1>10, <2>1, <3>1 DEF Ahead
  <2>4. CASE a # 0
    <3>1. p = Q /\ i = a + d /\ p2 = Q /\ i < j
      BY <1>2, <1>10, <2>1, <2>4 DEF Ahead
    <3>2. CASE b = 0
      <4>1. j = 1
        BY <1>1, <1>10, <3>2
      <4>2. QED
        BY <2>2, <2>4, <3>1, <4>1
    <3>3. CASE b # 0
      <4>1. j = b + d
        BY <1>10, <3>3
      <4>2. QED
        BY <2>2, <3>1, <4>1
    <3>4. QED
      BY <3>2, <3>3
  <2>5. QED
    BY <2>2, <2>3, <2>4
<1>11. ASSUME NEW a \in 0..n, NEW b \in 0..n, NEW p, NEW i, NEW p2, NEW j,
              Is(a, p, i), Is(b, p2, j), a < b
       PROVE  Ahead(w, p, i, p2, j)
  <2>1. a \in Nat /\ b \in Nat /\ a \in Int /\ b \in Int
    BY <1>1
  <2>2. CASE a <= k
    <3>1. p = B /\ i = a + 1
      BY <1>1, <1>11, <2>1, <2>2
    <3>2. CASE b <= k
      <4>1. p2 = B /\ j = b + 1
        BY <1>1, <1>11, <2>1, <3>2
      <4>2. i < j
        BY <1>11, <2>1, <3>1, <4>1
      <4>3. QED
        BY <3>1, <4>1, <4>2 DEF Ahead
    <3>3. CASE b > k
      <4>1. p2 \in {D, Q}
        BY <1>1, <1>11, <2>1, <3>3
      <4>2. QED
        BY <3>1, <4>1 DEF Ahead
    <3>4. QED
      BY <1>1, <2>1, <3>2, <3>3
  <2>3. CASE a > k /\ a = k + 1 /\ l = 1
    <3>1. p = D
      BY <1>1, <1>11, <2>1, <2>3
    <3>2. p2 = Q
      BY <1>1, <1>11, <2>1, <2>3
    <3>3. QED
      BY <3>1, <3>2 DEF Ahead
  <2>4. CASE a > k /\ ~(a = k + 1 /\ l = 1)
    <3>1. p = Q /\ i = a - k - l
      BY <1>1, <1>11, <2>1, <2>4
    <3>2. p2 = Q /\ j = b - k - l
      BY <1>1, <1>11, <2>1, <2>4
    <3>3. i < j
      BY <1>1, <1>11, <2>1, <3>1, <3>2
    <3>4. QED
      BY <3>1, <3>2, <3>3 DEF Ahead
  <2>5. QED
    BY <1>1, <2>1, <2>2, <2>3, <2>4
<1> DEFINE S == <<"served", None>>
<1>12. ~Mine(S)
  OBVIOUS
<1>13. Workers = {w} => \A m, p, i : Found(m, p, i)' => p = S \/ Mine(p)
  BY DEF Found
<1> HIDE DEF Was, Is, Mine, Item0
<1>14. ASSUME NEW m \in Messages, NEW a \in 0..n, NEW b \in 0..n, Item0(a) = m, Item0(b) = m
       PROVE  a = b
  <2>1. PICK p, i : Was(a, p, i) /\ Mine(p)
    BY <1>7
  <2>2. PICK p2, j : Was(b, p2, j) /\ Mine(p2)
    BY <1>7
  <2>3. Found(m, p, i) /\ Found(m, p2, j)
    BY <1>3, <1>14, <2>1, <2>2
  <2>4. p = p2 /\ i = j
    BY <2>3 DEF Once
  <2>5. QED
    BY <1>6, <2>1, <2>2, <2>4
<1>15. ASSUME NEW m \in Messages, NEW p, NEW i, NEW p2, NEW j,
              Found(m, p, i)', Found(m, p2, j)'
       PROVE  p = p2 /\ i = j
  <2>1. CASE Mine(p) /\ Mine(p2)
    <3>1. PICK a \in 0..n : Item0(a) = m /\ Is(a, p, i)
      BY <1>4, <1>15, <2>1
    <3>2. PICK b \in 0..n : Item0(b) = m /\ Is(b, p2, j)
      BY <1>4, <1>15, <2>1
    <3>3. a = b
      BY <1>14, <3>1, <3>2
    <3>4. QED
      BY <1>8, <3>1, <3>2, <3>3
  <2>2. CASE ~Mine(p) /\ ~Mine(p2)
    <3>1. Found(m, p, i) /\ Found(m, p2, j)
      BY <1>5, <1>15, <2>2
    <3>2. QED
      BY <3>1 DEF Once
  <2>3. ASSUME NEW x, NEW y, NEW x2, NEW y2, Mine(x), ~Mine(x2),
               Found(m, x, y)', Found(m, x2, y2)'
        PROVE  FALSE
    <3>1. PICK a \in 0..n : Item0(a) = m /\ Is(a, x, y)
      BY <1>4, <2>3
    <3>2. PICK z, y3 : Was(a, z, y3) /\ Mine(z)
      BY <1>7
    <3>3. Found(m, z, y3)
      BY <1>3, <3>1, <3>2
    <3>4. Found(m, x2, y2)
      BY <1>5, <2>3
    <3>5. z = x2
      BY <3>3, <3>4 DEF Once
    <3>6. QED
      BY <2>3, <3>2, <3>5
  <2>4. QED
    BY <1>15, <2>1, <2>2, <2>3
<1>16. ASSUME NEW m \in Messages
       PROVE  (\E p, i : Found(m, p, i)') <=> (\E p, i : Found(m, p, i))
  <2>1. ASSUME NEW p, NEW i, Found(m, p, i)'
        PROVE  \E p2, j : Found(m, p2, j)
    <3>1. CASE Mine(p)
      <4>1. PICK a \in 0..n : Item0(a) = m /\ Is(a, p, i)
        BY <1>4, <2>1, <3>1
      <4>2. PICK z, y3 : Was(a, z, y3) /\ Mine(z)
        BY <1>7
      <4>3. QED
        BY <1>3, <4>1, <4>2
    <3>2. CASE ~Mine(p)
      BY <1>5, <2>1, <3>2
    <3>3. QED
      BY <3>1, <3>2
  <2>2. ASSUME NEW p, NEW i, Found(m, p, i)
        PROVE  \E p2, j : Found(m, p2, j)'
    <3>1. CASE Mine(p)
      <4>1. PICK a \in 0..n : Item0(a) = m /\ Was(a, p, i)
        BY <1>3, <2>2, <3>1
      <4>2. PICK z, y3 : Is(a, z, y3) /\ Mine(z)
        BY <1>9
      <4>3. QED
        BY <1>4, <4>1, <4>2
    <3>2. CASE ~Mine(p)
      BY <1>5, <2>2, <3>2
    <3>3. QED
      BY <3>1, <3>2
  <2>3. QED
    BY <2>1, <2>2
<1>17. SameOrder
  <2> SUFFICES ASSUME Workers = {w}, NEW x \in Messages, NEW y \in Messages, Ordered(w, x, y)
               PROVE  Ordered(w, x, y)'
    BY DEF SameOrder
  <2>1. ASSUME NEW i, NEW j, Found(x, S, i)', Found(y, S, j)', ThreadOf[x] = ThreadOf[y]
        PROVE  i < j
    BY <1>5, <1>12, <2>1 DEF Ordered
  <2> SUFFICES ASSUME NEW p, NEW p2, NEW i, NEW j, Found(x, p, i)', Found(y, p2, j)', p # S
               PROVE  Ahead(w, p, i, p2, j)
    BY <2>1, AheadAtOnePlace DEF Ordered, S
  <2>2. PICK a \in 0..n : Item0(a) = x /\ Is(a, p, i)
    BY <1>4, <1>13
  <2>3. PICK z, y2 : Was(a, z, y2) /\ Mine(z)
    BY <1>7
  <2>4. Found(x, z, y2)
    BY <1>3, <2>2, <2>3
  <2>5. Mine(p2)
    <3> SUFFICES ASSUME p2 = S PROVE FALSE
      BY <1>13
    <3>1. Found(y, S, j)
      BY <1>5, <1>12
    <3>2. Ahead(w, z, y2, S, j)
      BY <2>4, <3>1 DEF Ordered
    <3>3. S \notin {<<"deferred", w>>, <<"queue", None>>}
      OBVIOUS
    <3>4. QED
      BY <1>12, <2>3, <3>2, <3>3 DEF Ahead
  <2>6. PICK b \in 0..n : Item0(b) = y /\ Is(b, p2, j)
    BY <1>4, <2>5
  <2>7. PICK z2, y3 : Was(b, z2, y3) /\ Mine(z2)
    BY <1>7
  <2>8. Found(y, z2, y3)
    BY <1>3, <2>6, <2>7
  <2>9. a < b
    BY <1>10, <2>3, <2>4, <2>7, <2>8 DEF Ordered
  <2>10. QED
    BY <1>11, <2>2, <2>6, <2>9
<1>18. QED
  BY <1>15, <1>16, <1>17 DEF Once

(* A sentinel that is consumed moves the queue up.                         *)
LEMMA DropKeepsOnce ==
    ASSUME PoolAssumption, TypeOK, TypeOK', Once, NEW w \in Workers,
           NEW q \in Seq(Item), NEW p0, NEW d \in {0, 1},
           Source(w, None, q, p0, d), p0 # <<"batch", w>>,
           queue' = q, deferred' = [deferred EXCEPT ![w] = <<>>],
           UNCHANGED <<batch, pos, served, accepted>>
    PROVE  Once' /\ SameOrder
<1> DEFINE n == Len(q)
           Q == <<"queue", None>>
           D == <<"deferred", w>>
<1>1. /\ n \in Nat /\ DOMAIN queue = 1..(n + d) /\ DOMAIN queue' = 1..n
      /\ \A j \in 1..n : queue[j + d] = q[j]
      /\ d = 1 => queue[1] = None
  BY LenProperties, PlaceTypes DEF Source
<1>2. None \notin Messages
  BY DEF PoolAssumption
<1>3. ASSUME NEW m \in Messages, NEW i
      PROVE  Found(m, Q, i)' <=> i \in 1..n /\ Found(m, Q, i + d)
  <2>1. Found(m, Q, i)' <=> i \in 1..n /\ q[i] = m
    BY <1>1 DEF Found
  <2>2. ASSUME i \in 1..n
        PROVE  Found(m, Q, i + d) <=> q[i] = m
    <3>1. i + d \in 1..(n + d)
      BY <1>1, <2>2
    <3>2. Found(m, Q, i + d) <=> queue[i + d] = m
      BY <1>1, <3>1 DEF Found
    <3>3. QED
      BY <1>1, <2>2, <3>2
  <2>3. QED
    BY <2>1, <2>2
<1>4. ASSUME NEW m \in Messages, NEW j, Found(m, Q, j)
      PROVE  j - d \in 1..n /\ (j - d) + d = j
  <2>1. j \in 1..(n + d) /\ queue[j] = m
    BY <1>1, <1>4 DEF Found
  <2>2. d = 1 => j # 1
    BY <1>1, <1>2, <2>1
  <2>3. QED
    BY <1>1, <2>1, <2>2
<1>5. ASSUME NEW m \in Messages, NEW p, NEW i, p # Q
      PROVE  Found(m, p, i)' <=> Found(m, p, i)
  <2>1. ~Found(m, D, i)
    <3>1. ASSUME i \in DOMAIN deferred[w]
          PROVE  deferred[w][i] = None
      <4>1. deferred[w] # <<>>
        BY <3>1
      <4>2. Len(deferred[w]) = 1 /\ deferred[w][1] = None
        BY <1>1, <4>1 DEF Source
      <4>3. DOMAIN deferred[w] = 1..1
        BY <4>2, PlaceTypes
      <4>4. QED
        BY <3>1, <4>2, <4>3
    <3>2. QED
      BY <1>2, <3>1 DEF Found
  <2>2. deferred'[w] = <<>> /\ \A v \in Workers \ {w} : deferred'[v] = deferred[v]
    BY DEF TypeOK
  <2>3. ~Found(m, D, i)'
    BY <2>2 DEF Found
  <2>4. CASE p = D
    BY <2>1, <2>3, <2>4
  <2>5. CASE p # D
    BY <1>5, <2>2, <2>5 DEF Found
  <2>6. QED
    BY <2>4, <2>5
<1>6. Q # <<"served", None>> /\ Q # <<"batch", w>> /\ Q # <<"deferred", w>>
  OBVIOUS
<1>7. \A v : Workers = {v} => v = w
  OBVIOUS
<1> HIDE DEF n, Q, D
<1>8. ASSUME NEW m \in Messages, NEW p, NEW i, NEW p2, NEW j,
             Found(m, p, i)', Found(m, p2, j)'
      PROVE  p = p2 /\ i = j
  <2>1. CASE p = Q /\ p2 = Q
    <3>1. /\ i \in 1..n /\ j \in 1..n
          /\ Found(m, Q, i + d) /\ Found(m, Q, j + d)
      BY <1>3, <1>8, <2>1
    <3>2. i + d = j + d
      BY <3>1 DEF Once
    <3>3. QED
      BY <1>1, <2>1, <3>1, <3>2
  <2>2. CASE p # Q /\ p2 # Q
    <3>1. Found(m, p, i) /\ Found(m, p2, j)
      BY <1>5, <1>8, <2>2
    <3>2. QED
      BY <3>1 DEF Once
  <2>3. ASSUME NEW x, NEW y, NEW z, Found(m, Q, x)', y # Q, Found(m, y, z)'
        PROVE  FALSE
    <3>1. Found(m, Q, x + d) /\ Found(m, y, z)
      BY <1>3, <1>5, <2>3
    <3>2. QED
      BY <2>3, <3>1 DEF Once
  <2>4. QED
    BY <1>8, <2>1, <2>2, <2>3
<1>9. ASSUME NEW m \in Messages
      PROVE  (\E p, i : Found(m, p, i)') <=> (\E p, i : Found(m, p, i))
  <2>1. ASSUME NEW p, NEW i, Found(m, p, i)'
        PROVE  \E p2, j : Found(m, p2, j)
    BY <1>3, <1>5, <2>1
  <2>2. ASSUME NEW p, NEW i, Found(m, p, i)
        PROVE  \E p2, j : Found(m, p2, j)'
    <3>1. CASE p = Q
      <4>1. i - d \in 1..n /\ Found(m, Q, (i - d) + d)
        BY <1>4, <2>2, <3>1
      <4>2. QED
        BY <1>3, <4>1
    <3>2. CASE p # Q
      BY <1>5, <2>2, <3>2
    <3>3. QED
      BY <3>1, <3>2
  <2>3. QED
    BY <2>1, <2>2
<1>10. SameOrder
  <2> SUFFICES ASSUME NEW x \in Messages, NEW y \in Messages, Ordered(w, x, y)
               PROVE  Ordered(w, x, y)'
    BY <1>7 DEF SameOrder
  <2>1. PICK S : S = <<"served", None>>
    OBVIOUS
  <2>2. ASSUME NEW i, NEW j, Found(x, S, i)', Found(y, S, j)', ThreadOf[x] = ThreadOf[y]
        PROVE  i < j
    BY <1>5, <1>6, <2>1, <2>2 DEF Ordered
  <2> SUFFICES ASSUME NEW p, NEW z, NEW i, NEW j, Found(x, p, i)', Found(y, z, j)'
               PROVE  Ahead(w, p, i, z, j)
    <3>1. ASSUME NEW p, NEW z, NEW i, NEW j, Found(x, p, i)', Found(y, z, j)',
                 Ahead(w, p, i, z, j), p = z, ThreadOf[x] = ThreadOf[y]
          PROVE  i < j
      BY <2>1, <2>2, <3>1, AheadAtOnePlace, ZenonT(40)
    <3>2. QED
      BY <3>1 DEF Ordered
  <2>3. CASE p # Q /\ z # Q
    BY <1>5, <2>3 DEF Ordered
  <2>4. CASE p = Q /\ z # Q
    <3>1. Found(x, Q, i + d) /\ Found(y, z, j)
      BY <1>3, <1>5, <2>4
    <3>2. Ahead(w, Q, i + d, z, j)
      BY <3>1 DEF Ordered
    <3>3. QED
      BY <1>6, <2>4, <3>2 DEF Ahead
  <2>5. CASE p # Q /\ z = Q
    <3>1. Found(x, p, i) /\ Found(y, Q, j + d)
      BY <1>3, <1>5, <2>5
    <3>2. Ahead(w, p, i, Q, j + d)
      BY <3>1 DEF Ordered
    <3>3. QED
      BY <2>5, <3>2 DEF Ahead
  <2>6. CASE p = Q /\ z = Q
    <3>1. i \in 1..n /\ j \in 1..n /\ Found(x, Q, i + d) /\ Found(y, Q, j + d)
      BY <1>3, <2>6
    <3>2. Ahead(w, Q, i + d, Q, j + d)
      BY <3>1 DEF Ordered
    <3>3. i + d < j + d
      BY <1>6, <3>2 DEF Ahead
    <3>4. i < j
      BY <1>1, <3>1, <3>3
    <3>5. QED
      BY <2>6, <3>4 DEF Ahead
  <2>7. QED
    BY <2>3, <2>4, <2>5, <2>6
<1>11. QED
  BY <1>8, <1>9, <1>10 DEF Once

LEMMA AppendRange ==
    ASSUME NEW A, NEW s \in Seq(A), NEW x
    PROVE  Range(Append(s, x)) = Range(s) \cup {x}
<1> DEFINE n == Len(s)
           longer == Append(s, x)
<1>1. /\ n \in Nat /\ DOMAIN s = 1..n /\ DOMAIN longer = 1..(n + 1)
      /\ longer[n + 1] = x /\ \A i \in 1..n : longer[i] = s[i]
  BY LenProperties
<1>2. 1..(n + 1) = 1..n \cup {n + 1}
  BY <1>1
<1> HIDE DEF longer, n
<1>3. QED
  BY <1>1, <1>2 DEF Range, longer

(* A line that nobody jumped is a line still.                              *)
LEMMA LineGoesOn ==
    ASSUME TypeOK, InLine, SameOrder, accepted' = accepted
    PROVE  InLine'
<1>1. \A a \in DOMAIN accepted : accepted[a] \in Messages
  BY ElementOfSeq, LenProperties DEF TypeOK
<1>2. QED
  BY <1>1 DEF InLine, SameOrder

(* put(): the message is behind everything in the queue.                   *)
LEMMA PutKeepsOnce ==
    ASSUME PoolAssumption, TypeOK, Once, InLine, NEW new \in Item,
           queue' = Append(queue, new),
           \/ new = None /\ accepted' = accepted
           \/ new \in Messages \ Range(accepted) /\ accepted' = Append(accepted, new),
           UNCHANGED <<deferred, batch, pos, served>>
    PROVE  Once' /\ InLine'
<1> DEFINE Q == <<"queue", None>>
           n == Len(queue)
<1>1. /\ n \in Nat /\ DOMAIN queue = 1..n /\ DOMAIN queue' = 1..(n + 1)
      /\ queue'[n + 1] = new /\ \A i \in 1..n : queue'[i] = queue[i]
  BY PlaceTypes, AppendProperties, LenProperties
<1>2. None \notin Messages
  BY DEF PoolAssumption
<1>3. ASSUME NEW m \in Messages, NEW p, NEW i
      PROVE  Found(m, p, i)' <=> Found(m, p, i) \/ (m = new /\ p = Q /\ i = n + 1)
  <2>1. Found(m, Q, i)' <=> i \in 1..(n + 1) /\ queue'[i] = m
    BY <1>1 DEF Found
  <2>2. Found(m, Q, i) <=> i \in 1..n /\ queue[i] = m
    BY <1>1 DEF Found
  <2>3. i \in 1..(n + 1) <=> i \in 1..n \/ i = n + 1
    BY <1>1
  <2>4. Found(m, Q, i)' <=> Found(m, Q, i) \/ (m = new /\ i = n + 1)
    <3>1. i \in 1..n => i # n + 1
      BY <1>1
    <3>2. QED
      BY <1>1, <2>1, <2>2, <2>3, <3>1
  <2>5. p # Q => (Found(m, p, i)' <=> Found(m, p, i))
    BY DEF Found
  <2>6. QED
    BY <2>4, <2>5
<1> HIDE DEF Q, n
<1>4. CASE new = None /\ accepted' = accepted
  <2>1. \A m \in Messages : \A p, i : Found(m, p, i)' <=> Found(m, p, i)
    BY <1>2, <1>3, <1>4
  <2>2. Once'
    BY <1>4, <2>1 DEF Once
  <2>3. SameOrder
    BY <2>1 DEF SameOrder, Ordered
  <2>4. QED
    BY <1>4, <2>2, <2>3, LineGoesOn
<1>5. CASE new \in Messages \ Range(accepted) /\ accepted' = Append(accepted, new)
  <2>1. Range(accepted') = Range(accepted) \cup {new}
    BY <1>5, AppendRange DEF TypeOK
  <2>2. ASSUME NEW m \in Messages, m # new
        PROVE  \A p, i : Found(m, p, i)' <=> Found(m, p, i)
    BY <1>3, <2>2
  <2>3. \A p, i : ~Found(new, p, i)
    BY <1>5 DEF Once
  <2>4. \A p, i : Found(new, p, i)' <=> p = Q /\ i = n + 1
    BY <1>3, <1>5, <2>3
  <2>5. ASSUME NEW m \in Messages
        PROVE  /\ \A p, q, i, j : Found(m, p, i)' /\ Found(m, q, j)' => p = q /\ i = j
               /\ (\E p, i : Found(m, p, i)') <=> m \in Range(accepted')
    <3>1. CASE m = new
      <4>1. \A p, i : Found(m, p, i)' <=> p = Q /\ i = n + 1
        BY <1>3, <2>3, <3>1
      <4>2. m \in Range(accepted')
        BY <2>1, <3>1
      <4>3. QED
        BY <4>1, <4>2
    <3>2. CASE m # new
      BY <1>5, <2>1, <2>2, <3>2 DEF Once
    <3>3. QED
      BY <3>1, <3>2
  <2>6. Once'
    BY <2>5 DEF Once
  <2>7. InLine'
    <3> SUFFICES ASSUME NEW w, Workers = {w}, NEW a \in DOMAIN accepted',
                        NEW c \in DOMAIN accepted', a < c,
                        NEW x, NEW y, x = accepted'[a], y = accepted'[c],
                        NEW p, NEW q, NEW i, NEW j, Found(x, p, i)', Found(y, q, j)'
                 PROVE  /\ Ahead(w, p, i, q, j)
                        /\ p = q /\ ThreadOf[x] = ThreadOf[y] => i < j
      BY DEF InLine, Ordered, Found
    <3>1. PICK k \in Nat :
            /\ DOMAIN accepted = 1..k /\ DOMAIN accepted' = 1..(k + 1)
            /\ accepted'[k + 1] = new
            /\ \A z \in 1..k : accepted'[z] = accepted[z] /\ accepted[z] \in Messages \ {new}
      <4> DEFINE k == Len(accepted)
      <4>1. k \in Nat /\ DOMAIN accepted = 1..k /\ \A z \in 1..k : accepted[z] \in Messages
        BY ElementOfSeq, LenProperties DEF TypeOK
      <4>2. \A z \in 1..k : accepted[z] # new
        BY <1>5, <4>1 DEF Range
      <4>3. /\ DOMAIN accepted' = 1..(k + 1) /\ accepted'[k + 1] = new
            /\ \A z \in 1..k : accepted'[z] = accepted[z]
        BY <1>5, AppendProperties, LenProperties DEF TypeOK
      <4> HIDE DEF k
      <4>4. QED
        BY <4>1, <4>2, <4>3
    <3>2. a \in 1..k
      BY <3>1
    <3>3. x \in Messages /\ x = accepted[a] /\ x # new
      BY <3>1, <3>2
    <3>4. Found(x, p, i)
      BY <2>2, <3>3
    <3>5. CASE c = k + 1
      <4>1. q = Q /\ j = n + 1
        BY <2>4, <3>1, <3>5
      <4>2. p = Q => i \in 1..n
        BY <1>1, <3>4 DEF Found, Q, n
      <4>3. p \in {Q, <<"served", None>>, <<"deferred", w>>, <<"batch", w>>}
        BY <3>4 DEF Found, Q
      <4>4. p = Q => i < j
        BY <1>1, <4>1, <4>2
      <4>5. QED
        BY <4>1, <4>3, <4>4 DEF Ahead, Q
    <3>6. CASE c # k + 1
      <4>1. c \in 1..k
        BY <3>1, <3>6
      <4>2. y \in Messages /\ y = accepted[c] /\ y # new
        BY <3>1, <4>1
      <4>3. Found(y, q, j)
        BY <2>2, <4>2
      <4>4. Ordered(w, x, y)
        BY <3>1, <3>2, <3>3, <4>1, <4>2 DEF InLine
      <4>5. QED
        BY <3>4, <4>3, <4>4 DEF Ordered
    <3>7. QED
      BY <3>5, <3>6
  <2>8. QED
    BY <2>6, <2>7
<1>6. QED
  BY <1>4, <1>5

(* What a concatenation has at which index.                                *)
LEMMA ConcatAt ==
    ASSUME NEW A, NEW s \in Seq(A), NEW d \in Seq(A)
    PROVE  /\ s \o d \in Seq(A) /\ Len(s \o d) = Len(s) + Len(d)
           /\ DOMAIN (s \o d) = 1..(Len(s) + Len(d))
           /\ \A i \in 1..Len(s) : (s \o d)[i] = s[i]
           /\ \A i \in 1..Len(d) : (s \o d)[Len(s) + i] = d[i]
<1> DEFINE n == Len(s)
           l == Len(d)
           all == s \o d
<1>1. n \in Nat /\ l \in Nat
  BY LenProperties
<1>2. /\ all \in Seq(A) /\ Len(all) = n + l
      /\ \A i \in 1..(n + l) : all[i] = IF i <= n THEN s[i] ELSE d[i - n]
  BY ConcatProperties
<1> HIDE DEF all, n, l
<1>3. DOMAIN all = 1..(n + l)
  BY <1>2, LenProperties
<1>4. \A i \in 1..n : all[i] = s[i]
  BY <1>1, <1>2
<1>5. ASSUME NEW i \in 1..l
      PROVE  all[n + i] = d[i]
  <2>1. n + i \in 1..(n + l) /\ ~(n + i <= n) /\ (n + i) - n = i
    BY <1>1
  <2>2. all[n + i] = IF n + i <= n THEN s[n + i] ELSE d[(n + i) - n]
    BY <1>2, <2>1
  <2>3. QED
    BY <2>1, <2>2
<1>6. QED
  BY <1>2, <1>3, <1>4, <1>5 DEF all, n, l

(* What the end of a segment adds to what was served.                      *)
LEMMA EndServes ==
    ASSUME PoolAssumption, TypeOK, LockInv, Shape, NEW w \in Workers, EndSegment(w)
    PROVE  LET t == ThreadOfWorker(w)
               b == batch[w]
               lo == pos[w]
               hi == segment[w]
               n == Len(served[t])
           IN  /\ lo \in Nat /\ hi \in Nat /\ lo < hi /\ hi <= Len(b) /\ Len(b) \in Nat
               /\ b \in Seq(Messages) /\ DOMAIN b = 1..Len(b) /\ pc[w] = "busy"
               /\ t \in Threads /\ \A i \in 1..Len(b) : ThreadOf[b[i]] = t
               /\ n \in Nat /\ DOMAIN served[t] = 1..n
               /\ DOMAIN served'[t] = 1..(n + (hi - lo))
               /\ \A i \in 1..n : served'[t][i] = served[t][i]
               /\ \A i \in 1..(hi - lo) : served'[t][n + i] = b[lo + i]
               /\ \A u \in Threads : u # t => served'[u] = served[u]
               /\ commandsRun' = [commandsRun EXCEPT ![t] =
                                     @ + (IF IsCommand(b[lo + 1]) THEN 1 ELSE 0)]
<1> DEFINE t == ThreadOfWorker(w)
           b == batch[w]
           lo == pos[w]
           hi == segment[w]
           done == SubSeq(b, lo + 1, hi)
           n == Len(served[t])
<1>1. /\ lo \in Nat /\ hi \in Nat /\ lo < hi /\ hi <= Len(b) /\ Len(b) \in Nat
      /\ b \in Seq(Messages) /\ DOMAIN b = 1..Len(b) /\ pc[w] = "busy"
  BY EndSegmentType, PlaceTypes
<1>2. /\ t \in Threads /\ \A i \in 1..Len(b) : ThreadOf[b[i]] = t
  <2>1. \A i \in 1..Len(b) : ThreadOf[b[i]] = t
    BY <1>1 DEF Shape
  <2>2. b[1] \in Messages /\ 1 \in 1..Len(b)
    BY <1>1, ElementOfSeq
  <2>3. ThreadOf[b[1]] \in Threads
    BY <2>2 DEF PoolAssumption
  <2>4. QED
    BY <2>1, <2>2, <2>3
<1>3. done \in Seq(Messages) /\ Len(done) = hi - lo /\ \A i \in 1..(hi - lo) : done[i] = b[lo + i]
  <2>1. \A i \in (lo + 1)..hi : i \in 1..Len(b)
    BY <1>1
  <2>2. \A i \in (lo + 1)..hi : b[i] \in Messages
    BY <1>1, <2>1, ElementOfSeq
  <2>3. lo + 1 \in Int /\ hi \in Int
    BY <1>1
  <2>4. /\ done \in Seq(Messages)
        /\ Len(done) = IF lo + 1 <= hi THEN hi - (lo + 1) + 1 ELSE 0
        /\ \A i \in 1..(hi - (lo + 1) + 1) : done[i] = b[(lo + 1) + i - 1]
    BY <2>2, <2>3, SubSeqProperties
  <2> HIDE DEF done, b, lo, hi
  <2>5. hi - (lo + 1) + 1 = hi - lo /\ \A i \in 1..(hi - lo) : (lo + 1) + i - 1 = lo + i
    BY <1>1
  <2>6. QED
    BY <1>1, <2>4, <2>5
<1>4. /\ served[t] \in Seq(Messages) /\ n \in Nat /\ DOMAIN served[t] = 1..n
      /\ served' = [served EXCEPT ![t] = served[t] \o done]
  BY <1>2, PlaceTypes DEF EndSegment
<1> HIDE DEF done, n
<1>5. /\ DOMAIN served'[t] = 1..(n + (hi - lo))
      /\ \A i \in 1..n : served'[t][i] = served[t][i]
      /\ \A i \in 1..(hi - lo) : served'[t][n + i] = b[lo + i]
      /\ \A u \in Threads : u # t => served'[u] = served[u]
  <2> DEFINE s == served[t]
             all == s \o done
  <2>1. served'[t] = all /\ \A u \in Threads : u # t => served'[u] = served[u]
    BY <1>2, <1>4 DEF TypeOK
  <2>2. s \in Seq(Messages) /\ Len(s) = n
    BY <1>4 DEF n
  <2> HIDE DEF s
  <2>3. /\ DOMAIN (s \o done) = 1..(Len(s) + Len(done))
        /\ \A i \in 1..Len(s) : (s \o done)[i] = s[i]
        /\ \A i \in 1..Len(done) : (s \o done)[Len(s) + i] = done[i]
    <3>1. s \in Seq(Messages) /\ done \in Seq(Messages)
      BY <1>3, <2>2
    <3>2. QED
      BY ONLY <3>1, ConcatAt
  <2>4. /\ DOMAIN all = 1..(n + (hi - lo))
        /\ \A i \in 1..n : all[i] = s[i]
        /\ \A i \in 1..(hi - lo) : all[n + i] = done[i]
    BY <1>3, <2>2, <2>3
  <2> HIDE DEF all, lo, hi, b
  <2>5. QED
    BY <1>3, <2>1, <2>4 DEF s
<1>6. commandsRun' = [commandsRun EXCEPT ![t] = @ + (IF IsCommand(b[lo + 1]) THEN 1 ELSE 0)]
  <2>1. done[1] = b[lo + 1]
    <3>1. 1 \in 1..(hi - lo)
      BY <1>1
    <3>2. QED
      BY <1>3, <3>1
  <2>2. QED
    BY <2>1 DEF EndSegment, done
<1>7. QED
  BY <1>1, <1>2, <1>4, <1>5, <1>6 DEF n

(* The end of a segment: its messages are served.                          *)
LEMMA EndKeepsOnce ==
    ASSUME PoolAssumption, TypeOK, TypeOK', LockInv, Shape, Once,
           NEW w \in Workers, EndSegment(w),
           \/ batch' = batch /\ pos' = [pos EXCEPT ![w] = segment[w]]
           \/ /\ segment[w] = Len(batch[w]) /\ batch' = [batch EXCEPT ![w] = <<>>]
              /\ pos' = [pos EXCEPT ![w] = 0],
           UNCHANGED <<queue, deferred, accepted>>
    PROVE  Once' /\ SameOrder
<1> DEFINE t == ThreadOfWorker(w)
           S == <<"served", None>>
           B == <<"batch", w>>
           b == batch[w]
           lo == pos[w]
           hi == segment[w]
           n == Len(served[t])
<1>1. /\ lo \in Nat /\ hi \in Nat /\ lo < hi /\ hi <= Len(b) /\ Len(b) \in Nat
      /\ b \in Seq(Messages) /\ DOMAIN b = 1..Len(b) /\ pc[w] = "busy"
  BY EndServes
<1>2. /\ t \in Threads /\ \A i \in 1..Len(b) : ThreadOf[b[i]] = t
  BY EndServes
<1>4. n \in Nat /\ DOMAIN served[t] = 1..n
  BY EndServes
<1>5. /\ DOMAIN served'[t] = 1..(n + (hi - lo))
      /\ \A i \in 1..n : served'[t][i] = served[t][i]
      /\ \A i \in 1..(hi - lo) : served'[t][n + i] = b[lo + i]
      /\ \A u \in Threads : u # t => served'[u] = served[u]
  BY EndServes
<1> HIDE DEF n
<1>6. ASSUME NEW m \in Messages, NEW i
      PROVE  Found(m, B, i)' <=> Found(m, B, i) /\ i > hi
  <2>1. Found(m, B, i)' <=> i \in DOMAIN batch'[w] /\ i > pos'[w] /\ batch'[w][i] = m
    BY DEF Found
  <2>2. Found(m, B, i) <=> i \in 1..Len(b) /\ i > lo /\ b[i] = m
    BY <1>1 DEF Found
  <2>3. CASE batch' = batch /\ pos' = [pos EXCEPT ![w] = segment[w]]
    <3>1. batch'[w] = b /\ pos'[w] = hi
      BY <2>3 DEF TypeOK
    <3> HIDE DEF b, lo, hi
    <3>2. Found(m, B, i)' <=> i \in 1..Len(b) /\ i > hi /\ b[i] = m
      BY <1>1, <2>1, <3>1
    <3>3. i \in 1..Len(b) /\ i > hi => i > lo
      BY <1>1
    <3>4. QED
      BY <2>2, <3>2, <3>3
  <2>4. CASE segment[w] = Len(batch[w]) /\ batch' = [batch EXCEPT ![w] = <<>>]
    <3>1. batch'[w] = <<>> /\ hi = Len(b)
      BY <2>4 DEF TypeOK
    <3>2. ~Found(m, B, i)'
      BY <2>1, <3>1
    <3>3. ~(i \in 1..Len(b) /\ i > hi)
      BY <1>1, <3>1
    <3>4. QED
      BY <2>2, <3>2, <3>3
  <2>5. QED
    BY <2>3, <2>4
<1>7. ASSUME NEW m \in Messages, NEW i
      PROVE  Found(m, S, i)' <=> \/ Found(m, S, i)
                                 \/ /\ i \in (n + 1)..(n + (hi - lo))
                                    /\ Found(m, B, lo + (i - n)) /\ lo + (i - n) <= hi
  <2> DEFINE u == ThreadOf[m]
  <2>1. /\ Found(m, S, i)' <=> i \in DOMAIN served'[u] /\ served'[u][i] = m
        /\ Found(m, S, i) <=> i \in DOMAIN served[u] /\ served[u][i] = m
        /\ u \in Threads
    BY DEF Found, PoolAssumption
  <2>2. \A j : Found(m, B, j) <=> j \in 1..Len(b) /\ j > lo /\ b[j] = m
    BY <1>1 DEF Found
  <2> HIDE DEF b, lo, hi
  <2>3. CASE u = t
    <3>1. CASE i \in 1..n
      <4>1. i \in 1..(n + (hi - lo)) /\ i \notin (n + 1)..(n + (hi - lo))
        BY <1>1, <1>4, <3>1
      <4>2. QED
        BY <1>4, <1>5, <2>1, <2>3, <3>1, <4>1
    <3>2. CASE i \in (n + 1)..(n + (hi - lo))
      <4>1. i \in Int /\ lo \in Nat /\ hi \in Nat /\ n \in Nat
        BY <1>1, <1>4, <3>2
      <4>5. /\ i - n \in 1..(hi - lo) /\ n + (i - n) = i /\ i \in 1..(n + (hi - lo))
            /\ i \notin 1..n
        BY <3>2, <4>1
      <4>2. served'[t][i] = b[lo + (i - n)]
        BY <1>5, <4>5
      <4>3. lo + (i - n) \in 1..Len(b) /\ lo + (i - n) > lo /\ lo + (i - n) <= hi
        BY <1>1, <4>1, <4>5
      <4>4. QED
        BY <1>4, <1>5, <2>1, <2>2, <2>3, <3>2, <4>5, <4>2, <4>3
    <3>3. CASE i \notin 1..n /\ i \notin (n + 1)..(n + (hi - lo))
      <4>1. i \notin 1..(n + (hi - lo))
        BY <1>1, <1>4, <3>3
      <4>2. QED
        BY <1>4, <1>5, <2>1, <2>3, <3>3, <4>1
    <3>4. QED
      BY <3>1, <3>2, <3>3
  <2>4. CASE u # t
    <3>1. \A j : ~Found(m, B, j)
      BY <1>2, <2>2, <2>4 DEF b
    <3>2. QED
      BY <1>5, <2>1, <2>4, <3>1
  <2>5. QED
    BY <2>3, <2>4
<1>8. ASSUME NEW m \in Messages, NEW p, NEW i, p \notin {S, B}
      PROVE  Found(m, p, i)' <=> Found(m, p, i)
  <2>1. \A v \in Workers \ {w} : batch'[v] = batch[v] /\ pos'[v] = pos[v]
    BY DEF TypeOK
  <2>2. QED
    BY <1>8, <2>1 DEF Found
<1>9. S # B
  OBVIOUS
<1>10. ASSUME NEW m \in Messages, NEW i, Found(m, B, i)
       PROVE  i \in Nat /\ i > lo /\ i <= Len(b)
  <2>1. i \in 1..Len(b) /\ i > lo
    BY <1>1, <1>10 DEF Found
  <2>2. QED
    BY <1>1, <2>1
<1>11. ASSUME NEW m \in Messages, NEW i, Found(m, S, i), ThreadOf[m] = t
       PROVE  i \in 1..n
  BY <1>4, <1>11 DEF Found
<1>12. ASSUME NEW m \in Messages, NEW i, Found(m, B, i)
       PROVE  ThreadOf[m] = t
  <2>1. i \in 1..Len(b) /\ b[i] = m
    BY <1>1, <1>12 DEF Found
  <2>2. QED
    BY <1>2, <2>1
<1>13. \A z, i, j : ~Ahead(w, z, i, S, j) \/ z = S
  <2>1. S \notin {<<"deferred", w>>, <<"queue", None>>}
    OBVIOUS
  <2>2. QED
    BY <2>1 DEF Ahead
<1>14. S = <<"served", None>>
  OBVIOUS
<1>15. \A z, i, j : Ahead(w, z, i, B, j) => z = S \/ (z = B /\ i < j)
  <2>1. B \notin {<<"deferred", w>>, <<"queue", None>>}
    OBVIOUS
  <2>2. QED
    BY <2>1 DEF Ahead
<1>16. \A v : Workers = {v} => v = w
  OBVIOUS
<1>17. \A z, i, j : Ahead(w, S, i, z, j)
  BY DEF Ahead
<1> HIDE DEF S, B, b, lo, hi, t
<1> DEFINE New(m, i) == /\ i \in (n + 1)..(n + (hi - lo))
                        /\ Found(m, B, lo + (i - n)) /\ lo + (i - n) <= hi
<1>18. ASSUME NEW m \in Messages, NEW p, NEW i, Found(m, p, i)'
       PROVE  \/ Found(m, p, i) /\ (p = B => i > hi)
              \/ p = S /\ New(m, i)
  BY <1>6, <1>7, <1>8, <1>18
<1>19. ASSUME NEW m \in Messages, NEW p, NEW i, NEW p2, NEW j,
              Found(m, p, i)', Found(m, p2, j)'
       PROVE  p = p2 /\ i = j
  <2>1. CASE Found(m, p, i) /\ Found(m, p2, j)
    BY <2>1 DEF Once
  <2>2. CASE p = S /\ p2 = S /\ New(m, i) /\ New(m, j)
    <3>1. lo + (i - n) = lo + (j - n)
      BY <2>2 DEF Once
    <3>2. QED
      BY <1>1, <1>4, <2>2, <3>1
  <2>3. ASSUME NEW x, NEW y, NEW z, Found(m, x, y), x = B => y > hi, New(m, z)
        PROVE  FALSE
    <3>1. x = B /\ y = lo + (z - n) /\ lo + (z - n) <= hi
      BY <2>3 DEF Once
    <3>2. y \in Nat
      BY <1>10, <2>3, <3>1
    <3>3. QED
      BY <1>1, <2>3, <3>1, <3>2
  <2>4. QED
    BY <1>18, <1>19, <2>1, <2>2, <2>3
<1>20. ASSUME NEW m \in Messages
       PROVE  (\E p, i : Found(m, p, i)') <=> (\E p, i : Found(m, p, i))
  <2>1. ASSUME NEW p, NEW i, Found(m, p, i)'
        PROVE  \E p2, j : Found(m, p2, j)
    BY <1>18, <2>1
  <2>2. ASSUME NEW p, NEW i, Found(m, p, i)
        PROVE  \E p2, j : Found(m, p2, j)'
    <3>1. CASE p = S
      BY <1>7, <2>2, <3>1
    <3>2. CASE p \notin {S, B}
      BY <1>8, <2>2, <3>2
    <3>3. CASE p = B
      <4>1. i \in Nat /\ i > lo /\ i <= Len(b)
        BY <1>10, <2>2, <3>3
      <4>2. CASE i > hi
        BY <1>6, <2>2, <3>3, <4>2
      <4>3. CASE ~(i > hi)
        <5> DEFINE j == n + (i - lo)
        <5>1. j \in (n + 1)..(n + (hi - lo)) /\ lo + (j - n) = i /\ i <= hi
          <6> HIDE DEF lo, hi, b, New, S, B
          <6>1. i \in Nat /\ lo \in Nat /\ hi \in Nat /\ n \in Nat /\ lo < i /\ i <= hi
            BY <1>1, <1>4, <4>1, <4>3
          <6>2. QED
            BY <6>1
        <5> HIDE DEF j
        <5>2. New(m, j)
          BY <2>2, <3>3, <5>1
        <5>3. QED
          BY <1>7, <5>2
      <4>4. QED
        BY <4>2, <4>3
    <3>4. QED
      BY <3>1, <3>2, <3>3
  <2>3. QED
    BY <2>1, <2>2
<1>21. SameOrder
  <2> SUFFICES ASSUME NEW x \in Messages, NEW y \in Messages, Ordered(w, x, y)
               PROVE  Ordered(w, x, y)'
    BY <1>16 DEF SameOrder
  <2>1. ASSUME NEW i, NEW j, Found(x, S, i)', Found(y, S, j)', ThreadOf[x] = ThreadOf[y]
        PROVE  i < j
    <3>1. CASE Found(x, S, i) /\ Found(y, S, j)
      BY <2>1, <3>1 DEF Ordered
    <3>2. CASE Found(x, S, i) /\ New(y, j)
      <4>1. ThreadOf[x] = t
        BY <1>12, <2>1, <3>2
      <4>2. i \in 1..n
        BY <1>11, <3>2, <4>1
      <4>3. QED
        BY <1>4, <3>2, <4>2
    <3>3. CASE New(x, i) /\ Found(y, S, j)
      BY <1>13, <3>3, S # B DEF Ordered
    <3>4. CASE New(x, i) /\ New(y, j)
      <4>1. lo + (i - n) < lo + (j - n)
        BY <2>1, <3>4 DEF Ordered
      <4>2. QED
        BY <1>1, <1>4, <3>4, <4>1
    <3>5. QED
      BY <1>18, <2>1, <3>1, <3>2, <3>3, <3>4
  <2> SUFFICES ASSUME NEW p, NEW z, NEW i, NEW j, Found(x, p, i)', Found(y, z, j)', p # S
               PROVE  Ahead(w, p, i, z, j)
    BY <1>14, <2>1, AheadAtOnePlace DEF Ordered
  <2>2. Found(x, p, i) /\ (p = B => i > hi)
    BY <1>18
  <2>3. CASE Found(y, z, j)
    BY <2>2, <2>3 DEF Ordered
  <2>4. CASE z = S /\ New(y, j)
    <3> DEFINE old == lo + (j - n)
    <3>1. Found(y, B, old) /\ old <= hi
      BY <2>4
    <3>2. old \in Nat /\ (p = B => i \in Nat)
      BY <1>10, <2>2, <3>1
    <3> HIDE DEF old
    <3>3. Ahead(w, p, i, B, old)
      BY <2>2, <3>1 DEF Ordered
    <3>4. p = B /\ i < old
      BY <1>15, <3>3
    <3>5. QED
      BY <1>1, <2>2, <3>1, <3>2, <3>4
  <2>5. QED
    BY <1>18, <2>3, <2>4
<1>22. QED
  BY <1>19, <1>20, <1>21 DEF Once

-----------------------------------------------------------------------------
(* Where the sentinels are.  Behind stop() nothing is accepted, so they    *)
(* are the end of the queue; a worker that drew one has ended or will end  *)
(* with its next step, and with the first of them drawn nothing but        *)
(* sentinels is left in the queue.                                         *)

Ended ==
    {w \in Workers : pc[w] = "stopped" \/ (deferred[w] # <<>> /\ deferred[w][1] = None)}

(* The first k items of the queue are messages, the others sentinels.      *)
MessagesUpTo(k) ==
    /\ k \in 0..Len(queue)
    /\ \A i \in 1..k : queue[i] # None
    /\ \A i \in (k + 1)..Len(queue) : queue[i] = None

Sentinels ==
    \E k \in 0..Len(queue) :
        /\ MessagesUpTo(k)
        /\ Ended # {} => k = 0
        /\ phase = "running" => k = Len(queue) /\ Ended = {}
        /\ phase # "running" =>
              Cardinality(Ended) + (Len(queue) - k) + sentinels = Cardinality(Workers)

(* stop() has returned only when every worker got its sentinel.            *)
StopComplete == phase = "stopped" => sentinels = 0 /\ WorkersGone

LEMMA EndedCount ==
    ASSUME PoolAssumption
    PROVE  /\ IsFiniteSet(Ended) /\ Cardinality(Ended) \in Nat
           /\ IsFiniteSet(Workers) /\ Cardinality(Workers) \in Nat
<1>1. Ended \subseteq Workers
  BY DEF Ended
<1>2. QED
  BY <1>1, FS_Subset, FS_CardinalityType DEF PoolAssumption

(* A worker that takes a message may draw a sentinel to end its batch.     *)
LEMMA TakeKeepsSentinels ==
    ASSUME PoolAssumption, TypeOK, TypeOK', Sentinels, NEW w \in Workers, pc[w] # "stopped",
           NEW first \in Messages, NEW q \in Seq(Item), NEW p, NEW d \in {0, 1}, NEW k, NEW r,
           Source(w, first, q, p, d), Takes(w, first, q, k, r),
           UNCHANGED <<phase, sentinels>>
    PROVE  Sentinels'
<1> DEFINE n == Len(q)
           l == Len(r)
<1>1. /\ n \in Nat /\ k \in Nat /\ k <= n /\ l \in {0, 1}
      /\ Len(queue) = n + d /\ Len(queue') = n - k - l
      /\ \A j \in 1..n : queue[j + d] = q[j]
      /\ \A i \in 1..Len(queue') : queue'[i] = q[k + l + i]
      /\ l = 1 => k < n /\ r[1] = q[k + 1]
      /\ deferred'[w] = r
  BY LenProperties DEF Source, Takes
<1>2. first # None /\ (d = 1 => queue[1] = first) /\ \A i \in 1..k : q[i] # None
  BY DEF Takes, Source, PoolAssumption
<1>3. w \notin Ended
  BY <1>2, EmptySeq DEF Ended, Source
<1>4. Ended' = IF l = 1 /\ r[1] = None THEN Ended \cup {w} ELSE Ended
  <2>1. \A v \in Workers \ {w} : v \in Ended' <=> v \in Ended
    BY DEF Ended, Takes
  <2>2. r \in Seq(Item) /\ (r # <<>> <=> l = 1)
    <3>1. r \in Seq(Item)
      BY DEF Takes
    <3>2. QED
      BY <1>1, <3>1, EmptySeq
  <2>3. w \in Ended' <=> l = 1 /\ r[1] = None
    BY <1>1, <2>2 DEF Ended, Takes
  <2>4. Ended' \subseteq Workers /\ Ended \subseteq Workers
    BY DEF Ended
  <2>5. CASE l = 1 /\ r[1] = None
    <3>1. \A v : v \in Ended' <=> v \in Ended \/ v = w
      BY <2>1, <2>3, <2>4, <2>5
    <3>2. Ended' = Ended \cup {w}
      BY <3>1
    <3>3. QED
      BY <2>5, <3>2
  <2>6. CASE ~(l = 1 /\ r[1] = None)
    <3>1. \A v : v \in Ended' <=> v \in Ended
      BY <1>3, <2>1, <2>3, <2>4, <2>6
    <3>2. Ended' = Ended
      BY <3>1
    <3>3. QED
      BY <2>6, <3>2
  <2>7. QED
    BY <2>5, <2>6
<1>5. PICK m \in 0..Len(queue) :
        /\ MessagesUpTo(m)
        /\ Ended # {} => m = 0
        /\ phase = "running" => m = Len(queue) /\ Ended = {}
        /\ phase # "running" =>
              Cardinality(Ended) + (Len(queue) - m) + sentinels = Cardinality(Workers)
  BY DEF Sentinels
<1>6. m \in Nat /\ d \in Nat /\ sentinels \in Nat /\ l \in Nat
  <2>1. Len(queue) \in Nat
    BY PlaceTypes
  <2>2. m \in Nat /\ d \in Nat
    BY <2>1
  <2>3. l \in Nat
    <3> HIDE DEF l
    <3>1. QED
      BY <1>1
  <2>4. QED
    BY <2>2, <2>3 DEF TypeOK
<1> HIDE DEF n, l
<1>7. /\ \A i \in 1..(n + d) : i <= m <=> queue[i] # None
      /\ d + k <= m /\ m <= n + d
  <2>1. \A i \in 1..(n + d) : i <= m <=> queue[i] # None
    BY <1>1, <1>5, <1>6 DEF MessagesUpTo
  <2>2. CASE k = 0
    BY <1>1, <1>2, <1>5, <1>6, <2>1, <2>2
  <2>3. CASE k # 0
    <3>1. k \in 1..n /\ k \in 1..k /\ k + d \in 1..(n + d)
      BY <1>1, <1>6, <2>3
    <3>2. queue[k + d] # None
      BY <1>1, <1>2, <3>1
    <3>3. QED
      BY <1>1, <1>5, <1>6, <2>1, <3>1, <3>2
  <2>4. QED
    BY <2>1, <2>2, <2>3
<1>8. \A i \in 1..Len(queue') : queue'[i] = queue[k + l + d + i] /\ k + l + d + i \in 1..(n + d)
  <2> SUFFICES ASSUME NEW i \in 1..(n - k - l)
               PROVE  queue'[i] = queue[k + l + d + i] /\ k + l + d + i \in 1..(n + d)
    BY <1>1
  <2>1. k + l + i \in 1..n /\ (k + l + i) + d = k + l + d + i /\ k + l + d + i \in 1..(n + d)
    BY <1>1, <1>6
  <2>2. QED
    BY <1>1, <2>1
<1>9. CASE l = 1 /\ r[1] = None
  <2>1. k + 1 \in 1..n /\ (k + 1) + d \in 1..(n + d) /\ queue[(k + 1) + d] = None
    BY <1>1, <1>6, <1>9, SMTT(30)
  <2>2. m = k + d
    BY <1>1, <1>6, <1>7, <2>1
  <2>3. MessagesUpTo(0)'
    <3>1. \A i \in 1..Len(queue') : queue'[i] = None
      <4> SUFFICES ASSUME NEW i \in 1..Len(queue') PROVE queue'[i] = None
        OBVIOUS
      <4>1. queue'[i] = queue[k + l + d + i] /\ k + l + d + i \in 1..(n + d)
        BY <1>8
      <4>2. ~(k + l + d + i <= m)
        BY <1>1, <1>6, <2>2
      <4>3. QED
        BY <1>7, <4>1, <4>2
    <3>2. Len(queue') \in Nat
      BY <1>1, <1>6, <1>9
    <3>3. QED
      BY <3>1, <3>2 DEF MessagesUpTo
  <2>4. phase # "running"
    BY <1>1, <1>5, <1>6, <2>1, <2>2
  <2>5. Cardinality(Ended') = Cardinality(Ended) + 1
    BY <1>3, <1>4, <1>9, EndedCount, FS_AddElement
  <2>6. Cardinality(Ended') + (Len(queue') - 0) + sentinels' = Cardinality(Workers)
    BY <1>1, <1>5, <1>6, <1>9, <2>2, <2>4, <2>5, EndedCount
  <2>7. 0 \in 0..Len(queue')
    BY <1>1, <1>6, <1>9
  <2>8. QED
    BY <2>3, <2>4, <2>6, <2>7 DEF Sentinels
<1>10. CASE ~(l = 1 /\ r[1] = None)
  <2> DEFINE m2 == m - d - k - l
  <2>1. d + k + l <= m
    <3>1. CASE l = 0
      BY <1>1, <1>6, <1>7, <3>1
    <3>2. CASE l = 1
      <4>1. k + 1 \in 1..n /\ (k + 1) + d \in 1..(n + d) /\ queue[(k + 1) + d] # None
        BY <1>1, <1>6, <1>10, <3>2, SMTT(30)
      <4>2. QED
        BY <1>1, <1>6, <1>7, <3>2, <4>1
    <3>3. QED
      BY <1>1, <3>1, <3>2
  <2>2. m2 \in Nat /\ m2 <= n - k - l /\ m = m2 + d + k + l
    BY <1>1, <1>6, <1>7, <2>1
  <2> HIDE DEF m2
  <2>3. m2 \in 0..Len(queue')
    BY <1>1, <1>6, <2>2
  <2>4. MessagesUpTo(m2)'
    <3>1. ASSUME NEW i \in 1..Len(queue')
          PROVE  i <= m2 <=> queue'[i] # None
      <4>1. queue'[i] = queue[k + l + d + i] /\ k + l + d + i \in 1..(n + d)
        BY <1>8
      <4>2. i <= m2 <=> k + l + d + i <= m
        BY <1>1, <1>6, <2>2
      <4>3. QED
        BY <1>7, <4>1, <4>2
    <3>2. Len(queue') \in Nat
      BY <1>1, <1>6, <2>2
    <3>3. QED
      BY <2>2, <2>3, <3>1, <3>2 DEF MessagesUpTo
  <2>5. Ended' = Ended
    BY <1>4, <1>10
  <2>6. Ended # {} => m2 = 0
    BY <1>1, <1>5, <1>6, <2>2
  <2>7. phase = "running" => m2 = Len(queue')
    BY <1>1, <1>5, <1>6, <2>2
  <2>8. Len(queue') - m2 = Len(queue) - m
    BY <1>1, <1>6, <2>2, SMTT(30)
  <2>9. QED
    BY <1>5, <2>3, <2>4, <2>5, <2>6, <2>7, <2>8 DEF Sentinels
<1>11. QED
  BY <1>9, <1>10

(* A worker that takes a sentinel ends.                                    *)
LEMMA DropKeepsSentinels ==
    ASSUME PoolAssumption, TypeOK, TypeOK', Sentinels, NEW w \in Workers, pc[w] = "idle",
           NEW q \in Seq(Item), NEW p0, NEW d \in {0, 1},
           Source(w, None, q, p0, d), p0 # <<"batch", w>>,
           queue' = q, deferred' = [deferred EXCEPT ![w] = <<>>],
           pc' = [pc EXCEPT ![w] = "stopped"], UNCHANGED <<phase, sentinels>>
    PROVE  Sentinels'
<1> DEFINE n == Len(q)
<1>1. /\ n \in Nat /\ Len(queue) = n + d /\ Len(queue') = n
      /\ \A j \in 1..n : queue[j + d] = queue'[j]
      /\ d \in Nat
  BY LenProperties DEF Source
<1>2. \/ d = 1 /\ queue[1] = None /\ w \notin Ended
      \/ d = 0 /\ w \in Ended
  <2>1. CASE d = 1
    BY <2>1 DEF Source, Ended
  <2>2. CASE d = 0
    <3>1. Len(deferred[w]) = 1 /\ deferred[w][1] = None
      BY <2>2 DEF Source
    <3>2. deferred[w] # <<>>
      BY <3>1
    <3>3. QED
      BY <2>2, <3>1, <3>2 DEF Ended
  <2>3. QED
    BY <2>1, <2>2
<1>3. Ended' = Ended \cup {w}
  <2>1. \A v \in Workers : v # w => (v \in Ended' <=> v \in Ended)
    BY DEF Ended, TypeOK
  <2>2. w \in Ended'
    BY DEF Ended, TypeOK
  <2>3. Ended' \subseteq Workers /\ Ended \subseteq Workers
    BY DEF Ended
  <2>4. QED
    BY <2>1, <2>2, <2>3
<1>4. PICK m \in 0..Len(queue) :
        /\ MessagesUpTo(m)
        /\ Ended # {} => m = 0
        /\ phase = "running" => m = Len(queue) /\ Ended = {}
        /\ phase # "running" =>
              Cardinality(Ended) + (Len(queue) - m) + sentinels = Cardinality(Workers)
  BY DEF Sentinels
<1> HIDE DEF n
<1>5. m = 0
  <2>1. CASE Ended # {}
    BY <1>4, <2>1
  <2>2. CASE Ended = {}
    <3>1. d = 1 /\ queue[1] = None
      BY <1>2, <2>2
    <3>2. ~(1 \in 1..m)
      BY <1>4, <3>1 DEF MessagesUpTo
    <3>3. m \in Nat
      BY <1>1, <1>4
    <3>4. QED
      BY <3>2, <3>3
  <2>3. QED
    BY <2>1, <2>2
<1>6. phase # "running"
  <2>1. CASE d = 1
    BY <1>1, <1>4, <1>5, <2>1
  <2>2. CASE d = 0
    BY <1>2, <1>4, <2>2
  <2>3. QED
    BY <2>1, <2>2
<1>7. MessagesUpTo(0)'
  <2>1. \A i \in 1..(n + d) : queue[i] = None
    BY <1>1, <1>4, <1>5 DEF MessagesUpTo
  <2>2. ASSUME NEW i \in 1..n
        PROVE  queue'[i] = None
    <3>1. i + d \in 1..(n + d)
      BY <1>1
    <3>2. QED
      BY <1>1, <2>1, <3>1
  <2>3. QED
    BY <1>1, <2>2 DEF MessagesUpTo
<1>8. Cardinality(Ended') = Cardinality(Ended) + d
  <2>1. CASE d = 1 /\ w \notin Ended
    BY <1>3, <2>1, EndedCount, FS_AddElement
  <2>2. CASE d = 0 /\ w \in Ended
    <3>1. Ended' = Ended
      BY <1>3, <2>2
    <3>2. QED
      BY <2>2, <3>1, EndedCount
  <2>3. QED
    BY <1>2, <2>1, <2>2
<1>9. Cardinality(Ended') + (Len(queue') - 0) + sentinels' = Cardinality(Workers)
  <2> DEFINE c == Cardinality(Ended)
             all == Cardinality(Workers)
  <2>1. c \in Nat /\ all \in Nat /\ sentinels \in Nat
    BY EndedCount DEF TypeOK
  <2>2. c + (Len(queue) - m) + sentinels = all
    BY <1>4, <1>6
  <2> HIDE DEF c, all
  <2>3. (c + d) + (n - 0) + sentinels = all
    BY <1>1, <1>5, <2>1, <2>2
  <2>4. QED
    BY <1>1, <1>8, <2>3 DEF c, all
<1>10. QED
  BY <1>1, <1>6, <1>7, <1>9 DEF Sentinels

(* put() of a message before stop(), of a sentinel during it.              *)
LEMMA PutKeepsSentinels ==
    ASSUME PoolAssumption, TypeOK, Sentinels, NEW new \in Item, queue' = Append(queue, new),
           \/ phase = "running" /\ new # None /\ sentinels' = sentinels
           \/ phase = "stopping" /\ new = None /\ sentinels' = sentinels - 1,
           UNCHANGED <<phase, pc, deferred>>
    PROVE  Sentinels'
<1> DEFINE n == Len(queue)
<1>1. /\ n \in Nat /\ Len(queue') = n + 1 /\ queue'[n + 1] = new
      /\ \A i \in 1..n : queue'[i] = queue[i]
  BY PlaceTypes, AppendProperties
<1>2. Ended' = Ended
  BY DEF Ended
<1>3. PICK m \in 0..n :
        /\ MessagesUpTo(m)
        /\ Ended # {} => m = 0
        /\ phase = "running" => m = n /\ Ended = {}
        /\ phase # "running" =>
              Cardinality(Ended) + (n - m) + sentinels = Cardinality(Workers)
  BY DEF Sentinels
<1>4. m \in Nat /\ m <= n /\ sentinels \in Nat
  BY <1>1, <1>3 DEF TypeOK
<1>5. /\ \A i \in 1..m : queue[i] # None
      /\ \A i \in (m + 1)..n : queue[i] = None
  BY <1>3 DEF MessagesUpTo
<1> HIDE DEF n
<1>6. CASE phase = "running" /\ new # None
  <2>1. m = n /\ Ended = {}
    BY <1>3, <1>6
  <2>2. MessagesUpTo(m + 1)'
    <3>1. \A i \in 1..(m + 1) : queue'[i] # None
      <4> SUFFICES ASSUME NEW i \in 1..(m + 1) PROVE queue'[i] # None
        OBVIOUS
      <4>1. i = n + 1 \/ i \in 1..n
        BY <1>1, <2>1
      <4>2. QED
        BY <1>1, <1>5, <1>6, <2>1, <4>1
    <3>2. m + 1 \in 0..(m + 1) /\ ((m + 1) + 1)..(m + 1) = {}
      BY <1>4
    <3>3. Len(queue') = m + 1
      BY <1>1, <2>1
    <3>4. QED
      BY <3>1, <3>2, <3>3 DEF MessagesUpTo
  <2>3. m + 1 \in 0..Len(queue') /\ m + 1 = Len(queue')
    BY <1>1, <1>4, <2>1
  <2>4. phase' = "running" /\ Ended' = {}
    BY <1>2, <1>6, <2>1
  <2>5. QED
    BY <2>2, <2>3, <2>4 DEF Sentinels
<1>7. CASE phase = "stopping" /\ new = None /\ sentinels' = sentinels - 1
  <2>1. MessagesUpTo(m)'
    <3>1. \A i \in 1..m : queue'[i] # None
      BY <1>1, <1>4, <1>5
    <3>2. \A i \in (m + 1)..(n + 1) : queue'[i] = None
      <4> SUFFICES ASSUME NEW i \in (m + 1)..(n + 1) PROVE queue'[i] = None
        OBVIOUS
      <4>1. i = n + 1 \/ (i \in 1..n /\ i \in (m + 1)..n)
        BY <1>1, <1>4
      <4>2. QED
        BY <1>1, <1>5, <1>7, <4>1
    <3>3. m \in 0..(n + 1)
      BY <1>1, <1>4
    <3>4. QED
      BY <1>1, <3>1, <3>2, <3>3 DEF MessagesUpTo
  <2>2. m \in 0..Len(queue')
    BY <1>1, <1>4
  <2>3. Cardinality(Ended) + ((n + 1) - m) + (sentinels - 1) = Cardinality(Workers)
    BY <1>1, <1>3, <1>4, <1>7, EndedCount
  <2>4. QED
    BY <1>1, <1>2, <1>3, <1>7, <2>1, <2>2, <2>3 DEF Sentinels
<1>8. QED
  BY <1>6, <1>7

-----------------------------------------------------------------------------
(* What asyncio.Queue still counts: the items in the queue, those in a     *)
(* deferred slot, and the messages of the batches, waited for or worked at.*)

Held == {x \in Workers \X Nat : x[2] \in DOMAIN batch[x[1]]}

Deferring == {w \in Workers : deferred[w] # <<>>}

Counted ==
    /\ IsFiniteSet(Held)
    /\ unfinished = Len(queue) + Cardinality(Deferring) + Cardinality(Held)

LEMMA HeldChange ==
    ASSUME PoolAssumption, TypeOK, TypeOK', IsFiniteSet(Held), NEW w \in Workers,
           \A v \in Workers \ {w} : batch'[v] = batch[v]
    PROVE  /\ IsFiniteSet(Held') /\ Cardinality(Held) \in Nat /\ Cardinality(Held') \in Nat
           /\ Cardinality(Held') - Len(batch'[w]) = Cardinality(Held) - Len(batch[w])
<1> DEFINE Rest == {x \in Held : x[1] # w}
           Of(n) == {w} \X (1..n)
           n0 == Len(batch[w])
           n1 == Len(batch'[w])
<1>1. /\ n0 \in Nat /\ n1 \in Nat
      /\ DOMAIN batch[w] = 1..n0 /\ DOMAIN batch'[w] = 1..n1
  BY LenProperties DEF TypeOK
<1>2. ASSUME NEW n \in Nat
      PROVE  IsFiniteSet(Of(n)) /\ Cardinality(Of(n)) = n
  <2>1. IsFiniteSet(1..n) /\ Cardinality(1..n) = n
    BY FS_Interval
  <2>2. IsFiniteSet({w}) /\ Cardinality({w}) = 1
    BY FS_Singleton
  <2>3. IsFiniteSet(Of(n)) /\ Cardinality(Of(n)) = Cardinality({w}) * Cardinality(1..n)
    BY <2>1, <2>2, FS_Product
  <2>4. QED
    BY <2>1, <2>2, <2>3
<1>3. Held = Rest \cup Of(n0) /\ Held' = Rest \cup Of(n1)
  <2>1. ASSUME NEW x \in Workers \X Nat
        PROVE  x \in Held <=> x \in Rest \/ x \in Of(n0)
    <3>1. CASE x[1] = w
      BY <1>1, <2>1, <3>1 DEF Held
    <3>2. CASE x[1] # w
      BY <2>1, <3>2
    <3>3. QED
      BY <3>1, <3>2
  <2>2. ASSUME NEW x \in Workers \X Nat
        PROVE  x \in Held' <=> x \in Rest \/ x \in Of(n1)
    <3>1. CASE x[1] = w
      BY <1>1, <2>2, <3>1 DEF Held
    <3>2. CASE x[1] # w
      BY <2>2, <3>2 DEF Held
    <3>3. QED
      BY <3>1, <3>2
  <2>3. Held \subseteq Workers \X Nat /\ Held' \subseteq Workers \X Nat
    BY DEF Held
  <2>4. Of(n0) \subseteq Workers \X Nat /\ Of(n1) \subseteq Workers \X Nat
    BY <1>1
  <2> HIDE DEF Of, n0, n1
  <2>5. QED
    BY <2>1, <2>2, <2>3, <2>4
<1>4. IsFiniteSet(Rest) /\ Cardinality(Rest) \in Nat
  BY FS_Subset, FS_CardinalityType
<1>5. ASSUME NEW n \in Nat
      PROVE  /\ IsFiniteSet(Rest \cup Of(n))
             /\ Cardinality(Rest \cup Of(n)) = Cardinality(Rest) + n
  <2>1. Rest \cap Of(n) = {}
    OBVIOUS
  <2>2. Cardinality(Rest \cap Of(n)) = 0
    BY <2>1, FS_EmptySet
  <2> HIDE DEF Rest, Of
  <2>3. IsFiniteSet(Of(n)) /\ Cardinality(Of(n)) = n /\ IsFiniteSet(Rest)
    BY <1>2, <1>4
  <2>4. /\ IsFiniteSet(Rest \cup Of(n))
        /\ Cardinality(Rest \cup Of(n)) =
              Cardinality(Rest) + Cardinality(Of(n)) - Cardinality(Rest \cap Of(n))
    BY ONLY <2>3, FS_Union
  <2>5. QED
    BY <1>4, <2>2, <2>3, <2>4
<1> HIDE DEF Rest, Of, n0, n1
<1>6. /\ IsFiniteSet(Held') /\ Cardinality(Held') = Cardinality(Rest) + n1
      /\ Cardinality(Held) = Cardinality(Rest) + n0
  BY <1>1, <1>3, <1>5
<1>7. QED
  BY <1>1, <1>4, <1>6 DEF n0, n1

LEMMA DeferringCount ==
    ASSUME PoolAssumption
    PROVE  Cardinality(Deferring) \in Nat
<1>1. Deferring \subseteq Workers
  BY DEF Deferring
<1>2. QED
  BY <1>1, FS_Subset, FS_CardinalityType DEF PoolAssumption

LEMMA DeferringChange ==
    ASSUME PoolAssumption, TypeOK, TypeOK', NEW w \in Workers,
           \A v \in Workers \ {w} : deferred'[v] = deferred[v],
           Len(deferred[w]) <= 1, Len(deferred'[w]) <= 1
    PROVE  /\ Cardinality(Deferring) \in Nat /\ Cardinality(Deferring') \in Nat
           /\ Cardinality(Deferring') - Len(deferred'[w])
                  = Cardinality(Deferring) - Len(deferred[w])
<1> DEFINE Rest == {v \in Deferring : v # w}
<1>1. Rest \subseteq Workers
  BY DEF Deferring
<1>2. IsFiniteSet(Rest) /\ Cardinality(Rest) \in Nat
  BY <1>1, FS_Subset, FS_CardinalityType DEF PoolAssumption
<1>3. Deferring = IF deferred[w] = <<>> THEN Rest ELSE Rest \cup {w}
  BY DEF Deferring
<1>4. Deferring' = IF deferred'[w] = <<>> THEN Rest ELSE Rest \cup {w}
  BY DEF Deferring
<1>5. w \notin Rest
  OBVIOUS
<1>6. Cardinality(Rest \cup {w}) = Cardinality(Rest) + 1
  BY <1>2, <1>5, FS_AddElement
<1>7. ASSUME NEW s \in Seq(Item), Len(s) <= 1
      PROVE  Len(s) = IF s = <<>> THEN 0 ELSE 1
  <2> DEFINE l == Len(s)
  <2>1. l \in Nat /\ (s = <<>> => l = 0) /\ (l = 0 => s = <<>>) /\ l <= 1
    BY <1>7, LenProperties, EmptySeq
  <2> HIDE DEF l
  <2>2. CASE s = <<>>
    BY <2>1, <2>2 DEF l
  <2>3. CASE s # <<>>
    <3>1. l = 1
      BY <2>1, <2>3
    <3>2. QED
      BY <2>3, <3>1 DEF l
  <2>4. QED
    BY <2>2, <2>3
<1>8. /\ Len(deferred[w]) = IF deferred[w] = <<>> THEN 0 ELSE 1
      /\ Len(deferred'[w]) = IF deferred'[w] = <<>> THEN 0 ELSE 1
  <2>1. deferred[w] \in Seq(Item) /\ deferred'[w] \in Seq(Item)
    BY DEF TypeOK
  <2>2. QED
    BY <1>7, <2>1
<1> HIDE DEF Rest
<1>9. Cardinality(Deferring) = Cardinality(Rest) + Len(deferred[w])
  BY <1>2, <1>3, <1>6, <1>8
<1>10. Cardinality(Deferring') = Cardinality(Rest) + Len(deferred'[w])
  BY <1>2, <1>4, <1>6, <1>8
<1>11. QED
  BY <1>2, <1>8, <1>9, <1>10

-----------------------------------------------------------------------------
(* The inductive invariant of Conservation, kept by every step.            *)

Kept == Shape /\ Ingress /\ Once /\ InLine /\ Sentinels /\ StopComplete /\ Counted

(* A worker takes a message, and what belongs to it behind it.             *)
LEMMA TakeKeeps ==
    ASSUME PoolAssumption, TypeOK, TypeOK', Kept, NEW w \in Workers, pc[w] # "stopped",
           NEW first \in Messages, NEW q \in Seq(Item), NEW p, NEW d \in {0, 1}, NEW k, NEW r,
           Source(w, first, q, p, d), Takes(w, first, q, k, r),
           UNCHANGED <<ingress, unfinished, served>>
    PROVE  Kept'
<1>1. UNCHANGED <<phase, sentinels, received, putting, accepted>>
  BY DEF ingress
<1>2. Once' /\ InLine'
  BY <1>1, TakeKeepsOnce, LineGoesOn DEF Kept
<1>3. Sentinels'
  BY <1>1, TakeKeepsSentinels DEF Kept
<1>4. Ingress' /\ StopComplete'
  BY <1>1 DEF Kept, Ingress, StopComplete, WorkersGone
<1>5. \A v \in Workers \ {w} : /\ batch'[v] = batch[v] /\ deferred'[v] = deferred[v]
                               /\ pos'[v] = pos[v] /\ pc'[v] = pc[v]
  BY DEF Takes
<1>6. /\ Len(q) \in Nat /\ k \in Nat /\ k <= Len(q) /\ Len(r) \in {0, 1}
      /\ Len(queue) = Len(q) + d /\ Len(queue') = Len(q) - k - Len(r)
      /\ Len(batch'[w]) = k + 1 /\ deferred'[w] = r
  BY LenProperties DEF Source, Takes
<1>7. Shape'
  <2>1. ASSUME NEW v \in Workers \ {w}
        PROVE  /\ Len(deferred'[v]) <= 1
               /\ pc'[v] \in {"waiting", "stopped"} => deferred'[v] = <<>>
               /\ pc'[v] \in {"idle", "stopped"} => batch'[v] = <<>>
               /\ pc'[v] = "waiting" => Len(batch'[v]) = 1
               /\ pc'[v] # "busy" => pos'[v] = 0
               /\ \A i \in DOMAIN batch'[v] : ThreadOf[batch'[v][i]] = ThreadOf[Head(batch'[v])]
    BY <1>5 DEF Kept, Shape, ThreadOfWorker
  <2>2. \A i \in DOMAIN batch'[w] : ThreadOf[batch'[w][i]] = ThreadOf[Head(batch'[w])]
    <3> DEFINE b == batch'[w]
    <3>1. b \in Seq(Messages) /\ Len(b) = k + 1 /\ DOMAIN b = 1..(k + 1) /\ b[1] = first
      BY <1>6, LenProperties DEF TypeOK, Takes
    <3>2. Head(b) = first
      BY <1>6, <3>1
    <3>3. ASSUME NEW i \in 1..(k + 1)
          PROVE  ThreadOf[b[i]] = ThreadOf[first]
      <4>1. CASE i = 1
        BY <3>1, <4>1
      <4>2. CASE i # 1
        <5>1. i - 1 \in 1..k /\ (i - 1) + 1 = i
          BY <1>6, <4>2
        <5>2. b[(i - 1) + 1] = q[i - 1] /\ ThreadOf[q[i - 1]] = ThreadOf[first]
          BY <5>1 DEF Takes
        <5>3. QED
          BY <5>1, <5>2
      <4>3. QED
        BY <4>1, <4>2
    <3>4. QED
      BY <3>1, <3>2, <3>3
  <2>3. /\ Len(deferred'[w]) <= 1
        /\ pc'[w] \in {"waiting", "stopped"} => deferred'[w] = <<>>
        /\ pc'[w] \in {"idle", "stopped"} => batch'[w] = <<>>
        /\ pc'[w] = "waiting" => Len(batch'[w]) = 1
        /\ pc'[w] # "busy" => pos'[w] = 0
    <3>1. r \in Seq(Item) /\ (Len(r) = 0 => r = <<>>)
      BY EmptySeq DEF Takes
    <3>2. Len(r) <= 1
      <4> DEFINE l == Len(r)
      <4>1. l = 0 \/ l = 1
        BY <1>6
      <4> HIDE DEF l
      <4>2. l <= 1
        BY <4>1
      <4>3. QED
        BY <4>2 DEF l
    <3>3. /\ pc'[w] \in {"busy", "waiting"} /\ pos'[w] = 0
          /\ pc'[w] = "waiting" => k = 0 /\ Len(r) = 0
      BY DEF Takes
    <3>4. k = 0 => k + 1 = 1
      OBVIOUS
    <3>5. QED
      BY <1>6, <3>1, <3>2, <3>3, <3>4
  <2>4. QED
    BY <2>1, <2>2, <2>3 DEF Shape, ThreadOfWorker
<1>8. Counted'
  <2> DEFINE l0 == Len(deferred[w])
             b0 == Len(batch[w])
             h0 == Cardinality(Held)
             d0 == Cardinality(Deferring)
             dn == Cardinality(Deferring')
             hn == Cardinality(Held')
             n == Len(q)
             l == Len(r)
             x == Len(queue)
             y == Len(queue')
  <2>1. d \in Nat /\ l0 \in Nat /\ b0 \in Nat /\ d + l0 + b0 = 1
    <3>1. Len(deferred[w]) \in Nat /\ Len(batch[w]) \in Nat
      BY LenProperties DEF TypeOK
    <3>2. CASE d = 1
      <4>1. Len(deferred[w]) = 0 /\ Len(batch[w]) = 0
        BY <3>2 DEF Source
      <4>2. QED
        BY <3>2, <4>1
    <3>3. CASE d = 0
      <4>1. \/ Len(deferred[w]) = 1 /\ Len(batch[w]) = 0
            \/ Len(deferred[w]) = 0 /\ Len(batch[w]) = 1
        BY <3>3 DEF Source
      <4> HIDE DEF l0, b0
      <4>2. \/ l0 = 1 /\ b0 = 0
            \/ l0 = 0 /\ b0 = 1
        BY <4>1 DEF l0, b0
      <4>3. QED
        BY <3>3, <4>2
    <3>4. QED
      BY <3>2, <3>3
  <2>2. IsFiniteSet(Held) /\ unfinished = x + d0 + h0
    BY DEF Kept, Counted
  <2>3. IsFiniteSet(Held') /\ h0 \in Nat /\ hn \in Nat /\ hn - (k + 1) = h0 - b0
    BY <1>5, <1>6, <2>2, HeldChange
  <2>4. Len(deferred[w]) <= 1 /\ Len(deferred'[w]) <= 1
    BY <1>7 DEF Kept, Shape
  <2>5. d0 \in Nat /\ dn \in Nat /\ dn - l = d0 - l0
    BY <1>5, <1>6, <2>4, DeferringChange
  <2>6. n \in Nat /\ k \in Nat /\ l \in Nat /\ x = n + d /\ y = n - k - l
    <3> HIDE DEF n, l, x, y
    <3>1. QED
      BY <1>6 DEF n, l, x, y
  <2> HIDE DEF l0, b0, h0, d0, dn, hn, n, l, x, y
  <2>7. unfinished = y + dn + hn
    BY <2>1, <2>2, <2>3, <2>5, <2>6
  <2>8. unfinished' = unfinished
    OBVIOUS
  <2>9. QED
    BY <2>3, <2>7, <2>8 DEF Counted, y, dn, hn
<1>9. QED
  BY <1>2, <1>3, <1>4, <1>7, <1>8 DEF Kept

(* A worker takes a sentinel.                                              *)
LEMMA DropKeeps ==
    ASSUME PoolAssumption, TypeOK, TypeOK', Kept, NEW w \in Workers, pc[w] = "idle",
           NEW q \in Seq(Item), NEW p, NEW d \in {0, 1},
           Source(w, None, q, p, d), p # <<"batch", w>>,
           Consume(w, None, q), UNCHANGED <<ingress, served>>
    PROVE  Kept'
<1>1. /\ UNCHANGED <<phase, sentinels, received, putting, accepted, batch, pos>>
      /\ queue' = q /\ deferred' = [deferred EXCEPT ![w] = <<>>]
      /\ pc' = [pc EXCEPT ![w] = "stopped"] /\ unfinished' = unfinished - 1
  BY DEF ingress, Consume
<1>2. Once' /\ InLine'
  BY <1>1, DropKeepsOnce, LineGoesOn, ZenonT(40) DEF Kept
<1>3. Sentinels'
  BY <1>1, DropKeepsSentinels, ZenonT(40) DEF Kept
<1>4. Ingress' /\ StopComplete'
  BY <1>1 DEF Kept, Ingress, StopComplete, WorkersGone, TypeOK
<1>5. /\ deferred'[w] = <<>> /\ pc'[w] = "stopped"
      /\ \A v \in Workers \ {w} : deferred'[v] = deferred[v] /\ pc'[v] = pc[v]
  BY <1>1 DEF TypeOK
<1>6. batch[w] = <<>> /\ pos[w] = 0 /\ Len(deferred[w]) <= 1
  BY DEF Kept, Shape
<1>7. Shape'
  BY <1>1, <1>5, <1>6 DEF Kept, Shape, ThreadOfWorker
<1>8. Counted'
  <2> DEFINE l0 == Len(deferred[w])
             d0 == Cardinality(Deferring)
             n == Len(q)
             x == Len(queue)
  <2>1. l0 \in Nat /\ d + l0 = 1 /\ d \in Nat
    <3>1. CASE d = 1
      <4>1. Len(deferred[w]) = 0
        BY <3>1 DEF Source
      <4>2. QED
        BY <3>1, <4>1
    <3>2. CASE d = 0
      <4>1. Len(deferred[w]) = 1
        BY <3>2 DEF Source
      <4>2. QED
        BY <3>2, <4>1
    <3>3. QED
      BY <3>1, <3>2
  <2>2. x = n + d /\ Len(queue') = n /\ n \in Nat
    BY <1>1, LenProperties DEF Source
  <2>3. Held' = Held
    BY <1>1 DEF Held
  <2>4. IsFiniteSet(Held) /\ unfinished = x + d0 + Cardinality(Held)
    BY DEF Kept, Counted
  <2>5. Cardinality(Held) \in Nat
    BY <2>4, FS_CardinalityType
  <2>6. Len(deferred'[w]) = 0
    BY <1>5
  <2>7. /\ d0 \in Nat /\ Cardinality(Deferring') \in Nat
        /\ Cardinality(Deferring') - 0 = d0 - l0
    BY <1>5, <1>6, <2>6, DeferringChange
  <2> DEFINE dn == Cardinality(Deferring')
             h == Cardinality(Held)
  <2> HIDE DEF l0, d0, n, x, dn, h
  <2>8. unfinished' = n + Cardinality(Deferring') + Cardinality(Held)
    <3>1. dn \in Nat /\ d0 \in Nat /\ h \in Nat /\ dn = d0 - l0
      BY <2>1, <2>5, <2>7 DEF dn, h
    <3>2. unfinished = x + d0 + h
      BY <2>4 DEF h
    <3>3. unfinished - 1 = n + dn + h
      BY <2>1, <2>2, <3>1, <3>2
    <3>4. QED
      BY <1>1, <3>3 DEF dn, h
  <2>9. QED
    BY <2>2, <2>3, <2>4, <2>8 DEF Counted
<1>9. QED
  BY <1>2, <1>3, <1>4, <1>7, <1>8 DEF Kept

(* Who moves nothing keeps every item where it is.                         *)
LEMMA FrameKeepsOnce ==
    ASSUME Once, UNCHANGED <<queue, deferred, batch, pos, served, accepted>>
    PROVE  Once' /\ SameOrder
<1>1. \A m, p, i : Found(m, p, i)' <=> Found(m, p, i)
  BY DEF Found
<1>2. QED
  BY <1>1 DEF Once, SameOrder, Ordered

(* An item more in the queue, and put() counts it.                         *)
LEMMA PutKeepsCounted ==
    ASSUME PoolAssumption, TypeOK, Counted, NEW new \in Item, queue' = Append(queue, new),
           unfinished' = unfinished + 1, UNCHANGED <<deferred, batch>>
    PROVE  Counted'
<1>1. Held' = Held /\ Deferring' = Deferring
  BY DEF Held, Deferring
<1> DEFINE x == Len(queue)
           d == Cardinality(Deferring)
           h == Cardinality(Held)
<1>2. x \in Nat /\ Len(queue') = x + 1
  BY PlaceTypes
<1>3. IsFiniteSet(Held) /\ unfinished = x + d + h
  BY DEF Counted
<1>4. h \in Nat
  BY <1>3, FS_CardinalityType
<1>5. unfinished \in Int
  BY DEF TypeOK
<1>6. d = unfinished - x - h
  <2>1. d \in Nat
    BY DeferringCount
  <2> HIDE DEF x, d, h
  <2>2. QED
    BY <1>2, <1>3, <1>4, <1>5, <2>1
<1> HIDE DEF x, d, h
<1>7. unfinished' = (x + 1) + d + h
  BY <1>2, <1>4, <1>5, <1>6
<1>8. QED
  BY <1>1, <1>2, <1>3, <1>7 DEF Counted, x, d, h

LEMMA PutMessageKeeps ==
    ASSUME PoolAssumption, TypeOK, TypeOK', Kept, NEW m \in Messages \ Range(accepted), Put(m),
           phase = "running", received \subseteq received', m \in received',
           putting' = None, UNCHANGED <<phase, sentinels, pc, deferred, batch, pos, served>>
    PROVE  Kept'
<1>1. /\ queue' = Append(queue, m) /\ accepted' = Append(accepted, m)
      /\ unfinished' = unfinished + 1
  BY DEF Put
<1>2. m \in Item /\ m # None
  BY DEF PoolAssumption, Item
<1>3. Range(accepted') = Range(accepted) \cup {m}
  BY <1>1, AppendRange DEF TypeOK
<1>4. Once' /\ InLine'
  BY <1>1, <1>2, PutKeepsOnce DEF Kept
<1>5. Sentinels'
  BY <1>1, <1>2, PutKeepsSentinels DEF Kept
<1>6. Counted'
  BY <1>1, <1>2, PutKeepsCounted DEF Kept
<1>7. Shape' /\ Ingress' /\ StopComplete'
  BY <1>3 DEF Kept, Shape, ThreadOfWorker, Ingress, StopComplete
<1>8. QED
  BY <1>4, <1>5, <1>6, <1>7 DEF Kept

LEMMA EnqueueKeeps ==
    ASSUME PoolAssumption, TypeOK, TypeOK', Kept, NEW m \in Messages, Enqueue(m)
    PROVE  Kept'
<1>1. /\ phase = "running" /\ putting = None /\ m \notin received
      /\ received' = received \cup {m}
      /\ UNCHANGED <<phase, sentinels, pc, deferred, batch, pos, served>>
  BY DEF Enqueue, history
<1>2. m \notin Range(accepted)
  BY <1>1 DEF Kept, Ingress
<1>3. CASE Put(m) /\ UNCHANGED putting
  BY <1>1, <1>2, <1>3, PutMessageKeeps
<1>4. CASE UNCHANGED <<queue, accepted, unfinished>> /\ putting' \in {putting, m}
  <2>1. Shape' /\ StopComplete' /\ Counted'
    BY <1>1, <1>4 DEF Kept, Shape, ThreadOfWorker, StopComplete, Counted, Held, Deferring
  <2>2. Ingress'
    BY <1>1, <1>2, <1>4 DEF Kept, Ingress
  <2>3. Once' /\ InLine'
    BY <1>1, <1>4, FrameKeepsOnce, LineGoesOn DEF Kept
  <2>4. Sentinels'
    BY <1>1, <1>4 DEF Kept, Sentinels, MessagesUpTo, Ended
  <2>5. QED
    BY <2>1, <2>2, <2>3, <2>4 DEF Kept
<1>5. QED
  BY <1>3, <1>4 DEF Enqueue

LEMMA PutResumesKeeps ==
    ASSUME PoolAssumption, TypeOK, TypeOK', Kept, PutResumes
    PROVE  Kept'
<1>1. /\ putting # None /\ Put(putting) /\ putting' = None
      /\ UNCHANGED <<phase, sentinels, received, pc, deferred, batch, pos, served>>
  BY DEF PutResumes, history
<1>2. phase = "running" /\ putting \in received \ Range(accepted) /\ putting \in Messages
  BY <1>1 DEF Kept, Ingress, TypeOK
<1>3. QED
  BY <1>1, <1>2, PutMessageKeeps

(* The steps of stop().                                                    *)
LEMMA StopKeeps ==
    ASSUME PoolAssumption, TypeOK, TypeOK', Kept, Stop \/ PutSentinel \/ StopReturns
    PROVE  Kept'
<1>1. CASE Stop
  <2>1. /\ phase = "running" /\ phase' = "stopping" /\ sentinels' = Cardinality(Workers)
        /\ putting' = None
        /\ UNCHANGED <<received, accepted, queue, unfinished, pc, deferred, batch, pos, served>>
    BY <1>1 DEF Stop, SentinelCount, history
  <2>2. Shape' /\ StopComplete' /\ Counted'
    BY <2>1 DEF Kept, Shape, ThreadOfWorker, StopComplete, Counted, Held, Deferring
  <2>3. Ingress'
    BY <2>1 DEF Kept, Ingress
  <2>4. Once' /\ InLine'
    BY <2>1, FrameKeepsOnce, LineGoesOn DEF Kept
  <2>5. Sentinels'
    <3>1. MessagesUpTo(Len(queue)) /\ Ended = {}
      BY <2>1 DEF Kept, Sentinels
    <3>2. PICK k \in 0..Len(queue) : k = Len(queue) /\ MessagesUpTo(k)
      <4>1. Len(queue) \in Nat
        BY PlaceTypes
      <4>2. Len(queue) \in 0..Len(queue)
        BY <4>1
      <4>3. QED
        BY <3>1, <4>2
    <3>3. MessagesUpTo(k)' /\ Ended' = {}
      BY <2>1, <3>1, <3>2 DEF MessagesUpTo, Ended
    <3>4. Cardinality(Ended') = 0
      BY <3>3, FS_EmptySet
    <3>5. Cardinality(Ended') + (Len(queue') - k) + sentinels' = Cardinality(Workers)
      BY <2>1, <3>2, <3>4, EndedCount
    <3>6. QED
      BY <2>1, <3>2, <3>3, <3>5 DEF Sentinels
  <2>6. QED
    BY <2>2, <2>3, <2>4, <2>5 DEF Kept
<1>2. CASE PutSentinel
  <2>1. /\ phase = "stopping" /\ sentinels' = sentinels - 1
        /\ queue' = Append(queue, None) /\ unfinished' = unfinished + 1
        /\ UNCHANGED <<phase, received, putting, accepted, pc, deferred, batch, pos, served>>
    BY <1>2 DEF PutSentinel, SentinelDue, history
  <2>2. None \in Item
    BY DEF Item
  <2>3. Once' /\ InLine'
    BY <2>1, <2>2, PutKeepsOnce DEF Kept
  <2>4. Sentinels'
    BY <2>1, <2>2, PutKeepsSentinels DEF Kept
  <2>5. Counted'
    BY <2>1, <2>2, PutKeepsCounted DEF Kept
  <2>6. Shape' /\ Ingress' /\ StopComplete'
    BY <2>1 DEF Kept, Shape, ThreadOfWorker, Ingress, StopComplete
  <2>7. QED
    BY <2>3, <2>4, <2>5, <2>6 DEF Kept
<1>3. CASE StopReturns
  <2>1. /\ phase = "stopping" /\ sentinels = 0 /\ WorkersGone /\ phase' = "stopped"
        /\ UNCHANGED <<sentinels, received, putting, accepted, queue, unfinished, pc,
                       deferred, batch, pos, served>>
    BY <1>3 DEF StopReturns, history
  <2>2. Shape' /\ StopComplete' /\ Counted'
    BY <2>1 DEF Kept, Shape, ThreadOfWorker, StopComplete, WorkersGone, Counted, Held, Deferring
  <2>3. Ingress'
    BY <2>1 DEF Kept, Ingress
  <2>4. Once' /\ InLine'
    BY <2>1, FrameKeepsOnce, LineGoesOn DEF Kept
  <2>5. Sentinels'
    BY <2>1 DEF Kept, Sentinels, MessagesUpTo, Ended
  <2>6. QED
    BY <2>2, <2>3, <2>4, <2>5 DEF Kept
<1>4. QED
  BY <1>1, <1>2, <1>3

(* Time passes, or nothing happens.                                        *)
LEMMA StutterKeeps ==
    ASSUME TypeOK, Kept,
           UNCHANGED <<ingress, queue, unfinished, pc, deferred, batch, pos, served>>
    PROVE  Kept'
<1>1. UNCHANGED <<phase, sentinels, received, putting, accepted>>
  BY DEF ingress
<1>2. Shape' /\ StopComplete' /\ Counted'
  BY <1>1 DEF Kept, Shape, ThreadOfWorker, StopComplete, WorkersGone, Counted, Held, Deferring
<1>3. Ingress'
  BY <1>1 DEF Kept, Ingress
<1>4. Once' /\ InLine'
  BY <1>1, FrameKeepsOnce, LineGoesOn DEF Kept
<1>5. Sentinels'
  BY <1>1 DEF Kept, Sentinels, MessagesUpTo, Ended
<1>6. QED
  BY <1>2, <1>3, <1>4, <1>5 DEF Kept

(* The end of a segment, and of a batch.                                   *)
LEMMA EndKeeps ==
    ASSUME PoolAssumption, TypeOK, TypeOK', LockInv, Kept, NEW w \in Workers,
           NextSegment(w) \/ FinishBatch(w)
    PROVE  Kept'
<1>1. pc[w] = "busy" /\ EndSegment(w) /\ UNCHANGED <<ingress, queue, deferred>>
  BY DEF NextSegment, FinishBatch, EndSegment
<1>2. UNCHANGED <<phase, sentinels, received, putting, accepted>>
  BY <1>1 DEF ingress
<1>3. Ingress'
  BY <1>2 DEF Kept, Ingress
<1>4. \/ /\ NextSegment(w) /\ batch' = batch /\ pos' = [pos EXCEPT ![w] = segment[w]]
         /\ pc' = pc /\ unfinished' = unfinished
      \/ /\ FinishBatch(w) /\ segment[w] = Len(batch[w]) /\ batch' = [batch EXCEPT ![w] = <<>>]
         /\ pos' = [pos EXCEPT ![w] = 0] /\ pc' = [pc EXCEPT ![w] = "idle"]
         /\ unfinished' = unfinished - Len(batch[w])
  BY DEF NextSegment, FinishBatch, TasksDone
<1>5. Once' /\ InLine'
  BY <1>1, <1>2, <1>4, EndKeepsOnce, LineGoesOn DEF Kept
<1>6. /\ pc'[w] \in {"busy", "idle"}
      /\ \A v \in Workers \ {w} : pc'[v] = pc[v] /\ batch'[v] = batch[v] /\ pos'[v] = pos[v]
  BY <1>1, <1>4 DEF TypeOK
<1>7. Ended' = Ended
  BY <1>1, <1>6 DEF Ended
<1>8. Sentinels'
  BY <1>1, <1>2, <1>7 DEF Kept, Sentinels, MessagesUpTo
<1>9. StopComplete'
  BY <1>1, <1>2 DEF Kept, StopComplete, WorkersGone
<1>10. CASE NextSegment(w) /\ batch' = batch /\ pc' = pc /\ unfinished' = unfinished
  <2>1. Shape'
    BY <1>1, <1>6, <1>10 DEF Kept, Shape, ThreadOfWorker
  <2>2. Counted'
    BY <1>1, <1>10 DEF Kept, Counted, Held, Deferring
  <2>3. QED
    BY <1>3, <1>5, <1>8, <1>9, <2>1, <2>2 DEF Kept
<1>11. CASE /\ FinishBatch(w) /\ batch' = [batch EXCEPT ![w] = <<>>]
            /\ pos' = [pos EXCEPT ![w] = 0] /\ pc' = [pc EXCEPT ![w] = "idle"]
            /\ unfinished' = unfinished - Len(batch[w])
  <2>1. batch'[w] = <<>> /\ pos'[w] = 0 /\ pc'[w] = "idle"
    BY <1>11 DEF TypeOK
  <2>2. Shape'
    BY <1>1, <1>6, <2>1 DEF Kept, Shape, ThreadOfWorker
  <2>3. Counted'
    <3> DEFINE x == Len(queue)
               d == Cardinality(Deferring)
               h == Cardinality(Held)
               hn == Cardinality(Held')
               b == Len(batch[w])
    <3>1. x \in Nat /\ b \in Nat /\ d \in Nat
      BY PlaceTypes, DeferringCount
    <3>2. IsFiniteSet(Held) /\ unfinished = x + d + h
      BY DEF Kept, Counted
    <3>3. Len(batch'[w]) = 0
      BY <2>1
    <3>4. IsFiniteSet(Held') /\ h \in Nat /\ hn \in Nat /\ hn - 0 = h - b
      BY <1>6, <3>2, <3>3, HeldChange
    <3>5. Deferring' = Deferring /\ queue' = queue
      BY <1>1 DEF Deferring
    <3> HIDE DEF x, d, h, hn, b
    <3>6. unfinished - b = x + d + hn
      BY <3>1, <3>2, <3>4
    <3>7. QED
      BY <1>11, <3>4, <3>5, <3>6 DEF Counted, x, d, hn, b
  <2>4. QED
    BY <1>3, <1>5, <1>8, <1>9, <2>2, <2>3 DEF Kept
<1>12. QED
  BY <1>4, <1>10, <1>11

LEMMA TakeDeferredKeeps ==
    ASSUME PoolAssumption, TypeOK, TypeOK', Kept, NEW w \in Workers, TakeDeferred(w)
    PROVE  Kept'
<1> DEFINE item == deferred[w][1]
           D == <<"deferred", w>>
<1>1. /\ pc[w] = "idle" /\ deferred[w] # <<>> /\ Consume(w, Head(deferred[w]), queue)
      /\ UNCHANGED <<ingress, served>>
  BY DEF TakeDeferred
<1>2. deferred[w] \in Seq(Item) /\ Len(deferred[w]) \in Nat /\ Len(deferred[w]) <= 1
  BY PlaceTypes DEF Kept, Shape
<1>3. Len(deferred[w]) = 1 /\ Head(deferred[w]) = item /\ item \in Item
  <2>1. Len(deferred[w]) # 0
    BY <1>1, <1>2, EmptySeq
  <2>2. Len(deferred[w]) = 1
    <3> DEFINE l == Len(deferred[w])
    <3>1. l \in Nat /\ l <= 1 /\ l # 0
      BY <1>2, <2>1
    <3> HIDE DEF l
    <3>2. l = 1
      BY <3>1
    <3>3. QED
      BY <3>2 DEF l
  <2>3. QED
    BY <1>1, <1>2, <2>2, HeadTailProperties
<1>4. batch[w] = <<>>
  BY <1>1 DEF Kept, Shape
<1>5. Consume(w, item, queue) /\ queue \in Seq(Item)
  BY <1>1, <1>3 DEF TypeOK
<1>6. Source(w, item, queue, D, 0)
  <2>1. /\ Len(queue) \in Nat /\ Len(queue) = Len(queue) + 0
        /\ \A j \in 1..Len(queue) : queue[j + 0] = queue[j]
    BY PlaceTypes
  <2>2. QED
    BY <1>3, <1>4, <2>1 DEF Source
<1>7. CASE item = None
  <2>1. D # <<"batch", w>>
    OBVIOUS
  <2> HIDE DEF D, item
  <2>2. QED
    BY <1>1, <1>5, <1>6, <1>7, <2>1, DropKeeps
<1>8. CASE item # None
  <2>1. item \in Messages
    BY <1>3, <1>8 DEF Item
  <2> HIDE DEF D, item
  <2>2. PICK k, r : Takes(w, item, queue, k, r)
    BY <1>1, <1>5, <2>1, WaitTakes DEF Kept
  <2>3. unfinished' = unfinished
    BY <1>5, <1>8 DEF Consume
  <2>4. QED
    BY <1>1, <1>5, <1>6, <2>1, <2>2, <2>3, TakeKeeps
<1>9. QED
  BY <1>7, <1>8

LEMMA TakeFromQueueKeeps ==
    ASSUME PoolAssumption, TypeOK, TypeOK', Kept, NEW w \in Workers, TakeFromQueue(w)
    PROVE  Kept'
<1> DEFINE item == queue[1]
           q == Tail(queue)
           Q == <<"queue", None>>
<1>1. /\ pc[w] = "idle" /\ deferred[w] = <<>> /\ queue # <<>>
      /\ Consume(w, Head(queue), q) /\ UNCHANGED <<ingress, served>>
  BY DEF TakeFromQueue
<1>2. /\ q \in Seq(Item) /\ Len(q) = Len(queue) - 1 /\ Head(queue) = item /\ item \in Item
      /\ \A j \in 1..Len(q) : q[j] = queue[j + 1]
  BY <1>1, PlaceTypes, HeadTailProperties
<1>3. batch[w] = <<>>
  BY <1>1 DEF Kept, Shape
<1>4. Consume(w, item, q)
  BY <1>1, <1>2
<1> HIDE DEF q
<1>5. Source(w, item, q, Q, 1)
  <2>1. Len(queue) = Len(q) + 1
    BY <1>2, PlaceTypes
  <2>2. QED
    BY <1>1, <1>2, <1>3, <2>1 DEF Source
<1>6. CASE item = None
  <2>1. Q # <<"batch", w>>
    OBVIOUS
  <2> HIDE DEF Q, item
  <2>2. QED
    BY <1>1, <1>2, <1>4, <1>5, <1>6, <2>1, DropKeeps
<1>7. CASE item # None
  <2>1. item \in Messages
    BY <1>2, <1>7 DEF Item
  <2> HIDE DEF Q, item
  <2>2. PICK k, r : Takes(w, item, q, k, r)
    BY <1>1, <1>2, <1>4, <2>1, WaitTakes DEF Kept
  <2>3. unfinished' = unfinished
    BY <1>4, <1>7 DEF Consume
  <2>4. QED
    BY <1>1, <1>2, <1>5, <2>1, <2>2, <2>3, TakeKeeps
<1>8. QED
  BY <1>6, <1>7

LEMMA WakeKeeps ==
    ASSUME PoolAssumption, TypeOK, TypeOK', Kept, NEW w \in Workers, Wake(w)
    PROVE  Kept'
<1> DEFINE item == batch[w][1]
           B == <<"batch", w>>
<1>1. /\ pc[w] = "waiting" /\ StartBatch(w, Head(batch[w]), queue)
      /\ UNCHANGED <<ingress, unfinished, served>>
  BY DEF Wake
<1>2. deferred[w] = <<>> /\ Len(batch[w]) = 1 /\ pos[w] = 0
  BY <1>1 DEF Kept, Shape
<1>3. batch[w] \in Seq(Messages) /\ queue \in Seq(Item)
  BY DEF TypeOK
<1>4. Head(batch[w]) = item /\ item \in Messages
  <2>1. batch[w] # <<>>
    BY <1>2
  <2>2. QED
    BY <1>3, <2>1, HeadTailProperties
<1>5. Source(w, item, queue, B, 0)
  <2>1. /\ Len(queue) \in Nat /\ Len(queue) = Len(queue) + 0
        /\ \A j \in 1..Len(queue) : queue[j + 0] = queue[j]
    BY PlaceTypes
  <2>2. QED
    BY <1>2, <2>1 DEF Source
<1>6. StartBatch(w, item, queue)
  BY <1>1, <1>4
<1> HIDE DEF B, item
<1>7. PICK k, r : Takes(w, item, queue, k, r)
  BY <1>3, <1>4, <1>6, StartBatchTakes
<1>8. QED
  BY <1>1, <1>3, <1>4, <1>5, <1>7, TakeKeeps

LEMMA NextKeeps ==
    ASSUME PoolAssumption, TypeOK, LockInv, Kept, [Next]_vars
    PROVE  Kept'
<1>1. TypeOK'
  BY NextInv
<1>2. CASE \E m \in Messages : Enqueue(m)
  BY <1>1, <1>2, EnqueueKeeps
<1>3. CASE PutResumes
  BY <1>1, <1>3, PutResumesKeeps
<1>4. ASSUME NEW w \in Workers, WorkerStep(w)
      PROVE  Kept'
  BY <1>1, <1>4, TakeDeferredKeeps, TakeFromQueueKeeps, WakeKeeps, EndKeeps DEF WorkerStep
<1>5. CASE Stop \/ PutSentinel \/ StopReturns
  BY <1>1, <1>5, StopKeeps
<1>6. CASE \E t \in Threads : Age(t)
  BY <1>6, StutterKeeps DEF Age, history
<1>7. CASE Terminated \/ UNCHANGED vars
  BY <1>7, StutterKeeps DEF Terminated, vars, history
<1>8. QED
  BY <1>2, <1>3, <1>4, <1>5, <1>6, <1>7 DEF Next

LEMMA InitKept ==
    ASSUME PoolAssumption, Init
    PROVE  Kept
<1>1. /\ phase = "running" /\ sentinels = 0 /\ putting = None /\ received = {}
      /\ queue = <<>> /\ unfinished = 0 /\ accepted = <<>>
      /\ \A w \in Workers : /\ pc[w] = "idle" /\ deferred[w] = <<>> /\ batch[w] = <<>>
                            /\ pos[w] = 0
      /\ \A t \in Threads : served[t] = <<>>
  BY DEF Init
<1>2. /\ Len(queue) = 0 /\ DOMAIN queue = {} /\ Range(accepted) = {}
      /\ \A w \in Workers : DOMAIN deferred[w] = {} /\ DOMAIN batch[w] = {}
                            /\ Len(deferred[w]) = 0
      /\ \A t \in Threads : DOMAIN served[t] = {}
  BY <1>1 DEF Range
<1>3. Shape /\ Ingress /\ StopComplete
  BY <1>1, <1>2 DEF Shape, Ingress, StopComplete
<1>4. Once
  <2>1. \A m \in Messages : ThreadOf[m] \in Threads
    BY DEF PoolAssumption
  <2>2. \A m \in Messages : \A p, i : ~Found(m, p, i)
    BY <1>2, <2>1 DEF Found
  <2>3. QED
    BY <1>2, <2>2 DEF Once
<1>5. Sentinels
  <2>1. Ended = {}
    BY <1>1 DEF Ended
  <2>2. MessagesUpTo(0)
    BY <1>2 DEF MessagesUpTo
  <2>3. QED
    BY <1>1, <1>2, <2>1, <2>2 DEF Sentinels
<1>6. Counted
  <2>1. Held = {} /\ Deferring = {}
    BY <1>1, <1>2 DEF Held, Deferring
  <2>2. QED
    BY <1>1, <1>2, <2>1, FS_EmptySet DEF Counted
<1>7. InLine
  BY <1>1, <1>2 DEF InLine
<1>8. QED
  BY <1>3, <1>4, <1>5, <1>6, <1>7 DEF Kept

(* A message is found at one index of one place: Places counts that one.   *)
LEMMA OncePlaced ==
    ASSUME PoolAssumption, TypeOK, Once, NEW m \in Messages, m \in Range(accepted)
    PROVE  Places(m) = 1
<1> DEFINE t == ThreadOf[m]
           InQueue == {i \in DOMAIN queue : queue[i] = m}
           InServed == {i \in DOMAIN served[t] : served[t][i] = m}
           InDeferred == {w \in Workers : m \in Range(deferred[w])}
           InBatch == {w \in Workers : \E i \in (pos[w] + 1)..Len(batch[w]) : batch[w][i] = m}
           Q == <<"queue", None>>
           S == <<"served", None>>
           D(w) == <<"deferred", w>>
           B(w) == <<"batch", w>>
<1>1. PICK p, n : Found(m, p, n)
  BY DEF Once
<1>2. \A p2, i : Found(m, p2, i) => p2 = p /\ i = n
  BY <1>1 DEF Once
<1>3. \A i : i \in InQueue <=> Found(m, Q, i)
  BY DEF Found
<1>4. \A i : i \in InServed <=> Found(m, S, i)
  BY DEF Found
<1>5. \A w \in Workers : w \in InDeferred <=> \E i : Found(m, D(w), i)
  BY DEF Found, Range
<1>6. ASSUME NEW w \in Workers
      PROVE  w \in InBatch <=> \E i : Found(m, B(w), i)
  <2>1. pos[w] \in Nat /\ Len(batch[w]) \in Nat /\ DOMAIN batch[w] = 1..Len(batch[w])
    BY PlaceTypes
  <2>2. \A i : i \in (pos[w] + 1)..Len(batch[w]) <=> i \in DOMAIN batch[w] /\ i > pos[w]
    BY <2>1
  <2>3. \A i : Found(m, B(w), i)
                   <=> i \in DOMAIN batch[w] /\ i > pos[w] /\ batch[w][i] = m
    BY DEF Found
  <2>4. QED
    BY <2>2, <2>3
<1>7. Places(m) = Cardinality(InQueue) + Cardinality(InServed)
                  + Cardinality(InDeferred) + Cardinality(InBatch)
  BY DEF Places, Copies
<1>8. InDeferred \subseteq Workers /\ InBatch \subseteq Workers
  OBVIOUS
<1>9. \/ p = Q \/ p = S
      \/ \E w \in Workers : p = D(w)
      \/ \E w \in Workers : p = B(w)
  BY <1>1 DEF Found
<1>10. /\ Q # S
       /\ \A v : D(v) # Q /\ D(v) # S /\ B(v) # Q /\ B(v) # S
       /\ \A u, v : /\ D(v) # B(u)
                    /\ D(u) = D(v) => u = v
                    /\ B(u) = B(v) => u = v
  OBVIOUS
<1> HIDE DEF InQueue, InServed, InDeferred, InBatch, Q, S, D, B
<1>11. Cardinality({}) = 0 /\ \A x : Cardinality({x}) = 1
  BY FS_EmptySet, FS_Singleton
<1>12. /\ p = Q => InQueue = {n}
       /\ p # Q => InQueue = {}
  BY <1>1, <1>2, <1>3
<1>13. /\ p = S => InServed = {n}
       /\ p # S => InServed = {}
  BY <1>1, <1>2, <1>4
<1>14. /\ \A w \in Workers : p = D(w) => InDeferred = {w}
       /\ (\A w \in Workers : p # D(w)) => InDeferred = {}
  BY <1>1, <1>2, <1>5, <1>8, <1>10
<1>15. /\ \A w \in Workers : p = B(w) => InBatch = {w}
       /\ (\A w \in Workers : p # B(w)) => InBatch = {}
  BY <1>1, <1>2, <1>6, <1>8, <1>10
<1> DEFINE q == Cardinality(InQueue)
           s == Cardinality(InServed)
           d == Cardinality(InDeferred)
           b == Cardinality(InBatch)
<1>16. \/ q = 1 /\ s = 0 /\ d = 0 /\ b = 0
       \/ q = 0 /\ s = 1 /\ d = 0 /\ b = 0
       \/ q = 0 /\ s = 0 /\ d = 1 /\ b = 0
       \/ q = 0 /\ s = 0 /\ d = 0 /\ b = 1
  <2>1. CASE p = Q
    <3>1. InQueue = {n} /\ InServed = {} /\ InDeferred = {} /\ InBatch = {}
      BY <1>10, <1>12, <1>13, <1>14, <1>15, <2>1
    <3>2. QED
      BY <1>11, <3>1
  <2>2. CASE p = S
    <3>1. InQueue = {} /\ InServed = {n} /\ InDeferred = {} /\ InBatch = {}
      BY <1>10, <1>12, <1>13, <1>14, <1>15, <2>2
    <3>2. QED
      BY <1>11, <3>1
  <2>3. ASSUME NEW w \in Workers, p = D(w)
        PROVE  q = 0 /\ s = 0 /\ d = 1 /\ b = 0
    <3>1. InQueue = {} /\ InServed = {} /\ InDeferred = {w} /\ InBatch = {}
      BY <1>10, <1>12, <1>13, <1>14, <1>15, <2>3
    <3>2. QED
      BY <1>11, <3>1
  <2>4. ASSUME NEW w \in Workers, p = B(w)
        PROVE  q = 0 /\ s = 0 /\ d = 0 /\ b = 1
    <3>1. InQueue = {} /\ InServed = {} /\ InDeferred = {} /\ InBatch = {w}
      BY <1>10, <1>12, <1>13, <1>14, <1>15, <2>4
    <3>2. QED
      BY <1>11, <3>1
  <2> HIDE DEF q, s, d, b
  <2>5. QED
    BY <1>9, <2>1, <2>2, <2>3, <2>4
<1>17. Places(m) = q + s + d + b
  BY <1>7
<1> HIDE DEF q, s, d, b
<1>18. QED
  BY <1>16, <1>17

(* When stop() returns, every worker has its sentinel, so none is left in  *)
(* the queue, and no message before them.                                  *)
LEMMA StoppedEmpty ==
    ASSUME PoolAssumption, TypeOK, Kept, phase = "stopped"
    PROVE  /\ queue = <<>> /\ unfinished = 0
           /\ \A m \in Range(accepted) : IsServed(m)
<1>1. sentinels = 0 /\ \A w \in Workers : pc[w] = "stopped"
  BY DEF Kept, StopComplete, WorkersGone
<1>2. \A w \in Workers : deferred[w] = <<>> /\ batch[w] = <<>>
  BY <1>1 DEF Kept, Shape
<1>3. Ended = Workers
  BY <1>1 DEF Ended
<1>4. Len(queue) = 0
  <2>1. Ended # {} /\ phase # "running"
    BY <1>3 DEF PoolAssumption
  <2>2. Cardinality(Ended) + (Len(queue) - 0) + sentinels = Cardinality(Workers)
    BY <2>1 DEF Kept, Sentinels
  <2>3. QED
    BY <1>1, <1>3, <2>2, EndedCount, PlaceTypes
<1>5. queue = <<>>
  BY <1>4, EmptySeq, PlaceTypes
<1>6. unfinished = 0
  <2>1. Held = {} /\ Deferring = {}
    BY <1>2 DEF Held, Deferring
  <2>2. QED
    BY <1>4, <2>1, FS_EmptySet DEF Kept, Counted
<1>7. ASSUME NEW m \in Range(accepted)
      PROVE  IsServed(m)
  <2>1. m \in Messages
    <3>1. accepted \in Seq(Messages)
      BY DEF TypeOK
    <3>2. QED
      BY <3>1, ElementOfSeq, LenProperties DEF Range
  <2>2. PICK p, i : Found(m, p, i)
    BY <2>1 DEF Kept, Once
  <2>3. i \in DOMAIN served[ThreadOf[m]] /\ served[ThreadOf[m]][i] = m
    BY <1>2, <1>5, <2>2 DEF Found
  <2>4. QED
    BY <2>3 DEF IsServed, Range
<1>8. QED
  BY <1>5, <1>6, <1>7

(* An accepted message is in exactly one place, however many workers draw  *)
(* from the queue, and when stop() returns everything was processed and    *)
(* counted off: batching, deferring, waiting for a lock and stopping never *)
(* lose a message or process one twice.                                    *)
THEOREM NothingLost == Spec => []Conservation
<1> DEFINE Inv == TypeOK /\ LockInv /\ Kept
<1>1. Init => Inv
  BY PoolAssumption, InitInv, InitKept
<1>2. Inv /\ [Next]_vars => Inv'
  BY PoolAssumption, NextInv, NextKeeps
<1>3. Inv => Conservation
  <2> SUFFICES ASSUME Inv PROVE Conservation
    OBVIOUS
  <2>1. ASSUME NEW m \in Range(accepted)
        PROVE  Places(m) = 1
    <3>1. accepted \in Seq(Messages)
      BY DEF TypeOK
    <3>2. m \in Messages
      BY <3>1, ElementOfSeq, LenProperties DEF Range
    <3>3. QED
      BY <3>2, PoolAssumption, OncePlaced DEF Kept
  <2>2. QED
    BY <2>1, PoolAssumption, StoppedEmpty DEF Conservation
<1>4. QED
  BY <1>1, <1>2, <1>3, PTL DEF Spec

(* With a single worker the pool is one FIFO for all conversations:        *)
(* whatever is batched or deferred, nothing is processed before everything *)
(* accepted earlier has been.                                              *)
THEOREM OneWorkerKeepsOrder ==
    ASSUME NEW w, Workers = {w}
    PROVE  Spec => []GlobalOrder
<1> DEFINE Inv == TypeOK /\ LockInv /\ Kept
           S == <<"served", None>>
<1>1. Init => Inv
  BY PoolAssumption, InitInv, InitKept
<1>2. Inv /\ [Next]_vars => Inv'
  BY PoolAssumption, NextInv, NextKeeps
<1>3. Inv => GlobalOrder
  <2> SUFFICES ASSUME Inv, NEW i \in DOMAIN accepted, NEW j \in DOMAIN accepted, i < j,
                      IsServed(accepted[j])
               PROVE  IsServed(accepted[i])
    BY DEF GlobalOrder
  <2>1. PICK x, y : x = accepted[i] /\ y = accepted[j]
    OBVIOUS
  <2>2. x \in Messages /\ x \in Range(accepted)
    <3>1. accepted \in Seq(Messages)
      BY DEF TypeOK
    <3>2. QED
      BY <2>1, <3>1, ElementOfSeq, LenProperties DEF Range
  <2>3. PICK c : Found(y, S, c)
    BY <2>1 DEF IsServed, Range, Found
  <2>4. PICK p, a : Found(x, p, a)
    BY <2>2 DEF Kept, Once
  <2>5. Ahead(w, p, a, S, c)
    BY <2>1, <2>3, <2>4 DEF Kept, InLine, Ordered
  <2>6. p = S
    <3>1. S \notin {<<"deferred", w>>, <<"queue", None>>}
      OBVIOUS
    <3>2. QED
      BY <2>5, <3>1 DEF Ahead
  <2>7. a \in DOMAIN served[ThreadOf[x]] /\ served[ThreadOf[x]][a] = x
    BY <2>4, <2>6 DEF Found
  <2>8. QED
    BY <2>1, <2>7 DEF IsServed, Range
<1>4. QED
  BY <1>1, <1>2, <1>3, PTL DEF Spec

(* ... and each conversation is processed in the order in which it came:   *)
(* what is violated with several workers and merging (finding) holds for   *)
(* one worker, whatever the bounds.                                        *)
THEOREM OneWorkerKeepsThreadOrder ==
    ASSUME NEW w, Workers = {w}
    PROVE  Spec => []ThreadOrder
<1> DEFINE Inv == TypeOK /\ LockInv /\ Kept
           S == <<"served", None>>
<1>1. Init => Inv
  BY PoolAssumption, InitInv, InitKept
<1>2. Inv /\ [Next]_vars => Inv'
  BY PoolAssumption, NextInv, NextKeeps
<1>3. Inv => ThreadOrder
  <2> SUFFICES ASSUME Inv, NEW i \in DOMAIN accepted, NEW j \in DOMAIN accepted, i < j,
                      ThreadOf[accepted[i]] = ThreadOf[accepted[j]], IsServed(accepted[j])
               PROVE  \E a, c \in DOMAIN served[ThreadOf[accepted[j]]] :
                         /\ a < c
                         /\ served[ThreadOf[accepted[j]]][a] = accepted[i]
                         /\ served[ThreadOf[accepted[j]]][c] = accepted[j]
    BY DEF ThreadOrder
  <2>1. PICK x, y : x = accepted[i] /\ y = accepted[j]
    OBVIOUS
  <2>2. x \in Messages /\ x \in Range(accepted)
    <3>1. accepted \in Seq(Messages)
      BY DEF TypeOK
    <3>2. QED
      BY <2>1, <3>1, ElementOfSeq, LenProperties DEF Range
  <2>3. PICK c : Found(y, S, c)
    BY <2>1 DEF IsServed, Range, Found
  <2>4. PICK p, a : Found(x, p, a)
    BY <2>2 DEF Kept, Once
  <2>5. Ordered(w, x, y)
    BY <2>1 DEF Kept, InLine
  <2>6. p = S
    <3>1. S \notin {<<"deferred", w>>, <<"queue", None>>}
      OBVIOUS
    <3>2. QED
      BY <2>3, <2>4, <2>5, <3>1 DEF Ordered, Ahead
  <2>7. a < c
    BY <2>1, <2>3, <2>4, <2>5, <2>6 DEF Ordered
  <2>8. /\ a \in DOMAIN served[ThreadOf[x]] /\ served[ThreadOf[x]][a] = x
        /\ c \in DOMAIN served[ThreadOf[y]] /\ served[ThreadOf[y]][c] = y
    BY <2>3, <2>4, <2>6 DEF Found
  <2>9. QED
    BY <2>1, <2>7, <2>8
<1>4. QED
  BY <1>1, <1>2, <1>3, PTL DEF Spec

-----------------------------------------------------------------------------
(* Commands.  The inductive invariant of CommandsInOrder says what routing *)
(* knew of the messages that are being dispatched; it needs that no other  *)
(* worker runs a command of the same thread meanwhile.                     *)

CommandsBefore(s, n) == Cardinality({j \in 1..n : IsCommand(s[j])})

OfThread == \A t \in Threads : \A i \in DOMAIN served[t] : ThreadOf[served[t][i]] = t

Runs == \A t \in Threads : commandsRun[t] = CommandsBefore(served[t], Len(served[t]))

(* The segment w is dispatching was routed after all commands before it,   *)
(* and the command that ended a burst together with that burst.            *)
SegmentRouted(w) ==
    LET b == batch[w]
        runs == commandsRun[ThreadOfWorker(w)]
    IN  /\ IsSegment(b, pos[w], segment[w])
        /\ \A j \in (pos[w] + 1)..segment[w] : routedAt[b[j]] = runs
        /\ ~IsCommand(b[pos[w] + 1]) /\ segment[w] < Len(b)
               => routedAt[b[segment[w] + 1]] = runs

Commanded ==
    /\ OfThread /\ Runs /\ CommandsInOrder
    /\ \A w \in Workers : pc[w] = "busy" => SegmentRouted(w)

(* Routing that leaves alone what is not in the batch of w.                *)
RoutesOnly(w) ==
    \A m \in Messages :
        (\A j : ~Found(m, <<"batch", w>>, j)') => routedAt'[m] = routedAt[m]

LEMMA CommandSet ==
    ASSUME NEW s, NEW n \in Nat
    PROVE  /\ IsFiniteSet({j \in 1..n : IsCommand(s[j])}) /\ CommandsBefore(s, n) \in Nat
<1>1. {j \in 1..n : IsCommand(s[j])} \subseteq 1..n
  OBVIOUS
<1>2. IsFiniteSet(1..n)
  BY FS_Interval
<1>3. QED
  BY <1>1, <1>2, FS_Subset, FS_CardinalityType DEF CommandsBefore

(* A segment more: a command on its own, or no command at all.             *)
LEMMA MoreCommands ==
    ASSUME NEW s, NEW r, NEW n \in Nat, NEW l \in Nat, \A i \in 1..n : r[i] = s[i],
           \/ l = 1 /\ IsCommand(r[n + 1])
           \/ \A i \in 1..l : ~IsCommand(r[n + i])
    PROVE  /\ \A k \in 0..n : CommandsBefore(r, k) = CommandsBefore(s, k)
           /\ \A i \in 1..l : CommandsBefore(r, n + i - 1) = CommandsBefore(s, n)
           /\ l = 1 /\ IsCommand(r[n + 1])
                  => CommandsBefore(r, n + l) = CommandsBefore(s, n) + 1
           /\ (\A i \in 1..l : ~IsCommand(r[n + i]))
                  => CommandsBefore(r, n + l) = CommandsBefore(s, n)
<1> DEFINE Of(f, k) == {j \in 1..k : IsCommand(f[j])}
<1>1. \A k \in 0..n : Of(r, k) = Of(s, k)
  <2> SUFFICES ASSUME NEW k \in 0..n PROVE Of(r, k) = Of(s, k)
    OBVIOUS
  <2>1. \A j \in 1..k : j \in 1..n
    OBVIOUS
  <2>2. QED
    BY <2>1
<1>2. ASSUME NEW k \in n..(n + l), \A j \in (n + 1)..k : ~IsCommand(r[j])
      PROVE  Of(r, k) = Of(s, n)
  <2>1. \A j : j \in 1..k <=> j \in 1..n \/ j \in (n + 1)..k
    OBVIOUS
  <2>2. \A j : j \in Of(r, k) <=> j \in Of(s, n)
    BY <1>2, <2>1
  <2>3. QED
    BY <2>2
<1>3. ASSUME l = 1, IsCommand(r[n + 1])
      PROVE  Of(r, n + 1) = Of(s, n) \cup {n + 1} /\ n + 1 \notin Of(s, n)
  <2>1. \A j : j \in 1..(n + 1) <=> j \in 1..n \/ j = n + 1
    OBVIOUS
  <2>2. \A j : j \in Of(r, n + 1) <=> j \in Of(s, n) \/ j = n + 1
    BY <1>3, <2>1
  <2>3. n + 1 \notin 1..n
    OBVIOUS
  <2>4. QED
    BY <2>2, <2>3
<1>4. ASSUME NEW i \in 1..l
      PROVE  CommandsBefore(r, n + i - 1) = CommandsBefore(s, n)
  <2>1. n + i - 1 \in n..(n + l)
    OBVIOUS
  <2>2. \A j \in (n + 1)..(n + i - 1) : ~IsCommand(r[j])
    <3>1. CASE l = 1
      <4>1. (n + 1)..(n + i - 1) = {}
        BY <3>1
      <4>2. QED
        BY <4>1
    <3>2. CASE \A k \in 1..l : ~IsCommand(r[n + k])
      <4> SUFFICES ASSUME NEW j \in (n + 1)..(n + i - 1) PROVE ~IsCommand(r[j])
        OBVIOUS
      <4>1. j - n \in 1..l /\ n + (j - n) = j
        OBVIOUS
      <4>2. QED
        BY <3>2, <4>1
    <3>3. QED
      BY <3>1, <3>2
  <2>3. Of(r, n + i - 1) = Of(s, n)
    BY <1>2, <2>1, <2>2
  <2>4. QED
    BY <2>3 DEF CommandsBefore
<1>5. ASSUME l = 1, IsCommand(r[n + 1])
      PROVE  CommandsBefore(r, n + l) = CommandsBefore(s, n) + 1
  <2>1. Of(r, n + l) = Of(s, n) \cup {n + 1} /\ n + 1 \notin Of(s, n)
    BY <1>3, <1>5
  <2>2. IsFiniteSet(Of(s, n))
    BY CommandSet
  <2> HIDE DEF Of
  <2>3. Cardinality(Of(r, n + l)) = Cardinality(Of(s, n)) + 1
    BY <2>1, <2>2, FS_AddElement
  <2>4. QED
    BY <2>3 DEF CommandsBefore, Of
<1>6. ASSUME \A i \in 1..l : ~IsCommand(r[n + i])
      PROVE  CommandsBefore(r, n + l) = CommandsBefore(s, n)
  <2>1. n + l \in n..(n + l)
    OBVIOUS
  <2>2. ASSUME NEW j \in (n + 1)..(n + l)
        PROVE  ~IsCommand(r[j])
    <3>1. j - n \in 1..l /\ n + (j - n) = j
      OBVIOUS
    <3>2. QED
      BY <1>6, <3>1
  <2>3. Of(r, n + l) = Of(s, n)
    BY <1>2, <2>1, <2>2
  <2>4. QED
    BY <2>3 DEF CommandsBefore
<1>7. \A k \in 0..n : CommandsBefore(r, k) = CommandsBefore(s, k)
  BY <1>1 DEF CommandsBefore
<1>8. QED
  BY <1>4, <1>5, <1>6, <1>7

(* Starting a segment routes its messages, with the commands run by then;  *)
(* a command that ended a burst keeps what it was given with that burst.   *)
RoutedWith(w, b, i, c) ==
    /\ IsSegment(b, i, segment'[w])
    /\ \A j \in (i + 1)..segment'[w] : routedAt'[b[j]] = c
    /\ ~IsCommand(b[i + 1]) /\ segment'[w] < Len(b) => routedAt'[b[segment'[w] + 1]] = c
    /\ \A v \in Workers \ {w} : segment'[v] = segment[v]
    /\ RoutesOnly(w)

OfOneThread(b, t) == \A j \in DOMAIN b : ThreadOf[b[j]] = t

RoutedBefore(b, i, c) == i > 0 /\ ~IsCommand(b[i]) /\ IsCommand(b[i + 1]) => routedAt[b[i + 1]] = c

LEMMA StartRoutes ==
    ASSUME PoolAssumption, TypeOK, TypeOK', NEW w \in Workers, NEW t \in Threads,
           NEW i \in Nat, NEW runs, NEW b, b = batch'[w],
           StartSegment(w, b, i, runs), pos'[w] = i,
           OfOneThread(b, t), RoutedBefore(b, i, runs[t])
    PROVE  RoutedWith(w, b, i, runs[t])
<1> DEFINE n == Len(b)
<1>1. PICK e \in (i + 1)..n :
        /\ IsSegment(b, i, e)
        /\ segment' = [segment EXCEPT ![w] = e]
        /\ routedAt' = [m \in Messages |->
                           IF \E j \in RoutedNow(b, i, e) : b[j] = m
                           THEN runs[ThreadOf[m]] ELSE routedAt[m]]
  BY DEF StartSegment
<1>2. b \in Seq(Messages) /\ n \in Nat /\ DOMAIN b = 1..n /\ \A j \in 1..n : b[j] \in Messages
  <2>1. b \in Seq(Messages)
    BY DEF TypeOK
  <2>2. QED
    BY <2>1, LenProperties, ElementOfSeq
<1>3. segment'[w] = e /\ \A v \in Workers \ {w} : segment'[v] = segment[v]
  BY <1>1 DEF TypeOK
<1>4. \A m, j : Found(m, <<"batch", w>>, j)' <=> j \in DOMAIN b /\ j > i /\ b[j] = m
  BY DEF Found
<1> HIDE DEF n
<1>5. e \in Nat /\ i + 1 <= e /\ e <= n
  BY <1>1, <1>2
<1>6. \A j \in RoutedNow(b, i, e) : j \in 1..n /\ j > i
  <2>1. RoutedNow(b, i, e) \subseteq (i + 1)..(e + 1)
        /\ (e + 1 \in RoutedNow(b, i, e) => e < n)
    BY <1>2, <1>5 DEF RoutedNow, n
  <2>2. QED
    BY <1>2, <1>5, <2>1
<1>7. RoutesOnly(w)
  <2> SUFFICES ASSUME NEW m \in Messages, \A j : ~Found(m, <<"batch", w>>, j)'
               PROVE  routedAt'[m] = routedAt[m]
    BY DEF RoutesOnly
  <2>1. ~\E j \in RoutedNow(b, i, e) : b[j] = m
    BY <1>2, <1>4, <1>6
  <2>2. QED
    BY <1>1, <2>1
<1>8. ASSUME NEW j \in RoutedNow(b, i, e)
      PROVE  routedAt'[b[j]] = runs[t]
  <2>1. b[j] \in Messages /\ ThreadOf[b[j]] = t
    BY <1>2, <1>6 DEF OfOneThread
  <2>2. QED
    BY <1>1, <2>1
<1>9. /\ \A j \in (i + 1)..e : routedAt'[b[j]] = runs[t]
      /\ ~IsCommand(b[i + 1]) /\ e < n => routedAt'[b[e + 1]] = runs[t]
  <2>1. CASE ~IsCommand(b[i + 1])
    <3>1. \A j \in (i + 1)..e : j \in RoutedNow(b, i, e)
      BY <1>5, <2>1 DEF RoutedNow
    <3>2. e < n => e + 1 \in RoutedNow(b, i, e)
      BY <1>5, <2>1 DEF RoutedNow, n
    <3>3. QED
      BY <1>8, <3>1, <3>2
  <2>2. CASE IsCommand(b[i + 1])
    <3>1. e = i + 1
      BY <1>1, <2>2 DEF IsSegment
    <3>2. \A j \in (i + 1)..e : j = i + 1
      BY <3>1
    <3>3. CASE i > 0 /\ ~IsCommand(b[i])
      <4>1. RoutedNow(b, i, e) = {}
        BY <2>2, <3>3 DEF RoutedNow
      <4>2. b[i + 1] \in Messages
        BY <1>2, <1>5
      <4>3. routedAt[b[i + 1]] = runs[t]
        BY <2>2, <3>3 DEF RoutedBefore
      <4>4. routedAt'[b[i + 1]] = runs[t]
        BY <1>1, <4>1, <4>2, <4>3
      <4>5. QED
        BY <2>2, <3>2, <4>4
    <3>4. CASE ~(i > 0 /\ ~IsCommand(b[i]))
      <4>1. i + 1 \in RoutedNow(b, i, e)
        BY <2>2, <3>1, <3>4 DEF RoutedNow
      <4>2. QED
        BY <1>8, <2>2, <3>2, <4>1
    <3>5. QED
      BY <3>3, <3>4
  <2>3. QED
    BY <2>1, <2>2
<1>10. QED
  BY <1>1, <1>3, <1>7, <1>9 DEF RoutedWith, n

LEMMA OthersRouted ==
    ASSUME TypeOK, TypeOK', LockInv, Once', NEW w \in Workers, RoutesOnly(w),
           NEW v \in Workers \ {w}, pc[v] = "busy", SegmentRouted(v),
           batch'[v] = batch[v], pos'[v] = pos[v], segment'[v] = segment[v],
           commandsRun'[ThreadOfWorker(v)] = commandsRun[ThreadOfWorker(v)]
    PROVE  SegmentRouted(v)'
<1> DEFINE b == batch[v]
           lo == pos[v]
           hi == segment[v]
           n == Len(b)
<1>1. /\ lo \in Nat /\ hi \in Nat /\ n \in Nat /\ lo < hi /\ hi <= n
      /\ b \in Seq(Messages) /\ DOMAIN b = 1..n
  BY PlaceTypes DEF LockInv, BatchShape
<1>2. ASSUME NEW j \in (lo + 1)..n
      PROVE  routedAt'[b[j]] = routedAt[b[j]]
  <2>1. j \in 1..n /\ j > lo
    BY <1>1
  <2>2. b[j] \in Messages
    BY <1>1, <2>1, ElementOfSeq
  <2>3. Found(b[j], <<"batch", v>>, j)'
    BY <1>1, <2>1 DEF Found
  <2>4. <<"batch", v>> # <<"batch", w>>
    OBVIOUS
  <2>5. \A i : ~Found(b[j], <<"batch", w>>, i)'
    BY <2>2, <2>3, <2>4 DEF Once
  <2>6. QED
    BY <2>2, <2>5 DEF RoutesOnly
<1>3. /\ \A j \in (lo + 1)..hi : j \in (lo + 1)..n
      /\ hi < n => hi + 1 \in (lo + 1)..n
  BY <1>1
<1>4. ThreadOfWorker(v)' = ThreadOfWorker(v)
  BY DEF ThreadOfWorker
<1> HIDE DEF n
<1>5. /\ IsSegment(b, lo, hi)
      /\ \A j \in (lo + 1)..hi : routedAt'[b[j]] = commandsRun[ThreadOfWorker(v)]
      /\ ~IsCommand(b[lo + 1]) /\ hi < n
             => routedAt'[b[hi + 1]] = commandsRun[ThreadOfWorker(v)]
  BY <1>2, <1>3 DEF SegmentRouted, n
<1>6. QED
  BY <1>4, <1>5 DEF SegmentRouted, n

LEMMA ServedRouted ==
    ASSUME TypeOK', Once', NEW w \in Workers, RoutesOnly(w), OfThread',
           NEW t \in Threads, NEW i \in DOMAIN served'[t]
    PROVE  routedAt'[served'[t][i]] = routedAt[served'[t][i]]
<1>1. PICK m \in Messages : m = served'[t][i]
  <2>1. served'[t] \in Seq(Messages)
    BY DEF TypeOK
  <2>2. served'[t][i] \in Messages
    BY <2>1, ElementOfSeq, LenProperties
  <2>3. QED
    BY <2>2
<1>2. Found(m, <<"served", None>>, i)'
  BY <1>1 DEF OfThread, Found
<1>3. <<"served", None>> # <<"batch", w>>
  OBVIOUS
<1>4. \A j : ~Found(m, <<"batch", w>>, j)'
  BY <1>1, <1>2, <1>3 DEF Once
<1>5. QED
  BY <1>1, <1>4 DEF RoutesOnly

(* A worker gets the lock and starts its batch.                            *)
LEMMA StartKeepsCommanded ==
    ASSUME PoolAssumption, TypeOK, TypeOK', LockInv, Shape', Once', Commanded,
           NEW w \in Workers, NEW first \in Messages, NEW q \in Seq(Item),
           StartBatch(w, first, q), UNCHANGED <<served, commandsRun>>
    PROVE  Commanded'
<1>1. /\ StartSegment(w, batch'[w], 0, commandsRun) /\ pos'[w] = 0
      /\ pc'[w] = "busy"
      /\ \A v \in Workers \ {w} : pc'[v] = pc[v] /\ batch'[v] = batch[v] /\ pos'[v] = pos[v]
  <2>1. PICK k \in 0..Len(q) :
          LET b == <<first>> \o SubSeq(q, 1, k)
          IN  /\ batch' = [batch EXCEPT ![w] = b]
              /\ pos' = [pos EXCEPT ![w] = 0]
              /\ pc' = [pc EXCEPT ![w] = "busy"]
              /\ StartSegment(w, b, 0, commandsRun)
    BY DEF StartBatch
  <2>2. QED
    BY <2>1 DEF TypeOK
<1>2. PICK t \in Threads :
        t = ThreadOf[Head(batch'[w])] /\ \A j \in DOMAIN batch'[w] : ThreadOf[batch'[w][j]] = t
  <2>1. batch'[w] \in Seq(Messages) /\ batch'[w] # <<>>
    <3>1. batch'[w] \in Seq(Messages)
      BY DEF TypeOK
    <3>2. \E e : e \in 1..Len(batch'[w])
      BY <1>1 DEF StartSegment
    <3>3. QED
      BY <3>1, <3>2
  <2>2. Head(batch'[w]) \in Messages
    BY <2>1, HeadTailProperties
  <2>3. QED
    BY <2>2 DEF PoolAssumption, Shape, ThreadOfWorker
<1>3. PICK b : b = batch'[w]
  OBVIOUS
<1>4. RoutedWith(w, b, 0, commandsRun[t])
  <2>1. PICK z, runs : z = 0 /\ runs = commandsRun
    OBVIOUS
  <2>2. z \in Nat /\ b = batch'[w] /\ StartSegment(w, b, z, runs) /\ pos'[w] = z
    BY <1>1, <1>3, <2>1
  <2>3. OfOneThread(b, t) /\ RoutedBefore(b, z, runs[t])
    BY <1>2, <1>3, <2>1 DEF OfOneThread, RoutedBefore
  <2>4. RoutedWith(w, b, z, runs[t])
    BY ONLY PoolAssumption, TypeOK, TypeOK', w \in Workers, t \in Threads, <2>2, <2>3, StartRoutes
  <2>5. QED
    BY <2>1, <2>4
<1>5. SegmentRouted(w)'
  BY <1>1, <1>2, <1>3, <1>4 DEF SegmentRouted, ThreadOfWorker, RoutedWith
<1>6. ASSUME NEW v \in Workers \ {w}, pc'[v] = "busy"
      PROVE  SegmentRouted(v)'
  BY <1>1, <1>4, <1>6, OthersRouted DEF Commanded, RoutedWith
<1>7. OfThread' /\ Runs'
  BY DEF Commanded, OfThread, Runs, CommandsBefore
<1>8. CommandsInOrder'
  <2> SUFFICES ASSUME NEW u \in Threads, NEW i \in DOMAIN served[u]
               PROVE  routedAt'[served[u][i]]
                          = Cardinality({j \in 1..(i - 1) : IsCommand(served[u][j])})
    BY DEF CommandsInOrder
  <2>1. routedAt'[served[u][i]] = routedAt[served[u][i]]
    BY <1>4, <1>7, ServedRouted DEF RoutedWith
  <2>2. QED
    BY <2>1 DEF Commanded, CommandsInOrder
<1>9. QED
  BY <1>5, <1>6, <1>7, <1>8 DEF Commanded

(* The end of a segment, whatever is routed next.                          *)
LEMMA EndKeepsCommanded ==
    ASSUME PoolAssumption, TypeOK, TypeOK', LockInv, ThreadExclusive, Shape, Once', Commanded,
           NEW w \in Workers, EndSegment(w), RoutesOnly(w)
    PROVE  /\ OfThread' /\ Runs' /\ CommandsInOrder'
           /\ \A v \in Workers \ {w} : pc[v] = "busy" =>
                 commandsRun'[ThreadOfWorker(v)] = commandsRun[ThreadOfWorker(v)]
<1> DEFINE t == ThreadOfWorker(w)
           b == batch[w]
           lo == pos[w]
           hi == segment[w]
           n == Len(served[t])
           s == served[t]
           r == served'[t]
           l == hi - lo
           c == commandsRun[t]
<1>1. /\ lo \in Nat /\ hi \in Nat /\ lo < hi /\ hi <= Len(b) /\ Len(b) \in Nat
      /\ pc[w] = "busy"
      /\ t \in Threads /\ \A i \in 1..Len(b) : ThreadOf[b[i]] = t
      /\ n \in Nat /\ DOMAIN s = 1..n
      /\ DOMAIN r = 1..(n + l)
      /\ \A i \in 1..n : r[i] = s[i]
      /\ \A i \in 1..l : r[n + i] = b[lo + i]
      /\ \A u \in Threads : u # t => served'[u] = served[u]
      /\ commandsRun' = [commandsRun EXCEPT ![t] =
                            @ + (IF IsCommand(b[lo + 1]) THEN 1 ELSE 0)]
  BY EndServes
<1>2. /\ IsSegment(b, lo, hi)
      /\ \A j \in (lo + 1)..hi : routedAt[b[j]] = c
  BY <1>1 DEF Commanded, SegmentRouted
<1>3. c = CommandsBefore(s, n) /\ c \in Nat
  BY <1>1 DEF Commanded, Runs, TypeOK
<1>4. /\ \A u \in Threads : u # t => commandsRun'[u] = commandsRun[u]
      /\ IsCommand(b[lo + 1]) => commandsRun'[t] = c + 1
      /\ ~IsCommand(b[lo + 1]) => commandsRun'[t] = c
  BY <1>1, <1>3 DEF TypeOK
<1> HIDE DEF b, lo, hi, n, l, s, r, c, t
<1>5. /\ l \in Nat /\ l >= 1 /\ hi = lo + l
      /\ \A i \in 1..l : lo + i \in (lo + 1)..hi /\ lo + i \in 1..Len(b)
  BY <1>1, SMTT(30) DEF l
<1>6. \/ l = 1 /\ IsCommand(r[n + 1]) /\ IsCommand(b[lo + 1])
      \/ (\A i \in 1..l : ~IsCommand(r[n + i])) /\ ~IsCommand(b[lo + 1])
  <2>1. r[n + 1] = b[lo + 1]
    BY <1>1, <1>5
  <2>2. CASE IsCommand(b[lo + 1])
    <3>1. hi = lo + 1
      BY <1>2, <2>2 DEF IsSegment
    <3>2. l = 1
      BY <1>1, <1>5, <3>1
    <3>3. QED
      BY <2>1, <2>2, <3>2
  <2>3. CASE ~IsCommand(b[lo + 1])
    <3>1. \A j \in (lo + 1)..hi : ~IsCommand(b[j])
      BY <1>2, <2>3 DEF IsSegment
    <3>2. QED
      BY <1>1, <1>5, <2>3, <3>1
  <2>4. QED
    BY <2>2, <2>3
<1>7. /\ \A k \in 0..n : CommandsBefore(r, k) = CommandsBefore(s, k)
      /\ \A i \in 1..l : CommandsBefore(r, n + i - 1) = c
      /\ commandsRun'[t] = CommandsBefore(r, n + l)
  <2>1. /\ \A k \in 0..n : CommandsBefore(r, k) = CommandsBefore(s, k)
        /\ \A i \in 1..l : CommandsBefore(r, n + i - 1) = CommandsBefore(s, n)
        /\ l = 1 /\ IsCommand(r[n + 1])
               => CommandsBefore(r, n + l) = CommandsBefore(s, n) + 1
        /\ (\A i \in 1..l : ~IsCommand(r[n + i]))
               => CommandsBefore(r, n + l) = CommandsBefore(s, n)
    <3>1. n \in Nat /\ l \in Nat /\ \A i \in 1..n : r[i] = s[i]
      BY <1>1, <1>5
    <3>2. \/ l = 1 /\ IsCommand(r[n + 1])
          \/ \A i \in 1..l : ~IsCommand(r[n + i])
      BY <1>6
    <3>3. QED
      BY ONLY <3>1, <3>2, MoreCommands, ZenonT(40)
  <2>2. QED
    BY <1>3, <1>4, <1>6, <2>1
<1>8. OfThread'
  <2>1. ASSUME NEW i \in 1..(n + l)
        PROVE  ThreadOf[r[i]] = t
    <3>1. CASE i \in 1..n
      BY <1>1, <3>1 DEF Commanded, OfThread, s
    <3>2. CASE i \notin 1..n
      <4>1. i - n \in 1..l /\ n + (i - n) = i
        BY <1>1, <1>5, <3>2
      <4>2. r[i] = b[lo + (i - n)] /\ lo + (i - n) \in 1..Len(b)
        BY <1>1, <1>5, <4>1
      <4>3. QED
        BY <1>1, <4>2
    <3>3. QED
      BY <3>1, <3>2
  <2>2. QED
    BY <1>1, <2>1 DEF Commanded, OfThread, r
<1>9. Runs'
  <2>1. Len(r) = n + l
    <3>1. r \in Seq(Messages)
      BY <1>1 DEF TypeOK, r
    <3>2. Len(r) \in Nat /\ DOMAIN r = 1..Len(r)
      BY <3>1, LenProperties
    <3>3. QED
      BY <1>1, <1>5, <3>2
  <2>2. QED
    BY <1>1, <1>4, <1>7, <2>1 DEF Commanded, Runs, r
<1>10. CommandsInOrder'
  <2>1. ASSUME NEW u \in Threads, NEW i \in DOMAIN served'[u]
        PROVE  routedAt'[served'[u][i]] = CommandsBefore(served'[u], i - 1)
    <3>1. routedAt'[served'[u][i]] = routedAt[served'[u][i]]
      BY <1>8, ServedRouted
    <3>2. CASE u # t
      <4>1. served'[u] = served[u] /\ i \in DOMAIN served[u]
        BY <1>1, <2>1, <3>2
      <4>2. routedAt[served[u][i]] = CommandsBefore(served[u], i - 1)
        BY <4>1 DEF Commanded, CommandsInOrder, CommandsBefore
      <4>3. QED
        BY <3>1, <4>1, <4>2
    <3>3. CASE u = t /\ i \in 1..n
      <4>1. i - 1 \in 0..n
        BY <1>1, <3>3
      <4>2. routedAt[s[i]] = CommandsBefore(s, i - 1)
        BY <1>1, <3>3, ZenonT(40) DEF Commanded, CommandsInOrder, CommandsBefore, s
      <4>3. QED
        BY <1>1, <1>7, <3>1, <3>3, <4>1, <4>2 DEF r
    <3>4. CASE u = t /\ i \notin 1..n
      <4>1. i \in 1..(n + l)
        BY <1>1, <2>1, <3>4 DEF r
      <4>2. i - n \in 1..l /\ n + (i - n) = i /\ n + (i - n) - 1 = i - 1
        BY <1>1, <1>5, <3>4, <4>1
      <4>3. r[i] = b[lo + (i - n)] /\ lo + (i - n) \in (lo + 1)..hi
        BY <1>1, <1>5, <4>2
      <4>4. routedAt[r[i]] = c
        BY <1>2, <4>3
      <4>5. CommandsBefore(r, i - 1) = c
        BY <1>7, <4>2
      <4>6. QED
        BY <3>1, <3>4, <4>4, <4>5 DEF r
    <3>5. QED
      BY <3>2, <3>3, <3>4
  <2>2. QED
    BY <2>1 DEF CommandsInOrder, CommandsBefore
<1>11. ASSUME NEW v \in Workers \ {w}, pc[v] = "busy"
       PROVE  commandsRun'[ThreadOfWorker(v)] = commandsRun[ThreadOfWorker(v)]
  <2>1. ThreadOfWorker(v) # t
    BY <1>1, <1>11 DEF ThreadExclusive, t
  <2>2. ThreadOfWorker(v) \in Threads
    <3>1. batch[v] \in Seq(Messages) /\ batch[v] # <<>>
      BY <1>11 DEF TypeOK, LockInv, BatchShape, Engaged
    <3>2. Head(batch[v]) \in Messages
      BY <3>1, HeadTailProperties
    <3>3. QED
      BY <3>2 DEF PoolAssumption, ThreadOfWorker
  <2>3. QED
    BY <1>4, <2>1, <2>2
<1>12. QED
  BY <1>8, <1>9, <1>10, <1>11

(* The next segment of a batch: a command that ended the burst before it   *)
(* is not routed again, and no command was run since it was.               *)
LEMMA NextSegmentKeepsCommanded ==
    ASSUME PoolAssumption, TypeOK, TypeOK', LockInv, ThreadExclusive, Shape, Once', Commanded,
           NEW w \in Workers, NextSegment(w)
    PROVE  Commanded'
<1>1. /\ EndSegment(w) /\ segment[w] < Len(batch[w]) /\ pos'[w] = segment[w]
      /\ \A v \in Workers \ {w} : pos'[v] = pos[v]
      /\ StartSegment(w, batch[w], segment[w], commandsRun')
      /\ pc' = pc /\ batch' = batch
  BY DEF NextSegment, TypeOK
<1>2. PICK t \in Threads : t = ThreadOfWorker(w)
  BY <1>1, EndServes
<1>3. /\ pos[w] \in Nat /\ segment[w] \in Nat /\ pos[w] < segment[w] /\ pc[w] = "busy"
      /\ Len(batch[w]) \in Nat /\ DOMAIN batch[w] = 1..Len(batch[w])
      /\ \A i \in 1..Len(batch[w]) : ThreadOf[batch[w][i]] = t
      /\ commandsRun' = [commandsRun EXCEPT ![t] =
                            @ + (IF IsCommand(batch[w][pos[w] + 1]) THEN 1 ELSE 0)]
  BY <1>1, <1>2, EndServes
<1>4. PICK z, b, runs : z = segment[w] /\ b = batch[w] /\ runs = commandsRun'
  OBVIOUS
<1>5. RoutedBefore(b, z, runs[t])
  <2> SUFFICES ASSUME z > 0, ~IsCommand(b[z]), IsCommand(b[z + 1])
               PROVE  routedAt[b[z + 1]] = runs[t]
    BY DEF RoutedBefore
  <2>1. SegmentRouted(w)
    BY <1>3 DEF Commanded
  <2>2. ~IsCommand(b[pos[w] + 1])
    BY <1>4, <2>1 DEF SegmentRouted, IsSegment
  <2>3. routedAt[b[z + 1]] = commandsRun[t]
    BY <1>1, <1>2, <1>4, <2>1, <2>2 DEF SegmentRouted
  <2>4. commandsRun[t] \in Nat /\ runs[t] = commandsRun[t] + 0
    BY <1>2, <1>3, <1>4, <2>2 DEF TypeOK
  <2>5. QED
    BY <2>3, <2>4
<1>6. RoutedWith(w, b, z, runs[t])
  <2>1. z \in Nat /\ b = batch'[w] /\ StartSegment(w, b, z, runs) /\ pos'[w] = z
    BY <1>1, <1>3, <1>4
  <2>2. OfOneThread(b, t)
    BY <1>3, <1>4 DEF OfOneThread
  <2>3. QED
    BY ONLY PoolAssumption, TypeOK, TypeOK', w \in Workers, t \in Threads, <1>5, <2>1, <2>2,
       StartRoutes
<1>7. RoutesOnly(w)
  BY <1>6 DEF RoutedWith
<1>8. /\ OfThread' /\ Runs' /\ CommandsInOrder'
      /\ \A v \in Workers \ {w} : pc[v] = "busy" =>
            commandsRun'[ThreadOfWorker(v)] = commandsRun[ThreadOfWorker(v)]
  BY <1>1, <1>7, EndKeepsCommanded
<1>9. SegmentRouted(w)'
  BY <1>1, <1>2, <1>4, <1>6 DEF SegmentRouted, ThreadOfWorker, RoutedWith
<1>10. ASSUME NEW v \in Workers \ {w}, pc'[v] = "busy"
       PROVE  SegmentRouted(v)'
  BY <1>1, <1>6, <1>7, <1>8, <1>10, OthersRouted DEF Commanded, RoutedWith
<1>11. QED
  BY <1>8, <1>9, <1>10 DEF Commanded

LEMMA FinishBatchKeepsCommanded ==
    ASSUME PoolAssumption, TypeOK, TypeOK', LockInv, ThreadExclusive, Shape, Once', Commanded,
           NEW w \in Workers, FinishBatch(w)
    PROVE  Commanded'
<1>1. /\ EndSegment(w) /\ pc'[w] = "idle" /\ routedAt' = routedAt
      /\ \A v \in Workers \ {w} : /\ pc'[v] = pc[v] /\ batch'[v] = batch[v]
                                  /\ pos'[v] = pos[v] /\ segment'[v] = segment[v]
  BY DEF FinishBatch, TypeOK
<1>2. RoutesOnly(w)
  BY <1>1 DEF RoutesOnly
<1>3. /\ OfThread' /\ Runs' /\ CommandsInOrder'
      /\ \A v \in Workers \ {w} : pc[v] = "busy" =>
            commandsRun'[ThreadOfWorker(v)] = commandsRun[ThreadOfWorker(v)]
  BY <1>1, <1>2, EndKeepsCommanded
<1>4. ASSUME NEW v \in Workers \ {w}, pc'[v] = "busy"
      PROVE  SegmentRouted(v)'
  BY <1>1, <1>2, <1>3, <1>4, OthersRouted DEF Commanded
<1>5. QED
  BY <1>1, <1>3, <1>4 DEF Commanded

(* Nothing is served or routed, and who is busy goes on with its segment.  *)
LEMMA QuietKeepsCommanded ==
    ASSUME Commanded, UNCHANGED history,
           \A v \in Workers : pc'[v] = "busy" =>
               /\ pc[v] = "busy" /\ batch'[v] = batch[v]
               /\ pos'[v] = pos[v] /\ segment'[v] = segment[v]
    PROVE  Commanded'
<1>1. served' = served /\ commandsRun' = commandsRun /\ routedAt' = routedAt
  BY DEF history
<1>2. OfThread' /\ Runs' /\ CommandsInOrder'
  BY <1>1 DEF Commanded, OfThread, Runs, CommandsBefore, CommandsInOrder
<1>3. ASSUME NEW v \in Workers, pc'[v] = "busy"
      PROVE  SegmentRouted(v)'
  BY <1>1, <1>3 DEF Commanded, SegmentRouted, ThreadOfWorker
<1>4. QED
  BY <1>2, <1>3 DEF Commanded

LEMMA ConsumeKeepsCommanded ==
    ASSUME PoolAssumption, TypeOK, TypeOK', LockInv, Shape', Once', Commanded,
           NEW w \in Workers, NEW item \in Item, NEW q \in Seq(Item), Consume(w, item, q),
           UNCHANGED <<served, commandsRun>>
    PROVE  Commanded'
<1>1. CASE item = None
  <2>1. /\ pc'[w] = "stopped" /\ UNCHANGED <<batch, pos, segment, routedAt>>
        /\ \A v \in Workers \ {w} : pc'[v] = pc[v]
    BY <1>1 DEF Consume, TypeOK
  <2>2. QED
    BY <2>1, QuietKeepsCommanded DEF history
<1>2. CASE item # None /\ LockFree(ThreadOf[item])
  <2>1. StartBatch(w, item, q) /\ item \in Messages
    BY <1>2 DEF Consume, Item
  <2>2. QED
    BY <2>1, StartKeepsCommanded
<1>3. CASE item # None /\ ~LockFree(ThreadOf[item])
  <2>1. /\ pc'[w] = "waiting" /\ UNCHANGED <<pos, segment, routedAt>>
        /\ \A v \in Workers \ {w} : pc'[v] = pc[v] /\ batch'[v] = batch[v]
    BY <1>3 DEF Consume, TypeOK
  <2>2. QED
    BY <2>1, QuietKeepsCommanded DEF history
<1>4. QED
  BY <1>1, <1>2, <1>3

LEMMA WorkerKeepsCommanded ==
    ASSUME PoolAssumption, TypeOK, TypeOK', LockInv, ThreadExclusive, Kept, Kept', Commanded,
           NEW w \in Workers, WorkerStep(w)
    PROVE  Commanded'
<1>1. Shape /\ Shape' /\ Once'
  BY DEF Kept
<1>2. CASE TakeDeferred(w)
  <2>1. PICK item, q : item = Head(deferred[w]) /\ q = queue
    OBVIOUS
  <2>2. deferred[w] # <<>> /\ Consume(w, item, q) /\ UNCHANGED <<served, commandsRun>>
    BY <1>2, <2>1 DEF TakeDeferred
  <2>3. item \in Item /\ q \in Seq(Item)
    BY <2>1, <2>2, HeadTailProperties DEF TypeOK
  <2>4. QED
    BY <1>1, <2>2, <2>3, ConsumeKeepsCommanded
<1>3. CASE TakeFromQueue(w)
  <2>1. PICK item, q : item = Head(queue) /\ q = Tail(queue)
    OBVIOUS
  <2>2. queue # <<>> /\ Consume(w, item, q) /\ UNCHANGED <<served, commandsRun>>
    BY <1>3, <2>1 DEF TakeFromQueue
  <2>3. item \in Item /\ q \in Seq(Item)
    BY <2>1, <2>2, HeadTailProperties DEF TypeOK
  <2>4. QED
    BY <1>1, <2>2, <2>3, ConsumeKeepsCommanded
<1>4. CASE Wake(w)
  <2>1. PICK first, q : first = Head(batch[w]) /\ q = queue
    OBVIOUS
  <2>2. pc[w] = "waiting" /\ StartBatch(w, first, q) /\ UNCHANGED <<served, commandsRun>>
    BY <1>4, <2>1 DEF Wake
  <2>3. first \in Messages /\ q \in Seq(Item)
    <3>1. batch[w] \in Seq(Messages) /\ batch[w] # <<>>
      BY <2>2 DEF TypeOK, LockInv, BatchShape, Engaged
    <3>2. QED
      BY <2>1, <3>1, HeadTailProperties DEF TypeOK
  <2>4. QED
    BY <1>1, <2>2, <2>3, StartKeepsCommanded
<1>5. QED
  BY <1>1, <1>2, <1>3, <1>4, NextSegmentKeepsCommanded, FinishBatchKeepsCommanded DEF WorkerStep

LEMMA InitCommanded ==
    ASSUME Init
    PROVE  Commanded
<1>1. /\ \A t \in Threads : served[t] = <<>> /\ commandsRun[t] = 0
      /\ \A w \in Workers : pc[w] # "busy"
  BY DEF Init
<1>2. \A t \in Threads : DOMAIN served[t] = {} /\ Len(served[t]) = 0
  BY <1>1
<1>3. ASSUME NEW t \in Threads
      PROVE  CommandsBefore(served[t], Len(served[t])) = 0
  <2>1. {j \in 1..Len(served[t]) : IsCommand(served[t][j])} = {}
    BY <1>2
  <2>2. QED
    BY <2>1, FS_EmptySet DEF CommandsBefore
<1>4. QED
  BY <1>1, <1>2, <1>3 DEF Commanded, OfThread, Runs, CommandsInOrder

(* A command changes state for exactly the messages behind it: when no     *)
(* lock outlives idle_ttl, and with a single worker in any case, a message *)
(* is routed after the commands before it in its conversation were run,    *)
(* and before any behind it, whatever the batches and the bursts.          *)
THEOREM CommandsAlwaysInOrder ==
    ASSUME ~SlowBatches \/ \E w : Workers = {w}
    PROVE  Spec => []CommandsInOrder
<1> DEFINE Inv == TypeOK /\ LockInv /\ Kept /\ Commanded
<1>1. Init => Inv
  BY PoolAssumption, InitInv, InitKept, InitCommanded
<1>2. Inv /\ [Next]_vars => Inv'
  <2> SUFFICES ASSUME Inv, [Next]_vars
               PROVE  Inv'
    OBVIOUS
  <2>1. TypeOK' /\ LockInv' /\ Kept'
    BY PoolAssumption, NextInv, NextKeeps
  <2>2. ThreadExclusive
    <3>1. CASE ~SlowBatches
      BY <3>1 DEF LockInv, OneHolder, LocksCurrent, ThreadExclusive, Engaged
    <3>2. CASE \E w : Workers = {w}
      BY <3>2 DEF ThreadExclusive
    <3>3. QED
      BY <3>1, <3>2
  <2>3. CASE \E w \in Workers : WorkerStep(w)
    BY PoolAssumption, <2>1, <2>2, <2>3, WorkerKeepsCommanded
  <2>4. CASE ~\E w \in Workers : WorkerStep(w)
    <3>1. UNCHANGED <<pc, batch, pos, segment, history>>
      BY <2>4 DEF Next, Enqueue, PutResumes, Age, Stop, PutSentinel, StopReturns,
                  Terminated, vars
    <3>2. Commanded'
      BY <3>1, QuietKeepsCommanded
    <3>3. QED
      BY <2>1, <3>2
  <2>5. QED
    BY <2>1, <2>3, <2>4
<1>3. Inv => CommandsInOrder
  BY DEF Commanded
<1>4. QED
  BY <1>1, <1>2, <1>3, PTL DEF Spec

-----------------------------------------------------------------------------
(* Induction over the naturals, from the well-foundedness of inclusion     *)
(* among finite sets.                                                      *)

(* A set of naturals that is not empty has a least element.                *)
LEMMA LeastNumber ==
    ASSUME NEW B \in SUBSET Nat, B # {}
    PROVE  \E m \in B : \A k \in B : m <= k
<1> DEFINE T == {1..n : n \in B}
           R == StrictSubsetOrdering(Nat)
<1>1. IsWellFoundedOn(R, FiniteSubsetsOf(Nat))
  BY FS_StrictSubsetOrderingWellFounded
<1>2. T \subseteq FiniteSubsetsOf(Nat)
  <2>1. \A n \in B : IsFiniteSet(1..n)
    BY FS_Interval
  <2>2. QED
    BY <2>1 DEF FiniteSubsetsOf
<1>3. T # {}
  OBVIOUS
<1> HIDE DEF T, R
<1>4. PICK x \in T : \A y \in T : ~ (<<y, x>> \in R)
  BY <1>1, <1>2, <1>3, WFMin
<1>5. PICK m \in B : x = 1..m
  BY DEF T
<1>6. ASSUME NEW k \in B, k < m
      PROVE  FALSE
  <2>1. 1..k \in T
    BY DEF T
  <2>2. 1..k \subseteq 1..m /\ m \in 1..m /\ m \notin 1..k
    BY <1>6
  <2>3. <<1..k, 1..m>> \in R
    BY <2>2 DEF R, StrictSubsetOrdering
  <2>4. QED
    BY <1>4, <1>5, <2>1, <2>3
<1>7. QED
  BY <1>6

(* A set that holds 0, and n + 1 whenever it holds n, holds every natural. *)
LEMMA NaturalsInSet ==
    ASSUME NEW S, 0 \in S, \A n \in Nat : n \in S => n + 1 \in S
    PROVE  \A n \in Nat : n \in S
<1> DEFINE B == {n \in Nat : n \notin S}
<1> SUFFICES ASSUME B # {}
             PROVE  FALSE
  OBVIOUS
<1>1. PICK m \in B : \A k \in B : m <= k
  <2>1. B \in SUBSET Nat
    OBVIOUS
  <2> HIDE DEF B
  <2>2. QED
    BY <2>1, LeastNumber
<1>2. m # 0 /\ m - 1 \in Nat
  OBVIOUS
<1>3. m - 1 \in S
  BY <1>1, <1>2
<1>4. QED
  BY <1>2, <1>3

-----------------------------------------------------------------------------
(* The items of one thread in a sequence.                                  *)

(* The recursion of InThread has a solution, so it means what it says.     *)
LEMMA InThreadDefined ==
    ASSUME NEW s \in Seq(Item), NEW t
    PROVE  \E f \in [0..Len(s) -> Seq(Messages)] :
              /\ f[0] = <<>>
              /\ \A n \in 1..Len(s) :
                    f[n] = IF SameThread(s[n], t) THEN Append(f[n - 1], s[n]) ELSE f[n - 1]
              /\ InThread(s, t) = f[Len(s)]
<1> DEFINE L == Len(s)
           Grown(q, x) == IF SameThread(x, t) THEN Append(q, x) ELSE q
           Run(f, k) == f[0] = <<>> /\ \A n \in 1..k : f[n] = Grown(f[n - 1], s[n])
           S == {k \in Nat : k <= L => \E f \in [0..k -> Seq(Messages)] : Run(f, k)}
           Step(g) == [n \in 0..L |-> IF n = 0 THEN <<>> ELSE Grown(g[n - 1], s[n])]
<1>1. L \in Nat
  OBVIOUS
<1>2. ASSUME NEW q \in Seq(Messages), NEW n \in 1..L
      PROVE  Grown(q, s[n]) \in Seq(Messages)
  <2>1. s[n] \in Item
    OBVIOUS
  <2>2. SameThread(s[n], t) => s[n] \in Messages
    BY <2>1 DEF SameThread, Item
  <2>3. QED
    BY <2>2, AppendProperties
<1>3. 0 \in S
  <2>1. <<>> \in Seq(Messages)
    BY EmptySeq
  <2>2. [n \in 0..0 |-> <<>>] \in [0..0 -> Seq(Messages)] /\ Run([n \in 0..0 |-> <<>>], 0)
    BY <2>1
  <2>3. QED
    BY <2>2
<1>4. ASSUME NEW k \in Nat, k \in S
      PROVE  k + 1 \in S
  <2> SUFFICES ASSUME k + 1 <= L
               PROVE  \E g \in [0..(k + 1) -> Seq(Messages)] : Run(g, k + 1)
    <3> HIDE DEF Run, L
    <3>1. QED
      BY <1>4 DEF S
  <2>1. PICK f \in [0..k -> Seq(Messages)] : Run(f, k)
    BY <1>1, <1>4, SMTT(30)
  <2> DEFINE g == [n \in 0..(k + 1) |-> IF n = k + 1 THEN Grown(f[k], s[k + 1]) ELSE f[n]]
  <2>2. Grown(f[k], s[k + 1]) \in Seq(Messages)
    <3>1. f[k] \in Seq(Messages) /\ k + 1 \in 1..L
      BY <1>1
    <3> HIDE DEF Grown, L
    <3>2. QED
      BY <1>2, <3>1
  <2> HIDE DEF Grown
  <2>3. g \in [0..(k + 1) -> Seq(Messages)]
    BY <2>2
  <2>4. g[0] = <<>>
    BY <2>1
  <2>5. ASSUME NEW n \in 1..(k + 1)
        PROVE  g[n] = Grown(g[n - 1], s[n])
    <3>1. n - 1 \in 0..(k + 1) /\ n - 1 # k + 1 /\ g[n - 1] = f[n - 1]
      OBVIOUS
    <3>2. CASE n = k + 1
      BY <3>1, <3>2
    <3>3. CASE n # k + 1
      <4>1. n \in 1..k /\ g[n] = f[n]
        BY <3>3
      <4>2. QED
        BY <2>1, <3>1, <4>1
    <3>4. QED
      BY <3>2, <3>3
  <2>6. QED
    BY <2>3, <2>4, <2>5
<1>5. L \in S
  <2> HIDE DEF S
  <2>1. QED
    BY <1>1, <1>3, <1>4, NaturalsInSet
<1>6. PICK f \in [0..L -> Seq(Messages)] : Run(f, L)
  BY <1>5
<1>7. f = Step(f)
  <2>1. \A n \in 0..L : f[n] = IF n = 0 THEN <<>> ELSE Grown(f[n - 1], s[n])
    <3> HIDE DEF Grown, L
    <3>1. QED
      BY <1>1, <1>6
  <2> HIDE DEF Grown, L
  <2>2. QED
    BY <1>6, <2>1
<1> DEFINE upTo == CHOOSE g : g = Step(g)
<1>8. upTo = Step(upTo)
  BY <1>7
<1>9. InThread(s, t) = upTo[L]
  BY DEF InThread
<1> HIDE DEF upTo
<1>10. \A n \in 0..L : upTo[n] = IF n = 0 THEN <<>> ELSE Grown(upTo[n - 1], s[n])
  BY <1>8
<1> DEFINE U == {n \in Nat : n <= L => upTo[n] \in Seq(Messages)}
<1>11. 0 \in U
  <2>1. upTo[0] = <<>>
    <3> HIDE DEF Grown, L
    <3>1. QED
      BY <1>1, <1>10
  <2>2. QED
    BY <2>1, EmptySeq
<1>12. ASSUME NEW n \in Nat, n \in U
       PROVE  n + 1 \in U
  <2>1. CASE n + 1 <= L
    <3>1. upTo[n + 1] = Grown(upTo[n], s[n + 1]) /\ n + 1 \in 1..L /\ upTo[n] \in Seq(Messages)
      <4> HIDE DEF Grown, L
      <4>1. QED
        BY <1>1, <1>10, <1>12, <2>1
    <3>2. QED
      <4> HIDE DEF Grown, L
      <4>1. QED
        BY <1>2, <3>1
  <2>2. QED
    BY <1>1, <2>1
<1>13. \A n \in 0..L : upTo[n] \in Seq(Messages)
  <2>1. \A n \in Nat : n \in U
    <3> HIDE DEF U
    <3>1. QED
      BY <1>11, <1>12, NaturalsInSet
  <2>2. QED
    BY <1>1, <2>1
<1>14. upTo \in [0..L -> Seq(Messages)]
  <2> HIDE DEF Grown, L
  <2>1. QED
    BY <1>8, <1>13
<1>15. /\ upTo[0] = <<>>
       /\ \A n \in 1..L : upTo[n] = Grown(upTo[n - 1], s[n])
  <2> HIDE DEF Grown, L
  <2>1. QED
    BY <1>1, <1>10
<1>16. QED
  BY <1>9, <1>14, <1>15

(* One item more.                                                          *)
LEMMA InThreadAppend ==
    ASSUME NEW s \in Seq(Item), NEW x \in Item, NEW t
    PROVE  /\ InThread(s, t) \in Seq(Messages)
           /\ InThread(Append(s, x), t) =
                 IF SameThread(x, t) THEN Append(InThread(s, t), x) ELSE InThread(s, t)
<1> DEFINE L == Len(s)
           z == Append(s, x)
           Grown(q, y) == IF SameThread(y, t) THEN Append(q, y) ELSE q
<1>1. z \in Seq(Item) /\ L \in Nat /\ Len(z) = L + 1 /\ z[L + 1] = x /\ \A n \in 1..L : z[n] = s[n]
  OBVIOUS
<1>2. PICK f \in [0..Len(s) -> Seq(Messages)] :
         /\ f[0] = <<>>
         /\ \A n \in 1..Len(s) : f[n] = Grown(f[n - 1], s[n])
         /\ InThread(s, t) = f[Len(s)]
  BY InThreadDefined
<1>3. PICK g \in [0..Len(z) -> Seq(Messages)] :
         /\ g[0] = <<>>
         /\ \A n \in 1..Len(z) : g[n] = Grown(g[n - 1], z[n])
         /\ InThread(z, t) = g[Len(z)]
  BY <1>1, InThreadDefined
<1> HIDE DEF z, Grown
<1> DEFINE S == {n \in Nat : n <= L => f[n] = g[n]}
<1>4. 0 \in S
  BY <1>2, <1>3
<1>5. ASSUME NEW n \in Nat, n \in S
      PROVE  n + 1 \in S
  <2>1. CASE n + 1 <= L
    <3>1. n + 1 \in 1..Len(s) /\ n + 1 \in 1..Len(z) /\ (n + 1) - 1 = n /\ z[n + 1] = s[n + 1]
          /\ f[n] = g[n]
      BY <1>1, <1>5, <2>1
    <3>2. f[n + 1] = Grown(f[n], s[n + 1])
      BY <1>2, <3>1
    <3>3. g[n + 1] = Grown(g[n], z[n + 1])
      BY <1>3, <3>1
    <3>4. QED
      BY <3>1, <3>2, <3>3
  <2>2. QED
    BY <1>1, <2>1
<1>6. L \in S
  <2> HIDE DEF S
  <2>1. QED
    BY <1>1, <1>4, <1>5, NaturalsInSet
<1>7. g[L + 1] = Grown(g[L], x)
  <2>1. L + 1 \in 1..Len(z) /\ (L + 1) - 1 = L
    BY <1>1
  <2>2. QED
    BY <1>1, <1>3, <2>1
<1>8. QED
  BY <1>1, <1>2, <1>3, <1>6, <1>7 DEF Grown, z

LEMMA InThreadEmpty ==
    ASSUME NEW t
    PROVE  InThread(<<>>, t) = <<>>
<1>1. <<>> \in Seq(Item) /\ Len(<<>>) = 0
  BY EmptySeq
<1>2. QED
  BY <1>1, InThreadDefined

(* A sequence grows item by item.                                          *)
LEMMA StretchGrows ==
    ASSUME NEW S, NEW s \in Seq(S), NEW k \in Nat, k + 1 <= Len(s)
    PROVE  /\ SubSeq(s, 1, k) \in Seq(S) /\ s[k + 1] \in S
           /\ SubSeq(s, 1, k + 1) = Append(SubSeq(s, 1, k), s[k + 1])
OBVIOUS

LEMMA ConcatGrows ==
    ASSUME NEW S, NEW a \in Seq(S), NEW b \in Seq(S), NEW x \in S
    PROVE  /\ a \o b \in Seq(S)
           /\ a \o Append(b, x) = Append(a \o b, x)
OBVIOUS

LEMMA WholeStretch ==
    ASSUME NEW S, NEW s \in Seq(S)
    PROVE  /\ SubSeq(s, 1, 0) = <<>> /\ SubSeq(s, 1, Len(s)) = s
           /\ s \o <<>> = s /\ <<>> \o s = s
OBVIOUS

(* Picking out a thread and concatenation commute.                         *)
LEMMA InThreadConcat ==
    ASSUME NEW a \in Seq(Item), NEW b \in Seq(Item), NEW t
    PROVE  InThread(a \o b, t) = InThread(a, t) \o InThread(b, t)
<1> DEFINE Pre(k) == SubSeq(b, 1, k)
           S == {k \in Nat : k <= Len(b) =>
                    InThread(a \o Pre(k), t) = InThread(a, t) \o InThread(Pre(k), t)}
<1>1. ASSUME NEW s \in Seq(Item)
      PROVE  InThread(s, t) \in Seq(Messages)
  BY InThreadDefined, LenProperties
<1>2. 0 \in S
  <2>1. Pre(0) = <<>> /\ a \o Pre(0) = a
    BY WholeStretch
  <2>2. InThread(a, t) \o <<>> = InThread(a, t)
    BY <1>1, WholeStretch
  <2> HIDE DEF Pre
  <2>3. QED
    BY <2>1, <2>2, InThreadEmpty
<1>3. ASSUME NEW k \in Nat, k \in S
      PROVE  k + 1 \in S
  <2> SUFFICES ASSUME k + 1 <= Len(b)
               PROVE  InThread(a \o Pre(k + 1), t) = InThread(a, t) \o InThread(Pre(k + 1), t)
    <3> HIDE DEF Pre
    <3>1. QED
      BY DEF S
  <2>1. Len(b) \in Nat
    BY LenProperties
  <2>2. InThread(a \o Pre(k), t) = InThread(a, t) \o InThread(Pre(k), t)
    <3> HIDE DEF Pre
    <3>1. QED
      BY <1>3, <2>1
  <2>3. Pre(k) \in Seq(Item) /\ b[k + 1] \in Item /\ Pre(k + 1) = Append(Pre(k), b[k + 1])
    BY StretchGrows
  <2> DEFINE x == b[k + 1]
  <2> HIDE DEF Pre, x
  <2>4. a \o Pre(k) \in Seq(Item) /\ a \o Pre(k + 1) = Append(a \o Pre(k), x)
    BY <2>3, ConcatGrows DEF x
  <2>5. InThread(Pre(k + 1), t) =
           IF SameThread(x, t) THEN Append(InThread(Pre(k), t), x) ELSE InThread(Pre(k), t)
    <3>1. InThread(Append(Pre(k), x), t) =
             IF SameThread(x, t) THEN Append(InThread(Pre(k), t), x) ELSE InThread(Pre(k), t)
      BY <2>3, InThreadAppend, Zenon DEF x
    <3>2. QED
      BY <2>3, <3>1 DEF x
  <2>6. InThread(a \o Pre(k + 1), t) =
           IF SameThread(x, t) THEN Append(InThread(a \o Pre(k), t), x)
           ELSE InThread(a \o Pre(k), t)
    <3>1. InThread(Append(a \o Pre(k), x), t) =
             IF SameThread(x, t) THEN Append(InThread(a \o Pre(k), t), x)
             ELSE InThread(a \o Pre(k), t)
      BY <2>3, <2>4, InThreadAppend, Zenon DEF x
    <3>2. QED
      BY <2>4, <3>1
  <2>7. CASE SameThread(x, t)
    <3>1. x \in Messages
      BY <2>3, <2>7 DEF x, SameThread, Item
    <3>2. InThread(a, t) \o Append(InThread(Pre(k), t), x)
             = Append(InThread(a, t) \o InThread(Pre(k), t), x)
      BY <1>1, <2>3, <3>1, ConcatGrows, SMTT(30)
    <3>3. QED
      BY <2>2, <2>5, <2>6, <2>7, <3>2
  <2>8. QED
    BY <2>2, <2>5, <2>6, <2>7
<1>4. Len(b) \in S
  <2> HIDE DEF S
  <2>1. Len(b) \in Nat
    BY LenProperties
  <2>2. QED
    BY <1>2, <1>3, <2>1, NaturalsInSet
<1>5. Pre(Len(b)) = b /\ Len(b) \in Nat
  BY WholeStretch, LenProperties
<1> HIDE DEF Pre
<1>6. QED
  BY <1>4, <1>5

(* A sequence all of one thread, seen from that thread and from others.    *)
LEMMA InThreadOwn ==
    ASSUME NEW s \in Seq(Messages), NEW u, PoolAssumption,
           \A i \in DOMAIN s : ThreadOf[s[i]] = u, NEW t
    PROVE  InThread(s, t) = IF t = u THEN s ELSE <<>>
<1> DEFINE Pre(k) == SubSeq(s, 1, k)
           S == {k \in Nat : k <= Len(s) => InThread(Pre(k), t) = IF t = u THEN Pre(k) ELSE <<>>}
<1>1. 0 \in S
  <2>1. Pre(0) = <<>>
    BY WholeStretch
  <2> HIDE DEF Pre
  <2>2. QED
    BY <2>1, InThreadEmpty
<1>2. ASSUME NEW k \in Nat, k \in S
      PROVE  k + 1 \in S
  <2> SUFFICES ASSUME k + 1 <= Len(s)
               PROVE  InThread(Pre(k + 1), t) = IF t = u THEN Pre(k + 1) ELSE <<>>
    <3> HIDE DEF Pre
    <3>1. QED
      BY DEF S
  <2>1. InThread(Pre(k), t) = IF t = u THEN Pre(k) ELSE <<>>
    <3> HIDE DEF Pre
    <3>1. QED
      BY <1>2, LenProperties
  <2>2. /\ Pre(k) \in Seq(Messages) /\ s[k + 1] \in Messages
        /\ Pre(k + 1) = Append(Pre(k), s[k + 1])
    BY StretchGrows
  <2>3. ThreadOf[s[k + 1]] = u
    OBVIOUS
  <2>4. SameThread(s[k + 1], t) <=> t = u
    BY <2>2, <2>3 DEF PoolAssumption, SameThread
  <2> DEFINE x == s[k + 1]
  <2> HIDE DEF Pre, x
  <2>5. Pre(k) \in Seq(Item) /\ x \in Item
    BY <2>2, SeqDef DEF x, Item
  <2>6. InThread(Append(Pre(k), x), t) =
           IF SameThread(x, t) THEN Append(InThread(Pre(k), t), x) ELSE InThread(Pre(k), t)
    BY <2>5, InThreadAppend, Zenon
  <2>7. QED
    BY <2>1, <2>2, <2>4, <2>6 DEF x
<1>3. Len(s) \in S
  <2> HIDE DEF S
  <2>1. Len(s) \in Nat
    BY LenProperties
  <2>2. QED
    BY <1>1, <1>2, <2>1, NaturalsInSet
<1>4. Pre(Len(s)) = s /\ Len(s) \in Nat
  BY WholeStretch, LenProperties
<1> HIDE DEF Pre
<1>5. QED
  BY <1>3, <1>4

-----------------------------------------------------------------------------
(* The pool as ThreadFifo.  The mapping of PoolRefinement is what the pool *)
(* does as long as a thread has one worker and its waiters in line, and    *)
(* nobody else sets an item aside.                                         *)

(* The workers in the line for the lock of t wait for it, each once.       *)
Queueing(t) ==
    \A i \in DOMAIN waiters[t] :
       /\ pc[waiters[t][i]] = "waiting" /\ ThreadOfWorker(waiters[t][i]) = t
       /\ \A j \in DOMAIN waiters[t] : waiters[t][j] = waiters[t][i] => i = j

InTurn(w) ==
    /\ pc[w] = "waiting" => ~OneWorker
    /\ deferred[w] # <<>> => OneWorker
    /\ pc[w] = "busy" => /\ Len(batch[w]) <= BurstMax
                         /\ IsSegment(batch[w], pos[w], segment[w])

Lined == (\A t \in Threads : Queueing(t)) /\ (\A w \in Workers : InTurn(w))

(* A worker that starts: one segment of a batch that is no longer than a   *)
(* burst may be; without merging the batch is the one item.                *)
LEMMA StartBatchTurn ==
    ASSUME PoolAssumption, TypeOK, NEW w \in Workers, NEW first \in Messages,
           NEW q \in Seq(Item), StartBatch(w, first, q)
    PROVE  \E k \in 0..Len(q) :
              LET b == <<first>> \o SubSeq(q, 1, k)
                  r == Blocked(q, k)
              IN  /\ queue' = SubSeq(q, k + Len(r) + 1, Len(q))
                  /\ deferred' = [deferred EXCEPT ![w] = r]
                  /\ batch' = [batch EXCEPT ![w] = b]
                  /\ pos' = [pos EXCEPT ![w] = 0]
                  /\ pc' = [pc EXCEPT ![w] = "busy"]
                  /\ Len(b) <= BurstMax
                  /\ \E e : segment' = [segment EXCEPT ![w] = e] /\ IsSegment(b, 0, e)
                  /\ BatchMax <= 1 => k = 0 /\ r = <<>>
<1>1. PICK k \in 0..Len(q) :
        LET b == <<first>> \o SubSeq(q, 1, k)
            r == Blocked(q, k)
        IN  /\ Collects(q, ThreadOf[first], k)
            /\ queue' = SubSeq(q, k + Len(r) + 1, Len(q))
            /\ deferred' = [deferred EXCEPT ![w] = r]
            /\ batch' = [batch EXCEPT ![w] = b]
            /\ pos' = [pos EXCEPT ![w] = 0]
            /\ pc' = [pc EXCEPT ![w] = "busy"]
            /\ StartSegment(w, b, 0, commandsRun)
  BY DEF StartBatch
<1> DEFINE b == <<first>> \o SubSeq(q, 1, k)
           r == Blocked(q, k)
<1>2. BatchMax \in Nat /\ k \in Nat /\ Len(q) \in Nat /\ k <= Len(q)
  BY LenProperties DEF PoolAssumption
<1>3. Len(b) = k + 1
  <2>1. SubSeq(q, 1, k) \in Seq(Item) /\ Len(SubSeq(q, 1, k)) = k
    BY <1>2, SubSeqProperties, StretchType
  <2>2. QED
    BY <1>2, <2>1
<1>4. k > 0 => k < BatchMax
  BY <1>1 DEF Collects
<1>5. Len(b) <= BurstMax
  BY <1>2, <1>3, <1>4 DEF BurstMax
<1>6. StartSegment(w, b, 0, commandsRun)
  BY <1>1
<1>7. PICK e \in (0 + 1)..Len(b) : IsSegment(b, 0, e) /\ segment' = [segment EXCEPT ![w] = e]
  BY <1>6 DEF StartSegment
<1>8. BatchMax <= 1 => k = 0 /\ r = <<>>
  BY <1>2, <1>4 DEF Blocked
<1> HIDE DEF b, r
<1>9. QED
  BY <1>1, <1>5, <1>7, <1>8 DEF b, r

(* Removing an element from a sequence without repetitions.                *)
LEMMA Without ==
    ASSUME NEW S, NEW s \in Seq(S), NEW i \in DOMAIN s
    PROVE  LET z == SubSeq(s, 1, i - 1) \o SubSeq(s, i + 1, Len(s))
           IN  /\ DOMAIN z = 1..(Len(s) - 1)
               /\ \A j \in 1..(Len(s) - 1) : z[j] = IF j < i THEN s[j] ELSE s[j + 1]
OBVIOUS

LEMMA InitLined ==
    ASSUME Init
    PROVE  Lined
BY DEF Init, Lined, Queueing, InTurn

(* A step of one worker that is not in a line and leaves the lines alone.  *)
LEMMA OneStepLined ==
    ASSUME TypeOK, Lined, NEW w \in Workers, InTurn(w)', pc[w] # "waiting",
           UNCHANGED waiters,
           \A v \in Workers \ {w} :
              /\ pc'[v] = pc[v] /\ batch'[v] = batch[v] /\ pos'[v] = pos[v]
              /\ segment'[v] = segment[v] /\ deferred'[v] = deferred[v]
    PROVE  Lined'
<1>1. ASSUME NEW t \in Threads
      PROVE  Queueing(t)'
  <2>1. waiters[t] \in Seq(Workers) /\ waiters'[t] = waiters[t]
    BY DEF TypeOK
  <2>2. \A i \in DOMAIN waiters[t] : waiters[t][i] \in Workers \ {w}
    <3>1. \A i \in DOMAIN waiters[t] : waiters[t][i] \in Workers
      BY <2>1, ElementOfSeq, LenProperties
    <3>2. QED
      BY <3>1 DEF Lined, Queueing
  <2>3. QED
    BY <2>1, <2>2 DEF Lined, Queueing, ThreadOfWorker
<1>2. ASSUME NEW v \in Workers \ {w}
      PROVE  InTurn(v)'
  BY DEF Lined, InTurn
<1>3. QED
  BY <1>1, <1>2 DEF Lined

LEMMA QuietKeepsLined ==
    ASSUME Lined, UNCHANGED <<pc, batch, pos, segment, waiters, deferred>>
    PROVE  Lined'
BY DEF Lined, Queueing, InTurn, ThreadOfWorker

(* Starting a batch.                                                       *)
LEMMA StartBatchInTurn ==
    ASSUME PoolAssumption, Undisturbed, TypeOK, NEW w \in Workers, NEW first \in Messages,
           NEW q \in Seq(Item), StartBatch(w, first, q)
    PROVE  /\ InTurn(w)'
           /\ pc' = [pc EXCEPT ![w] = "busy"] /\ pos' = [pos EXCEPT ![w] = 0]
           /\ \A v \in Workers \ {w} :
                 /\ pc'[v] = pc[v] /\ batch'[v] = batch[v] /\ pos'[v] = pos[v]
                 /\ segment'[v] = segment[v] /\ deferred'[v] = deferred[v]
<1>1. PICK k \in 0..Len(q) :
         LET b == <<first>> \o SubSeq(q, 1, k)
             r == Blocked(q, k)
         IN  /\ deferred' = [deferred EXCEPT ![w] = r]
             /\ batch' = [batch EXCEPT ![w] = b]
             /\ pos' = [pos EXCEPT ![w] = 0]
             /\ pc' = [pc EXCEPT ![w] = "busy"]
             /\ Len(b) <= BurstMax
             /\ \E e : segment' = [segment EXCEPT ![w] = e] /\ IsSegment(b, 0, e)
             /\ BatchMax <= 1 => r = <<>>
  BY StartBatchTurn
<1> DEFINE b == <<first>> \o SubSeq(q, 1, k)
           r == Blocked(q, k)
<1>2. PICK e : segment' = [segment EXCEPT ![w] = e] /\ IsSegment(b, 0, e)
  BY <1>1
<1>3. /\ deferred' = [deferred EXCEPT ![w] = r] /\ batch' = [batch EXCEPT ![w] = b]
      /\ pos' = [pos EXCEPT ![w] = 0] /\ pc' = [pc EXCEPT ![w] = "busy"]
      /\ Len(b) <= BurstMax /\ (BatchMax <= 1 => r = <<>>)
  BY <1>1
<1> HIDE DEF b, r
<1>4. /\ deferred'[w] = r /\ batch'[w] = b /\ pos'[w] = 0 /\ pc'[w] = "busy" /\ segment'[w] = e
  BY <1>2, <1>3 DEF TypeOK
<1>5. InTurn(w)'
  BY <1>2, <1>3, <1>4 DEF InTurn, Undisturbed
<1>6. QED
  BY <1>2, <1>3, <1>5 DEF TypeOK

LEMMA ConsumeKeepsLined ==
    ASSUME PoolAssumption, Undisturbed, TypeOK, Lined, NEW w \in Workers,
           NEW item \in Item, NEW q \in Seq(Item), pc[w] = "idle", Consume(w, item, q)
    PROVE  Lined'
<1>1. CASE item = None
  <2>1. /\ pc' = [pc EXCEPT ![w] = "stopped"] /\ deferred' = [deferred EXCEPT ![w] = <<>>]
        /\ UNCHANGED <<batch, pos, segment, waiters>>
    BY <1>1 DEF Consume, lockVars
  <2>2. InTurn(w)'
    BY <2>1 DEF InTurn, TypeOK
  <2>3. \A v \in Workers \ {w} : pc'[v] = pc[v] /\ deferred'[v] = deferred[v]
    BY <2>1 DEF TypeOK
  <2>4. QED
    BY <2>1, <2>2, <2>3, OneStepLined
<1>2. CASE item # None
  <2>1. item \in Messages
    BY <1>2 DEF Item
  <2>2. CASE StartBatch(w, item, q) /\ UNCHANGED waiters
    BY <2>1, <2>2, StartBatchInTurn, OneStepLined
  <2>3. CASE ~LockFree(ThreadOf[item])
    <3> DEFINE u == ThreadOf[item]
               b == <<item>>
    <3>1. /\ pc' = [pc EXCEPT ![w] = "waiting"]
          /\ waiters' = [waiters EXCEPT ![u] = Append(@, w)]
          /\ batch' = [batch EXCEPT ![w] = b]
          /\ deferred' = [deferred EXCEPT ![w] = <<>>]
          /\ UNCHANGED <<pos, segment>>
      <4>1. \/ StartBatch(w, item, q) /\ LockFree(u)
            \/ /\ pc' = [pc EXCEPT ![w] = "waiting"]
               /\ waiters' = [waiters EXCEPT ![u] = Append(@, w)]
               /\ batch' = [batch EXCEPT ![w] = b]
               /\ deferred' = [deferred EXCEPT ![w] = <<>>]
               /\ UNCHANGED <<pos, segment>>
        BY <1>2 DEF Consume
      <4>2. QED
        BY <2>3, <4>1
    <3>2. ~OneWorker
      <4>1. \E v \in Workers : Engaged(v)
        BY <2>3 DEF LockFree, UsesLock
      <4>2. QED
        BY <4>1 DEF OneWorker, Engaged
    <3>3. u \in Threads
      BY <2>1 DEF PoolAssumption
    <3>4. batch'[w] = b /\ Head(b) = item
      BY <3>1 DEF TypeOK
    <3>5. ThreadOfWorker(w)' = u
      BY <3>4 DEF ThreadOfWorker
    <3> HIDE DEF u, b
    <3>6. \A v \in Workers \ {w} : /\ pc'[v] = pc[v] /\ batch'[v] = batch[v]
                                   /\ deferred'[v] = deferred[v]
      BY <3>1 DEF TypeOK
    <3>7. pc'[w] = "waiting" /\ deferred'[w] = <<>>
      BY <3>1 DEF TypeOK
    <3>8. ASSUME NEW t \in Threads
          PROVE  Queueing(t)'
      <4>1. waiters[t] \in Seq(Workers) /\ Len(waiters[t]) \in Nat
            /\ DOMAIN waiters[t] = 1..Len(waiters[t])
        BY LenProperties DEF TypeOK
      <4>2. \A j \in DOMAIN waiters[t] :
               /\ waiters[t][j] \in Workers \ {w}
               /\ pc'[waiters[t][j]] = "waiting"
               /\ ThreadOf[Head(batch'[waiters[t][j]])] = t
        <5>1. \A j \in DOMAIN waiters[t] : waiters[t][j] \in Workers
          BY <4>1, ElementOfSeq
        <5>2. \A j \in DOMAIN waiters[t] : waiters[t][j] # w
          BY DEF Lined, Queueing
        <5>3. ASSUME NEW j \in DOMAIN waiters[t]
              PROVE  pc'[waiters[t][j]] = "waiting" /\ ThreadOf[Head(batch'[waiters[t][j]])] = t
          <6>1. PICK v : v = waiters[t][j]
            OBVIOUS
          <6>2. pc[v] = "waiting" /\ ThreadOfWorker(v) = t /\ v \in Workers \ {w}
            BY <5>1, <5>2, <6>1 DEF Lined, Queueing
          <6>3. pc'[v] = "waiting" /\ ThreadOf[Head(batch'[v])] = t
            BY <3>6, <6>2 DEF ThreadOfWorker
          <6>4. QED
            BY <6>1, <6>3
        <5>4. QED
          BY <5>1, <5>2, <5>3
      <4>3. CASE t = u
        <5>1. waiters'[t] = Append(waiters[t], w)
          BY <3>1, <3>3, <4>3 DEF TypeOK
        <5>2. /\ DOMAIN waiters'[t] = 1..(Len(waiters[t]) + 1)
              /\ waiters'[t][Len(waiters[t]) + 1] = w
              /\ \A j \in 1..Len(waiters[t]) : waiters'[t][j] = waiters[t][j]
          BY <4>1, <5>1, AppendProperties
        <5>3. \A i, j \in 1..Len(waiters[t]) : waiters[t][j] = waiters[t][i] => i = j
          BY <4>1 DEF Lined, Queueing
        <5>4. ASSUME NEW i \in 1..(Len(waiters[t]) + 1)
              PROVE  i \in 1..Len(waiters[t]) \/ i = Len(waiters[t]) + 1
          BY <4>1
        <5>5. ThreadOf[Head(batch'[w])] = t
          BY <3>5, <4>3 DEF ThreadOfWorker
        <5>6. ASSUME NEW i \in DOMAIN waiters'[t]
              PROVE  pc'[waiters'[t][i]] = "waiting" /\ ThreadOf[Head(batch'[waiters'[t][i]])] = t
          BY <3>7, <4>1, <4>2, <5>2, <5>4, <5>5
        <5>7. ASSUME NEW i \in DOMAIN waiters'[t], NEW j \in DOMAIN waiters'[t],
                     waiters'[t][j] = waiters'[t][i]
              PROVE  i = j
          BY <4>1, <4>2, <5>2, <5>3, <5>4, <5>7
        <5>8. QED
          BY <5>6, <5>7 DEF Queueing, ThreadOfWorker
      <4>4. CASE t # u
        <5>1. waiters'[t] = waiters[t]
          BY <3>1, <4>4 DEF TypeOK
        <5>2. QED
          BY <4>2, <5>1 DEF Lined, Queueing, ThreadOfWorker
      <4>5. QED
        BY <4>3, <4>4
    <3>9. InTurn(w)'
      BY <3>2, <3>7 DEF InTurn
    <3>10. ASSUME NEW v \in Workers \ {w}
           PROVE  InTurn(v)'
      BY <3>1, <3>6 DEF Lined, InTurn
    <3>11. QED
      BY <3>8, <3>9, <3>10 DEF Lined
  <2>4. QED
    BY <1>2, <2>2, <2>3 DEF Consume
<1>3. QED
  BY <1>1, <1>2

LEMMA WakeKeepsLined ==
    ASSUME PoolAssumption, Undisturbed, TypeOK, Shape, Lined, NEW w \in Workers, Wake(w)
    PROVE  Lined'
<1> DEFINE u == ThreadOfWorker(w)
           first == Head(batch[w])
<1>1. pc[w] = "waiting" /\ StartBatch(w, first, queue)
  BY DEF Wake
<1>2. PICK i \in DOMAIN waiters[u] :
         /\ waiters[u][i] = w
         /\ waiters' = [waiters EXCEPT ![u] = SubSeq(@, 1, i - 1) \o SubSeq(@, i + 1, Len(@))]
  BY DEF Wake
<1>3. first \in Messages /\ queue \in Seq(Item)
  <2>1. Len(batch[w]) = 1
    BY <1>1 DEF Shape
  <2>2. batch[w] # <<>>
    BY <2>1
  <2>3. batch[w] \in Seq(Messages)
    BY DEF TypeOK
  <2>4. QED
    BY <2>2, <2>3, HeadTailProperties DEF TypeOK
<1> HIDE DEF first
<1>4. /\ InTurn(w)' /\ pc' = [pc EXCEPT ![w] = "busy"]
      /\ \A v \in Workers \ {w} :
            /\ pc'[v] = pc[v] /\ batch'[v] = batch[v] /\ pos'[v] = pos[v]
            /\ segment'[v] = segment[v] /\ deferred'[v] = deferred[v]
  BY <1>1, <1>3, StartBatchInTurn
<1>5. \A v \in Workers \ {w} : InTurn(v)'
  BY <1>4 DEF Lined, InTurn
<1>6. u \in Threads
  BY <1>3 DEF PoolAssumption, ThreadOfWorker, first
<1>7. ASSUME NEW t \in Threads
      PROVE  Queueing(t)'
  <2> DEFINE s == waiters[t]
             z == waiters'[t]
  <2>1. /\ s \in Seq(Workers) /\ DOMAIN s = 1..Len(s) /\ Len(s) \in Nat
        /\ \A j \in DOMAIN s : s[j] \in Workers
    BY LenProperties, ElementOfSeq DEF TypeOK
  <2>2. \A j \in DOMAIN s : /\ pc[s[j]] = "waiting" /\ ThreadOf[Head(batch[s[j]])] = t
                            /\ \A k \in DOMAIN s : s[k] = s[j] => j = k
    BY DEF Lined, Queueing, ThreadOfWorker
  <2>3. \A v \in Workers \ {w} :
           pc[v] = "waiting" /\ ThreadOf[Head(batch[v])] = t
              => pc'[v] = "waiting" /\ ThreadOf[Head(batch'[v])] = t
    BY <1>4
  <2>4. CASE t = u
    <3>1. z = SubSeq(s, 1, i - 1) \o SubSeq(s, i + 1, Len(s))
      BY <1>2, <1>6, <2>4 DEF TypeOK
    <3>2. i \in DOMAIN s /\ s[i] = w
      BY <1>2, <2>4
    <3> HIDE DEF s, z, u
    <3>3. /\ DOMAIN z = 1..(Len(s) - 1)
          /\ \A j \in 1..(Len(s) - 1) : z[j] = IF j < i THEN s[j] ELSE s[j + 1]
      BY <2>1, <3>1, <3>2, Without
    <3>4. ASSUME NEW j \in DOMAIN z
          PROVE  \E k \in DOMAIN s : /\ k # i /\ z[j] = s[k] /\ s[k] \in Workers \ {w}
                                     /\ k = IF j < i THEN j ELSE j + 1
      <4>1. PICK k : k = IF j < i THEN j ELSE j + 1
        OBVIOUS
      <4>2. k \in DOMAIN s /\ k # i /\ z[j] = s[k]
        BY <2>1, <3>2, <3>3, <4>1
      <4>3. s[k] # w
        BY <2>2, <3>2, <4>2
      <4>4. QED
        BY <2>1, <4>1, <4>2, <4>3
    <3>5. ASSUME NEW j \in DOMAIN z
          PROVE  pc'[z[j]] = "waiting" /\ ThreadOf[Head(batch'[z[j]])] = t
      BY <2>2, <2>3, <3>4
    <3>6. ASSUME NEW j \in DOMAIN z, NEW l \in DOMAIN z, z[l] = z[j]
          PROVE  j = l
      <4>1. PICK k \in DOMAIN s : z[j] = s[k] /\ k = IF j < i THEN j ELSE j + 1
        BY <3>4
      <4>2. PICK n \in DOMAIN s : z[l] = s[n] /\ n = IF l < i THEN l ELSE l + 1
        BY <3>4
      <4>3. k = n
        BY <2>2, <3>6, <4>1, <4>2
      <4>4. i \in Nat /\ j \in Nat /\ l \in Nat
        BY <2>1, <3>2, <3>3
      <4>5. QED
        BY <4>1, <4>2, <4>3, <4>4
    <3>7. QED
      BY <3>5, <3>6 DEF Queueing, ThreadOfWorker, z
  <2>5. CASE t # u
    <3>1. z = s
      BY <1>2, <2>5 DEF TypeOK
    <3>2. \A j \in DOMAIN s : s[j] # w
      BY <2>2, <2>5 DEF ThreadOfWorker
    <3>3. \A j \in DOMAIN s : pc'[s[j]] = "waiting" /\ ThreadOf[Head(batch'[s[j]])] = t
      BY <2>1, <2>2, <2>3, <3>2
    <3>4. QED
      BY <2>2, <3>1, <3>3 DEF Queueing, ThreadOfWorker
  <2>6. QED
    BY <2>4, <2>5
<1>8. QED
  BY <1>4, <1>5, <1>7 DEF Lined

LEMMA EndKeepsLined ==
    ASSUME PoolAssumption, TypeOK, Lined, NEW w \in Workers, NextSegment(w) \/ FinishBatch(w)
    PROVE  Lined'
<1>1. pc[w] = "busy" /\ UNCHANGED <<waiters, deferred>>
  BY DEF NextSegment, FinishBatch, EndSegment, lockVars
<1>2. CASE NextSegment(w)
  <2>1. /\ pos' = [pos EXCEPT ![w] = segment[w]] /\ UNCHANGED <<pc, batch>>
        /\ StartSegment(w, batch[w], segment[w], commandsRun')
    BY <1>2 DEF NextSegment
  <2>2. PICK e : segment' = [segment EXCEPT ![w] = e] /\ IsSegment(batch[w], segment[w], e)
    BY <2>1 DEF StartSegment
  <2>3. InTurn(w)'
    BY <1>1, <2>1, <2>2 DEF Lined, InTurn, TypeOK
  <2>4. \A v \in Workers \ {w} : pos'[v] = pos[v] /\ segment'[v] = segment[v]
    BY <2>1, <2>2 DEF TypeOK
  <2>5. QED
    BY <1>1, <2>1, <2>3, <2>4, OneStepLined
<1>3. CASE FinishBatch(w)
  <2>1. /\ pc' = [pc EXCEPT ![w] = "idle"] /\ batch' = [batch EXCEPT ![w] = <<>>]
        /\ pos' = [pos EXCEPT ![w] = 0] /\ segment' = [segment EXCEPT ![w] = 0]
    BY <1>3 DEF FinishBatch
  <2>2. pc'[w] = "idle" /\ deferred'[w] = deferred[w]
    BY <1>1, <2>1 DEF TypeOK
  <2>3. InTurn(w)'
    BY <2>2 DEF Lined, InTurn
  <2>4. \A v \in Workers \ {w} : /\ pc'[v] = pc[v] /\ batch'[v] = batch[v] /\ pos'[v] = pos[v]
                                 /\ segment'[v] = segment[v]
    BY <2>1 DEF TypeOK
  <2>5. QED
    BY <1>1, <2>3, <2>4, OneStepLined
<1>4. QED
  BY <1>2, <1>3

LEMMA NextLined ==
    ASSUME PoolAssumption, Undisturbed, TypeOK, Shape, Lined, [Next]_vars
    PROVE  Lined'
<1>1. ASSUME NEW w \in Workers, TakeDeferred(w)
      PROVE  Lined'
  <2>1. pc[w] = "idle" /\ Consume(w, Head(deferred[w]), queue) /\ deferred[w] # <<>>
    BY <1>1 DEF TakeDeferred
  <2>2. deferred[w] \in Seq(Item) /\ queue \in Seq(Item)
    BY DEF TypeOK
  <2>3. Head(deferred[w]) \in Item
    BY <2>1, <2>2, HeadTailProperties
  <2>4. QED
    BY <2>1, <2>2, <2>3, ConsumeKeepsLined
<1>2. ASSUME NEW w \in Workers, TakeFromQueue(w)
      PROVE  Lined'
  <2>1. pc[w] = "idle" /\ Consume(w, Head(queue), Tail(queue)) /\ queue # <<>>
    BY <1>2 DEF TakeFromQueue
  <2>2. queue \in Seq(Item)
    BY DEF TypeOK
  <2>3. Head(queue) \in Item /\ Tail(queue) \in Seq(Item)
    BY <2>1, <2>2, HeadTailProperties
  <2>4. QED
    BY <2>1, <2>3, ConsumeKeepsLined
<1>3. CASE \E w \in Workers : WorkerStep(w)
  BY <1>1, <1>2, <1>3, WakeKeepsLined, EndKeepsLined DEF WorkerStep
<1>4. CASE ~\E w \in Workers : WorkerStep(w)
  <2>1. UNCHANGED <<pc, batch, pos, segment, waiters, deferred>>
    BY <1>4 DEF Next, Enqueue, PutResumes, Age, Stop, PutSentinel, StopReturns,
                Terminated, vars, lockVars
  <2>2. QED
    BY <2>1, QuietKeepsLined
<1>5. QED
  BY <1>3, <1>4

-----------------------------------------------------------------------------
(* What the mapping is in the two cases: with one worker everything not    *)
(* served is one line; without merging nothing is ever set aside, and a    *)
(* conversation has its worker, its waiters and its share of the queue.    *)

Rest(w) == SubSeq(batch[w], pos[w] + 1, Len(batch[w]))

Line(w) == Rest(w) \o (deferred[w] \o queue)

InboxOne ==
    \A w : Workers = {w} =>
        /\ Rest(w) \in Seq(Messages) /\ Line(w) \in Seq(Item)
        /\ \A t \in Threads : Inbox(t) = InThread(Line(w), t)

InboxMany ==
    \A t \in Threads :
        /\ \A w \in Workers : Serves(w, t) => InProgress(t) = Rest(w)
        /\ (\A w \in Workers : ~Serves(w, t)) => InProgress(t) = <<>>
        /\ InProgress(t) \in Seq(Messages) /\ Waiting(t) \in Seq(Messages)
        /\ SetAside \in Seq(Item) /\ (~OneWorker => SetAside = <<>>)

RestType == \A w \in Workers : Rest(w) \in Seq(Messages)

LEMMA RestTyped ==
    ASSUME TypeOK
    PROVE  RestType
<1> SUFFICES ASSUME NEW w \in Workers
             PROVE  Rest(w) \in Seq(Messages)
  BY DEF RestType
<1>1. batch[w] \in Seq(Messages) /\ Len(batch[w]) \in Nat /\ pos[w] \in Nat
  BY PlaceTypes
<1>2. pos[w] + 1 \in Nat /\ pos[w] + 1 >= 1
  BY <1>1
<1>3. QED
  BY <1>1, <1>2, StretchType DEF Rest

LEMMA UndisturbedExclusive ==
    ASSUME Undisturbed, LockInv
    PROVE  ThreadExclusive
<1>1. CASE ~SlowBatches
  BY <1>1 DEF LockInv, OneHolder, LocksCurrent, ThreadExclusive, Engaged
<1>2. CASE OneWorker
  BY <1>2 DEF ThreadExclusive, OneWorker
<1>3. QED
  BY <1>1, <1>2 DEF Undisturbed

LEMMA MappingMany ==
    ASSUME PoolAssumption, Undisturbed, TypeOK, LockInv, Lined
    PROVE  InboxMany
<1> SUFFICES ASSUME NEW t \in Threads
             PROVE  /\ \A w \in Workers : Serves(w, t) => InProgress(t) = Rest(w)
                    /\ (\A w \in Workers : ~Serves(w, t)) => InProgress(t) = <<>>
                    /\ InProgress(t) \in Seq(Messages) /\ Waiting(t) \in Seq(Messages)
                    /\ SetAside \in Seq(Item) /\ (~OneWorker => SetAside = <<>>)
  BY DEF InboxMany
<1>1. ThreadExclusive
  BY UndisturbedExclusive
<1>2. ASSUME NEW w \in Workers, Serves(w, t)
      PROVE  InProgress(t) = Rest(w)
  <2> DEFINE h == CHOOSE v \in Workers : Serves(v, t)
  <2>1. h \in Workers /\ Serves(h, t)
    BY <1>2
  <2>2. InProgress(t) = Rest(h)
    BY <1>2 DEF InProgress, Rest
  <2> HIDE DEF h
  <2>3. h = w
    BY <1>1, <1>2, <2>1 DEF ThreadExclusive, Serves
  <2>4. QED
    BY <2>2, <2>3
<1>3. (\A w \in Workers : ~Serves(w, t)) => InProgress(t) = <<>>
  BY DEF InProgress
<1>4. InProgress(t) \in Seq(Messages)
  <2>1. <<>> \in Seq(Messages)
    BY EmptySeq
  <2>2. QED
    BY <1>2, <1>3, <2>1, RestTyped DEF RestType
<1>5. Waiting(t) \in Seq(Messages)
  <2>1. waiters[t] \in Seq(Workers) /\ Len(waiters[t]) \in Nat
        /\ DOMAIN waiters[t] = 1..Len(waiters[t])
        /\ \A i \in 1..Len(waiters[t]) : waiters[t][i] \in Workers
    BY LenProperties, ElementOfSeq DEF TypeOK
  <2>2. ASSUME NEW i \in 1..Len(waiters[t])
        PROVE  batch[waiters[t][i]][1] \in Messages
    <3>1. PICK v \in Workers : v = waiters[t][i]
      BY <2>1
    <3>2. Engaged(v)
      BY <2>1, <3>1 DEF Lined, Queueing, Engaged
    <3>3. batch[v] \in Seq(Messages) /\ batch[v] # <<>> /\ Len(batch[v]) \in Nat
      BY <3>2, PlaceTypes DEF LockInv, BatchShape
    <3>4. Len(batch[v]) >= 1
      BY <3>3, EmptySeq
    <3>5. QED
      BY <3>1, <3>3, <3>4, ElementOfSeq
  <2>3. QED
    BY <2>1, <2>2, SeqDef DEF Waiting
<1>6. SetAside \in Seq(Item) /\ (~OneWorker => SetAside = <<>>)
  <2>1. CASE \E w \in Workers : deferred[w] # <<>>
    <3>1. OneWorker
      BY <2>1 DEF Lined, InTurn
    <3> DEFINE h == CHOOSE w \in Workers : deferred[w] # <<>>
    <3>2. h \in Workers /\ SetAside = deferred[h]
      BY <2>1 DEF SetAside
    <3> HIDE DEF h
    <3>3. QED
      BY <3>1, <3>2, PlaceTypes
  <2>2. CASE ~\E w \in Workers : deferred[w] # <<>>
    BY <2>2, EmptySeq DEF SetAside
  <2>3. QED
    BY <2>1, <2>2
<1>7. QED
  BY <1>2, <1>3, <1>4, <1>5, <1>6

(* Sequences in a row.                                                     *)
LEMMA ConcatTypes ==
    ASSUME NEW S, NEW a \in Seq(S), NEW b \in Seq(S), NEW c \in Seq(S)
    PROVE  /\ a \o b \in Seq(S)
           /\ a \o (b \o c) = (a \o b) \o c
OBVIOUS

LEMMA InThreadType ==
    ASSUME NEW s \in Seq(Item), NEW t
    PROVE  InThread(s, t) \in Seq(Messages)
BY InThreadDefined, LenProperties

LEMMA MappingOne ==
    ASSUME PoolAssumption, Undisturbed, TypeOK, LockInv, Shape, Lined
    PROVE  InboxOne
<1> SUFFICES ASSUME NEW w, Workers = {w}
             PROVE  /\ Rest(w) \in Seq(Messages) /\ Line(w) \in Seq(Item)
                    /\ \A t \in Threads : Inbox(t) = InThread(Line(w), t)
  BY DEF InboxOne
<1>1. w \in Workers /\ OneWorker
  BY DEF OneWorker
<1>2. Rest(w) \in Seq(Messages) /\ deferred[w] \in Seq(Item) /\ queue \in Seq(Item)
  BY <1>1, RestTyped, PlaceTypes DEF RestType
<1>3. Rest(w) \in Seq(Item)
  BY <1>2, SeqDef DEF Item
<1>4. Line(w) \in Seq(Item) /\ deferred[w] \o queue \in Seq(Item)
  BY <1>2, <1>3, ConcatTypes DEF Line
<1>5. SetAside = deferred[w]
  <2>1. CASE deferred[w] # <<>>
    <3> DEFINE h == CHOOSE v \in Workers : deferred[v] # <<>>
    <3>1. h \in Workers /\ SetAside = deferred[h]
      BY <1>1, <2>1 DEF SetAside
    <3> HIDE DEF h
    <3>2. QED
      BY <3>1
  <2>2. CASE deferred[w] = <<>>
    BY <2>2 DEF SetAside
  <2>3. QED
    BY <2>1, <2>2
<1>6. pc[w] # "waiting"
  BY <1>1 DEF Lined, InTurn
<1>7. ASSUME NEW t \in Threads
      PROVE  Inbox(t) = InThread(Line(w), t)
  <2>1. InboxMany
    BY MappingMany
  <2>2. waiters[t] = <<>>
    <3>1. waiters[t] \in Seq(Workers)
      BY DEF TypeOK
    <3>2. \A i \in DOMAIN waiters[t] : waiters[t][i] \in Workers
      BY <3>1, ElementOfSeq, LenProperties
    <3>3. DOMAIN waiters[t] = {}
      BY <1>6, <3>2 DEF Lined, Queueing
    <3>4. Len(waiters[t]) = 0
      <4>1. Len(waiters[t]) \in Nat /\ DOMAIN waiters[t] = 1..Len(waiters[t])
        BY <3>1, LenProperties
      <4> DEFINE n == Len(waiters[t])
      <4>2. n \in Nat /\ 1..n = {}
        BY <3>3, <4>1
      <4> HIDE DEF n
      <4>3. n = 0
        BY <4>2
      <4>4. QED
        BY <4>3 DEF n
    <3>5. QED
      BY <3>1, <3>4, EmptySeq
  <2>3. Waiting(t) = <<>>
    <3>1. DOMAIN waiters[t] = {}
      BY <2>2
    <3>2. Waiting(t) \in Seq(Messages)
      BY <2>1 DEF InboxMany
    <3>3. DOMAIN Waiting(t) = {}
      BY <3>1 DEF Waiting
    <3>4. QED
      BY <3>2, <3>3
  <2>4. InProgress(t) = InThread(Rest(w), t)
    <3>1. CASE pc[w] = "busy"
      <4> DEFINE u == ThreadOfWorker(w)
      <4>1. \A i \in DOMAIN Rest(w) : ThreadOf[Rest(w)[i]] = u
        <5>1. /\ pos[w] \in Nat /\ Len(batch[w]) \in Nat /\ batch[w] \in Seq(Messages)
              /\ DOMAIN batch[w] = 1..Len(batch[w])
          BY <1>1, PlaceTypes
        <5>2. pos[w] <= Len(batch[w])
          <6>1. pos[w] < segment[w] /\ segment[w] <= Len(batch[w]) /\ segment[w] \in Nat
            BY <1>1, <3>1, PlaceTypes DEF LockInv, BatchShape
          <6>2. QED
            BY <5>1, <6>1
        <5>3. /\ DOMAIN Rest(w) = 1..(Len(batch[w]) - pos[w])
              /\ \A i \in 1..(Len(batch[w]) - pos[w]) : Rest(w)[i] = batch[w][pos[w] + i]
          BY <5>1, <5>2 DEF Rest
        <5>4. \A i \in 1..(Len(batch[w]) - pos[w]) : pos[w] + i \in 1..Len(batch[w])
          BY <5>1, <5>2
        <5>5. \A i \in DOMAIN batch[w] : ThreadOf[batch[w][i]] = u
          BY <1>1 DEF Shape
        <5>6. QED
          BY <5>1, <5>3, <5>4, <5>5
      <4>2. InThread(Rest(w), t) = IF t = u THEN Rest(w) ELSE <<>>
        <5> HIDE DEF u
        <5>1. QED
          BY <1>2, <4>1, InThreadOwn
      <4>3. CASE t = u
        BY <1>1, <2>1, <3>1, <4>2, <4>3 DEF InboxMany, Serves
      <4>4. CASE t # u
        BY <1>1, <2>1, <4>2, <4>4 DEF InboxMany, Serves
      <4>5. QED
        BY <4>3, <4>4
    <3>2. CASE pc[w] # "busy"
      <4>1. batch[w] = <<>> /\ pos[w] = 0
        BY <1>1, <1>6, <3>2 DEF Shape, TypeOK
      <4>2. Rest(w) = <<>>
        BY <4>1 DEF Rest
      <4>3. InProgress(t) = <<>>
        BY <1>1, <2>1, <3>2 DEF InboxMany, Serves
      <4>4. QED
        BY <4>2, <4>3, InThreadEmpty
    <3>3. QED
      BY <3>1, <3>2
  <2>5. Inbox(t) = (InProgress(t) \o <<>>) \o InThread(deferred[w] \o queue, t)
    BY <1>5, <2>3 DEF Inbox
  <2>6. InProgress(t) \o <<>> = InProgress(t)
    BY <2>1, WholeStretch DEF InboxMany
  <2>7. InThread(Line(w), t) = InThread(Rest(w), t) \o InThread(deferred[w] \o queue, t)
    BY <1>3, <1>4, InThreadConcat, ZenonT(40) DEF Line
  <2>8. QED
    BY <2>4, <2>5, <2>6, <2>7
<1>8. QED
  BY <1>2, <1>4, <1>7

-----------------------------------------------------------------------------
(* What the steps of the pool do to the inboxes.                           *)

(* A sequence that is a first part and the rest.                           *)
LEMMA FirstPart ==
    ASSUME NEW S, NEW a \in Seq(S), NEW b \in Seq(S)
    PROVE  /\ Len(a) \in Nat /\ Len(a) <= Len(a \o b)
           /\ SubSeq(a \o b, 1, Len(a)) = a
           /\ SubSeq(a \o b, Len(a) + 1, Len(a \o b)) = b
OBVIOUS

(* What is drawn for a batch, set aside, and left in the queue.            *)
LEMMA DrawnInOrder ==
    ASSUME NEW q \in Seq(Item), NEW one \in Seq(Item), NEW k \in 0..Len(q)
    PROVE  LET r == Blocked(q, k)
           IN  (one \o SubSeq(q, 1, k)) \o (r \o SubSeq(q, k + Len(r) + 1, Len(q)))
                  = one \o q
<1>1. Len(q) \in Nat /\ k \in Nat /\ k <= Len(q)
  BY LenProperties
<1> DEFINE r == Blocked(q, k)
           h == SubSeq(q, 1, k)
           z == SubSeq(q, k + 1, Len(q))
           y == SubSeq(q, k + Len(r) + 1, Len(q))
<1>2. r = <<>> \/ (k < Len(q) /\ r = <<q[k + 1]>>)
  BY DEF Blocked
<1> HIDE DEF r
<1>3. h \in Seq(Item) /\ z \in Seq(Item)
  BY <1>1, StretchType
<1>4. h \o z = q
  <2>1. SubSeq(q, 1, k) \o SubSeq(q, k + 1, Len(q)) = SubSeq(q, 1, Len(q))
    <3>1. 1 \in 1..(Len(q) + 1) /\ k \in (1 - 1)..Len(q) /\ Len(q) \in k..Len(q)
      BY <1>1
    <3>2. QED
      BY <3>1, ConcatAdjacentSubSeq
  <2>2. QED
    BY <2>1, WholeStretch
<1>5. r \in Seq(Item) /\ y \in Seq(Item) /\ r \o y = z
  <2>1. CASE r = <<>>
    <3>1. Len(r) = 0 /\ r \in Seq(Item)
      BY <2>1
    <3>2. k + Len(r) + 1 = k + 1
      BY <1>1, <3>1
    <3>3. y = z
      BY <3>2
    <3> HIDE DEF y, z
    <3>4. QED
      BY <1>3, <2>1, <3>1, <3>3, WholeStretch
  <2>2. CASE k < Len(q) /\ r = <<q[k + 1]>>
    <3>1. q[k + 1] \in Item
      BY <1>1, <2>2, ElementOfSeq
    <3>2. Len(r) = 1 /\ r \in Seq(Item)
      BY <2>2, <3>1
    <3>3. k + Len(r) + 1 = k + 2
      BY <1>1, <3>2
    <3>4. y \in Seq(Item)
      BY <1>1, <3>3, StretchType
    <3>5. z = <<q[k + 1]>> \o SubSeq(q, (k + 1) + 1, Len(q))
      <4>1. \A i \in (k + 1)..Len(q) : q[i] \in Item
        BY <1>1, ElementOfSeq
      <4>2. k + 1 \in Int /\ Len(q) \in Int /\ k + 1 <= Len(q)
        BY <1>1, <2>2
      <4>3. QED
        BY <4>1, <4>2, SubSeqRecursiveFirst
    <3>6. (k + 1) + 1 = k + 2
      BY <1>1
    <3>7. QED
      BY <2>2, <3>2, <3>3, <3>4, <3>5, <3>6
  <2>3. QED
    BY <1>2, <2>1, <2>2
<1> HIDE DEF h, z, y
<1>6. (one \o h) \o z = one \o (h \o z)
  BY <1>3, ConcatAssociative
<1>7. QED
  BY <1>4, <1>5, <1>6 DEF h, r, y

(* One item in front.                                                      *)
LEMMA InThreadFirst ==
    ASSUME PoolAssumption, NEW x \in Item, NEW s \in Seq(Item), NEW t
    PROVE  /\ <<x>> \o s \in Seq(Item) /\ InThread(s, t) \in Seq(Messages)
           /\ InThread(<<x>> \o s, t) =
                 IF SameThread(x, t) THEN <<x>> \o InThread(s, t) ELSE InThread(s, t)
<1>1. <<>> \in Seq(Item) /\ <<x>> = Append(<<>>, x) /\ <<x>> \in Seq(Item)
  OBVIOUS
<1>2. InThread(<<x>>, t) = IF SameThread(x, t) THEN <<x>> ELSE <<>>
  <2>1. InThread(Append(<<>>, x), t) =
           IF SameThread(x, t) THEN Append(InThread(<<>>, t), x) ELSE InThread(<<>>, t)
    BY <1>1, InThreadAppend, Zenon
  <2>2. Append(<<>>, x) = <<x>>
    BY <1>1
  <2>3. QED
    BY <2>1, <2>2, InThreadEmpty
<1>3. InThread(<<x>> \o s, t) = InThread(<<x>>, t) \o InThread(s, t)
  <2>1. PICK one : one = <<x>>
    OBVIOUS
  <2>2. one \in Seq(Item)
    BY <1>1, <2>1
  <2>3. InThread(one \o s, t) = InThread(one, t) \o InThread(s, t)
    BY <2>2, InThreadConcat
  <2>4. QED
    BY <2>1, <2>3
<1>4. InThread(s, t) \in Seq(Messages)
  BY InThreadDefined, LenProperties
<1>5. <<>> \o InThread(s, t) = InThread(s, t)
  BY <1>4, WholeStretch
<1>6. <<x>> \o s \in Seq(Item)
  BY <1>1, ConcatTypes
<1>7. QED
  BY <1>2, <1>3, <1>4, <1>5, <1>6

(* An item that joins the queue joins the inbox of its thread.             *)
LEMMA PutMapped ==
    ASSUME PoolAssumption, TypeOK, InboxMany, NEW x \in Item, queue' = Append(queue, x),
           UNCHANGED <<pc, batch, pos, waiters, deferred>>, NEW t \in Threads
    PROVE  Inbox(t)' = IF SameThread(x, t) THEN Append(Inbox(t), x) ELSE Inbox(t)
<1> DEFINE front == InProgress(t) \o Waiting(t)
           back == SetAside \o queue
<1>1. SetAside \in Seq(Item) /\ queue \in Seq(Item) /\ front \in Seq(Messages)
  BY ConcatTypes DEF InboxMany, TypeOK
<1>2. back \in Seq(Item) /\ SetAside \o Append(queue, x) = Append(back, x)
  BY <1>1, ConcatGrows
<1>3. Inbox(t)' = front \o InThread(SetAside \o Append(queue, x), t)
  BY DEF Inbox, InProgress, Serves, ThreadOfWorker, Waiting, SetAside
<1> HIDE DEF front, back
<1>4. /\ InThread(back, t) \in Seq(Messages)
      /\ InThread(Append(back, x), t) =
            IF SameThread(x, t) THEN Append(InThread(back, t), x) ELSE InThread(back, t)
  BY <1>2, InThreadAppend, Zenon
<1>5. Inbox(t) = front \o InThread(back, t)
  BY DEF Inbox, front, back
<1>6. SameThread(x, t) => front \o Append(InThread(back, t), x) = Append(Inbox(t), x)
  <2>1. SameThread(x, t) => x \in Messages
    BY DEF SameThread, Item
  <2>2. QED
    BY <1>1, <1>4, <1>5, <2>1, ConcatGrows
<1>7. QED
  BY <1>2, <1>3, <1>4, <1>5, <1>6

(* A single worker takes the next item of the line: the line stays.        *)
LEMMA TakeOneMapped ==
    ASSUME PoolAssumption, TypeOK, TypeOK', Shape, InboxOne, InboxOne',
           NEW w, Workers = {w}, pc[w] = "idle",
           NEW item \in Item, NEW q \in Seq(Item), deferred[w] \o queue = <<item>> \o q,
           Consume(w, item, q), NEW t \in Threads
    PROVE  Inbox(t)' = Inbox(t)
<1>1. w \in Workers
  OBVIOUS
<1>2. Inbox(t) = InThread(Line(w), t) /\ Inbox(t)' = InThread(Line(w)', t)
  BY DEF InboxOne
<1>3. Line(w) = <<item>> \o q
  <2>1. batch[w] = <<>> /\ pos[w] = 0
    BY <1>1 DEF Shape
  <2>2. Rest(w) = <<>>
    BY <2>1 DEF Rest
  <2>3. <<item>> \in Seq(Item)
    OBVIOUS
  <2>4. <<item>> \o q \in Seq(Item)
    BY <2>3, ConcatTypes
  <2>5. QED
    BY <2>2, <2>4, WholeStretch DEF Line
<1>4. CASE item = None
  <2>1. /\ deferred' = [deferred EXCEPT ![w] = <<>>] /\ queue' = q
        /\ UNCHANGED <<batch, pos>>
    BY <1>4 DEF Consume
  <2>2. deferred'[w] = <<>> /\ batch'[w] = <<>> /\ pos'[w] = 0
    BY <1>1, <2>1 DEF Shape, TypeOK
  <2>3. Rest(w)' = <<>>
    BY <2>2 DEF Rest
  <2>4. Line(w)' = q
    BY <2>1, <2>2, <2>3, WholeStretch DEF Line
  <2>5. ~SameThread(item, t)
    BY <1>4 DEF SameThread
  <2>6. QED
    BY <1>2, <1>3, <2>4, <2>5, InThreadFirst
<1>5. CASE item # None
  <2>1. item \in Messages
    BY <1>5 DEF Item
  <2>2. LockFree(ThreadOf[item])
    BY DEF LockFree, UsesLock, Engaged
  <2>3. StartBatch(w, item, q)
    BY <1>5, <2>2 DEF Consume
  <2>4. PICK k \in 0..Len(q) :
           LET b == <<item>> \o SubSeq(q, 1, k)
               r == Blocked(q, k)
           IN  /\ queue' = SubSeq(q, k + Len(r) + 1, Len(q))
               /\ deferred' = [deferred EXCEPT ![w] = r]
               /\ batch' = [batch EXCEPT ![w] = b]
               /\ pos' = [pos EXCEPT ![w] = 0]
    BY <1>1, <2>1, <2>3, StartBatchTurn
  <2> DEFINE b == <<item>> \o SubSeq(q, 1, k)
             r == Blocked(q, k)
  <2>5. /\ queue' = SubSeq(q, k + Len(r) + 1, Len(q))
        /\ deferred'[w] = r /\ batch'[w] = b /\ pos'[w] = 0
    <3>1. /\ queue' = SubSeq(q, k + Len(r) + 1, Len(q))
          /\ deferred' = [deferred EXCEPT ![w] = r] /\ batch' = [batch EXCEPT ![w] = b]
          /\ pos' = [pos EXCEPT ![w] = 0]
      BY <2>4
    <3> HIDE DEF b, r
    <3>2. QED
      BY <1>1, <3>1 DEF TypeOK
  <2>6. <<item>> \in Seq(Item)
    OBVIOUS
  <2>7. b \o (r \o SubSeq(q, k + Len(r) + 1, Len(q))) = <<item>> \o q
    BY <2>6, DrawnInOrder
  <2> HIDE DEF b, r
  <2>8. Rest(w)' = b
    <3>1. batch'[w] \in Seq(Messages)
      BY <1>1 DEF TypeOK
    <3>2. SubSeq(batch'[w], 1, Len(batch'[w])) = batch'[w]
      BY <3>1, WholeStretch
    <3>3. QED
      BY <2>5, <3>2 DEF Rest
  <2>9. QED
    BY <1>2, <1>3, <2>5, <2>7, <2>8 DEF Line
<1>6. QED
  BY <1>4, <1>5

(* A step of one worker w, seen from a thread w does not serve.            *)
Others(w) ==
    \A v \in Workers \ {w} : pc'[v] = pc[v] /\ batch'[v] = batch[v] /\ pos'[v] = pos[v]

LEMMA ElsewhereInProgress ==
    ASSUME InboxMany, InboxMany', NEW w \in Workers, Others(w), NEW t \in Threads,
           ~Serves(w, t), ~Serves(w, t)'
    PROVE  InProgress(t)' = InProgress(t)
<1>1. \A v \in Workers \ {w} : /\ Serves(v, t)' <=> Serves(v, t)
                               /\ Rest(v)' = Rest(v)
  BY DEF Others, Serves, Rest, ThreadOfWorker
<1>2. CASE \E v \in Workers \ {w} : Serves(v, t)
  BY <1>1, <1>2 DEF InboxMany
<1>3. CASE ~\E v \in Workers \ {w} : Serves(v, t)
  BY <1>1, <1>3 DEF InboxMany
<1>4. QED
  BY <1>2, <1>3

LEMMA ElsewhereWaiting ==
    ASSUME TypeOK, Lined, NEW w \in Workers, Others(w), pc[w] # "waiting",
           NEW t \in Threads, waiters'[t] = waiters[t]
    PROVE  Waiting(t)' = Waiting(t)
<1>1. waiters[t] \in Seq(Workers)
  BY DEF TypeOK
<1>2. \A i \in DOMAIN waiters[t] : waiters[t][i] \in Workers \ {w}
  BY <1>1, ElementOfSeq, LenProperties DEF Lined, Queueing
<1>3. \A i \in DOMAIN waiters[t] : batch'[waiters[t][i]][1] = batch[waiters[t][i]][1]
  BY <1>2 DEF Others
<1>4. QED
  BY <1>3 DEF Waiting

LEMMA JoinsWaiters ==
    ASSUME InboxMany, NEW t \in Threads, NEW c \in Seq(Messages), NEW d \in Seq(Messages)
    PROVE  (InProgress(t) \o Waiting(t)) \o (c \o d) = (InProgress(t) \o (Waiting(t) \o c)) \o d
<1>1. PICK a, b : a = InProgress(t) /\ b = Waiting(t)
  OBVIOUS
<1>2. a \in Seq(Messages) /\ b \in Seq(Messages)
  BY <1>1 DEF InboxMany
<1>3. (a \o b) \o (c \o d) = (a \o (b \o c)) \o d
  BY <1>2
<1>4. QED
  BY <1>1, <1>3

(* Without merging a batch is the item it starts with.                     *)
LEMMA StartAlone ==
    ASSUME PoolAssumption, TypeOK, BatchMax <= 1, NEW w \in Workers, NEW first \in Messages,
           NEW q \in Seq(Item), StartBatch(w, first, q)
    PROVE  /\ queue' = q /\ batch' = [batch EXCEPT ![w] = <<first>>]
           /\ pos' = [pos EXCEPT ![w] = 0] /\ pc' = [pc EXCEPT ![w] = "busy"]
<1>1. PICK k \in 0..Len(q) :
         LET b == <<first>> \o SubSeq(q, 1, k)
             r == Blocked(q, k)
         IN  /\ queue' = SubSeq(q, k + Len(r) + 1, Len(q))
             /\ batch' = [batch EXCEPT ![w] = b]
             /\ pos' = [pos EXCEPT ![w] = 0]
             /\ pc' = [pc EXCEPT ![w] = "busy"]
             /\ BatchMax <= 1 => k = 0 /\ r = <<>>
  BY StartBatchTurn
<1>2. k = 0 /\ Blocked(q, k) = <<>> /\ Len(<<>>) = 0
  BY <1>1
<1>3. SubSeq(q, 1, Len(q)) = q /\ SubSeq(q, 1, 0) = <<>> /\ <<first>> \o <<>> = <<first>>
  <2>1. <<first>> \in Seq(Item)
    BY DEF Item
  <2>2. <<first>> \o <<>> = <<first>>
    BY <2>1, WholeStretch
  <2>3. QED
    BY <2>2, WholeStretch
<1>4. queue' = SubSeq(q, 1, Len(q))
  <2>1. k + Len(Blocked(q, k)) + 1 = 1
    BY <1>2
  <2>2. queue' = SubSeq(q, k + Len(Blocked(q, k)) + 1, Len(q))
    BY <1>1
  <2>3. QED
    BY <2>1, <2>2
<1>5. batch' = [batch EXCEPT ![w] = <<first>> \o SubSeq(q, 1, 0)]
  BY <1>1, <1>2
<1>6. pos' = [pos EXCEPT ![w] = 0] /\ pc' = [pc EXCEPT ![w] = "busy"]
  BY <1>1
<1>7. QED
  BY <1>3, <1>4, <1>5, <1>6

(* Without merging a worker takes the first item of the queue: it is in    *)
(* progress if the lock of its thread is free, and joins the waiters else. *)
LEMMA TakeManyMapped ==
    ASSUME PoolAssumption, Undisturbed, ~OneWorker, TypeOK, TypeOK', LockInv, Shape,
           Lined, InboxMany, InboxMany', NEW w \in Workers, pc[w] = "idle",
           NEW item \in Item, NEW q \in Seq(Item), queue = <<item>> \o q,
           Consume(w, item, q), NEW t \in Threads
    PROVE  Inbox(t)' = Inbox(t)
<1>1. SetAside = <<>> /\ SetAside' = <<>> /\ BatchMax <= 1 /\ ~SlowBatches
  BY DEF InboxMany, Undisturbed
<1>2. /\ Inbox(t) = (InProgress(t) \o Waiting(t)) \o InThread(queue, t)
      /\ Inbox(t)' = (InProgress(t)' \o Waiting(t)') \o InThread(queue', t)
  <2>1. queue \in Seq(Item) /\ queue' \in Seq(Item)
    BY DEF TypeOK
  <2>2. <<>> \o queue = queue /\ <<>> \o queue' = queue'
    BY <2>1, WholeStretch
  <2>3. QED
    BY <1>1, <2>2 DEF Inbox
<1>3. /\ InThread(q, t) \in Seq(Messages)
      /\ InThread(queue, t) =
            IF SameThread(item, t) THEN <<item>> \o InThread(q, t) ELSE InThread(q, t)
  BY InThreadFirst
<1>4. ~Serves(w, t)
  BY DEF Serves
<1>5. CASE item = None
  <2>1. /\ pc' = [pc EXCEPT ![w] = "stopped"] /\ queue' = q
        /\ UNCHANGED <<batch, pos, waiters>>
    BY <1>5 DEF Consume, lockVars
  <2>2. Others(w) /\ ~Serves(w, t)'
    BY <2>1 DEF Others, Serves, TypeOK
  <2>3. InProgress(t)' = InProgress(t) /\ Waiting(t)' = Waiting(t)
    BY <1>4, <2>1, <2>2, ElsewhereInProgress, ElsewhereWaiting
  <2>4. ~SameThread(item, t)
    BY <1>5 DEF SameThread
  <2>5. QED
    BY <1>2, <1>3, <2>1, <2>3, <2>4
<1>6. CASE item # None
  <2>1. item \in Messages
    BY <1>6 DEF Item
  <2> DEFINE u == ThreadOf[item]
             one == <<item>>
  <2>2. SameThread(item, t) <=> t = u
    BY <1>6 DEF SameThread
  <2>3. one \in Seq(Messages)
    BY <2>1
  <2>4. CASE LockFree(u)
    <3>1. StartBatch(w, item, q) /\ UNCHANGED waiters
      BY <1>6, <2>4 DEF Consume
    <3>2. /\ queue' = q /\ batch' = [batch EXCEPT ![w] = one]
          /\ pos' = [pos EXCEPT ![w] = 0] /\ pc' = [pc EXCEPT ![w] = "busy"]
      BY <1>1, <2>1, <3>1, StartAlone
    <3>3. batch'[w] = one /\ pos'[w] = 0 /\ pc'[w] = "busy" /\ Others(w)
      BY <3>2 DEF Others, TypeOK
    <3>4. Waiting(t)' = Waiting(t)
      BY <3>1, <3>3, ElsewhereWaiting
    <3>5. Serves(w, t)' <=> t = u
      <4>1. Head(one) = item
        OBVIOUS
      <4>2. QED
        BY <3>3, <4>1 DEF Serves, ThreadOfWorker
    <3>6. CASE t = u
      <4>1. \A v \in Workers : ~(Engaged(v) /\ ThreadOfWorker(v) = t)
        BY <1>1, <2>4, <3>6 DEF LockFree, UsesLock, LockInv, LocksCurrent
      <4>2. InProgress(t) = <<>>
        BY <4>1 DEF InboxMany, Serves, Engaged
      <4>3. Waiting(t) = <<>>
        <5>1. waiters[t] \in Seq(Workers)
          BY DEF TypeOK
        <5>2. DOMAIN waiters[t] = {}
          <6>1. \A i \in DOMAIN waiters[t] : waiters[t][i] \in Workers
            BY <5>1, ElementOfSeq, LenProperties
          <6>2. QED
            BY <4>1, <6>1 DEF Lined, Queueing, Engaged
        <5>3. Waiting(t) \in Seq(Messages) /\ DOMAIN Waiting(t) = {}
          BY <5>2 DEF InboxMany, Waiting
        <5>4. QED
          BY <5>3
      <4>4. InProgress(t)' = one
        <5>1. Rest(w)' = one
          <6>1. SubSeq(one, 1, Len(one)) = one
            BY <2>3, WholeStretch
          <6>2. QED
            BY <3>3, <6>1 DEF Rest
        <5>2. QED
          BY <3>5, <3>6, <5>1 DEF InboxMany
      <4>5. <<>> \o <<>> = <<>> /\ <<>> \o InThread(queue, t) = InThread(queue, t)
            /\ one \o <<>> = one
        <5>1. <<>> \in Seq(Messages) /\ InThread(queue, t) \in Seq(Messages)
          <6>1. queue \in Seq(Item)
            BY DEF TypeOK
          <6>2. QED
            BY <6>1, InThreadType, EmptySeq
        <5>2. QED
          BY <2>3, <5>1, WholeStretch
      <4>6. InThread(queue, t) = one \o InThread(q, t)
        BY <1>3, <2>2, <3>6
      <4> HIDE DEF one, u
      <4>7. QED
        BY <1>2, <3>2, <3>4, <4>2, <4>3, <4>4, <4>5, <4>6
    <3>7. CASE t # u
      <4>1. InProgress(t)' = InProgress(t)
        BY <1>4, <3>3, <3>5, <3>7, ElsewhereInProgress
      <4>2. QED
        BY <1>2, <1>3, <2>2, <3>2, <3>4, <3>7, <4>1
    <3>8. QED
      BY <3>6, <3>7
  <2>5. CASE ~LockFree(u)
    <3>1. /\ pc' = [pc EXCEPT ![w] = "waiting"]
          /\ waiters' = [waiters EXCEPT ![u] = Append(@, w)]
          /\ batch' = [batch EXCEPT ![w] = one]
          /\ queue' = q /\ UNCHANGED pos
      <4>1. \/ StartBatch(w, item, q) /\ LockFree(u)
            \/ /\ pc' = [pc EXCEPT ![w] = "waiting"]
               /\ waiters' = [waiters EXCEPT ![u] = Append(@, w)]
               /\ batch' = [batch EXCEPT ![w] = one]
               /\ queue' = q /\ UNCHANGED pos
        BY <1>6 DEF Consume
      <4>2. QED
        BY <2>5, <4>1
    <3>2. Others(w) /\ ~Serves(w, t)' /\ batch'[w] = one
      BY <3>1 DEF Others, Serves, TypeOK
    <3>3. InProgress(t)' = InProgress(t)
      BY <1>4, <3>2, ElsewhereInProgress
    <3>4. CASE t # u
      <4>1. waiters'[t] = waiters[t]
        BY <3>1, <3>4 DEF TypeOK
      <4>2. Waiting(t)' = Waiting(t)
        BY <3>2, <4>1, ElsewhereWaiting
      <4>3. QED
        BY <1>2, <1>3, <2>2, <3>1, <3>3, <3>4, <4>2
    <3>5. CASE t = u
      <4> DEFINE s == waiters[t]
                 W == Waiting(t)
      <4>1. s \in Seq(Workers) /\ Len(s) \in Nat /\ DOMAIN s = 1..Len(s)
        BY LenProperties DEF TypeOK
      <4>2. waiters'[t] = Append(s, w)
        BY <3>1, <3>5 DEF TypeOK
      <4>3. /\ DOMAIN waiters'[t] = 1..(Len(s) + 1) /\ waiters'[t][Len(s) + 1] = w
            /\ \A i \in 1..Len(s) : waiters'[t][i] = s[i]
        <5> HIDE DEF s
        <5>1. QED
          BY <4>1, <4>2, AppendProperties
      <4>4. \A i \in 1..Len(s) : s[i] \in Workers \ {w}
        BY <4>1, ElementOfSeq DEF Lined, Queueing
      <4>5. \A i \in 1..Len(s) : batch'[s[i]][1] = batch[s[i]][1]
        BY <3>2, <4>4 DEF Others
      <4>6. W \in Seq(Messages) /\ W = [i \in 1..Len(s) |-> batch[s[i]][1]] /\ Len(W) = Len(s)
        <5>1. W \in Seq(Messages) /\ W = [i \in 1..Len(s) |-> batch[s[i]][1]]
          BY <4>1 DEF InboxMany, Waiting
        <5> HIDE DEF W, s
        <5>2. Len(W) \in Nat /\ DOMAIN W = 1..Len(W)
          BY <5>1, LenProperties
        <5>3. DOMAIN W = 1..Len(s)
          BY <5>1
        <5>4. QED
          BY <4>1, <5>1, <5>2, <5>3
      <4>7. Waiting(t)' = [i \in 1..(Len(s) + 1) |-> batch'[waiters'[t][i]][1]]
        BY <4>3 DEF Waiting
      <4>8. batch'[w][1] = item
        BY <3>2
      <4>9. Waiting(t)' = Append(W, item)
        <5> HIDE DEF W, s
        <5>1. Waiting(t)' \in Seq(Messages)
          BY DEF InboxMany
        <5>2. /\ Append(W, item) \in Seq(Messages) /\ Len(Append(W, item)) = Len(s) + 1
              /\ \A i \in 1..Len(s) : Append(W, item)[i] = W[i]
              /\ Append(W, item)[Len(s) + 1] = item
          BY <2>1, <4>6, AppendProperties
        <5>3. Len(Waiting(t)') = Len(s) + 1
          <6> DEFINE Z == Waiting(t)'
          <6>1. DOMAIN Z = 1..(Len(s) + 1)
            BY <4>7
          <6>2. Len(Z) \in Nat /\ DOMAIN Z = 1..Len(Z)
            BY <5>1, LenProperties
          <6> HIDE DEF Z
          <6>3. Len(Z) = Len(s) + 1
            BY <4>1, <6>1, <6>2
          <6>4. QED
            BY <6>3 DEF Z
        <5>4. ASSUME NEW i \in 1..(Len(s) + 1)
              PROVE  Waiting(t)'[i] = Append(W, item)[i]
          <6>1. CASE i \in 1..Len(s)
            BY <4>3, <4>5, <4>6, <4>7, <5>2, <6>1
          <6>2. CASE i \notin 1..Len(s)
            <7>1. i = Len(s) + 1
              <8> DEFINE l == Len(s)
              <8>1. l \in Nat /\ i \in 1..(l + 1) /\ i \notin 1..l
                BY <4>1, <6>2
              <8> HIDE DEF l
              <8>2. i = l + 1
                BY <8>1
              <8>3. QED
                BY <8>2 DEF l
            <7>2. QED
              BY <4>3, <4>7, <4>8, <5>2, <7>1
          <6>3. QED
            BY <6>1, <6>2
        <5>5. QED
          BY <5>1, <5>2, <5>3, <5>4, SeqEqual
      <4>10. W \o one = Append(W, item)
        BY <2>1, <4>6, AppendIsConcat
      <4>11. (InProgress(t) \o W) \o (one \o InThread(q, t))
                = (InProgress(t) \o (W \o one)) \o InThread(q, t)
        <5>1. one \in Seq(Messages) /\ InThread(q, t) \in Seq(Messages)
          BY <1>3, <2>3
        <5> HIDE DEF one
        <5>2. QED
          BY <5>1, JoinsWaiters
      <4>12. InThread(queue, t) = one \o InThread(q, t)
        BY <1>3, <2>2, <3>5
      <4>13. Inbox(t) = (InProgress(t) \o W) \o InThread(queue, t)
        BY <1>2
      <4> HIDE DEF W, one, u, s
      <4>14. QED
        BY <1>2, <3>1, <3>3, <4>9, <4>10, <4>11, <4>12, <4>13
    <3>6. QED
      BY <3>4, <3>5
  <2>6. QED
    BY <2>4, <2>5
<1>7. QED
  BY <1>5, <1>6

(* The waiter that is woken is the first in line; its item becomes the one *)
(* in progress.                                                            *)
LEMMA WakeMapped ==
    ASSUME PoolAssumption, Undisturbed, TypeOK, TypeOK', LockInv, Shape, Lined,
           InboxMany, InboxMany', NEW w \in Workers, Wake(w), NEW t \in Threads
    PROVE  Inbox(t)' = Inbox(t)
<1> DEFINE u == ThreadOfWorker(w)
           first == Head(batch[w])
           one == <<first>>
<1>1. pc[w] = "waiting" /\ ~OneWorker /\ BatchMax <= 1 /\ ~SlowBatches
  BY DEF Wake, Lined, InTurn, Undisturbed
<1>2. first \in Messages /\ batch[w] = one /\ u \in Threads /\ ThreadOf[first] = u
  <2>0. Len(batch[w]) = 1
    BY <1>1 DEF Shape
  <2>1. batch[w] \in Seq(Messages)
    BY DEF TypeOK
  <2>2. batch[w] # <<>>
    BY <1>1 DEF LockInv, BatchShape, Engaged
  <2>3. first \in Messages
    BY <2>1, <2>2, HeadTailProperties
  <2>4. batch[w] = one
    BY <2>0, <2>1
  <2>5. QED
    BY <2>3, <2>4 DEF ThreadOfWorker, PoolAssumption
<1>3. /\ queue' = queue /\ batch' = [batch EXCEPT ![w] = one]
      /\ pos' = [pos EXCEPT ![w] = 0] /\ pc' = [pc EXCEPT ![w] = "busy"]
  <2>1. StartBatch(w, first, queue) /\ queue \in Seq(Item)
    BY DEF Wake, TypeOK
  <2> HIDE DEF first
  <2>2. QED
    BY <1>1, <1>2, <2>1, StartAlone
<1>4. PICK i \in DOMAIN waiters[u] :
         /\ waiters[u][i] = w /\ FirstInLine(w, i)
         /\ waiters' = [waiters EXCEPT ![u] = SubSeq(@, 1, i - 1) \o SubSeq(@, i + 1, Len(@))]
  BY DEF Wake
<1>5. \A v \in Workers : Engaged(v) => lockOf[v] = generation[ThreadOfWorker(v)]
  BY <1>1 DEF LockInv, LocksCurrent
<1>6. \A v \in Workers : ~Serves(v, u)
  <2>1. \A v \in Workers : ~Holds(v, u, lockOf[w])
    BY DEF Wake
  <2>2. QED
    BY <1>1, <1>5, <2>1 DEF Holds, Serves, Engaged
<1>7. waiters[u] \in Seq(Workers) /\ DOMAIN waiters[u] = 1..Len(waiters[u])
      /\ Len(waiters[u]) \in Nat /\ \A j \in DOMAIN waiters[u] : waiters[u][j] \in Workers
  <2>1. waiters[u] \in Seq(Workers)
    BY <1>2 DEF TypeOK
  <2> HIDE DEF u
  <2>2. QED
    BY <2>1, ElementOfSeq, LenProperties
<1>8. i = 1
  <2>1. \A j \in 1..(i - 1) : lockOf[waiters[u][j]] # lockOf[w]
    BY <1>4 DEF FirstInLine
  <2>2. \A j \in DOMAIN waiters[u] : lockOf[waiters[u][j]] = generation[u]
    BY <1>2, <1>5, <1>7 DEF Lined, Queueing, Engaged
  <2>3. lockOf[w] = generation[u]
    BY <1>1, <1>5 DEF Engaged
  <2>4. i # 1 => 1 \in 1..(i - 1) /\ 1 \in DOMAIN waiters[u]
    BY <1>7
  <2>5. QED
    BY <2>1, <2>2, <2>3, <2>4
<1>9. Others(w) /\ batch'[w] = one /\ pos'[w] = 0 /\ pc'[w] = "busy"
  BY <1>3 DEF Others, TypeOK
<1>10. Serves(w, t)' <=> t = u
  <2>1. Head(one) = first
    OBVIOUS
  <2>2. QED
    BY <1>2, <1>9, <2>1 DEF Serves, ThreadOfWorker
<1>11. /\ Inbox(t) = (InProgress(t) \o Waiting(t)) \o InThread(queue, t)
       /\ Inbox(t)' = (InProgress(t)' \o Waiting(t)') \o InThread(queue, t)
  <2>1. queue \in Seq(Item)
    BY DEF TypeOK
  <2>2. <<>> \o queue = queue
    BY <2>1, WholeStretch
  <2>3. SetAside = <<>> /\ SetAside' = <<>>
    BY <1>1 DEF InboxMany
  <2>4. QED
    BY <1>3, <2>2, <2>3 DEF Inbox
<1>12. CASE t = u
  <2> DEFINE s == waiters[u]
             z == waiters'[u]
  <2>1. InProgress(t) = <<>>
    BY <1>6, <1>12 DEF InboxMany
  <2>2. InProgress(t)' = one
    <3>1. one \in Seq(Messages)
      BY <1>2
    <3>2. SubSeq(one, 1, Len(one)) = one
      BY <3>1, WholeStretch
    <3>3. Rest(w)' = one
      BY <1>9, <3>2 DEF Rest
    <3>4. QED
      BY <1>10, <1>12, <3>3 DEF InboxMany
  <2>3. DOMAIN z = 1..(Len(s) - 1) /\ \A j \in 1..(Len(s) - 1) : z[j] = s[j + 1]
    <3>1. z = SubSeq(s, 1, i - 1) \o SubSeq(s, i + 1, Len(s))
      BY <1>2, <1>4 DEF TypeOK
    <3>2. i \in DOMAIN s /\ s \in Seq(Workers)
      BY <1>4, <1>7
    <3> HIDE DEF s, z
    <3>3. /\ DOMAIN z = 1..(Len(s) - 1)
          /\ \A j \in 1..(Len(s) - 1) : z[j] = IF j < i THEN s[j] ELSE s[j + 1]
      BY <3>1, <3>2, Without
    <3>4. \A j \in 1..(Len(s) - 1) : ~(j < 1)
      OBVIOUS
    <3>5. QED
      BY <1>8, <3>3, <3>4
  <2>4. \A j \in 1..(Len(s) - 1) : s[j + 1] \in Workers \ {w}
    <3>1. \A j \in DOMAIN s : s[j] = w => j = 1
      BY <1>2, <1>4, <1>8 DEF Lined, Queueing
    <3>2. \A j \in 1..(Len(s) - 1) : j + 1 \in DOMAIN s /\ j + 1 # 1
      BY <1>7
    <3>3. QED
      BY <1>7, <3>1, <3>2
  <2>5. \A j \in 1..(Len(s) - 1) : batch'[z[j]][1] = batch[s[j + 1]][1]
    BY <1>9, <2>3, <2>4 DEF Others
  <2>6. Waiting(t) = one \o Waiting(t)'
    <3>1. PICK V, W : V = Waiting(t) /\ W = Waiting(t)'
      OBVIOUS
    <3>2. V \in Seq(Messages) /\ W \in Seq(Messages)
      BY <3>1 DEF InboxMany
    <3>3. V = [j \in 1..Len(s) |-> batch[s[j]][1]]
      BY <1>7, <1>12, <3>1 DEF Waiting
    <3>4. DOMAIN W = 1..(Len(s) - 1) /\ \A j \in 1..(Len(s) - 1) : W[j] = batch[s[j + 1]][1]
      BY <1>12, <2>3, <2>5, <3>1 DEF Waiting
    <3>5. s[1] = w /\ batch[w][1] = first /\ Len(s) >= 1 /\ Len(s) \in Nat
      <4>1. one[1] = first
        OBVIOUS
      <4>2. QED
        BY <1>2, <1>4, <1>7, <1>8, <4>1
    <3> DEFINE l == Len(s)
    <3>6. /\ DOMAIN V = 1..l /\ V[1] = first /\ \A j \in 1..(l - 1) : V[j + 1] = W[j]
          /\ l \in Nat /\ l >= 1
      BY <3>3, <3>4, <3>5
    <3>7. DOMAIN W = 1..(l - 1)
      BY <3>4
    <3> HIDE DEF l, first
    <3>8. V = <<first>> \o W
      BY <1>2, <3>2, <3>6, <3>7
    <3>9. QED
      BY <3>1, <3>8
  <2>7. <<>> \o Waiting(t) = Waiting(t)
    BY WholeStretch DEF InboxMany
  <2>8. QED
    BY <1>11, <2>1, <2>2, <2>6, <2>7
<1>13. CASE t # u
  <2>1. ~Serves(w, t) /\ ~Serves(w, t)'
    BY <1>1, <1>10, <1>13 DEF Serves
  <2>2. InProgress(t)' = InProgress(t)
    BY <1>9, <2>1, ElsewhereInProgress
  <2>3. waiters'[t] = waiters[t] /\ waiters[t] \in Seq(Workers)
    BY <1>4, <1>13 DEF TypeOK
  <2>4. \A j \in DOMAIN waiters[t] : waiters[t][j] \in Workers \ {w}
    BY <1>13, <2>3, ElementOfSeq, LenProperties DEF Lined, Queueing
  <2>5. \A j \in DOMAIN waiters[t] : batch'[waiters[t][j]][1] = batch[waiters[t][j]][1]
    BY <1>9, <2>4 DEF Others
  <2>6. Waiting(t)' = Waiting(t)
    BY <2>3, <2>5 DEF Waiting
  <2>7. QED
    BY <1>11, <2>2, <2>6
<1>14. QED
  BY <1>12, <1>13

(* The end of a segment is a turn of its thread: the segment is the first  *)
(* part of the inbox, and no other inbox is touched.                       *)
LEMMA EndMapped ==
    ASSUME PoolAssumption, Undisturbed, TypeOK, LockInv, Shape, Lined,
           InboxMany, InboxMany', NEW w \in Workers, NextSegment(w) \/ FinishBatch(w),
           NEW u, u = ThreadOfWorker(w)
    PROVE  Turns!Serve(u)
<1> DEFINE b == batch[w]
           lo == pos[w]
           hi == segment[w]
           seg == SubSeq(b, lo + 1, hi)
           left == SubSeq(b, hi + 1, Len(b))
<1>1. EndSegment(w)
  BY DEF NextSegment, FinishBatch
<1>2. /\ lo \in Nat /\ hi \in Nat /\ lo < hi /\ hi <= Len(b) /\ Len(b) \in Nat
      /\ b \in Seq(Messages) /\ DOMAIN b = 1..Len(b) /\ pc[w] = "busy"
      /\ u \in Threads
  BY <1>1, EndServes
<1>3. served' = [served EXCEPT ![u] = @ \o seg]
  BY <1>1 DEF EndSegment
<1>4. /\ UNCHANGED <<waiters, deferred, queue>> /\ Others(w)
  <2>1. CASE NextSegment(w)
    BY <2>1 DEF NextSegment, lockVars, Others, TypeOK
  <2>2. CASE FinishBatch(w)
    BY <2>2 DEF FinishBatch, Others, TypeOK
  <2>3. QED
    BY <2>1, <2>2
<1>5. /\ seg \in Seq(Messages) /\ left \in Seq(Messages) /\ Rest(w) = seg \o left
      /\ Len(seg) = hi - lo /\ \A i \in 1..(hi - lo) : seg[i] = b[lo + i]
  <2> HIDE DEF b, lo, hi
  <2>1. lo + 1 \in 1..(Len(b) + 1) /\ hi \in ((lo + 1) - 1)..Len(b) /\ Len(b) \in hi..Len(b)
    BY <1>2
  <2>2. seg \o left = SubSeq(b, lo + 1, Len(b))
    BY <1>2, <2>1, ConcatAdjacentSubSeq
  <2>3. seg \in Seq(Messages) /\ left \in Seq(Messages)
    BY <1>2, StretchType
  <2>4. Len(seg) = hi - lo /\ \A i \in 1..(hi - lo) : seg[i] = b[lo + i]
    BY <1>2
  <2>5. Rest(w) = SubSeq(b, lo + 1, Len(b))
    BY DEF Rest, b, lo
  <2>6. QED
    BY <2>2, <2>3, <2>4, <2>5
<1>6. Serves(w, u) /\ InProgress(u) = seg \o left
  <2>1. Serves(w, u)
    BY <1>2 DEF Serves
  <2>2. QED
    BY <1>2, <1>5, <2>1 DEF InboxMany
<1>7. InProgress(u)' = left /\ \A t \in Threads : t # u => ~Serves(w, t)'
  <2>1. CASE NextSegment(w)
    <3>1. pos'[w] = hi /\ batch' = batch /\ pc' = pc
      BY <2>1 DEF NextSegment, TypeOK
    <3>2. Rest(w)' = left
      BY <3>1 DEF Rest
    <3>3. \A t : Serves(w, t)' <=> t = u
      BY <1>2, <3>1 DEF Serves, ThreadOfWorker
    <3>4. QED
      BY <1>2, <3>2, <3>3 DEF InboxMany
  <2>2. CASE FinishBatch(w)
    <3>1. hi = Len(b) /\ pc'[w] = "idle"
      BY <2>2 DEF FinishBatch, TypeOK
    <3>2. left = <<>>
      BY <1>2, <3>1
    <3>3. \A t : ~Serves(w, t)'
      BY <3>1 DEF Serves
    <3>4. \A v \in Workers \ {w} : ~Serves(v, u)'
      <4>1. \A v \in Workers \ {w} : ~Serves(v, u)
        BY <1>2, UndisturbedExclusive DEF ThreadExclusive, Serves
      <4>2. QED
        BY <1>4, <4>1 DEF Others, Serves, ThreadOfWorker
    <3>5. QED
      BY <1>2, <3>2, <3>3, <3>4 DEF InboxMany
  <2>3. QED
    BY <2>1, <2>2
<1>8. ASSUME NEW t \in Threads
      PROVE  /\ Waiting(t)' = Waiting(t)
             /\ InThread(SetAside \o queue, t)' = InThread(SetAside \o queue, t)
             /\ t # u => InProgress(t)' = InProgress(t)
  <2>1. Waiting(t)' = Waiting(t)
    BY <1>2, <1>4, ElsewhereWaiting
  <2>2. InThread(SetAside \o queue, t)' = InThread(SetAside \o queue, t)
    BY <1>4 DEF SetAside
  <2>3. t # u => ~Serves(w, t)
    BY DEF Serves
  <2>4. t # u => InProgress(t)' = InProgress(t)
    BY <1>4, <1>7, <2>3, ElsewhereInProgress
  <2>5. QED
    BY <2>1, <2>2, <2>4
<1>9. Inbox(u) \in Seq(Messages) /\ Inbox(u)' \in Seq(Messages)
      /\ Inbox(u) = seg \o Inbox(u)'
  <2>1. PICK W, X : W = Waiting(u) /\ X = InThread(SetAside \o queue, u)
    OBVIOUS
  <2>2. W \in Seq(Messages) /\ X \in Seq(Messages)
    <3>1. SetAside \in Seq(Item) /\ queue \in Seq(Item)
      BY <1>2, PlaceTypes DEF InboxMany
    <3>2. SetAside \o queue \in Seq(Item)
      BY <3>1, ConcatTypes
    <3>3. QED
      BY <1>2, <2>1, <3>2, InThreadType DEF InboxMany
  <2>3. Inbox(u) = ((seg \o left) \o W) \o X
    BY <1>6, <2>1 DEF Inbox
  <2>4. Inbox(u)' = (left \o W) \o X
    BY <1>2, <1>7, <1>8, <2>1 DEF Inbox
  <2> HIDE DEF seg, left
  <2>5. /\ (left \o W) \o X \in Seq(Messages)
        /\ ((seg \o left) \o W) \o X = seg \o ((left \o W) \o X)
        /\ ((seg \o left) \o W) \o X \in Seq(Messages)
    BY <1>5, <2>2, SMTT(30)
  <2>6. QED
    BY <2>3, <2>4, <2>5
<1>10. /\ Len(seg) \in 1..BurstMax
       /\ Len(seg) > 1 => \A i \in DOMAIN seg : seg[i] \notin Commands \ Unroutable
  <2>1. Len(b) <= BurstMax /\ IsSegment(b, lo, hi) /\ BurstMax \in Nat
    BY <1>2 DEF Lined, InTurn, BurstMax, PoolAssumption
  <2>2. DOMAIN seg = 1..(hi - lo)
    BY <1>5, LenProperties
  <2> HIDE DEF seg, b, lo, hi
  <2>3. Len(seg) \in 1..BurstMax
    BY <1>2, <1>5, <2>1
  <2>4. ASSUME Len(seg) > 1, NEW i \in DOMAIN seg
        PROVE  seg[i] \notin Commands \ Unroutable
    <3>1. hi # lo + 1
      BY <1>2, <1>5, <2>4
    <3>2. \A j \in (lo + 1)..hi : ~IsCommand(b[j])
      BY <2>1, <3>1 DEF IsSegment
    <3>3. lo + i \in (lo + 1)..hi /\ seg[i] = b[lo + i]
      BY <1>2, <1>5, <2>2
    <3>4. QED
      BY <3>2, <3>3 DEF IsCommand
  <2>5. QED
    BY <2>3, <2>4
<1> DEFINE box == [t \in Threads |-> Inbox(t)]
           n == Len(seg)
<1>11. /\ n \in 1..Len(box[u]) /\ SubSeq(box[u], 1, n) = seg
       /\ SubSeq(box[u], n + 1, Len(box[u])) = Inbox(u)'
  <2>1. PICK z, y : z = Inbox(u)' /\ y = box[u]
    OBVIOUS
  <2>2. z \in Seq(Messages) /\ y = seg \o z
    BY <1>2, <1>9, <2>1
  <2> HIDE DEF seg, box
  <2>3. /\ Len(seg) \in Nat /\ Len(seg) <= Len(seg \o z)
        /\ SubSeq(seg \o z, 1, Len(seg)) = seg
        /\ SubSeq(seg \o z, Len(seg) + 1, Len(seg \o z)) = z
    BY <1>5, <2>2, FirstPart
  <2>4. Len(seg \o z) \in Nat /\ Len(seg) >= 1
    BY <1>5, <1>10, <2>2, ConcatProperties, LenProperties
  <2>5. n \in 1..Len(seg \o z)
    BY <2>3, <2>4
  <2>6. QED
    BY <2>1, <2>2, <2>3, <2>5
<1>12. box' = [box EXCEPT ![u] = SubSeq(@, n + 1, Len(@))]
  <2>1. \A t \in Threads : t # u => Inbox(t)' = Inbox(t)
    BY <1>8 DEF Inbox
  <2>2. box' = [t \in Threads |-> Inbox(t)']
    OBVIOUS
  <2>3. box' = [box EXCEPT ![u] = Inbox(u)']
    BY <1>2, <2>1, <2>2
  <2> HIDE DEF box, n, seg
  <2>4. QED
    BY <1>11, <2>3
<1>13. served' = [served EXCEPT ![u] = @ \o SubSeq(box[u], 1, n)]
  BY <1>3, <1>11
<1> HIDE DEF seg
<1>14. QED
  BY <1>10, <1>11, <1>12, <1>13 DEF Turns!Serve, Turns!IsTurn

(* A step that touches none of what the inboxes are made of.               *)
LEMMA QuietMapped ==
    ASSUME UNCHANGED <<pc, batch, pos, waiters, deferred, queue, served>>
    PROVE  UNCHANGED Turns!fifoVars
<1>1. \A t \in Threads : Inbox(t)' = Inbox(t)
  BY DEF Inbox, InProgress, Serves, ThreadOfWorker, Waiting, SetAside
<1>2. QED
  BY <1>1 DEF Turns!fifoVars

(* A step that leaves what the inboxes hold: somebody took an item.        *)
LEMMA TakenMapped ==
    ASSUME \A t \in Threads : Inbox(t)' = Inbox(t), served' = served
    PROVE  UNCHANGED Turns!fifoVars
BY DEF Turns!fifoVars

LEMMA AcceptMapped ==
    ASSUME PoolAssumption, TypeOK, InboxMany, NEW m \in Messages, queue' = Append(queue, m),
           UNCHANGED <<pc, batch, pos, waiters, deferred, served>>
    PROVE  Turns!Accept(m)
<1> DEFINE box == [t \in Threads |-> Inbox(t)]
<1>1. m \in Item /\ ThreadOf[m] \in Threads
  BY DEF Item, PoolAssumption
<1>2. \A t \in Threads : SameThread(m, t) <=> t = ThreadOf[m]
  BY DEF SameThread, PoolAssumption
<1>3. \A t \in Threads : Inbox(t)' = IF t = ThreadOf[m] THEN Append(Inbox(t), m) ELSE Inbox(t)
  BY <1>1, <1>2, PutMapped
<1>4. box' = [t \in Threads |-> Inbox(t)']
  OBVIOUS
<1>5. box' = [box EXCEPT ![ThreadOf[m]] = Append(@, m)]
  BY <1>1, <1>3, <1>4
<1>6. QED
  BY <1>5 DEF Turns!Accept

LEMMA SentinelMapped ==
    ASSUME PoolAssumption, TypeOK, InboxMany, queue' = Append(queue, None),
           UNCHANGED <<pc, batch, pos, waiters, deferred, served>>
    PROVE  UNCHANGED Turns!fifoVars
<1>1. None \in Item /\ \A t : ~SameThread(None, t)
  BY DEF Item, SameThread
<1>2. \A t \in Threads : Inbox(t)' = Inbox(t)
  BY <1>1, PutMapped
<1>3. QED
  BY <1>2, TakenMapped

(* What holds of the pool while it is undisturbed.                         *)
InLineInv == TypeOK /\ LockInv /\ Kept /\ Lined

LEMMA InLineMapped ==
    ASSUME PoolAssumption, Undisturbed, InLineInv
    PROVE  InboxOne /\ InboxMany
BY MappingOne, MappingMany DEF InLineInv, Kept

LEMMA TakeDeferredMapped ==
    ASSUME PoolAssumption, Undisturbed, InLineInv, TypeOK', InboxOne, InboxOne',
           NEW w \in Workers, TakeDeferred(w)
    PROVE  UNCHANGED Turns!fifoVars
<1>1. /\ pc[w] = "idle" /\ deferred[w] # <<>> /\ served' = served
      /\ Consume(w, Head(deferred[w]), queue)
  BY DEF TakeDeferred
<1>2. OneWorker /\ TypeOK /\ Shape
  BY <1>1 DEF InLineInv, Lined, InTurn, Kept
<1>3. Workers = {w}
  BY <1>2 DEF OneWorker
<1>4. deferred[w] \in Seq(Item) /\ queue \in Seq(Item)
  BY <1>2 DEF TypeOK
<1>5. Head(deferred[w]) \in Item
  BY <1>1, <1>4, HeadTailProperties
<1>6. deferred[w] \o queue = <<Head(deferred[w])>> \o queue
  <2>1. Len(deferred[w]) <= 1 /\ Len(deferred[w]) # 0 /\ Len(deferred[w]) \in Nat
    BY <1>1, <1>2, <1>4, EmptySeq, LenProperties DEF Shape
  <2>2. Len(deferred[w]) = 1
    <3> DEFINE n == Len(deferred[w])
    <3>1. n <= 1 /\ n # 0 /\ n \in Nat
      BY <2>1
    <3> HIDE DEF n
    <3>2. n = 1
      BY <3>1
    <3>3. QED
      BY <3>2 DEF n
  <2>3. deferred[w] = <<Head(deferred[w])>>
    BY <1>4, <2>2
  <2>4. QED
    BY <2>3
<1>7. \A t \in Threads : Inbox(t)' = Inbox(t)
  <2>1. PICK item : item = Head(deferred[w])
    OBVIOUS
  <2>2. QED
    BY <1>1, <1>2, <1>3, <1>4, <1>5, <1>6, <2>1, TakeOneMapped
<1>8. QED
  BY <1>1, <1>7, TakenMapped

LEMMA TakeFromQueueMapped ==
    ASSUME PoolAssumption, Undisturbed, InLineInv, TypeOK', InboxOne, InboxOne',
           InboxMany, InboxMany', NEW w \in Workers, TakeFromQueue(w)
    PROVE  UNCHANGED Turns!fifoVars
<1>1. /\ pc[w] = "idle" /\ deferred[w] = <<>> /\ queue # <<>> /\ served' = served
      /\ Consume(w, Head(queue), Tail(queue))
  BY DEF TakeFromQueue
<1>2. TypeOK /\ LockInv /\ Shape /\ Lined
  BY DEF InLineInv, Kept
<1>3. queue \in Seq(Item)
  BY <1>2 DEF TypeOK
<1>4. PICK item, q : item = Head(queue) /\ q = Tail(queue)
  OBVIOUS
<1>5. item \in Item /\ q \in Seq(Item)
  BY <1>1, <1>3, <1>4, HeadTailProperties
<1>6. queue = <<item>> \o q
  BY <1>1, <1>3, <1>4
<1>7. Consume(w, item, q)
  BY <1>1, <1>4
<1>8. CASE OneWorker
  <2>1. Workers = {w}
    BY <1>8 DEF OneWorker
  <2>2. deferred[w] \o queue = <<item>> \o q
    <3>1. <<>> \o queue = queue
      BY <1>3, WholeStretch
    <3>2. QED
      BY <1>1, <1>6, <3>1
  <2>3. \A t \in Threads : Inbox(t)' = Inbox(t)
    BY <1>1, <1>2, <1>5, <1>7, <2>1, <2>2, TakeOneMapped
  <2>4. QED
    BY <1>1, <2>3, TakenMapped
<1>9. CASE ~OneWorker
  <2>1. \A t \in Threads : Inbox(t)' = Inbox(t)
    BY <1>1, <1>2, <1>5, <1>6, <1>7, <1>9, TakeManyMapped
  <2>2. QED
    BY <1>1, <2>1, TakenMapped
<1>10. QED
  BY <1>8, <1>9

(* Every step of the pool is a step of ThreadFifo, or none.                *)
LEMMA StepMapped ==
    ASSUME PoolAssumption, Undisturbed, InLineInv, InLineInv', [Next]_vars,
           InboxOne, InboxMany, InboxOne', InboxMany'
    PROVE  [Turns!Next]_(Turns!fifoVars)
<1>1. TypeOK /\ TypeOK' /\ LockInv /\ Shape /\ Lined
  BY DEF InLineInv, Kept
<1>2. ASSUME NEW m \in Messages, Enqueue(m)
      PROVE  [Turns!Next]_(Turns!fifoVars)
  <2>1. UNCHANGED <<pc, batch, pos, waiters, deferred, served>>
    BY <1>2 DEF Enqueue, lockVars, history
  <2>2. queue' = queue \/ queue' = Append(queue, m)
    BY <1>2 DEF Enqueue, Put
  <2>3. UNCHANGED Turns!fifoVars \/ Turns!Accept(m)
    BY <1>1, <2>1, <2>2, QuietMapped, AcceptMapped
  <2>4. QED
    BY <2>3 DEF Turns!Next
<1>3. CASE PutResumes
  <2>1. UNCHANGED <<pc, batch, pos, waiters, deferred, served>> /\ queue' = Append(queue, putting)
    BY <1>3 DEF PutResumes, Put, lockVars, history
  <2>2. putting \in Messages
    BY <1>1, <1>3 DEF PutResumes, TypeOK, Item
  <2>3. Turns!Accept(putting)
    <3>1. PICK m \in Messages : m = putting
      BY <2>2
    <3>2. Turns!Accept(m)
      BY <1>1, <2>1, <3>1, AcceptMapped
    <3>3. QED
      BY <3>1, <3>2
  <2>4. QED
    BY <2>2, <2>3 DEF Turns!Next
<1>4. CASE PutSentinel
  <2>1. UNCHANGED <<pc, batch, pos, waiters, deferred, served>> /\ queue' = Append(queue, None)
    BY <1>4 DEF PutSentinel, lockVars, history
  <2>2. QED
    BY <1>1, <2>1, SentinelMapped
<1>5. ASSUME NEW w \in Workers, Wake(w)
      PROVE  [Turns!Next]_(Turns!fifoVars)
  <2>1. \A t \in Threads : Inbox(t)' = Inbox(t)
    BY <1>1, <1>5, WakeMapped
  <2>2. served' = served
    BY <1>5 DEF Wake
  <2>3. QED
    BY <2>1, <2>2, TakenMapped
<1>6. ASSUME NEW w \in Workers, NextSegment(w) \/ FinishBatch(w)
      PROVE  [Turns!Next]_(Turns!fifoVars)
  <2>1. PICK u : u = ThreadOfWorker(w)
    OBVIOUS
  <2>2. Turns!Serve(u)
    BY <1>1, <1>6, <2>1, EndMapped
  <2>3. u \in Threads
    <3>1. EndSegment(w)
      BY <1>6 DEF NextSegment, FinishBatch
    <3>2. QED
      BY <1>1, <2>1, <3>1, EndServes
  <2>4. QED
    BY <2>2, <2>3 DEF Turns!Next
<1>7. CASE \E w \in Workers : WorkerStep(w)
  <2>1. PICK w \in Workers : WorkerStep(w)
    BY <1>7
  <2>2. CASE TakeDeferred(w) \/ TakeFromQueue(w)
    BY <1>1, <2>2, TakeDeferredMapped, TakeFromQueueMapped
  <2>3. QED
    BY <1>5, <1>6, <2>1, <2>2 DEF WorkerStep
<1>8. CASE (\E t \in Threads : Age(t)) \/ Stop \/ StopReturns \/ Terminated \/ UNCHANGED vars
  <2>1. UNCHANGED <<pc, batch, pos, waiters, deferred, queue, served>>
    BY <1>8 DEF Age, Stop, StopReturns, Terminated, vars, lockVars, history
  <2>2. QED
    BY <2>1, QuietMapped
<1>9. QED
  BY <1>2, <1>3, <1>4, <1>7, <1>8 DEF Next

LEMMA InitMapped ==
    ASSUME PoolAssumption, Init
    PROVE  Turns!Init
<1>1. ASSUME NEW t \in Threads
      PROVE  Inbox(t) = <<>>
  <2>1. InProgress(t) = <<>> /\ SetAside = <<>>
    BY DEF Init, InProgress, Serves, SetAside
  <2>2. Waiting(t) = <<>>
    <3>1. DOMAIN waiters[t] = {}
      BY DEF Init
    <3>2. Waiting(t) = [i \in {} |-> batch[waiters[t][i]][1]]
      BY <3>1 DEF Waiting
    <3>3. QED
      BY <3>2
  <2>3. queue = <<>>
    BY DEF Init
  <2>4. <<>> \o <<>> = <<>>
    OBVIOUS
  <2>5. InThread(<<>> \o <<>>, t) = <<>>
    BY <2>4, InThreadEmpty
  <2>6. QED
    BY <2>1, <2>2, <2>3, <2>4, <2>5 DEF Inbox
<1>2. [t \in Threads |-> Inbox(t)] = [t \in Threads |-> <<>>]
  BY <1>1
<1>3. QED
  BY <1>2 DEF Init, Turns!Init

(* The pool gives every conversation an inbox of its own: while it is      *)
(* undisturbed, each of its steps accepts a message at the end of one      *)
(* inbox, serves a turn (a command, or a burst without commands) from the  *)
(* front of one, or is invisible.                                          *)
THEOREM PoolKeepsInboxes ==
    ASSUME Undisturbed
    PROVE  Spec => Turns!Safety
<1> DEFINE Mapped == InboxOne /\ InboxMany
<1>1. Init => InLineInv /\ Turns!Init
  BY PoolAssumption, InitInv, InitKept, InitLined, InitMapped DEF InLineInv
<1>2. InLineInv /\ [Next]_vars => InLineInv'
  BY PoolAssumption, NextInv, NextKeeps, NextLined DEF InLineInv, Kept
<1>3. InLineInv => Mapped
  BY PoolAssumption, InLineMapped
<1>4. InLineInv /\ Mapped /\ InLineInv' /\ Mapped' /\ [Next]_vars
         => [Turns!Next]_(Turns!fifoVars)
  BY PoolAssumption, StepMapped
<1>5. QED
  BY <1>1, <1>2, <1>3, <1>4, PTL DEF Spec, Turns!Safety

=============================================================================
