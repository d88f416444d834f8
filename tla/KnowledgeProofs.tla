-------------------------- MODULE KnowledgeProofs --------------------------
(***************************************************************************)
(* The bound and the order of the vector cache, the truth of the vectors,  *)
(* the retention of a conversation, and what an answer holds and in which  *)
(* order, for any conversations, texts, queries, bounds and retention of   *)
(* Knowledge.                                                              *)
(***************************************************************************)
EXTENDS Knowledge, FiniteSetTheorems, SequenceTheorems, TLAPS

(* What is in the cache was written in the past, and fits.                 *)
Bounded == CacheMax > 0 => Cardinality(cache) <= CacheMax
Past == \A e \in cache : e.second \in Int /\ e.second <= clock

CacheInv == clock \in Int /\ Bounded /\ Past

(* What a step may do to the cache: CacheForgetsOldest.                    *)
Forgets ==
    /\ CacheMax > 0 => Cardinality(cache') <= CacheMax
    /\ \A e \in cache, f \in cache \cap cache' :
          (\A g \in cache' : g.key # e.key) => e.second <= f.second

-----------------------------------------------------------------------------
(* Writing to the cache, whatever is written: the entries that stay are    *)
(* bounded and of the past, and what is missing is older.                  *)
LEMMA RememberForgets ==
    ASSUME CacheInv, NEW pairs, Remember(pairs), clock' = clock
    PROVE  CacheInv' /\ Forgets
<1> DEFINE written == {[key |-> p.key, vec |-> p.vec, second |-> clock] : p \in pairs}
           all == written \cup {e \in cache : \A p \in pairs : e.key # p.key}
<1>1. PICK left \in SUBSET all :
        /\ LeavesNewest(left, all)
        /\ Cardinality(left) = IF CacheMax = 0 \/ Cardinality(all) <= CacheMax
                               THEN Cardinality(all) ELSE CacheMax
        /\ cache' = left
  BY DEF Remember
<1>2. CacheMax \in Nat
  BY KnowledgeAssumption DEF KnowledgeAssumption
<1>3. CacheMax > 0 => Cardinality(cache') <= CacheMax
  BY <1>1, <1>2
<1>4. \A e \in all : e.second \in Int /\ e.second <= clock
  <2>1. \A e \in written : e.second = clock
    OBVIOUS
  <2>2. QED
    BY <2>1 DEF CacheInv, Past
<1>5. CacheInv'
  BY <1>1, <1>3, <1>4 DEF CacheInv, Bounded, Past
<1>6. ASSUME NEW e \in cache, NEW f \in cache \cap cache', \A g \in cache' : g.key # e.key
      PROVE  e.second <= f.second
  <2>1. CASE e \in all
    <3>1. e \notin left
      BY <1>1, <1>6
    <3>2. QED
      BY <1>1, <1>4, <2>1, <3>1 DEF LeavesNewest
  <2>2. CASE e \notin all
    (* Its key was written anew, and the new entry did not stay either.    *)
    <3>1. PICK p \in pairs : e.key = p.key
      BY <2>2
    <3> DEFINE new == [key |-> p.key, vec |-> p.vec, second |-> clock]
    <3>2. new \in all /\ new.key = e.key /\ new.second = clock
      BY <3>1
    <3>3. new \notin left
      BY <1>1, <1>6, <3>2
    <3>4. f.second >= clock
      BY <1>1, <3>2, <3>3 DEF LeavesNewest
    <3>5. QED
      BY <1>1, <1>4, <3>4 DEF CacheInv, Past
  <2>3. QED
    BY <2>1, <2>2
<1>7. QED
  BY <1>3, <1>5, <1>6 DEF Forgets

(* A step that leaves the cache alone forgets nothing.                     *)
LEMMA UnchangedForgets ==
    ASSUME CacheInv, cache' = cache, clock' \in Int, clock' >= clock
    PROVE  CacheInv' /\ Forgets
BY DEF CacheInv, Bounded, Past, Forgets

LEMMA NextForgets ==
    ASSUME CacheInv, [Next]_vars
    PROVE  CacheInv' /\ Forgets
<1>1. CASE CacheDocuments
  BY <1>1, RememberForgets DEF CacheDocuments
<1>2. CASE CacheQuery
  BY <1>2, RememberForgets DEF CacheQuery
<1>3. CASE Tick
  <2>1. cache' = cache /\ clock' \in Int /\ clock' >= clock
    BY <1>3 DEF Tick, CacheInv
  <2>2. QED
    BY <2>1, UnchangedForgets
<1>4. CASE IndexTurn \/ Lookup \/ EmbedDocuments \/ Insert \/ Prune \/ IndexFails
  <2>1. cache' = cache /\ clock' = clock
    BY <1>4 DEF IndexTurn, Lookup, EmbedDocuments, Insert, Prune, IndexFails
  <2>2. QED
    BY <2>1, UnchangedForgets DEF CacheInv
<1>5. CASE \/ Search \/ QueryVector \/ SearchDense \/ SearchSparse \/ Answer
           \/ SearchFails \/ Rest \/ UNCHANGED vars
  <2>1. cache' = cache /\ clock' = clock
    BY <1>5 DEF Search, QueryVector, SearchDense, SearchSparse, Answer, SearchFails,
                Rest, vars
  <2>2. QED
    BY <2>1, UnchangedForgets DEF CacheInv
<1>6. QED
  BY <1>1, <1>2, <1>3, <1>4, <1>5 DEF Next, IndexStep, SearchStep

(* EmbeddingCache.set and mset: for any bound and any times, the cache     *)
(* never outgrows its bound, and forgets nothing newer than what it keeps. *)
THEOREM OldestForgotten == Spec => CacheForgetsOldest
<1>1. Init => CacheInv
  <2>1. Cardinality({}) = 0
    BY FS_EmptySet
  <2>2. QED
    BY <2>1, KnowledgeAssumption DEF Init, CacheInv, Bounded, Past, KnowledgeAssumption
<1>2. CacheInv /\ [Next]_vars => CacheInv' /\ Forgets
  BY NextForgets
<1>3. Forgets => [Forgets]_vars
  OBVIOUS
<1>4. QED
  BY <1>1, <1>2, <1>3, PTL DEF Spec, CacheForgetsOldest, Forgets

-----------------------------------------------------------------------------
(* The invariant of the vectors, of the collection, of the task and of the *)
(* search, by the part of the state each speaks of.                        *)

Row == [pk : Nat, thread : Threads, second : 0..LastSecond, text : Texts, vec : Keys]

Entry == [key : Keys, vec : Keys, second : 0..LastSecond]

Counters ==
    /\ clock \in 0..LastSecond /\ lock \in {"free", "indexer"}
    /\ tasks \in 0..LastTask /\ searches \in 0..LastSearch /\ unpruned \subseteq Threads

CacheTrue ==
    /\ cache \subseteq Entry
    /\ \A e, f \in cache : e.key = f.key => e = f
    /\ \A e \in cache : e.vec = e.key

(* The keys of the rows of earlier tasks lie below those of this one.      *)
Inserting == task.at \in {"lookup", "embed", "cache", "insert"}

RowsTrue ==
    /\ rows \subseteq Row /\ IsFiniteSet(rows)
    /\ \A r, t \in rows : r.pk = t.pk => r = t
    /\ \A r \in rows : r.vec = Embedding("document", r.text)
    /\ \A r \in rows : r.pk <= 2 * tasks + (IF Inserting THEN 0 ELSE 2)

(* The task in progress has one or two texts, and a vector for every text  *)
(* that is not still missing, its own.                                     *)
TaskShape ==
    task.at # "idle" =>
        /\ DOMAIN task = {"at", "thread", "texts", "second", "vecs", "fresh"}
        /\ task.thread \in Threads /\ task.second \in 0..LastSecond
        /\ task.texts \in Seq(Texts) /\ Len(task.texts) \in 1..2

Missing(i) == task.at = "embed" /\ i \in task.fresh

VectorsOfTask ==
    task.at \in {"embed", "cache", "insert"} =>
        /\ task.fresh \subseteq DOMAIN task.texts /\ DOMAIN task.vecs = DOMAIN task.texts
        /\ \A i \in DOMAIN task.texts :
              Missing(i) \/ task.vecs[i] = Embedding("document", task.texts[i])

TaskTrue ==
    /\ task.at \in {"idle", "lookup", "embed", "cache", "insert", "prune"}
    /\ TaskShape /\ VectorsOfTask

SearchShape ==
    search.at # "idle" =>
        /\ DOMAIN search = {"at", "thread", "query", "since", "wide", "vec", "dense",
                            "sparse", "own", "result"}
        /\ search.query \in Queries /\ search.since \in 0..LastSecond
        /\ search.dense \in Seq(Row) /\ search.sparse \in Seq(Row)

QueryOwn ==
    search.at \in {"dense", "cache"} => search.vec = Embedding("query", search.query.text)

(* What has been found is what was asked for.                              *)
Close(r, list) == r.second >= search.since /\ r.text \in Range(list)

Found ==
    search.at # "idle" =>
        /\ \A r \in Range(search.dense) : Close(r, search.query.dense)
        /\ \A r \in Range(search.sparse) : Close(r, search.query.sparse)

Searched ==
    /\ search.at \in {"merge", "done"} => search.wide \/ search.thread = All \/ Enough(search)
    /\ search.at = "done" => search.result \in RrfMerge(search.dense, search.sparse)

SearchTrue ==
    /\ search.at \in {"idle", "vector", "cache", "dense", "sparse", "merge", "done"}
    /\ SearchShape /\ QueryOwn /\ Found /\ Searched

IInv == Counters /\ CacheTrue /\ RowsTrue /\ TaskTrue /\ SearchTrue

LEMMA InvVectorsTrue ==
    ASSUME IInv PROVE VectorsTrue
BY DEF IInv, VectorsTrue, TypeOK, Counters, CacheTrue, RowsTrue, TaskTrue, SearchTrue,
       QueryOwn, Row, Entry

LEMMA InitInv ==
    ASSUME Init PROVE IInv
<1>1. Counters
  BY KnowledgeAssumption DEF Init, Counters
<1>2. RowsTrue
  BY FS_EmptySet DEF Init, RowsTrue
<1>3. CacheTrue /\ TaskTrue /\ SearchTrue
  BY DEF Init, CacheTrue, TaskTrue, SearchTrue, TaskShape, VectorsOfTask, SearchShape,
         QueryOwn, Found, Searched, NoTask, NoSearch
<1>4. QED
  BY <1>1, <1>2, <1>3 DEF IInv

-----------------------------------------------------------------------------
(* The cache answers with the vector of the key it was asked for.          *)
LEMMA CachedTrue ==
    ASSUME CacheTrue, NEW key
    PROVE  Cached(key) = None \/ Cached(key) = key
BY DEF Cached, CacheTrue

(* Writing pairs of a key and its own vector.                              *)
LEMMA RememberTrue ==
    ASSUME CacheTrue, clock \in 0..LastSecond, NEW pairs, Remember(pairs),
           \A p \in pairs : p.key \in Keys /\ p.vec = p.key
    PROVE  CacheTrue'
<1> DEFINE written == {[key |-> p.key, vec |-> p.vec, second |-> clock] : p \in pairs}
           kept == {e \in cache : \A p \in pairs : e.key # p.key}
<1>1. cache' \subseteq written \cup kept
  BY DEF Remember
<1>2. \A e \in written : e = [key |-> e.key, vec |-> e.key, second |-> clock] /\ e \in Entry
  BY DEF Entry
<1>3. \A e \in written, f \in kept : e.key # f.key
  OBVIOUS
<1>4. \A e \in written \cup kept : e \in Entry /\ e.vec = e.key
  BY <1>2 DEF CacheTrue
<1>5. \A e, f \in written \cup kept : e.key = f.key => e = f
  <2>1. \A e, f \in written : e.key = f.key => e = f
    BY <1>2
  <2>2. \A e, f \in kept : e.key = f.key => e = f
    BY DEF CacheTrue
  <2>3. QED
    BY <1>3, <2>1, <2>2
<1>6. QED
  BY <1>1, <1>4, <1>5 DEF CacheTrue

(* A turn has the texts that are not blank, one or two.                    *)
LEMMA SaidTexts ==
    ASSUME NEW message \in Texts \cup {Blank}, NEW reply \in Texts \cup {Blank},
           Said(message, reply) # <<>>
    PROVE  Said(message, reply) \in Seq(Texts) /\ Len(Said(message, reply)) \in 1..2
<1> DEFINE first == IF message = Blank THEN <<>> ELSE <<message>>
           second == IF reply = Blank THEN <<>> ELSE <<reply>>
<1>1. first \in Seq(Texts) /\ Len(first) \in 0..1
  OBVIOUS
<1>2. second \in Seq(Texts) /\ Len(second) \in 0..1
  OBVIOUS
<1>3. Said(message, reply) = first \o second
  BY DEF Said
<1> HIDE DEF first, second
<1>4. Said(message, reply) \in Seq(Texts) /\ Len(Said(message, reply)) \in 0..2
  BY <1>1, <1>2, <1>3, ConcatProperties
<1>5. QED
  BY <1>4, EmptySeq

(* Of an increasing list of some of two numbers, the j-th is the number    *)
(* that has j of them up to itself.                                        *)
LEMMA IndexOfRank ==
    ASSUME NEW fresh \in SUBSET (1..2), NEW idxs \in [1..Cardinality(fresh) -> fresh],
           \A j, k \in DOMAIN idxs : j < k => idxs[j] < idxs[k],
           NEW i \in fresh
    PROVE  /\ Cardinality(fresh \cap 1..i) \in DOMAIN idxs
           /\ idxs[Cardinality(fresh \cap 1..i)] = i
<1>1. Cardinality({1}) = 1 /\ Cardinality({2}) = 1 /\ Cardinality({1, 2}) = 2
  <2>1. IsFiniteSet({1}) /\ Cardinality({1}) = 1 /\ Cardinality({2}) = 1
    BY FS_Singleton
  <2>2. 2 \notin {1} /\ {1} \cup {2} = {1, 2}
    OBVIOUS
  <2>3. Cardinality({1} \cup {2}) = IF 2 \in {1} THEN Cardinality({1}) ELSE Cardinality({1}) + 1
    BY <2>1, FS_AddElement
  <2>4. Cardinality({1} \cup {2}) = 2
    BY <2>1, <2>2, <2>3
  <2>5. Cardinality({1, 2}) = 2
    BY <2>2, <2>4, Zenon
  <2>6. QED
    BY <2>1, <2>5
<1>2. fresh = {1} \/ fresh = {2} \/ fresh = {1, 2}
  <2>1. \A j \in fresh : j = 1 \/ j = 2
    OBVIOUS
  <2>2. CASE 1 \in fresh /\ 2 \in fresh
    BY <2>1, <2>2
  <2>3. CASE 1 \notin fresh \/ 2 \notin fresh
    BY <2>1, <2>3
  <2>4. QED
    BY <2>2, <2>3
<1>3. CASE fresh = {1}
  <2>1. fresh \cap 1..i = {1}
    BY <1>3
  <2>2. QED
    BY <1>1, <1>3, <2>1
<1>4. CASE fresh = {2}
  <2>1. fresh \cap 1..i = {2}
    BY <1>4
  <2>2. QED
    BY <1>1, <1>4, <2>1
<1>5. CASE fresh = {1, 2}
  <2>1. DOMAIN idxs = 1..2 /\ idxs[1] \in {1, 2} /\ idxs[2] \in {1, 2}
    BY <1>1, <1>5
  <2>2. idxs[1] = 1 /\ idxs[2] = 2
    BY <2>1
  <2>3. fresh \cap 1..i = IF i = 1 THEN {1} ELSE {1, 2}
    BY <1>5
  <2>4. QED
    BY <1>1, <1>5, <2>1, <2>2, <2>3
<1>6. QED
  BY <1>2, <1>3, <1>4, <1>5

-----------------------------------------------------------------------------
(* The steps of the index worker.                                          *)

LEMMA IndexTurnInv ==
    ASSUME IInv, IndexTurn PROVE TaskTrue' /\ RowsTrue' /\ Counters'
<1>1. PICK thread \in Threads, message \in Texts \cup {Blank}, reply \in Texts \cup {Blank} :
        /\ Said(message, reply) # <<>>
        /\ task' = [at |-> "lookup", thread |-> thread, texts |-> Said(message, reply),
                    second |-> clock, vecs |-> <<>>, fresh |-> {}]
  BY DEF IndexTurn
<1> DEFINE texts == Said(message, reply)
<1>2. texts \in Seq(Texts) /\ Len(texts) \in 1..2
  BY <1>1, SaidTexts
<1> HIDE DEF texts
<1>3. /\ tasks' = tasks + 1 /\ rows' = rows /\ clock' = clock /\ lock' = lock
      /\ unpruned' = unpruned /\ searches' = searches /\ task.at = "idle" /\ tasks < LastTask
  BY DEF IndexTurn, storeVars, searchVars
<1>4. task' = [at |-> "lookup", thread |-> thread, texts |-> texts,
               second |-> clock, vecs |-> <<>>, fresh |-> {}]
  BY <1>1 DEF texts
<1>5. TaskTrue'
  BY <1>2, <1>4 DEF TaskTrue, TaskShape, VectorsOfTask, IInv, Counters
<1>6. Counters' /\ tasks \in Nat
  BY <1>3, KnowledgeAssumption DEF IInv, Counters, KnowledgeAssumption
<1>7. Inserting' /\ ~Inserting
  BY <1>3, <1>4 DEF Inserting
<1>8. \A r \in rows' : r.pk <= 2 * tasks' + (IF Inserting' THEN 0 ELSE 2)
  <2>1. \A r \in rows : r.pk <= 2 * tasks + 2
    BY <1>7 DEF IInv, RowsTrue
  <2>2. \A r \in rows : r.pk \in Nat
    BY DEF IInv, RowsTrue, Row
  <2>3. QED
    BY <1>3, <1>6, <1>7, <2>1, <2>2
<1>9. RowsTrue'
  BY <1>3, <1>8 DEF IInv, RowsTrue
<1>10. QED
  BY <1>5, <1>6, <1>9

LEMMA LookupInv ==
    ASSUME IInv, Lookup PROVE TaskTrue' /\ RowsTrue'
<1> DEFINE vecs == [i \in DOMAIN task.texts |-> Cached(Key("document", task.texts[i]))]
           missing == {i \in DOMAIN vecs : vecs[i] = None}
<1>1. /\ task.at = "lookup" /\ rows' = rows /\ tasks' = tasks
      /\ task' = [task EXCEPT !.vecs = vecs, !.fresh = missing,
                              !.at = IF missing = {} THEN "insert" ELSE "embed"]
  BY DEF Lookup, storeVars
<1>2. \A i \in DOMAIN task.texts : i \in missing \/ vecs[i] = Embedding("document", task.texts[i])
  BY CachedTrue DEF IInv, Key, Embedding
<1>3. missing \subseteq DOMAIN task.texts /\ DOMAIN vecs = DOMAIN task.texts
  OBVIOUS
<1> HIDE DEF vecs, missing
<1>4. TaskTrue'
  BY <1>1, <1>2, <1>3 DEF IInv, TaskTrue, TaskShape, VectorsOfTask, Missing
<1>5. Inserting /\ Inserting'
  BY <1>1 DEF Inserting, IInv, TaskTrue, TaskShape
<1>6. QED
  BY <1>1, <1>4, <1>5 DEF IInv, RowsTrue

(* Every new vector is put at the place of the text it was computed from.  *)
LEMMA EmbedDocumentsInv ==
    ASSUME IInv, EmbedDocuments PROVE TaskTrue' /\ RowsTrue'
<1> DEFINE texts == task.texts
           fresh == task.fresh
<1>1. PICK idxs \in [1..Cardinality(fresh) -> fresh] :
        /\ \A j, k \in DOMAIN idxs : j < k => idxs[j] < idxs[k]
        /\ task' = [task EXCEPT !.vecs = Filled(@, task.fresh,
                        [j \in DOMAIN idxs |-> Embedding("document", task.texts[idxs[j]])]),
                                !.at = "cache"]
  BY DEF EmbedDocuments
<1>2. task.at = "embed" /\ rows' = rows /\ tasks' = tasks
  BY DEF EmbedDocuments, storeVars
<1> DEFINE new == [j \in DOMAIN idxs |-> Embedding("document", texts[idxs[j]])]
           vecs == Filled(task.vecs, fresh, new)
<1>3. task' = [task EXCEPT !.vecs = vecs, !.at = "cache"]
  BY <1>1
<1>4. /\ texts \in Seq(Texts) /\ Len(texts) \in 1..2 /\ fresh \subseteq DOMAIN texts
      /\ DOMAIN task.vecs = DOMAIN texts
      /\ \A i \in DOMAIN texts : i \in fresh \/ task.vecs[i] = Embedding("document", texts[i])
      /\ DOMAIN task = {"at", "thread", "texts", "second", "vecs", "fresh"}
  BY <1>2 DEF IInv, TaskTrue, TaskShape, VectorsOfTask, Missing
<1>5. fresh \in SUBSET (1..2) /\ DOMAIN texts \subseteq 1..2
  BY <1>4, LenProperties
<1> HIDE DEF texts, fresh
<1>6. \A i \in fresh : /\ Cardinality(fresh \cap 1..i) \in DOMAIN idxs
                       /\ idxs[Cardinality(fresh \cap 1..i)] = i
  BY <1>1, <1>5, IndexOfRank
<1>7. \A i \in fresh : new[Cardinality(fresh \cap 1..i)] = Embedding("document", texts[i])
  BY <1>6
<1>8. DOMAIN vecs = DOMAIN texts /\ \A i \in DOMAIN texts : vecs[i] = Embedding("document", texts[i])
  <2> HIDE DEF new
  <2> QED
    BY <1>4, <1>7 DEF Filled
<1> HIDE DEF vecs, new
<1>9. task'.at = "cache" /\ task'.vecs = vecs /\ task'.texts = texts /\ task'.fresh = fresh
      /\ task'.thread = task.thread /\ task'.second = task.second /\ DOMAIN task' = DOMAIN task
  BY <1>3, <1>4 DEF texts, fresh
<1>10. TaskTrue'
  BY <1>2, <1>4, <1>8, <1>9 DEF IInv, TaskTrue, TaskShape, VectorsOfTask
<1>11. Inserting /\ Inserting'
  BY <1>2, <1>9 DEF Inserting
<1>12. QED
  BY <1>2, <1>10, <1>11 DEF IInv, RowsTrue

LEMMA CacheDocumentsInv ==
    ASSUME IInv, CacheDocuments PROVE TaskTrue' /\ RowsTrue' /\ CacheTrue'
<1> DEFINE pairs == {[key |-> Key("document", task.texts[i]), vec |-> task.vecs[i]] :
                        i \in task.fresh}
<1>1. /\ task.at = "cache" /\ rows' = rows /\ tasks' = tasks /\ Remember(pairs)
      /\ task' = [task EXCEPT !.at = "insert"]
  BY DEF CacheDocuments, storeVars
<1>2. \A i \in task.fresh : /\ task.vecs[i] = Key("document", task.texts[i])
                            /\ Key("document", task.texts[i]) \in Keys
  <2>1. task.texts \in Seq(Texts) /\ task.fresh \subseteq DOMAIN task.texts
    BY <1>1 DEF IInv, TaskTrue, TaskShape, VectorsOfTask
  <2>2. \A i \in task.fresh : task.texts[i] \in Texts
    BY <2>1, ElementOfSeq, LenProperties
  <2>3. QED
    BY <1>1, <2>1, <2>2 DEF IInv, TaskTrue, VectorsOfTask, Missing, Key, Embedding, Keys
<1>3. \A p \in pairs : p.key \in Keys /\ p.vec = p.key
  BY <1>2
<1> HIDE DEF pairs
<1>4. CacheTrue'
  BY <1>1, <1>3, RememberTrue DEF IInv, Counters
<1>5. TaskTrue'
  BY <1>1 DEF IInv, TaskTrue, TaskShape, VectorsOfTask, Missing
<1>6. Inserting /\ Inserting'
  BY <1>1 DEF Inserting, IInv, TaskTrue, TaskShape
<1>7. QED
  BY <1>1, <1>4, <1>5, <1>6 DEF IInv, RowsTrue

(* What Insert adds to the collection.                                     *)
New(i) == [pk |-> 2 * tasks + i, thread |-> task.thread, second |-> task.second,
           text |-> task.texts[i], vec |-> task.vecs[i]]

LEMMA InsertInv ==
    ASSUME IInv, Insert PROVE TaskTrue' /\ RowsTrue' /\ Counters'
<1> DEFINE new == {New(i) : i \in DOMAIN task.texts}
<1>1. /\ task.at = "insert" /\ rows' = rows \cup new /\ tasks' = tasks /\ lock' = "indexer"
      /\ clock' = clock /\ unpruned' = unpruned /\ searches' = searches
      /\ task' = [task EXCEPT !.at = "prune"]
  BY DEF Insert, searchVars, New
<1>2. /\ task.texts \in Seq(Texts) /\ Len(task.texts) \in 1..2 /\ task.thread \in Threads
      /\ task.second \in 0..LastSecond /\ tasks \in Nat
      /\ \A i \in DOMAIN task.texts : task.vecs[i] = Embedding("document", task.texts[i])
  BY <1>1 DEF IInv, TaskTrue, TaskShape, VectorsOfTask, Missing, Counters
<1>3. DOMAIN task.texts \subseteq 1..2 /\ \A i \in DOMAIN task.texts : task.texts[i] \in Texts
  BY <1>2, LenProperties, ElementOfSeq
<1>4. \A i \in DOMAIN task.texts :
        /\ New(i) \in Row /\ New(i).vec = Embedding("document", New(i).text)
        /\ New(i).pk = 2 * tasks + i
  <2>1. \A i \in DOMAIN task.texts : /\ i \in Nat /\ task.texts[i] \in Texts
                                     /\ task.vecs[i] \in Keys
    <3>1. \A text \in Texts : Embedding("document", text) \in Keys
      BY DEF Embedding, Keys
    <3>2. QED
      BY <1>2, <1>3, <3>1
  <2>2. \A i \in DOMAIN task.texts : 2 * tasks + i \in Nat
    BY <1>2, <2>1
  <2>3. QED
    BY <1>2, <2>1, <2>2 DEF New, Row
<1>5. IsFiniteSet(new)
  <2>1. DOMAIN task.texts = 1..Len(task.texts)
    BY <1>2, LenProperties
  <2>2. IsFiniteSet(DOMAIN task.texts)
    BY <1>2, <2>1, FS_Interval
  <2>3. [i \in DOMAIN task.texts |-> New(i)] \in Surjection(DOMAIN task.texts, new)
    BY DEF Surjection
  <2>4. QED
    BY <2>2, <2>3, FS_Surjection
<1>6. \A r \in rows : r.pk \in Nat /\ r.pk <= 2 * tasks
  <2>1. Inserting
    BY <1>1 DEF Inserting
  <2>2. \A r \in rows : r.pk <= 2 * tasks + 0
    BY <2>1 DEF IInv, RowsTrue
  <2>3. QED
    BY <1>2, <2>2 DEF IInv, RowsTrue, Row
<1>7. \A r, t \in rows' : r.pk = t.pk => r = t
  <2>1. \A r \in rows, i \in DOMAIN task.texts : r.pk # New(i).pk
    BY <1>2, <1>3, <1>4, <1>6
  <2>2. \A i, j \in DOMAIN task.texts : New(i).pk = New(j).pk => i = j
    BY <1>2, <1>3, <1>4
  <2>3. \A r, t \in rows : r.pk = t.pk => r = t
    BY DEF IInv, RowsTrue
  <2>4. QED
    BY <1>1, <2>1, <2>2, <2>3
<1>8. \A r \in rows' : r.pk <= 2 * tasks + 2
  BY <1>1, <1>2, <1>3, <1>4, <1>6
<1>9. rows' \subseteq Row /\ \A r \in rows' : r.vec = Embedding("document", r.text)
  BY <1>1, <1>4 DEF IInv, RowsTrue
<1>10. IsFiniteSet(rows')
  BY <1>1, <1>5, FS_Union DEF IInv, RowsTrue
<1>11. ~Inserting'
  BY <1>1 DEF Inserting, IInv, TaskTrue, TaskShape
<1>12. RowsTrue'
  BY <1>1, <1>7, <1>8, <1>9, <1>10, <1>11 DEF RowsTrue
<1>13. TaskTrue'
  BY <1>1 DEF IInv, TaskTrue, TaskShape, VectorsOfTask
<1>14. Counters'
  BY <1>1 DEF IInv, Counters
<1>15. QED
  BY <1>12, <1>13, <1>14

(* Pruning, and a failure at any step.                                     *)
LEMMA TaskOverInv ==
    ASSUME IInv, Prune \/ IndexFails PROVE TaskTrue' /\ RowsTrue' /\ Counters'
<1>1. /\ task' = NoTask /\ rows' \subseteq rows /\ tasks' = tasks /\ searches' = searches
      /\ clock' = clock
  BY DEF Prune, IndexFails, searchVars
<1>2. lock' \in {"free", "indexer"} /\ unpruned' \subseteq Threads
  BY DEF Prune, IndexFails, IInv, Counters, TaskTrue, TaskShape
<1>3. TaskTrue'
  BY <1>1 DEF TaskTrue, TaskShape, VectorsOfTask, NoTask
<1>4. IsFiniteSet(rows')
  BY <1>1, FS_Subset DEF IInv, RowsTrue
<1>5. \A r \in rows' : r.pk <= 2 * tasks + 2
  BY <1>1 DEF IInv, RowsTrue, Row, Counters
<1>6. ~Inserting'
  BY <1>1 DEF Inserting, NoTask
<1>7. RowsTrue'
  BY <1>1, <1>4, <1>5, <1>6 DEF IInv, RowsTrue
<1>8. QED
  BY <1>1, <1>2, <1>3, <1>7 DEF IInv, Counters

-----------------------------------------------------------------------------
(* The steps of a search.                                                  *)

(* The first rows in an order are as many as there are, up to the bound,   *)
(* each once.                                                              *)
LEMMA FirstOfShape ==
    ASSUME NEW found, IsFiniteSet(found), NEW n \in Nat, NEW order,
           NEW list \in FirstOf(found, n, order)
    PROVE  /\ list \in Seq(found) /\ IsInjective(list)
           /\ Len(list) = IF Cardinality(found) < n THEN Cardinality(found) ELSE n
<1>1. Cardinality(found) \in Nat
  BY FS_CardinalityType
<1> DEFINE length == IF Cardinality(found) < n THEN Cardinality(found) ELSE n
<1>2. list \in [1..length -> found] /\ IsInjective(list) /\ length \in Nat
  BY <1>1 DEF FirstOf
<1> HIDE DEF length
<1>3. list \in Seq(found) /\ Len(list) = length
  BY <1>2, SeqDef, LenProperties
<1>4. QED
  BY <1>2, <1>3 DEF length

(* One search returns rows of the collection that lie in the window, pass  *)
(* the filter and say what was looked for.                                 *)
LEMMA HitsFound ==
    ASSUME IInv, NEW says, NEW list, NEW hits \in Hits(list, says)
    PROVE  /\ hits \in Seq(Row)
           /\ \A r \in Range(hits) : /\ r \in rows /\ says[r] \in Range(list)
                                     /\ r.second >= search.since
<1> DEFINE found == {r \in rows : /\ says[r] \in Range(list)
                                  /\ r.second >= search.since
                                  /\ search.wide \/ search.thread \in {All, r.thread}}
           order == {p \in found \X found :
                       \/ Place(says[p[1]], list) < Place(says[p[2]], list)
                       \/ says[p[1]] = says[p[2]] /\ p[1].pk < p[2].pk}
<1>1. hits \in FirstOf(found, CandidateK, order)
  BY DEF Hits
<1>2. found \subseteq rows /\ \A r \in found : says[r] \in Range(list) /\ r.second >= search.since
  OBVIOUS
<1> HIDE DEF found, order
<1>3. IsFiniteSet(found) /\ CandidateK \in Nat
  BY <1>2, FS_Subset, KnowledgeAssumption DEF IInv, RowsTrue, KnowledgeAssumption
<1>4. hits \in Seq(found)
  BY <1>1, <1>3, FirstOfShape
<1>5. \A i \in DOMAIN hits : hits[i] \in found
  BY <1>4, ElementOfSeq, LenProperties
<1>6. \A r \in Range(hits) : r \in found
  BY <1>5 DEF Range
<1>7. found \subseteq Row
  BY <1>2 DEF IInv, RowsTrue
<1>8. hits \in Seq(Row)
  BY <1>4, <1>5, <1>7, SeqDef
<1>9. QED
  BY <1>2, <1>6, <1>8

(* The rows of two lists one after the other.                              *)
LEMMA RangeOfBoth ==
    ASSUME NEW S, NEW a \in Seq(S), NEW b \in Seq(S)
    PROVE  a \o b \in Seq(S) /\ \A r \in Range(a \o b) : r \in Range(a) \/ r \in Range(b)
<1>1. /\ a \o b \in Seq(S) /\ Len(a \o b) = Len(a) + Len(b)
      /\ \A i \in 1..Len(a) + Len(b) :
            (a \o b)[i] = IF i <= Len(a) THEN a[i] ELSE b[i - Len(a)]
  BY ConcatProperties
<1>2. /\ Len(a) \in Nat /\ Len(b) \in Nat /\ DOMAIN a = 1..Len(a) /\ DOMAIN b = 1..Len(b)
      /\ DOMAIN (a \o b) = 1..(Len(a) + Len(b))
  BY <1>1, LenProperties
<1>3. ASSUME NEW i \in DOMAIN (a \o b)
      PROVE  (a \o b)[i] \in Range(a) \/ (a \o b)[i] \in Range(b)
  <2>1. CASE i <= Len(a)
    BY <1>1, <1>2, <2>1 DEF Range
  <2>2. CASE ~(i <= Len(a))
    <3>1. i - Len(a) \in DOMAIN b
      BY <1>2, <2>2
    <3>2. (a \o b)[i] = b[i - Len(a)]
      BY <1>1, <1>2, <2>2
    <3>3. QED
      BY <3>1, <3>2 DEF Range
  <2>3. QED
    BY <2>1, <2>2
<1>4. QED
  BY <1>1, <1>3 DEF Range

LEMMA SearchInv ==
    ASSUME IInv, Search PROVE SearchTrue' /\ Counters'
<1>1. /\ searches' = searches + 1 /\ clock' = clock /\ lock' = lock /\ tasks' = tasks
      /\ unpruned' = unpruned /\ searches < LastSearch
  BY DEF Search, storeVars, indexVars
<1>2. PICK query \in Queries, since \in 0..clock, at \in {"vector", "sparse"},
           thread \in Threads \cup {All} :
        /\ search' = Request(at, thread, query, since)
  BY DEF Search
<1>3. since \in 0..LastSecond
  BY KnowledgeAssumption DEF IInv, Counters, KnowledgeAssumption
<1>4. /\ DOMAIN search' = {"at", "thread", "query", "since", "wide", "vec", "dense", "sparse",
                           "own", "result"}
      /\ search'.at = at /\ search'.query = query /\ search'.since = since
      /\ search'.dense = <<>> /\ search'.sparse = <<>>
  BY <1>2 DEF Request
<1>5. <<>> \in Seq(Row) /\ Range(<<>>) = {}
  BY EmptySeq DEF Range
<1>6. SearchTrue'
  BY <1>3, <1>4, <1>5 DEF SearchTrue, SearchShape, QueryOwn, Found, Searched
<1>7. Counters'
  BY <1>1, KnowledgeAssumption DEF IInv, Counters, KnowledgeAssumption
<1>8. QED
  BY <1>6, <1>7

LEMMA QueryVectorInv ==
    ASSUME IInv, QueryVector PROVE SearchTrue'
<1> DEFINE known == Cached(Key("query", search.query.text))
<1>1. /\ search.at = "vector"
      /\ search' = IF known # None THEN [search EXCEPT !.vec = known, !.at = "dense"]
                   ELSE [search EXCEPT !.vec = Embedding("query", search.query.text),
                                       !.at = "cache"]
  BY DEF QueryVector
<1>2. known = None \/ known = Embedding("query", search.query.text)
  BY CachedTrue DEF IInv, Key, Embedding
<1> HIDE DEF known
<1>3. /\ search'.at \in {"dense", "cache"} /\ search'.query = search.query
      /\ search'.vec = Embedding("query", search.query.text) /\ DOMAIN search' = DOMAIN search
      /\ search'.since = search.since
      /\ search'.dense = search.dense /\ search'.sparse = search.sparse
  BY <1>1, <1>2 DEF IInv, SearchTrue, SearchShape
<1>4. QED
  BY <1>1, <1>3 DEF IInv, SearchTrue, SearchShape, QueryOwn, Found, Searched, Close

LEMMA CacheQueryInv ==
    ASSUME IInv, CacheQuery PROVE SearchTrue' /\ CacheTrue'
<1> DEFINE pairs == {[key |-> Key("query", search.query.text), vec |-> search.vec]}
<1>1. search.at = "cache" /\ Remember(pairs) /\ search' = [search EXCEPT !.at = "dense"]
  BY DEF CacheQuery
<1>2. search.query \in Queries /\ search.vec = Embedding("query", search.query.text)
  BY <1>1 DEF IInv, SearchTrue, SearchShape, QueryOwn
<1>3. search.query.text \in Texts
  BY <1>2, KnowledgeAssumption DEF KnowledgeAssumption
<1>4. \A p \in pairs : p.key \in Keys /\ p.vec = p.key
  BY <1>2, <1>3 DEF Key, Embedding, Keys
<1> HIDE DEF pairs
<1>5. CacheTrue'
  BY <1>1, <1>4, RememberTrue DEF IInv, Counters
<1>6. /\ search'.at = "dense" /\ search'.query = search.query /\ search'.vec = search.vec
      /\ DOMAIN search' = DOMAIN search /\ search'.since = search.since
      /\ search'.dense = search.dense /\ search'.sparse = search.sparse
  BY <1>1 DEF IInv, SearchTrue, SearchShape
<1>7. QED
  BY <1>1, <1>2, <1>5, <1>6
     DEF IInv, SearchTrue, SearchShape, QueryOwn, Found, Searched, Close

(* The dense search compares with the vectors of the rows, which are those *)
(* of their texts.                                                         *)
LEMMA SearchDenseInv ==
    ASSUME IInv, SearchDense PROVE SearchTrue'
<1>1. PICK hits \in DenseHits : search' = [search EXCEPT !.dense = @ \o hits, !.at = "sparse"]
  BY DEF SearchDense
<1>2. search.at = "dense"
  BY DEF SearchDense
<1>3. /\ search.query \in Queries /\ search.dense \in Seq(Row) /\ search.sparse \in Seq(Row)
      /\ DOMAIN search = {"at", "thread", "query", "since", "wide", "vec", "dense", "sparse",
                          "own", "result"}
  BY <1>2 DEF IInv, SearchTrue, SearchShape
<1>4. /\ hits \in Seq(Row)
      /\ \A r \in Range(hits) : /\ r \in rows /\ r.second >= search.since
                                /\ [s \in rows |-> s.vec[2]][r] \in Range(search.query.dense)
  BY <1>1, HitsFound DEF DenseHits
<1>5. \A r \in rows : [s \in rows |-> s.vec[2]][r] = r.text
  BY DEF IInv, RowsTrue, Embedding
<1>6. \A r \in Range(hits) : Close(r, search.query.dense)
  BY <1>4, <1>5 DEF Close
<1> DEFINE dense == search.dense \o hits
<1>7. dense \in Seq(Row) /\ \A r \in Range(dense) : r \in Range(search.dense) \/ r \in Range(hits)
  BY <1>3, <1>4, RangeOfBoth
<1>8. search' = [search EXCEPT !.dense = dense, !.at = "sparse"]
  BY <1>1
<1> HIDE DEF dense
<1>9. /\ search'.at = "sparse" /\ search'.query = search.query /\ DOMAIN search' = DOMAIN search
      /\ search'.since = search.since /\ search'.dense = dense /\ search'.sparse = search.sparse
  BY <1>3, <1>8
<1>10. \A r \in Range(dense) : Close(r, search.query.dense)
  BY <1>2, <1>6, <1>7 DEF IInv, SearchTrue, Found
<1>11. QED
  BY <1>2, <1>7, <1>9, <1>10
     DEF IInv, SearchTrue, SearchShape, QueryOwn, Found, Searched, Close

LEMMA SearchSparseInv ==
    ASSUME IInv, SearchSparse PROVE SearchTrue'
<1>1. PICK hits \in SparseHits :
        LET s == [search EXCEPT !.sparse = @ \o hits]
        IN  search' = IF s.wide \/ s.thread = All \/ Enough(s) THEN [s EXCEPT !.at = "merge"]
                      ELSE [s EXCEPT !.at = "vector", !.wide = TRUE,
                                     !.own = <<Len(s.dense), Len(s.sparse)>>]
  BY DEF SearchSparse
<1>2. search.at = "sparse"
  BY DEF SearchSparse
<1>3. /\ search.query \in Queries /\ search.dense \in Seq(Row) /\ search.sparse \in Seq(Row)
      /\ DOMAIN search = {"at", "thread", "query", "since", "wide", "vec", "dense", "sparse",
                          "own", "result"}
  BY <1>2 DEF IInv, SearchTrue, SearchShape
<1>4. /\ hits \in Seq(Row)
      /\ \A r \in Range(hits) : /\ r \in rows /\ r.second >= search.since
                                /\ [s \in rows |-> s.text][r] \in Range(search.query.sparse)
  BY <1>1, HitsFound DEF SparseHits
<1>5. \A r \in Range(hits) : Close(r, search.query.sparse)
  BY <1>4 DEF Close
<1> DEFINE sparse == search.sparse \o hits
           s == [search EXCEPT !.sparse = sparse]
<1>6. /\ sparse \in Seq(Row)
      /\ \A r \in Range(sparse) : r \in Range(search.sparse) \/ r \in Range(hits)
  BY <1>3, <1>4, RangeOfBoth
<1>7. search' = IF s.wide \/ s.thread = All \/ Enough(s) THEN [s EXCEPT !.at = "merge"]
                ELSE [s EXCEPT !.at = "vector", !.wide = TRUE,
                               !.own = <<Len(s.dense), Len(s.sparse)>>]
  BY <1>1
<1> HIDE DEF sparse
<1>8. /\ DOMAIN s = DOMAIN search /\ s.query = search.query /\ s.since = search.since
      /\ s.dense = search.dense /\ s.sparse = sparse
  BY <1>3
<1> HIDE DEF s
<1>9. /\ search'.query = search.query /\ DOMAIN search' = DOMAIN search
      /\ search'.since = search.since /\ search'.dense = search.dense /\ search'.sparse = sparse
      /\ search'.at \in {"merge", "vector"}
      /\ search'.at = "merge" => search'.wide \/ search'.thread = All \/ Enough(s)
  BY <1>3, <1>7, <1>8
<1>10. Enough(s) => Enough(search')
  BY <1>8, <1>9 DEF Enough
<1>11. \A r \in Range(sparse) : Close(r, search.query.sparse)
  BY <1>2, <1>5, <1>6 DEF IInv, SearchTrue, Found
<1>12. Searched'
  BY <1>9, <1>10 DEF Searched, Enough
<1>13. QED
  BY <1>2, <1>6, <1>9, <1>11, <1>12
     DEF IInv, SearchTrue, SearchShape, QueryOwn, Found, Close

LEMMA AnswerInv ==
    ASSUME IInv, Answer PROVE SearchTrue'
<1>1. PICK result \in RrfMerge(search.dense, search.sparse) :
        search' = [search EXCEPT !.at = "done", !.result = result]
  BY DEF Answer
<1>2. search.at = "merge"
  BY DEF Answer
<1>3. /\ search'.at = "done" /\ search'.query = search.query /\ DOMAIN search' = DOMAIN search
      /\ search'.since = search.since /\ search'.dense = search.dense
      /\ search'.sparse = search.sparse /\ search'.wide = search.wide
      /\ search'.thread = search.thread /\ search'.result = result
  BY <1>1, <1>2 DEF IInv, SearchTrue, SearchShape
<1>4. Searched'
  BY <1>1, <1>2, <1>3 DEF IInv, SearchTrue, Searched, Enough
<1>5. QED
  BY <1>2, <1>3, <1>4 DEF IInv, SearchTrue, SearchShape, QueryOwn, Found, Close

LEMMA SearchFailsInv ==
    ASSUME SearchFails PROVE SearchTrue'
BY DEF SearchFails, NoSearch, SearchTrue, SearchShape, QueryOwn, Found, Searched

-----------------------------------------------------------------------------
LEMMA NextInv ==
    ASSUME IInv, [Next]_vars PROVE IInv'
<1>1. CASE UNCHANGED searchVars /\ cache' = cache /\ clock' = clock /\ TaskTrue' /\ RowsTrue' /\ Counters'
  BY <1>1 DEF IInv, CacheTrue, SearchTrue, SearchShape, QueryOwn, Found, Searched, Close,
              searchVars
<1>2. CASE UNCHANGED <<clock, storeVars, indexVars>> /\ SearchTrue' /\ CacheTrue' /\ Counters'
  BY <1>2 DEF IInv, RowsTrue, TaskTrue, TaskShape, VectorsOfTask, Missing, Inserting,
              storeVars, indexVars
<1>3. CASE IndexTurn
  BY <1>1, <1>3, IndexTurnInv DEF IndexTurn
<1>4. CASE Lookup
  <2>1. Counters'
    BY <1>4 DEF Lookup, storeVars, searchVars, IInv, Counters
  <2>2. QED
    BY <1>1, <1>4, <2>1, LookupInv DEF Lookup
<1>5. CASE EmbedDocuments
  <2>1. Counters'
    BY <1>5 DEF EmbedDocuments, storeVars, searchVars, IInv, Counters
  <2>2. QED
    BY <1>1, <1>5, <2>1, EmbedDocumentsInv DEF EmbedDocuments
<1>6. CASE CacheDocuments
  <2>1. Counters'
    BY <1>6 DEF CacheDocuments, storeVars, searchVars, IInv, Counters
  <2>2. SearchTrue'
    BY <1>6 DEF CacheDocuments, searchVars, IInv, SearchTrue, SearchShape, QueryOwn, Found,
                Searched, Close
  <2>3. QED
    BY <1>6, <2>1, <2>2, CacheDocumentsInv DEF IInv
<1>7. CASE Insert
  BY <1>1, <1>7, InsertInv DEF Insert
<1>8. CASE Prune \/ IndexFails
  BY <1>1, <1>8, TaskOverInv DEF Prune, IndexFails
<1>9. CASE Search
  <2>1. CacheTrue'
    BY <1>9 DEF Search, IInv, CacheTrue
  <2>2. QED
    BY <1>2, <1>9, <2>1, SearchInv DEF Search
<1>10. CASE QueryVector
  <2>1. CacheTrue' /\ Counters'
    BY <1>10 DEF QueryVector, storeVars, indexVars, IInv, CacheTrue, Counters
  <2>2. QED
    BY <1>2, <1>10, <2>1, QueryVectorInv DEF QueryVector
<1>11. CASE CacheQuery
  <2>1. Counters'
    BY <1>11 DEF CacheQuery, storeVars, indexVars, IInv, Counters
  <2>2. QED
    BY <1>2, <1>11, <2>1, CacheQueryInv DEF CacheQuery
<1>12. CASE SearchDense
  <2>1. CacheTrue' /\ Counters'
    BY <1>12 DEF SearchDense, storeVars, indexVars, IInv, CacheTrue, Counters
  <2>2. QED
    BY <1>2, <1>12, <2>1, SearchDenseInv DEF SearchDense
<1>13. CASE SearchSparse
  <2>1. CacheTrue' /\ Counters'
    BY <1>13 DEF SearchSparse, storeVars, indexVars, IInv, CacheTrue, Counters
  <2>2. QED
    BY <1>2, <1>13, <2>1, SearchSparseInv DEF SearchSparse
<1>14. CASE Answer
  <2>1. CacheTrue' /\ Counters'
    BY <1>14 DEF Answer, storeVars, indexVars, IInv, CacheTrue, Counters
  <2>2. QED
    BY <1>2, <1>14, <2>1, AnswerInv DEF Answer
<1>15. CASE SearchFails
  <2>1. CacheTrue' /\ Counters'
    BY <1>15 DEF SearchFails, storeVars, indexVars, IInv, CacheTrue, Counters
  <2>2. QED
    BY <1>2, <1>15, <2>1, SearchFailsInv DEF SearchFails
<1>16. CASE Tick \/ Rest \/ UNCHANGED vars
  <2>1. UNCHANGED <<cache, storeVars, indexVars, searchVars>> /\ clock' \in 0..LastSecond
    BY <1>16, KnowledgeAssumption
       DEF Tick, Rest, vars, IInv, Counters, KnowledgeAssumption
  <2>2. Counters' /\ CacheTrue' /\ RowsTrue' /\ TaskTrue'
    BY <2>1 DEF IInv, Counters, CacheTrue, RowsTrue, TaskTrue, TaskShape, VectorsOfTask,
                Missing, Inserting, storeVars, indexVars, searchVars
  <2>3. SearchTrue'
    BY <2>1 DEF IInv, SearchTrue, SearchShape, QueryOwn, Found, Searched, Close, searchVars
  <2>4. QED
    BY <2>2, <2>3 DEF IInv
<1>17. QED
  BY <1>3, <1>4, <1>5, <1>6, <1>7, <1>8, <1>9, <1>10, <1>11, <1>12, <1>13, <1>14, <1>15, <1>16
     DEF Next, IndexStep, SearchStep

(* The embedding service and its cache, index_turn and hybrid_search: for  *)
(* any texts, bounds and interleaving, every row is stored with the vector *)
(* of its own text, a vector is cached under its own key, and a query is   *)
(* searched for with its own vector.                                       *)
THEOREM VectorsAlwaysTrue == Spec => []VectorsTrue
<1>1. Init => IInv
  BY InitInv
<1>2. IInv /\ [Next]_vars => IInv'
  BY NextInv
<1>3. IInv => VectorsTrue
  BY InvVectorsTrue
<1>4. QED
  BY <1>1, <1>2, <1>3, PTL DEF Spec

-----------------------------------------------------------------------------
(* The rows of a list are finitely many.                                   *)
LEMMA RangeFinite ==
    ASSUME NEW list \in Seq(Row) PROVE IsFiniteSet(Range(list))
<1>1. DOMAIN list = 1..Len(list) /\ Len(list) \in Nat
  BY LenProperties
<1>2. IsFiniteSet(DOMAIN list)
  BY <1>1, FS_Interval
<1>3. [i \in DOMAIN list |-> list[i]] \in Surjection(DOMAIN list, Range(list))
  BY DEF Surjection, Range
<1>4. QED
  BY <1>2, <1>3, FS_Surjection

(* The answer of a finished search.                                        *)
LEMMA InvAnswerSound ==
    ASSUME IInv PROVE AnswerSound
<1> SUFFICES ASSUME search.at = "done" PROVE AnswerSound
  BY DEF AnswerSound
<1> DEFINE found == Range(search.dense) \cup Range(search.sparse)
           result == search.result
<1>1. search.dense \in Seq(Row) /\ search.sparse \in Seq(Row)
  BY DEF IInv, SearchTrue, SearchShape
<1>2. IsFiniteSet(Range(search.dense)) /\ IsFiniteSet(Range(search.sparse))
  BY <1>1, RangeFinite
<1>3. IsFiniteSet(found) /\ Cardinality(found) \in Nat
  BY <1>2, FS_Union, FS_CardinalityType
<1>4. \A r \in found : /\ r.second >= search.since
                       /\ r.text \in Range(search.query.dense) \cup Range(search.query.sparse)
  BY DEF IInv, SearchTrue, Found, Close
<1>5. /\ result \in RrfMerge(search.dense, search.sparse)
      /\ search.wide \/ search.thread = All \/ Enough(search)
  BY DEF IInv, SearchTrue, Searched
<1>6. PICK order : result \in FirstOf(found, TopK, order)
  BY <1>5 DEF RrfMerge
<1>7. TopK \in Nat
  BY KnowledgeAssumption DEF KnowledgeAssumption
<1>8. Enough(search) <=> Cardinality(found) >= TopK
  BY DEF Enough
<1> HIDE DEF found, result
<1>9. /\ result \in Seq(found) /\ IsInjective(result)
      /\ Len(result) = IF Cardinality(found) < TopK THEN Cardinality(found) ELSE TopK
  BY <1>3, <1>6, <1>7, FirstOfShape
<1>10. Range(result) \subseteq found
  <2>1. \A i \in DOMAIN result : result[i] \in found
    BY <1>9, ElementOfSeq, LenProperties
  <2>2. QED
    BY <2>1 DEF Range
<1>11. Len(result) = Min({TopK, Cardinality(found)})
  BY <1>3, <1>7, <1>9 DEF Min
<1>12. Len(result) < TopK => search.wide \/ search.thread = All
  BY <1>3, <1>5, <1>7, <1>8, <1>9
<1>13. QED
  BY <1>4, <1>9, <1>10, <1>11, <1>12 DEF AnswerSound, found, result

(* RagService.hybrid_search: for any queries, bounds and interleaving with *)
(* the index worker, an answer has every row once, as many as were asked   *)
(* for or found, only rows that were asked for, and falls short only after *)
(* all conversations were searched.                                        *)
THEOREM AnswersAlwaysSound == Spec => []AnswerSound
<1>1. Init => IInv
  BY InitInv
<1>2. IInv /\ [Next]_vars => IInv'
  BY NextInv
<1>3. IInv => AnswerSound
  BY InvAnswerSound
<1>4. QED
  BY <1>1, <1>2, <1>3, PTL DEF Spec

-----------------------------------------------------------------------------
(* The retention of a conversation.                                        *)

(* One query of the store returns all rows of a conversation.              *)
Fits == \A t \in Threads : Cardinality(Of(t)) <= QueryLimit

(* The lock is held for the pruning, and only there a conversation has     *)
(* more rows than the retention, unless its last pruning failed.           *)
Retained ==
    /\ lock = "indexer" <=> task.at = "prune"
    /\ \A t \in Threads \ unpruned :
          lock = "free" \/ t # task.thread => Cardinality(Of(t)) <= Keep

LEMMA OfFinite ==
    ASSUME IInv, NEW t
    PROVE  IsFiniteSet(Of(t)) /\ Cardinality(Of(t)) \in Nat
<1>1. Of(t) \subseteq rows
  BY DEF Of
<1>2. IsFiniteSet(Of(t))
  BY <1>1, FS_Subset DEF IInv, RowsTrue
<1>3. QED
  BY <1>2, FS_CardinalityType

(* What pruning does to the conversations: only that of the task loses     *)
(* rows, it keeps as many as the retention asks for, and the newest.       *)
LEMMA PruneKeeps ==
    ASSUME IInv, Fits, Prune, NEW thread, thread = task.thread
    PROVE  /\ \A t \in Threads : t # thread => Of(t)' = Of(t)
           /\ Cardinality(Of(thread)') <= Keep
           /\ \A r \in rows \ rows' :
                 /\ r.thread = thread /\ Cardinality(Of(thread)') >= Keep
                 /\ \A s \in Of(thread)' : s.second >= r.second
<1> DEFINE mine == Of(thread)
<1>1. PICK seen \in SUBSET mine :
        /\ Cardinality(seen) = IF Cardinality(mine) < QueryLimit THEN Cardinality(mine)
                               ELSE QueryLimit
        /\ \E kept \in SUBSET seen :
              /\ Cardinality(kept) = IF Cardinality(seen) < Keep THEN Cardinality(seen) ELSE Keep
              /\ Stay(kept, seen)
              /\ rows' = rows \ (seen \ kept)
  BY DEF Prune
<1>2. PICK kept \in SUBSET seen :
        /\ Cardinality(kept) = IF Cardinality(seen) < Keep THEN Cardinality(seen) ELSE Keep
        /\ Stay(kept, seen)
        /\ rows' = rows \ (seen \ kept)
  BY <1>1
<1>3. thread \in Threads
  BY DEF Prune, IInv, TaskTrue, TaskShape
<1>4. IsFiniteSet(mine) /\ Cardinality(mine) \in Nat /\ Cardinality(mine) <= QueryLimit
  BY <1>3, OfFinite DEF Fits
<1>5. QueryLimit \in Nat /\ Keep \in Nat
  BY KnowledgeAssumption DEF KnowledgeAssumption
<1>6. seen = mine
  <2>1. Cardinality(seen) = Cardinality(mine)
    BY <1>1, <1>4, <1>5
  <2>2. QED
    BY <1>1, <1>4, <2>1, FS_Subset
<1>7. Of(thread)' = kept
  BY <1>2, <1>6 DEF Of
<1>8. IsFiniteSet(kept) /\ Cardinality(kept) \in Nat
  BY <1>2, <1>4, <1>6, FS_Subset, FS_CardinalityType
<1>9. Cardinality(kept) <= Keep
  BY <1>2, <1>4, <1>5, <1>6, <1>8
<1>10. \A t \in Threads : t # thread => Of(t)' = Of(t)
  BY <1>2, <1>6 DEF Of
<1>11. ASSUME NEW r \in rows \ rows'
       PROVE  r.thread = thread /\ Cardinality(kept) >= Keep /\ \A s \in kept : s.second >= r.second
  <2>1. r \in mine /\ r \notin kept
    BY <1>2, <1>6
  <2>2. r.thread = thread
    BY <2>1 DEF Of
  <2>3. Cardinality(kept) # Cardinality(seen)
    <3>1. kept # seen
      BY <1>6, <2>1
    <3>2. QED
      BY <1>2, <1>4, <1>6, <3>1, FS_Subset
  <2>4. Cardinality(kept) = Keep
    BY <1>2, <2>3
  <2>5. \A s \in kept : s.second >= r.second
    BY <1>2, <1>6, <2>1 DEF Stay, LeavesNewest
  <2>6. QED
    BY <1>5, <2>2, <2>4, <2>5
<1>12. QED
  BY <1>7, <1>9, <1>10, <1>11

LEMMA NextRetained ==
    ASSUME IInv, Retained, Fits, [Next]_vars PROVE Retained'
<1>1. CASE UNCHANGED <<storeVars, indexVars>>
  BY <1>1 DEF Retained, Of, storeVars, indexVars
<1>2. CASE IndexTurn \/ Lookup \/ EmbedDocuments \/ CacheDocuments
  <2>1. /\ UNCHANGED storeVars /\ task.at # "prune" /\ task'.at # "prune"
    <3>1. CASE IndexTurn
      BY <3>1 DEF IndexTurn
    <3>2. CASE Lookup
      BY <3>2 DEF Lookup, IInv, TaskTrue, TaskShape
    <3>3. CASE EmbedDocuments
      BY <3>3 DEF EmbedDocuments, IInv, TaskTrue, TaskShape
    <3>4. CASE CacheDocuments
      BY <3>4 DEF CacheDocuments, IInv, TaskTrue, TaskShape
    <3>5. QED
      BY <1>2, <3>1, <3>2, <3>3, <3>4
  <2>2. lock = "free"
    BY <2>1 DEF Retained, IInv, Counters
  <2>3. QED
    BY <2>1, <2>2 DEF Retained, Of, storeVars
<1>3. CASE Insert
  <2>1. PICK thread : thread = task.thread
    OBVIOUS
  <2>2. /\ lock = "free" /\ lock' = "indexer" /\ unpruned' = unpruned
        /\ task'.at = "prune" /\ task'.thread = thread
    BY <1>3, <2>1 DEF Insert, IInv, TaskTrue, TaskShape
  <2>3. \A t \in Threads : t # thread => Of(t)' = Of(t)
    BY <1>3, <2>1 DEF Insert, Of
  <2>4. QED
    BY <2>2, <2>3 DEF Retained
<1>4. CASE Prune
  <2>1. PICK thread : thread = task.thread
    OBVIOUS
  <2>2. /\ lock' = "free" /\ unpruned' = unpruned \ {thread} /\ task'.at = "idle"
    BY <1>4, <2>1 DEF Prune, NoTask
  <2>3. /\ \A t \in Threads : t # thread => Of(t)' = Of(t)
        /\ Cardinality(Of(thread)') <= Keep
    BY <1>4, <2>1, PruneKeeps
  <2>4. QED
    BY <2>1, <2>2, <2>3 DEF Retained
<1>5. CASE IndexFails
  <2>1. rows' = rows /\ task'.at = "idle"
    BY <1>5 DEF IndexFails, NoTask
  <2>2. CASE task.at = "prune"
    <3>1. lock' = "free" /\ unpruned' = unpruned \cup {task.thread}
      BY <1>5, <2>2 DEF IndexFails
    <3>2. QED
      BY <2>1, <3>1 DEF Retained, Of
  <2>3. CASE task.at # "prune"
    <3>1. lock' = lock /\ unpruned' = unpruned /\ lock = "free"
      BY <1>5, <2>3 DEF IndexFails, Retained, IInv, Counters
    <3>2. QED
      BY <2>1, <3>1 DEF Retained, Of
  <2>4. QED
    BY <2>2, <2>3
<1>6. QED
  BY <1>1, <1>2, <1>3, <1>4, <1>5
     DEF Next, IndexStep, SearchStep, Search, QueryVector, CacheQuery, SearchDense, SearchSparse,
         Answer, SearchFails, Tick, Rest, vars

(* Only pruning takes rows away.                                           *)
LEMMA NextPrunes ==
    ASSUME IInv, Fits, [Next]_vars PROVE PrunesOldest
<1>1. CASE Prune
  <2>1. PICK thread : thread = task.thread
    OBVIOUS
  <2>2. \A r \in rows \ rows' :
          /\ r.thread = thread /\ Cardinality(Of(thread)') >= Keep
          /\ \A s \in Of(thread)' : s.second >= r.second
    BY <1>1, <2>1, PruneKeeps
  <2>3. Of(thread)' = {s \in rows' : s.thread = thread}
    BY DEF Of
  <2>4. QED
    BY <2>2, <2>3 DEF PrunesOldest
<1>2. CASE ~Prune
  <2>1. rows \subseteq rows'
    BY <1>2 DEF Next, IndexStep, SearchStep, IndexTurn, Lookup, EmbedDocuments, CacheDocuments,
          Insert, IndexFails, Search, QueryVector, CacheQuery, SearchDense, SearchSparse,
          Answer, SearchFails, Tick, Rest, vars, storeVars
  <2>2. QED
    BY <2>1 DEF PrunesOldest
<1>3. QED
  BY <1>1, <1>2

(* The end of a concatenation is its second part.                          *)
LEMMA EndOfBoth ==
    ASSUME NEW S, NEW a \in Seq(S), NEW b \in Seq(S),
           NEW x \in Range(SubSeq(a \o b, Len(a) + 1, Len(a \o b)))
    PROVE  x \in Range(b)
<1>1. /\ a \o b \in Seq(S) /\ Len(a \o b) = Len(a) + Len(b)
      /\ \A i \in 1..Len(a) + Len(b) :
            (a \o b)[i] = IF i <= Len(a) THEN a[i] ELSE b[i - Len(a)]
  BY ConcatProperties
<1>2. /\ Len(a) \in Nat /\ Len(b) \in Nat /\ DOMAIN b = 1..Len(b)
  BY LenProperties
<1> DEFINE both == a \o b
           end == SubSeq(both, Len(a) + 1, Len(both))
<1>3. PICK i \in DOMAIN end : x = end[i]
  BY DEF Range
<1> HIDE DEF both
<1>4. DOMAIN end = 1..Len(b) /\ \A j \in 1..Len(b) : end[j] = both[Len(a) + j]
  BY <1>1, <1>2 DEF both
<1>5. end[i] = b[i]
  BY <1>1, <1>2, <1>3, <1>4 DEF both
<1>6. QED
  BY <1>2, <1>3, <1>4, <1>5 DEF Range

(* No search reads between an insertion and its pruning.                   *)
LEMMA NextSees ==
    ASSUME IInv, Retained, Retained', [Next]_vars PROVE SeesRetained
<1>1. ASSUME NEW t \in Threads \ unpruned', lock' = "free"
      PROVE  Cardinality({r \in rows' : r.thread = t}) <= Keep
  BY <1>1 DEF Retained, Of
<1>2. ASSUME NEW t \in Threads \ unpruned', search'.at = "sparse", search.at = "dense",
             NEW new, new = SubSeq(search'.dense, Len(search.dense) + 1, Len(search'.dense))
      PROVE  Cardinality({r \in Range(new) : r.thread = t}) <= Keep
  <2>1. SearchDense
    <3>1. ~(IndexStep \/ Tick \/ Rest \/ UNCHANGED vars)
      <4>1. search' # search
        BY <1>2
      <4>2. QED
        BY <4>1 DEF IndexStep, IndexTurn, Lookup, EmbedDocuments, CacheDocuments, Insert,
                    Prune, IndexFails, Tick, Rest, vars, searchVars
    <3>2. ~SearchFails
      BY <1>2 DEF SearchFails, NoSearch
    <3>3. ~(Search \/ QueryVector \/ CacheQuery \/ SearchSparse \/ Answer)
      BY <1>2 DEF Search, QueryVector, CacheQuery, SearchSparse, Answer
    <3>4. QED
      BY <3>1, <3>2, <3>3 DEF Next, SearchStep
  <2>2. PICK hits \in DenseHits : search' = [search EXCEPT !.dense = @ \o hits, !.at = "sparse"]
    BY <2>1 DEF SearchDense
  <2>3. search.dense \in Seq(Row) /\ "dense" \in DOMAIN search
    BY <1>2 DEF IInv, SearchTrue, SearchShape
  <2>4. hits \in Seq(Row) /\ \A r \in Range(hits) : r \in rows
    BY <2>2, HitsFound DEF DenseHits
  <2>5. search'.dense = search.dense \o hits
    BY <2>2, <2>3
  <2>6. \A r \in Range(new) : r \in Range(hits)
    BY <1>2, <2>3, <2>4, <2>5, EndOfBoth
  <2>7. {r \in Range(new) : r.thread = t} \in SUBSET Of(t)
    BY <2>4, <2>6 DEF Of
  <2>8. lock = "free" /\ t \in Threads \ unpruned
    BY <1>2, <2>1 DEF SearchDense, StoreFree, storeVars
  <2>9. Cardinality(Of(t)) <= Keep
    BY <2>8 DEF Retained
  <2>10. IsFiniteSet(Of(t)) /\ Cardinality(Of(t)) \in Nat
    BY OfFinite
  <2> DEFINE some == {r \in Range(new) : r.thread = t}
  <2>11. Cardinality(some) <= Cardinality(Of(t)) /\ Cardinality(some) \in Nat
    <3> HIDE DEF some
    <3>1. some \in SUBSET Of(t)
      BY <2>7 DEF some
    <3>2. QED
      BY <2>10, <3>1, FS_Subset, FS_CardinalityType
  <2>12. Keep \in Nat
    BY KnowledgeAssumption DEF KnowledgeAssumption
  <2> HIDE DEF some
  <2>13. Cardinality(some) <= Keep
    BY <2>9, <2>10, <2>11, <2>12
  <2>14. QED
    BY <2>13 DEF some
<1>3. QED
  BY <1>1, <1>2 DEF SeesRetained

(* MilvusStore.add_texts with its pruning and the searches, for any        *)
(* retention and interleaving, as long as one query of the store returns   *)
(* all rows of a conversation (_QUERY_LIMIT): only the oldest rows go, no  *)
(* more than the retention asks for, and no search sees more than it       *)
(* allows unless the last pruning failed.                                  *)
THEOREM RetentionKept == Spec /\ []Fits => Retention
<1>1. Init => IInv /\ Retained
  <2>1. ASSUME Init PROVE Retained
    <3>1. \A t \in Threads : Of(t) = {}
      BY <2>1 DEF Init, Of
    <3>2. Cardinality({}) <= Keep
      BY FS_EmptySet, KnowledgeAssumption DEF KnowledgeAssumption
    <3>3. QED
      BY <2>1, <3>1, <3>2 DEF Init, Retained, NoTask
  <2>2. QED
    BY <2>1, InitInv
<1>2. IInv /\ Retained /\ Fits /\ [Next]_vars => IInv' /\ Retained'
  BY NextInv, NextRetained
<1>3. IInv /\ Retained /\ Fits /\ [Next]_vars => [PrunesOldest /\ SeesRetained]_vars
  BY NextPrunes, NextRetained, NextSees
<1>4. QED
  BY <1>1, <1>2, <1>3, PTL DEF Spec, Retention

-----------------------------------------------------------------------------
(* Induction over the naturals, from the well-foundedness of inclusion     *)
(* among finite sets.                                                      *)

(* A set of naturals that is not empty has a least element.                *)
LEMMA LeastNumber ==
    ASSUME NEW B \in SUBSET Nat, B # {}
    PROVE  \E m \in B : \A k \in B : m <= k
<1> DEFINE T == {1..n : n \in B}
           R == StrictSubsetOrdering(Nat)
<1>1. IsWellFoundedOn(R, FiniteSubsetsOf(Nat))
  BY FS_StrictSubsetOrderingWellFounded
<1>2. T \subseteq FiniteSubsetsOf(Nat)
  <2>1. \A n \in B : IsFiniteSet(1..n)
    BY FS_Interval
  <2>2. QED
    BY <2>1 DEF FiniteSubsetsOf
<1>3. T # {}
  OBVIOUS
<1> HIDE DEF T, R
<1>4. PICK x \in T : \A y \in T : ~ (<<y, x>> \in R)
  BY <1>1, <1>2, <1>3, WFMin
<1>5. PICK m \in B : x = 1..m
  BY DEF T
<1>6. ASSUME NEW k \in B, k < m
      PROVE  FALSE
  <2>1. 1..k \in T
    BY DEF T
  <2>2. 1..k \subseteq 1..m /\ m \in 1..m /\ m \notin 1..k
    BY <1>6
  <2>3. <<1..k, 1..m>> \in R
    BY <2>2 DEF R, StrictSubsetOrdering
  <2>4. QED
    BY <1>4, <1>5, <2>1, <2>3
<1>7. QED
  BY <1>6

(* A set that holds 0, and n + 1 whenever it holds n, holds every natural. *)
LEMMA NaturalsInSet ==
    ASSUME NEW S, 0 \in S, \A n \in Nat : n \in S => n + 1 \in S
    PROVE  \A n \in Nat : n \in S
<1> DEFINE B == {n \in Nat : n \notin S}
<1> SUFFICES ASSUME B # {}
             PROVE  FALSE
  OBVIOUS
<1>1. PICK m \in B : \A k \in B : m <= k
  <2>1. B \in SUBSET Nat
    OBVIOUS
  <2> HIDE DEF B
  <2>2. QED
    BY <2>1, LeastNumber
<1>2. m # 0 /\ m - 1 \in Nat
  OBVIOUS
<1>3. m - 1 \in S
  BY <1>1, <1>2
<1>4. QED
  BY <1>2, <1>3
-----------------------------------------------------------------------------
(* Scores.                                                                 *)

(* A larger divisor gives no larger quotient.                              *)
LEMMA DivLess ==
    ASSUME NEW n \in Nat, NEW a \in Nat \ {0}, NEW b \in Nat \ {0}, a <= b
    PROVE  n \div b <= n \div a
<1> DEFINE q == n \div b
           p == n \div a
<1>1. q \in Nat /\ b * q <= n
  OBVIOUS
<1>2. p \in Nat /\ n < a * (p + 1)
  OBVIOUS
<1> HIDE DEF p, q
<1>3. a * q <= b * q
  BY <1>1
<1>4. a * q < a * (p + 1)
  BY <1>1, <1>2, <1>3
<1>5. q < p + 1
  BY <1>1, <1>2, <1>4
<1>6. q <= p
  BY <1>1, <1>2, <1>5
<1>7. QED
  BY <1>6 DEF p, q

(* A better rank gives no smaller summand.                                 *)
LEMMA ReciprocalOrder ==
    ASSUME NEW i \in Nat, NEW j \in Nat, i <= j
    PROVE  Reciprocal(j) <= Reciprocal(i) /\ Reciprocal(i) \in Nat
<1>1. PICK n \in Nat : n = 1000000000
  BY SMT
<1>2. Reciprocal(i) = n \div (60 + i) /\ Reciprocal(j) = n \div (60 + j)
  BY <1>1, SMT DEF Reciprocal
<1>3. 60 + i \in Nat \ {0} /\ 60 + j \in Nat \ {0} /\ 60 + i <= 60 + j
  OBVIOUS
<1>4. PICK a, b : a = 60 + i /\ b = 60 + j
  OBVIOUS
<1>5. n \div b <= n \div a
  BY <1>3, <1>4, DivLess
<1>6. n \div a \in Nat
  BY <1>3, <1>4
<1>7. QED
  BY <1>2, <1>4, <1>5, <1>6

(* Every rank of a list that is not absurdly long counts.                  *)
LEMMA ReciprocalPositive ==
    ASSUME NEW i \in Nat, 60 + i <= 1000000000
    PROVE  Reciprocal(i) > 0
BY SMT DEF Reciprocal

(* A sum over a list, by its recursion: with at most one summand that is   *)
(* not zero it is that summand, and otherwise no less.                     *)
LEMMA SumAtLeast ==
    ASSUME NEW L \in Nat, NEW gain \in [1..L -> Nat], NEW f \in [0..L -> Nat],
           \A n \in 1..L : f[n] = f[n - 1] + gain[n], NEW i \in 1..L
    PROVE  f[L] >= gain[i]
<1> DEFINE S == {n \in Nat : i <= n /\ n <= L => f[n] >= gain[i]}
<1>1. 0 \in S
  OBVIOUS
<1>2. ASSUME NEW n \in Nat, n \in S
      PROVE  n + 1 \in S
  <2> SUFFICES ASSUME i <= n + 1, n + 1 <= L
               PROVE  f[n + 1] >= gain[i]
    OBVIOUS
  <2>1. n + 1 \in 1..L /\ n \in 0..L
    OBVIOUS
  <2>2. f[n + 1] = f[n] + gain[n + 1] /\ f[n] \in Nat /\ gain[n + 1] \in Nat /\ gain[i] \in Nat
    BY <2>1
  <2>3. CASE i = n + 1
    BY <2>2, <2>3
  <2>4. CASE i <= n
    BY <1>2, <2>1, <2>2, <2>4
  <2>5. QED
    BY <2>3, <2>4
<1>3. L \in S
  <2> HIDE DEF S
  <2>1. QED
    BY <1>1, <1>2, NaturalsInSet
<1>4. QED
  BY <1>3

LEMMA SumOfOne ==
    ASSUME NEW L \in Nat, NEW gain \in [1..L -> Nat], NEW f \in [0..L -> Nat], f[0] = 0,
           \A n \in 1..L : f[n] = f[n - 1] + gain[n], NEW i \in Nat,
           \A n \in 1..L : n # i => gain[n] = 0
    PROVE  (i \in 1..L => f[L] = gain[i]) /\ (i \notin 1..L => f[L] = 0)
<1> DEFINE S == {n \in Nat : n <= L => f[n] = IF i \in 1..n THEN gain[i] ELSE 0}
<1>1. 0 \in S
  OBVIOUS
<1>2. ASSUME NEW n \in Nat, n \in S
      PROVE  n + 1 \in S
  <2> SUFFICES ASSUME n + 1 <= L
               PROVE  f[n + 1] = IF i \in 1..(n + 1) THEN gain[i] ELSE 0
    OBVIOUS
  <2>1. n + 1 \in 1..L /\ n \in 0..L
    OBVIOUS
  <2>2. f[n + 1] = f[n] + gain[n + 1] /\ f[n] \in Nat /\ gain[n + 1] \in Nat
    BY <2>1
  <2>3. f[n] = IF i \in 1..n THEN gain[i] ELSE 0
    BY <1>2, <2>1
  <2>4. CASE i = n + 1
    BY <2>2, <2>3, <2>4
  <2>5. CASE i # n + 1
    <3>1. gain[n + 1] = 0
      BY <2>1, <2>5
    <3>2. i \in 1..(n + 1) <=> i \in 1..n
      BY <2>5
    <3>3. QED
      BY <2>2, <2>3, <3>1, <3>2
  <2>6. QED
    BY <2>4, <2>5
<1>3. L \in S
  <2> HIDE DEF S
  <2>1. QED
    BY <1>1, <1>2, NaturalsInSet
<1>4. QED
  BY <1>3

(* The summand of a row at place n of a list.                              *)
Gain(list, row) == [n \in 1..Len(list) |-> IF list[n] = row THEN Reciprocal(n) ELSE 0]

(* The recursion of Gathered has a solution, so it means what it says.     *)
LEMMA GatheredDefined ==
    ASSUME NEW list, Len(list) \in Nat, NEW row
    PROVE  /\ Gain(list, row) \in [1..Len(list) -> Nat]
           /\ \E f \in [0..Len(list) -> Nat] :
                 /\ f[0] = 0
                 /\ \A n \in 1..Len(list) : f[n] = f[n - 1] + Gain(list, row)[n]
                 /\ Gathered(list, row) = f[Len(list)]
<1> DEFINE L == Len(list)
           Added(n) == IF list[n] = row THEN Reciprocal(n) ELSE 0
           Run(f, k) == f[0] = 0 /\ \A n \in 1..k : f[n] = f[n - 1] + Added(n)
           S == {k \in Nat : k <= L => \E f \in [0..k -> Nat] : Run(f, k)}
           Step(g) == [n \in 0..L |-> IF n = 0 THEN 0 ELSE g[n - 1] + Added(n)]
<1>1. L \in Nat
  OBVIOUS
<1>2. \A n \in Nat : Added(n) \in Nat
  BY ReciprocalOrder
<1>3. 0 \in S
  <2>1. [n \in 0..0 |-> 0] \in [0..0 -> Nat] /\ Run([n \in 0..0 |-> 0], 0)
    OBVIOUS
  <2>2. QED
    BY <2>1
<1>4. ASSUME NEW k \in Nat, k \in S
      PROVE  k + 1 \in S
  <2> SUFFICES ASSUME k + 1 <= L
               PROVE  \E g \in [0..(k + 1) -> Nat] : Run(g, k + 1)
    <3> HIDE DEF Run, L
    <3>1. QED
      BY <1>4 DEF S
  <2> HIDE DEF Added, L
  <2>1. PICK f \in [0..k -> Nat] : Run(f, k)
    BY <1>1, <1>4
  <2> DEFINE g == [n \in 0..(k + 1) |-> IF n = k + 1 THEN f[k] + Added(k + 1) ELSE f[n]]
  <2>2. f[k] + Added(k + 1) \in Nat
    <3>1. k \in 0..k /\ k + 1 \in Nat
      OBVIOUS
    <3>2. f[k] \in Nat
      BY <3>1
    <3>3. Added(k + 1) \in Nat
      BY <1>2, <3>1
    <3>4. QED
      BY <3>2, <3>3
  <2>3. g \in [0..(k + 1) -> Nat]
    BY <2>2
  <2>4. g[0] = 0
    BY <2>1
  <2>5. ASSUME NEW n \in 1..(k + 1)
        PROVE  g[n] = g[n - 1] + Added(n)
    <3>1. n - 1 \in 0..(k + 1) /\ n - 1 # k + 1 /\ g[n - 1] = f[n - 1]
      OBVIOUS
    <3>2. CASE n = k + 1
      BY <3>1, <3>2
    <3>3. CASE n # k + 1
      <4>1. n \in 1..k /\ g[n] = f[n]
        BY <3>3
      <4>2. QED
        BY <2>1, <3>1, <4>1
    <3>4. QED
      BY <3>2, <3>3
  <2>6. QED
    BY <2>3, <2>4, <2>5
<1>5. L \in S
  <2> HIDE DEF S
  <2>1. QED
    BY <1>1, <1>3, <1>4, NaturalsInSet
<1>6. PICK f \in [0..L -> Nat] : Run(f, L)
  BY <1>5
<1>7. f = Step(f)
  <2>1. \A n \in 0..L : f[n] = IF n = 0 THEN 0 ELSE f[n - 1] + Added(n)
    <3> HIDE DEF Added, L
    <3>1. QED
      BY <1>1, <1>6
  <2> HIDE DEF Added, L
  <2>2. QED
    BY <1>6, <2>1
<1> DEFINE upTo == CHOOSE g : g = Step(g)
<1>8. upTo = Step(upTo)
  BY <1>7
<1>9. Gathered(list, row) = upTo[L]
  BY DEF Gathered
<1> HIDE DEF upTo, Added, L
<1>10. \A n \in 0..L : upTo[n] = IF n = 0 THEN 0 ELSE upTo[n - 1] + Added(n)
  BY <1>8
<1> DEFINE U == {n \in Nat : n <= L => upTo[n] \in Nat}
<1>11. 0 \in U
  BY <1>1, <1>10
<1>12. ASSUME NEW n \in Nat, n \in U
       PROVE  n + 1 \in U
  <2> SUFFICES ASSUME n + 1 <= L
               PROVE  upTo[n + 1] \in Nat
    OBVIOUS
  <2>1. n + 1 \in 0..L /\ n + 1 # 0 /\ (n + 1) - 1 = n
    BY <1>1
  <2>2. upTo[n + 1] = upTo[n] + Added(n + 1)
    BY <1>10, <2>1
  <2>3. upTo[n] \in Nat
    <3>1. n <= L
      BY <1>1
    <3>2. QED
      BY <1>12, <3>1
  <2>4. n + 1 \in Nat
    OBVIOUS
  <2>5. Added(n + 1) \in Nat
    BY <1>2, <2>4
  <2>6. QED
    BY <2>2, <2>3, <2>5
<1>13. \A n \in 0..L : upTo[n] \in Nat
  <2>1. \A n \in Nat : n \in U
    <3> HIDE DEF U
    <3>1. QED
      BY <1>11, <1>12, NaturalsInSet
  <2>2. QED
    BY <1>1, <2>1
<1>14. upTo \in [0..L -> Nat]
  BY <1>8, <1>13
<1>15. /\ upTo[0] = 0
       /\ \A n \in 1..L : upTo[n] = upTo[n - 1] + Added(n)
  BY <1>1, <1>10
<1>16. Gain(list, row) = [n \in 1..L |-> Added(n)]
  BY DEF Gain, Added, L
<1>17. Gain(list, row) \in [1..L -> Nat]
  BY <1>2, <1>16
<1>18. \A n \in 1..L : upTo[n] = upTo[n - 1] + Gain(list, row)[n]
  BY <1>15, <1>16
<1>19. QED
  BY <1>9, <1>14, <1>15, <1>17, <1>18 DEF L

(* What a row gathers: nothing where it is not, the summand of its rank    *)
(* where it is once, and no less where it is more often.                   *)
LEMMA GatheredFrom ==
    ASSUME NEW list, Len(list) \in Nat, NEW row
    PROVE  /\ Gathered(list, row) \in Nat
           /\ \A i \in 1..Len(list) : list[i] = row => Gathered(list, row) >= Reciprocal(i)
           /\ \A i \in Nat : (\A n \in 1..Len(list) : list[n] = row => n = i)
                 => Gathered(list, row) <= Reciprocal(i)
           /\ (\A n \in 1..Len(list) : list[n] # row) => Gathered(list, row) = 0
<1> DEFINE L == Len(list)
           G == Gain(list, row)
<1>1. PICK f \in [0..L -> Nat] :
         /\ f[0] = 0 /\ \A n \in 1..L : f[n] = f[n - 1] + G[n]
         /\ Gathered(list, row) = f[L]
  BY GatheredDefined
<1>2. G \in [1..L -> Nat]
  BY GatheredDefined
<1>3. \A n \in 1..L : G[n] = IF list[n] = row THEN Reciprocal(n) ELSE 0
  BY DEF Gain
<1> HIDE DEF G, L
<1>4. L \in Nat
  BY DEF L
<1>5. ASSUME NEW i \in 1..L, list[i] = row
      PROVE  f[L] >= Reciprocal(i)
  <2>1. f[L] >= G[i]
    BY <1>1, <1>2, <1>4, SumAtLeast
  <2>2. QED
    BY <1>3, <1>5, <2>1
<1>6. ASSUME NEW i \in Nat, \A n \in 1..L : list[n] = row => n = i
      PROVE  f[L] <= Reciprocal(i) /\ ((\A n \in 1..L : list[n] # row) => f[L] = 0)
  <2>1. \A n \in 1..L : n # i => G[n] = 0
    BY <1>3, <1>6
  <2>2. f[L] = IF i \in 1..L THEN G[i] ELSE 0
    <3>1. f[0] = 0 /\ \A n \in 1..L : f[n] = f[n - 1] + G[n]
      BY <1>1
    <3>2. PICK g : g = G
      OBVIOUS
    <3>3. /\ g \in [1..L -> Nat] /\ \A n \in 1..L : f[n] = f[n - 1] + g[n]
          /\ \A n \in 1..L : n # i => g[n] = 0
      BY <1>2, <2>1, <3>1, <3>2
    <3>4. (i \in 1..L => f[L] = g[i]) /\ (i \notin 1..L => f[L] = 0)
      BY <1>4, <3>1, <3>3, SumOfOne
    <3>5. QED
      BY <3>2, <3>4
  <2>3. Reciprocal(i) \in Nat
    BY ReciprocalOrder
  <2>4. CASE i \in 1..L
    <3>1. f[L] = G[i]
      BY <2>2, <2>4
    <3>2. G[i] = IF list[i] = row THEN Reciprocal(i) ELSE 0
      BY <1>3, <2>4
    <3>3. QED
      BY <2>3, <2>4, <3>1, <3>2
  <2>5. CASE i \notin 1..L
    <3>1. f[L] = 0
      BY <2>2, <2>5
    <3>2. QED
      BY <2>3, <3>1
  <2>6. QED
    BY <2>4, <2>5
<1>7. (\A n \in 1..L : list[n] # row) => f[L] = 0
  <2>1. 0 \in Nat /\ ((\A n \in 1..L : list[n] # row) => \A n \in 1..L : list[n] = row => n = 0)
    OBVIOUS
  <2>2. QED
    BY <1>6, <2>1
<1>8. f[L] \in Nat
  BY <1>4
<1>9. QED
  BY <1>1, <1>5, <1>6, <1>7, <1>8 DEF L

-----------------------------------------------------------------------------
(* The own conversation in a search.                                       *)

(* Behind the k rows found in the own conversation stand the rows of one   *)
(* more search, every one once.                                            *)
Behind(list, k) ==
    /\ k \in 0..CandidateK /\ k <= Len(list) /\ Len(list) <= k + CandidateK
    /\ \A i, j \in (k + 1)..Len(list) : list[i] = list[j] => i = j

OfThread(list, k, thread) == \A i \in 1..k : list[i].thread = thread

(* Every rank counts, in the unit the scores are computed in.              *)
RanksCount == 60 + 2 * CandidateK <= 1000000000

(* The ranks of a row, and the first of them.                              *)
LEMMA FirstOfRanks ==
    ASSUME NEW list \in Seq(Row), NEW i \in 1..Len(list)
    PROVE  /\ Min(Ranks(list, list[i])) \in Ranks(list, list[i])
           /\ Min(Ranks(list, list[i])) <= i
<1> DEFINE R == Ranks(list, list[i])
<1>1. DOMAIN list = 1..Len(list) /\ Len(list) \in Nat
  BY LenProperties
<1>2. R \in SUBSET Nat /\ i \in R
  BY <1>1 DEF Ranks
<1>3. PICK m \in R : \A k \in R : m <= k
  <2> HIDE DEF R
  <2>1. R # {}
    BY <1>2
  <2>2. QED
    BY <1>2, <2>1, LeastNumber
<1> HIDE DEF R
<1>4. Min(R) \in R /\ \A k \in R : Min(R) <= k
  <2>1. \E x \in R : \A y \in R : x <= y
    BY <1>3
  <2>2. QED
    BY <2>1 DEF Min
<1>5. QED
  BY <1>2, <1>4 DEF R

(* The prefix of a list.                                                   *)
LEMMA PrefixRange ==
    ASSUME NEW list \in Seq(Row), NEW k \in 0..Len(list)
    PROVE  \A r \in Range(SubSeq(list, 1, k)) : \E i \in 1..k : list[i] = r
<1>1. Len(list) \in Nat
  BY LenProperties
<1> DEFINE some == SubSeq(list, 1, k)
<1>2. some \in Seq(Row) /\ Len(some) = k /\ \A i \in 1..k : some[i] = list[i]
  BY <1>1, SubSeqProperties
<1> HIDE DEF some
<1>3. DOMAIN some = 1..k
  BY <1>2, LenProperties
<1>4. QED
  BY <1>2, <1>3 DEF Range, some

(* A row of another conversation is met once, behind those of the own, so  *)
(* along one list it gathers no more than a row of the own conversation,   *)
(* and is met later.                                                       *)
LEMMA OwnGathersMore ==
    ASSUME RanksCount, NEW list \in Seq(Row), NEW k, Behind(list, k),
           NEW thread, OfThread(list, k, thread),
           NEW a, NEW b, b.thread # thread,
           b \in Range(list) => a \in Range(SubSeq(list, 1, k))
    PROVE  /\ Gathered(list, a) \in Nat /\ Gathered(list, b) \in Nat
           /\ Gathered(list, b) <= Gathered(list, a)
           /\ b \notin Range(list) => Gathered(list, b) = 0
           /\ a \in Range(SubSeq(list, 1, k)) => a \in Range(list)
           /\ a \in Range(list) => Gathered(list, a) > 0
           /\ b \in Range(list) => /\ Min(Ranks(list, a)) \in Nat /\ Min(Ranks(list, b)) \in Nat
                                   /\ Min(Ranks(list, a)) < Min(Ranks(list, b))
<1>1. DOMAIN list = 1..Len(list) /\ Len(list) \in Nat
  BY LenProperties
<1>2. /\ k \in 0..CandidateK /\ k <= Len(list) /\ Len(list) <= k + CandidateK
      /\ CandidateK \in Nat /\ k \in 0..Len(list)
  BY <1>1, KnowledgeAssumption DEF Behind, KnowledgeAssumption
<1>3. Gathered(list, a) \in Nat /\ Gathered(list, b) \in Nat
  BY <1>1, GatheredFrom
<1>4. b \notin Range(list) => Gathered(list, b) = 0
  <2>1. b \notin Range(list) => \A n \in 1..Len(list) : list[n] # b
    BY <1>1 DEF Range
  <2>2. QED
    BY <1>1, <2>1, GatheredFrom
<1>5. ASSUME NEW i \in 1..Len(list), list[i] = a
      PROVE  Gathered(list, a) >= Reciprocal(i) /\ Reciprocal(i) > 0 /\ Reciprocal(i) \in Nat
  <2>1. i \in Nat /\ i <= i
    OBVIOUS
  <2>2. Gathered(list, a) >= Reciprocal(i)
    BY <1>1, <1>5, GatheredFrom
  <2>3. Reciprocal(i) > 0
    <3>1. 60 + i <= 1000000000
      BY <1>2, <2>1, SMT DEF RanksCount
    <3>2. QED
      BY <2>1, <3>1, ReciprocalPositive, SMT
  <2>4. QED
    BY <2>1, <2>2, <2>3, ReciprocalOrder
<1>6. /\ a \in Range(SubSeq(list, 1, k)) => a \in Range(list)
      /\ a \in Range(list) => Gathered(list, a) > 0
  <2>1. ASSUME a \in Range(SubSeq(list, 1, k)) PROVE a \in Range(list)
    <3>1. PICK i \in 1..k : list[i] = a
      BY <1>2, <2>1, PrefixRange
    <3>2. i \in DOMAIN list
      BY <1>1, <1>2
    <3>3. QED
      BY <3>1, <3>2 DEF Range
  <2>2. ASSUME a \in Range(list) PROVE Gathered(list, a) > 0
    <3>1. PICK i \in 1..Len(list) : list[i] = a
      BY <1>1, <2>2 DEF Range
    <3>2. Gathered(list, a) >= Reciprocal(i) /\ Reciprocal(i) > 0 /\ Reciprocal(i) \in Nat
      BY <1>5, <3>1
    <3>3. QED
      BY <1>3, <3>2
  <2>3. QED
    BY <2>1, <2>2
<1>7. ASSUME b \in Range(list)
      PROVE  /\ Gathered(list, b) <= Gathered(list, a)
             /\ Min(Ranks(list, a)) \in Nat /\ Min(Ranks(list, b)) \in Nat
             /\ Min(Ranks(list, a)) < Min(Ranks(list, b))
  <2>1. PICK i \in 1..k : list[i] = a
    BY <1>2, <1>7, PrefixRange
  <2>2. /\ i \in 1..Len(list) /\ Gathered(list, a) >= Reciprocal(i) /\ Reciprocal(i) \in Nat
    <3>1. i \in 1..Len(list)
      BY <1>1, <1>2
    <3>2. QED
      BY <1>5, <2>1, <3>1
  <2>3. PICK j \in 1..Len(list) : list[j] = b
    BY <1>1, <1>7 DEF Range
  <2>4. \A n \in 1..Len(list) : list[n] = b => n > k
    BY <1>1, <1>2 DEF OfThread
  <2>5. \A n \in 1..Len(list) : list[n] = b => n = j
    <3> SUFFICES ASSUME NEW n \in 1..Len(list), list[n] = b PROVE n = j
      OBVIOUS
    <3>1. n \in (k + 1)..Len(list) /\ j \in (k + 1)..Len(list)
      BY <1>1, <1>2, <2>3, <2>4
    <3>2. QED
      BY <2>3, <3>1 DEF Behind
  <2>6. i \in Nat /\ j \in Nat /\ i < j
    BY <1>1, <1>2, <2>2, <2>3, <2>4
  <2>7. Gathered(list, b) <= Reciprocal(j)
    BY <1>1, <2>5, <2>6, GatheredFrom
  <2>8. Reciprocal(j) <= Reciprocal(i) /\ Reciprocal(j) \in Nat
    <3>1. i <= j /\ j <= j
      BY <2>6
    <3>2. QED
      BY <2>6, <3>1, ReciprocalOrder
  <2>9. Gathered(list, b) <= Gathered(list, a)
    BY <1>3, <2>2, <2>7, <2>8
  <2>10. Min(Ranks(list, a)) <= i /\ Min(Ranks(list, a)) \in Nat
    <3>1. Min(Ranks(list, a)) \in Ranks(list, a) /\ Min(Ranks(list, a)) <= i
      BY <2>1, <2>2, FirstOfRanks
    <3>2. QED
      BY <1>1, <3>1 DEF Ranks
  <2>11. Min(Ranks(list, b)) = j
    <3>1. Min(Ranks(list, b)) \in Ranks(list, b)
      BY <2>3, FirstOfRanks
    <3>2. QED
      BY <1>1, <2>5, <3>1 DEF Ranks
  <2>12. QED
    BY <2>6, <2>9, <2>10, <2>11
<1>8. QED
  BY <1>3, <1>4, <1>6, <1>7

(* In the merged answer a row of another conversation stands behind every  *)
(* row of the own conversation that was found wherever it was.             *)
LEMMA OwnAhead ==
    ASSUME RanksCount, NEW dense \in Seq(Row), NEW sparse \in Seq(Row),
           NEW m, NEW n, Behind(dense, m), Behind(sparse, n),
           NEW thread, OfThread(dense, m, thread), OfThread(sparse, n, thread),
           NEW result \in RrfMerge(dense, sparse), NEW j \in DOMAIN result,
           result[j].thread # thread,
           NEW a \in Range(SubSeq(dense, 1, m)) \cup Range(SubSeq(sparse, 1, n)),
           result[j] \in Range(dense) => a \in Range(SubSeq(dense, 1, m)),
           result[j] \in Range(sparse) => a \in Range(SubSeq(sparse, 1, n))
    PROVE  \E i \in 1..(j - 1) : result[i] = a
<1> DEFINE found == Range(dense) \cup Range(sparse)
           SortKey(r) == <<-Score(dense, sparse, r), FirstRank(dense, sparse, r),
                           Min(Ranks(dense \o sparse, r))>>
           order == {p \in found \X found :
                       \E i \in 1..3 : /\ SortKey(p[1])[i] < SortKey(p[2])[i]
                                       /\ \A k \in 1..(i - 1) :
                                             SortKey(p[1])[k] = SortKey(p[2])[k]}
<1>1. result \in FirstOf(found, TopK, order)
  BY DEF RrfMerge
<1>2. PICK b : b = result[j]
  OBVIOUS
<1>3. b.thread # thread
  BY <1>2
<1>4. /\ b \in Range(dense) => a \in Range(SubSeq(dense, 1, m))
      /\ b \in Range(sparse) => a \in Range(SubSeq(sparse, 1, n))
  BY <1>2
<1>5. /\ Gathered(dense, a) \in Nat /\ Gathered(dense, b) \in Nat
      /\ Gathered(dense, b) <= Gathered(dense, a)
      /\ b \notin Range(dense) => Gathered(dense, b) = 0
      /\ a \in Range(SubSeq(dense, 1, m)) => a \in Range(dense)
      /\ a \in Range(dense) => Gathered(dense, a) > 0
      /\ b \in Range(dense) => /\ Min(Ranks(dense, a)) \in Nat /\ Min(Ranks(dense, b)) \in Nat
                               /\ Min(Ranks(dense, a)) < Min(Ranks(dense, b))
  BY <1>3, <1>4, OwnGathersMore
<1>6. /\ Gathered(sparse, a) \in Nat /\ Gathered(sparse, b) \in Nat
      /\ Gathered(sparse, b) <= Gathered(sparse, a)
      /\ b \notin Range(sparse) => Gathered(sparse, b) = 0
      /\ a \in Range(SubSeq(sparse, 1, n)) => a \in Range(sparse)
      /\ a \in Range(sparse) => Gathered(sparse, a) > 0
      /\ b \in Range(sparse) => /\ Min(Ranks(sparse, a)) \in Nat /\ Min(Ranks(sparse, b)) \in Nat
                                /\ Min(Ranks(sparse, a)) < Min(Ranks(sparse, b))
  BY <1>3, <1>4, OwnGathersMore
<1>7. a \in found /\ b \in found
  <2>1. b \in found
    <3>1. j \in DOMAIN result /\ result \in [DOMAIN result -> found]
      BY <1>1 DEF FirstOf
    <3>2. QED
      BY <1>2, <3>1
  <2>2. QED
    BY <1>5, <1>6, <2>1
<1> DEFINE sa == Score(dense, sparse, a)
           sb == Score(dense, sparse, b)
           fa == FirstRank(dense, sparse, a)
           fb == FirstRank(dense, sparse, b)
<1>8. sa \in Nat /\ sb \in Nat /\ sb <= sa
  BY <1>5, <1>6 DEF Score
<1>9. sa = sb => fa \in Nat /\ fb \in Nat /\ fa < fb
  <2>1. CASE b \in Range(dense)
    <3>1. fa = Min(Ranks(dense, a)) /\ fb = Min(Ranks(dense, b))
      BY <1>4, <1>5, <2>1 DEF FirstRank
    <3>2. QED
      BY <1>5, <2>1, <3>1
  <2>2. CASE b \notin Range(dense) /\ b \in Range(sparse)
    <3>1. CASE a \in Range(dense)
      <4>1. Gathered(dense, a) > 0
        BY <1>5, <3>1
      <4>2. sa > sb
        BY <1>5, <1>6, <2>2, <4>1 DEF Score
      <4>3. QED
        BY <1>8, <4>2
    <3>2. CASE a \notin Range(dense)
      <4>1. fa = Min(Ranks(sparse, a)) /\ fb = Min(Ranks(sparse, b))
        BY <2>2, <3>2 DEF FirstRank
      <4>2. QED
        BY <1>6, <2>2, <4>1
    <3>3. QED
      BY <3>1, <3>2
  <2>3. QED
    BY <1>7, <2>1, <2>2
<1>10. <<b, a>> \notin order
  <2> SUFFICES ASSUME <<b, a>> \in order PROVE FALSE
    OBVIOUS
  <2>1. PICK i \in 1..3 : /\ SortKey(b)[i] < SortKey(a)[i]
                          /\ \A k \in 1..(i - 1) : SortKey(b)[k] = SortKey(a)[k]
    OBVIOUS
  <2> HIDE DEF order
  <2>2. /\ SortKey(a)[1] = -sa /\ SortKey(b)[1] = -sb
        /\ SortKey(a)[2] = fa /\ SortKey(b)[2] = fb
    OBVIOUS
  <2> HIDE DEF SortKey, sa, sb, fa, fb
  <2>3. CASE i = 1
    BY <1>8, <2>1, <2>2, <2>3
  <2>4. CASE i = 2
    <3>1. 1 \in 1..(i - 1)
      BY <2>4
    <3>2. -sb = -sa /\ fb < fa
      BY <2>1, <2>2, <2>4, <3>1
    <3>3. QED
      BY <1>8, <1>9, <3>2
  <2>5. CASE i = 3
    <3>1. 1 \in 1..(i - 1) /\ 2 \in 1..(i - 1)
      BY <2>5
    <3>2. -sb = -sa /\ fb = fa
      BY <2>1, <2>2, <3>1
    <3>3. QED
      BY <1>8, <1>9, <3>2
  <2>6. QED
    BY <2>1, <2>3, <2>4, <2>5
<1> HIDE DEF order, found
<1>11. a \in Range(result)
  <2>1. \A i \in DOMAIN result : \A r \in found \ Range(result) : <<result[i], r>> \in order
    BY <1>1 DEF FirstOf
  <2>2. QED
    BY <1>2, <1>7, <1>10, <2>1
<1>12. PICK i \in DOMAIN result : result[i] = a
  BY <1>11 DEF Range
<1>13. i # j
  <2>1. a.thread = thread
    <3>1. m \in 0..Len(dense) /\ n \in 0..Len(sparse)
      <4>1. Len(dense) \in Nat /\ Len(sparse) \in Nat
        BY LenProperties
      <4>2. QED
        BY <4>1 DEF Behind
    <3>2. \/ \E k \in 1..m : dense[k] = a
          \/ \E k \in 1..n : sparse[k] = a
      BY <3>1, PrefixRange
    <3>3. QED
      BY <3>2 DEF OfThread
  <2>2. QED
    BY <1>2, <1>3, <1>12, <2>1
<1>14. ~(j < i)
  <2>1. \A k, l \in DOMAIN result : k < l => <<result[k], result[l]>> \in order
    BY <1>1 DEF FirstOf
  <2>2. QED
    BY <1>2, <1>10, <1>12, <2>1
<1>15. \E l \in Nat : DOMAIN result = 1..l
  <2>1. PICK l : result \in [1..l -> found] /\ l \in Nat
    <3>1. IsFiniteSet(found) /\ Cardinality(found) \in Nat
      <4>1. IsFiniteSet(Range(dense)) /\ IsFiniteSet(Range(sparse))
        BY RangeFinite
      <4>2. QED
        BY <4>1, FS_Union, FS_CardinalityType DEF found
    <3>2. TopK \in Nat
      BY KnowledgeAssumption DEF KnowledgeAssumption
    <3>3. QED
      BY <1>1, <3>1, <3>2 DEF FirstOf
  <2>2. DOMAIN result = 1..l
    BY <2>1
  <2>3. QED
    BY <2>1, <2>2
<1>16. i \in 1..(j - 1)
  <2>1. PICK l \in Nat : DOMAIN result = 1..l
    BY <1>15
  <2>2. i \in 1..l /\ j \in 1..l
    BY <1>12, <2>1
  <2>3. QED
    BY <1>13, <1>14, <2>2
<1>17. QED
  BY <1>12, <1>16

-----------------------------------------------------------------------------
(* The two lists of a search in progress: what the own conversation gave,  *)
(* and behind it what the search of all conversations adds.                *)
PartsOf(s) ==
    /\ Behind(s.dense, s.own[1]) /\ Behind(s.sparse, s.own[2])
    /\ s.at \in {"vector", "cache", "dense"} => Len(s.dense) = s.own[1]
    /\ s.at \in {"vector", "cache", "dense", "sparse"} => Len(s.sparse) = s.own[2]
    /\ s.wide \in BOOLEAN /\ (s.wide \/ (s.own[1] = 0 /\ s.own[2] = 0))
    /\ s.thread # All =>
          /\ OfThread(s.dense, IF s.wide THEN s.own[1] ELSE Len(s.dense), s.thread)
          /\ OfThread(s.sparse, IF s.wide THEN s.own[2] ELSE Len(s.sparse), s.thread)
    /\ s.wide =>
          Cardinality(Range(SubSeq(s.dense, 1, s.own[1])) \cup Range(SubSeq(s.sparse, 1, s.own[2])))
             < TopK

Parts == search.at # "idle" => PartsOf(search)

(* One search call returns no row twice, no more than it may, and without  *)
(* widening only rows of the own conversation.                             *)
LEMMA HitsOwn ==
    ASSUME IInv, NEW says, NEW list, NEW hits \in Hits(list, says)
    PROVE  /\ hits \in Seq(Row) /\ Len(hits) <= CandidateK
           /\ \A i, j \in 1..Len(hits) : hits[i] = hits[j] => i = j
           /\ search.wide \/ search.thread = All \/ OfThread(hits, Len(hits), search.thread)
<1> DEFINE found == {r \in rows : /\ says[r] \in Range(list)
                                  /\ r.second >= search.since
                                  /\ search.wide \/ search.thread \in {All, r.thread}}
           order == {p \in found \X found :
                       \/ Place(says[p[1]], list) < Place(says[p[2]], list)
                       \/ says[p[1]] = says[p[2]] /\ p[1].pk < p[2].pk}
<1>1. hits \in FirstOf(found, CandidateK, order)
  BY DEF Hits
<1>2. /\ found \subseteq rows
      /\ \A r \in found : search.wide \/ search.thread = All \/ search.thread = r.thread
  OBVIOUS
<1> HIDE DEF found, order
<1>3. IsFiniteSet(found) /\ CandidateK \in Nat /\ Cardinality(found) \in Nat
  BY <1>2, FS_Subset, FS_CardinalityType, KnowledgeAssumption DEF IInv, RowsTrue, KnowledgeAssumption
<1>4. /\ hits \in Seq(found) /\ IsInjective(hits)
      /\ Len(hits) = IF Cardinality(found) < CandidateK THEN Cardinality(found) ELSE CandidateK
  BY <1>1, <1>3, FirstOfShape
<1>5. DOMAIN hits = 1..Len(hits)
  BY <1>4, LenProperties
<1>6. \A i \in 1..Len(hits) : hits[i] \in found
  BY <1>4, <1>5, ElementOfSeq
<1>7. \A i, j \in 1..Len(hits) : hits[i] = hits[j] => i = j
  BY <1>4, <1>5 DEF IsInjective
<1>8. hits \in Seq(Row) /\ Len(hits) <= CandidateK
  BY <1>1, <1>3, <1>4, HitsFound
<1>9. search.wide \/ search.thread = All \/ OfThread(hits, Len(hits), search.thread)
  BY <1>2, <1>6 DEF OfThread
<1>10. QED
  BY <1>7, <1>8, <1>9

(* What one search call adds to a list comes behind what was there.        *)
LEMMA BehindGrows ==
    ASSUME NEW list \in Seq(Row), NEW hits \in Seq(Row), Behind(list, Len(list)),
           Len(hits) <= CandidateK,
           \A i, j \in 1..Len(hits) : hits[i] = hits[j] => i = j
    PROVE  /\ Behind(list \o hits, Len(list)) /\ list \o hits \in Seq(Row)
           /\ SubSeq(list \o hits, 1, Len(list)) = list
           /\ \A thread : OfThread(list, Len(list), thread) =>
                 /\ OfThread(list \o hits, Len(list), thread)
                 /\ OfThread(hits, Len(hits), thread) =>
                       OfThread(list \o hits, Len(list \o hits), thread)
<1> DEFINE both == list \o hits
<1>1. /\ both \in Seq(Row) /\ Len(both) = Len(list) + Len(hits)
      /\ \A i \in 1..Len(list) + Len(hits) :
            both[i] = IF i <= Len(list) THEN list[i] ELSE hits[i - Len(list)]
  BY ConcatProperties
<1>2. Len(list) \in Nat /\ Len(hits) \in Nat
  BY LenProperties
<1>3. SubSeq(both, 1, Len(list)) = list
  BY <1>2
<1> HIDE DEF both
<1>4. Behind(both, Len(list))
  <2>1. CandidateK \in Nat /\ Len(list) \in 0..CandidateK
    BY KnowledgeAssumption DEF Behind, KnowledgeAssumption
  <2>2. ASSUME NEW i \in (Len(list) + 1)..Len(both), NEW j \in (Len(list) + 1)..Len(both),
               both[i] = both[j]
        PROVE  i = j
    <3>1. both[i] = hits[i - Len(list)] /\ both[j] = hits[j - Len(list)]
      BY <1>1, <1>2
    <3>2. i - Len(list) \in 1..Len(hits) /\ j - Len(list) \in 1..Len(hits)
      BY <1>1, <1>2
    <3>3. i - Len(list) = j - Len(list)
      BY <2>2, <3>1, <3>2
    <3>4. QED
      BY <1>2, <3>3
  <2>3. QED
    BY <1>1, <1>2, <2>1, <2>2 DEF Behind
<1>5. ASSUME NEW thread, OfThread(list, Len(list), thread)
      PROVE  /\ OfThread(both, Len(list), thread)
             /\ OfThread(hits, Len(hits), thread) => OfThread(both, Len(both), thread)
  <2>1. \A i \in 1..Len(list) : both[i].thread = thread
    BY <1>1, <1>2, <1>5 DEF OfThread
  <2>2. ASSUME OfThread(hits, Len(hits), thread), NEW i \in 1..Len(both)
        PROVE  both[i].thread = thread
    <3>1. CASE i <= Len(list)
      BY <1>2, <2>1, <3>1
    <3>2. CASE ~(i <= Len(list))
      <4>1. both[i] = hits[i - Len(list)] /\ i - Len(list) \in 1..Len(hits)
        BY <1>1, <1>2, <3>2
      <4>2. QED
        BY <2>2, <4>1 DEF OfThread
    <3>3. QED
      BY <3>1, <3>2
  <2>3. QED
    BY <2>1, <2>2 DEF OfThread
<1>6. QED
  BY <1>1, <1>3, <1>4, <1>5 DEF both

LEMMA SearchParts ==
    ASSUME Search PROVE Parts'
<1>1. PICK query \in Queries, since \in 0..clock, at \in {"vector", "sparse"},
           thread \in Threads \cup {All} :
         search' = Request(at, thread, query, since)
  BY DEF Search
<1> DEFINE s == Request(at, thread, query, since)
<1>2. /\ s.dense = <<>> /\ s.sparse = <<>> /\ s.own[1] = 0 /\ s.own[2] = 0 /\ s.wide = FALSE
  BY DEF Request
<1> HIDE DEF s
<1>3. Len(<<>>) = 0 /\ CandidateK \in Nat
  BY KnowledgeAssumption DEF KnowledgeAssumption
<1>4. Behind(<<>>, 0) /\ OfThread(<<>>, 0, s.thread)
  BY <1>3 DEF Behind, OfThread
<1>5. PartsOf(s)
  BY <1>2, <1>3, <1>4 DEF PartsOf
<1>6. QED
  BY <1>1, <1>5 DEF Parts, s

(* Steps that leave the lists alone.                                       *)
LEMMA SameParts ==
    ASSUME Parts, search.at # "idle",
           search'.dense = search.dense, search'.sparse = search.sparse,
           search'.own = search.own, search'.wide = search.wide, search'.thread = search.thread,
           search'.at \in {"cache", "dense"} => search.at \in {"vector", "cache"},
           search'.at \in {"cache", "dense", "merge", "done"}
    PROVE  Parts'
<1>1. PICK s : s = search'
  OBVIOUS
<1>2. PICK t : t = search
  OBVIOUS
<1>3. PartsOf(t)
  BY <1>2 DEF Parts
<1>4. PartsOf(s)
  BY <1>1, <1>2, <1>3 DEF PartsOf
<1>5. QED
  BY <1>1, <1>4 DEF Parts

LEMMA SearchDenseParts ==
    ASSUME IInv, Parts, SearchDense PROVE Parts'
<1>1. PICK hits \in DenseHits : search' = [search EXCEPT !.dense = @ \o hits, !.at = "sparse"]
  BY DEF SearchDense
<1>2. search.at = "dense"
  BY DEF SearchDense
<1>3. /\ search.dense \in Seq(Row)
      /\ DOMAIN search = {"at", "thread", "query", "since", "wide", "vec", "dense", "sparse",
                          "own", "result"}
  BY <1>2 DEF IInv, SearchTrue, SearchShape
<1>4. /\ hits \in Seq(Row) /\ Len(hits) <= CandidateK
      /\ \A i, j \in 1..Len(hits) : hits[i] = hits[j] => i = j
      /\ search.wide \/ search.thread = All \/ OfThread(hits, Len(hits), search.thread)
  BY <1>1, HitsOwn DEF DenseHits
<1>5. PICK t : t = search
  OBVIOUS
<1>6. PICK dense : dense = t.dense \o hits
  OBVIOUS
<1>7. PICK s : s = [t EXCEPT !.dense = dense, !.at = "sparse"]
  OBVIOUS
<1>8. /\ s.at = "sparse" /\ s.dense = dense /\ s.sparse = t.sparse /\ s.own = t.own
      /\ s.wide = t.wide /\ s.thread = t.thread
  BY <1>3, <1>5, <1>7
<1>9. PartsOf(t) /\ t.at = "dense"
  BY <1>2, <1>5 DEF Parts
<1>10. Len(t.dense) = t.own[1] /\ Behind(t.dense, Len(t.dense))
  BY <1>9 DEF PartsOf
<1>11. /\ Behind(dense, t.own[1]) /\ SubSeq(dense, 1, t.own[1]) = t.dense
       /\ \A thread : OfThread(t.dense, t.own[1], thread) =>
             /\ OfThread(dense, t.own[1], thread)
             /\ OfThread(hits, Len(hits), thread) => OfThread(dense, Len(dense), thread)
  BY <1>3, <1>4, <1>5, <1>6, <1>10, BehindGrows
<1>12. SubSeq(t.dense, 1, t.own[1]) = t.dense
  BY <1>3, <1>5, <1>10
<1>13. t.thread # All => OfThread(t.dense, t.own[1], t.thread)
  BY <1>9, <1>10 DEF PartsOf
<1>14. t.thread # All => OfThread(dense, IF t.wide THEN t.own[1] ELSE Len(dense), t.thread)
  BY <1>4, <1>5, <1>11, <1>13
<1>15. PartsOf(s)
  BY <1>8, <1>9, <1>11, <1>12, <1>14 DEF PartsOf
<1>16. search' = s
  BY <1>1, <1>5, <1>6, <1>7
<1>17. QED
  BY <1>15, <1>16 DEF Parts

LEMMA SearchSparseParts ==
    ASSUME IInv, Parts, SearchSparse PROVE Parts'
<1>1. PICK hits \in SparseHits :
        LET s == [search EXCEPT !.sparse = @ \o hits]
        IN  search' = IF s.wide \/ s.thread = All \/ Enough(s) THEN [s EXCEPT !.at = "merge"]
                      ELSE [s EXCEPT !.at = "vector", !.wide = TRUE,
                                     !.own = <<Len(s.dense), Len(s.sparse)>>]
  BY DEF SearchSparse
<1>2. search.at = "sparse"
  BY DEF SearchSparse
<1>3. /\ search.dense \in Seq(Row) /\ search.sparse \in Seq(Row)
      /\ DOMAIN search = {"at", "thread", "query", "since", "wide", "vec", "dense", "sparse",
                          "own", "result"}
  BY <1>2 DEF IInv, SearchTrue, SearchShape
<1>4. /\ hits \in Seq(Row) /\ Len(hits) <= CandidateK
      /\ \A i, j \in 1..Len(hits) : hits[i] = hits[j] => i = j
      /\ search.wide \/ search.thread = All \/ OfThread(hits, Len(hits), search.thread)
  BY <1>1, HitsOwn DEF SparseHits
<1>5. PICK t : t = search
  OBVIOUS
<1>6. PICK sparse : sparse = t.sparse \o hits
  OBVIOUS
<1>7. PICK s : s = [t EXCEPT !.sparse = sparse]
  OBVIOUS
<1>8. /\ s.at = "sparse" /\ s.dense = t.dense /\ s.sparse = sparse /\ s.own = t.own
      /\ s.wide = t.wide /\ s.thread = t.thread /\ DOMAIN s = DOMAIN search
  BY <1>2, <1>3, <1>5, <1>7
<1>9. PartsOf(t) /\ t.at = "sparse"
  BY <1>2, <1>5 DEF Parts
<1>10. Len(t.sparse) = t.own[2] /\ Behind(t.sparse, Len(t.sparse))
  BY <1>9 DEF PartsOf
<1>11. /\ Behind(sparse, t.own[2]) /\ SubSeq(sparse, 1, t.own[2]) = t.sparse
       /\ sparse \in Seq(Row)
       /\ \A thread : OfThread(t.sparse, t.own[2], thread) =>
             /\ OfThread(sparse, t.own[2], thread)
             /\ OfThread(hits, Len(hits), thread) => OfThread(sparse, Len(sparse), thread)
  BY <1>3, <1>4, <1>5, <1>6, <1>10, BehindGrows
<1>12. SubSeq(t.sparse, 1, t.own[2]) = t.sparse
  BY <1>3, <1>5, <1>10
<1>13. t.thread # All => OfThread(t.sparse, t.own[2], t.thread)
  BY <1>9, <1>10 DEF PartsOf
<1>14. t.thread # All => OfThread(sparse, IF t.wide THEN t.own[2] ELSE Len(sparse), t.thread)
  BY <1>4, <1>5, <1>11, <1>13
<1>15. search' = IF s.wide \/ s.thread = All \/ Enough(s) THEN [s EXCEPT !.at = "merge"]
                 ELSE [s EXCEPT !.at = "vector", !.wide = TRUE,
                                !.own = <<Len(s.dense), Len(s.sparse)>>]
  BY <1>1, <1>5, <1>6, <1>7
<1>16. CASE s.wide \/ s.thread = All \/ Enough(s)
  <2>1. PICK u : u = [s EXCEPT !.at = "merge"]
    OBVIOUS
  <2>2. /\ u.at = "merge" /\ u.dense = t.dense /\ u.sparse = sparse /\ u.own = t.own
        /\ u.wide = t.wide /\ u.thread = t.thread
    BY <1>3, <1>8, <2>1
  <2>3. PartsOf(u)
    BY <1>9, <1>11, <1>12, <1>14, <2>2 DEF PartsOf
  <2>4. search' = u
    BY <1>15, <1>16, <2>1
  <2>5. QED
    BY <2>3, <2>4 DEF Parts
<1>17. CASE ~(s.wide \/ s.thread = All \/ Enough(s))
  <2>1. PICK u : u = [s EXCEPT !.at = "vector", !.wide = TRUE,
                               !.own = <<Len(s.dense), Len(s.sparse)>>]
    OBVIOUS
  <2>2. /\ u.at = "vector" /\ u.dense = t.dense /\ u.sparse = sparse
        /\ u.own[1] = Len(t.dense) /\ u.own[2] = Len(sparse)
        /\ u.wide = TRUE /\ u.thread = t.thread
    BY <1>3, <1>8, <2>1
  <2>3. Behind(t.dense, 0) /\ Behind(sparse, 0) /\ t.thread # All /\ ~t.wide
    BY <1>8, <1>9, <1>11, <1>17 DEF PartsOf
  <2>4. Behind(t.dense, Len(t.dense)) /\ Behind(sparse, Len(sparse))
    <3>1. Len(t.dense) \in Nat /\ Len(sparse) \in Nat /\ CandidateK \in Nat
      BY <1>3, <1>5, <1>11, LenProperties, KnowledgeAssumption DEF KnowledgeAssumption
    <3>2. Len(t.dense) <= CandidateK /\ Len(sparse) <= CandidateK
      BY <2>3, <3>1 DEF Behind
    <3>3. QED
      BY <3>1, <3>2 DEF Behind
  <2>5. /\ OfThread(t.dense, Len(t.dense), t.thread)
        /\ OfThread(sparse, Len(sparse), t.thread)
    BY <1>9, <1>14, <2>3 DEF PartsOf
  <2>6. SubSeq(t.dense, 1, Len(t.dense)) = t.dense /\ SubSeq(sparse, 1, Len(sparse)) = sparse
    BY <1>3, <1>5, <1>11
  <2>7. Cardinality(Range(t.dense) \cup Range(sparse)) < TopK
    <3>1. ~(Cardinality(Range(t.dense) \cup Range(sparse)) >= TopK)
      BY <1>8, <1>17 DEF Enough
    <3>2. Cardinality(Range(t.dense) \cup Range(sparse)) \in Nat /\ TopK \in Nat
      BY <1>3, <1>5, <1>11, RangeFinite, FS_Union, FS_CardinalityType, KnowledgeAssumption
         DEF KnowledgeAssumption
    <3>3. QED
      BY <3>1, <3>2
  <2>8. PartsOf(u)
    BY <2>2, <2>4, <2>5, <2>6, <2>7 DEF PartsOf
  <2>9. search' = u
    BY <1>15, <1>17, <2>1
  <2>10. QED
    BY <2>8, <2>9 DEF Parts
<1>18. QED
  BY <1>16, <1>17

LEMMA NextParts ==
    ASSUME IInv, Parts, [Next]_vars PROVE Parts'
<1>1. CASE search' = search
  BY <1>1 DEF Parts
<1>2. CASE Search
  BY <1>2, SearchParts
<1>3. CASE QueryVector
  <2>1. search.at = "vector"
    BY <1>3 DEF QueryVector
  <2>2. DOMAIN search = {"at", "thread", "query", "since", "wide", "vec", "dense", "sparse",
                         "own", "result"}
    BY <2>1 DEF IInv, SearchTrue, SearchShape
  <2>3. \E vec : \/ search' = [search EXCEPT !.vec = vec, !.at = "dense"]
                 \/ search' = [search EXCEPT !.vec = vec, !.at = "cache"]
    BY <1>3 DEF QueryVector
  <2>4. /\ search'.at \in {"dense", "cache"} /\ search'.dense = search.dense
        /\ search'.sparse = search.sparse /\ search'.own = search.own
        /\ search'.wide = search.wide /\ search'.thread = search.thread
    BY <2>2, <2>3
  <2>5. QED
    BY <2>1, <2>4, SameParts
<1>4. CASE CacheQuery
  <2>1. search.at = "cache" /\ search' = [search EXCEPT !.at = "dense"]
    BY <1>4 DEF CacheQuery
  <2>2. DOMAIN search = {"at", "thread", "query", "since", "wide", "vec", "dense", "sparse",
                         "own", "result"}
    BY <2>1 DEF IInv, SearchTrue, SearchShape
  <2>3. /\ search'.at = "dense" /\ search'.dense = search.dense
        /\ search'.sparse = search.sparse /\ search'.own = search.own
        /\ search'.wide = search.wide /\ search'.thread = search.thread
    BY <2>1, <2>2
  <2>4. QED
    BY <2>1, <2>3, SameParts
<1>5. CASE Answer
  <2>1. search.at = "merge" /\ \E result : search' = [search EXCEPT !.at = "done", !.result = result]
    BY <1>5 DEF Answer
  <2>2. DOMAIN search = {"at", "thread", "query", "since", "wide", "vec", "dense", "sparse",
                         "own", "result"}
    BY <2>1 DEF IInv, SearchTrue, SearchShape
  <2>3. /\ search'.at = "done" /\ search'.dense = search.dense
        /\ search'.sparse = search.sparse /\ search'.own = search.own
        /\ search'.wide = search.wide /\ search'.thread = search.thread
    BY <2>1, <2>2
  <2>4. QED
    BY <2>1, <2>3, SameParts
<1>6. CASE SearchFails
  BY <1>6 DEF SearchFails, NoSearch, Parts
<1>7. QED
  BY <1>1, <1>2, <1>3, <1>4, <1>5, <1>6, SearchDenseParts, SearchSparseParts
     DEF Next, IndexStep, SearchStep, IndexTurn, Lookup, EmbedDocuments, CacheDocuments,
         Insert, Prune, IndexFails, Tick, Rest, vars, searchVars

LEMMA InvOwnFirst ==
    ASSUME RanksCount, IInv, Parts PROVE OwnFirst
<1> SUFFICES ASSUME search.at = "done", search.thread # All,
                    NEW j \in DOMAIN search.result, ~Own(search, search.result[j])
             PROVE  LET ownDense  == Range(SubSeq(search.dense, 1, search.own[1]))
                        ownSparse == Range(SubSeq(search.sparse, 1, search.own[2]))
                        b == search.result[j]
                    IN  /\ Cardinality(ownDense \cup ownSparse) < TopK
                        /\ \A a \in ownDense \cup ownSparse :
                              /\ b \in Range(search.dense) => a \in ownDense
                              /\ b \in Range(search.sparse) => a \in ownSparse
                              => \E i \in 1..(j - 1) : search.result[i] = a
  BY DEF OwnFirst
<1>1. PICK dense, sparse, own, result, thread :
        /\ dense = search.dense /\ sparse = search.sparse /\ own = search.own
        /\ result = search.result /\ thread = search.thread
  OBVIOUS
<1>2. dense \in Seq(Row) /\ sparse \in Seq(Row) /\ result \in RrfMerge(dense, sparse)
  BY <1>1 DEF IInv, SearchTrue, SearchShape, Searched
<1>3. Behind(dense, own[1]) /\ Behind(sparse, own[2])
  BY <1>1 DEF Parts, PartsOf
<1>4. OfThread(dense, own[1], thread) /\ OfThread(sparse, own[2], thread)
  <2>1. CASE search.wide
    BY <1>1, <2>1 DEF Parts, PartsOf
  <2>2. CASE ~search.wide
    BY <1>1, <2>2 DEF Parts, PartsOf, OfThread
  <2>3. QED
    BY <2>1, <2>2
<1>5. Cardinality(Range(SubSeq(dense, 1, own[1])) \cup Range(SubSeq(sparse, 1, own[2]))) < TopK
  <2>1. CASE search.wide
    BY <1>1, <2>1 DEF Parts, PartsOf
  <2>2. CASE ~search.wide
    <3>1. own[1] = 0 /\ own[2] = 0
      BY <1>1, <2>2 DEF Parts, PartsOf
    <3>2. Len(dense) \in Nat /\ Len(sparse) \in Nat
      BY <1>2, LenProperties
    <3>3. /\ \A r \in Range(SubSeq(dense, 1, 0)) : FALSE
          /\ \A r \in Range(SubSeq(sparse, 1, 0)) : FALSE
      BY <1>2, <3>2, PrefixRange
    <3>4. Range(SubSeq(dense, 1, 0)) \cup Range(SubSeq(sparse, 1, 0)) = {}
      BY <3>3
    <3>5. Cardinality({}) = 0 /\ 0 < TopK
      BY FS_EmptySet, KnowledgeAssumption DEF KnowledgeAssumption
    <3>6. QED
      BY <3>1, <3>4, <3>5
  <2>3. QED
    BY <2>1, <2>2
<1>6. ASSUME NEW a \in Range(SubSeq(dense, 1, own[1])) \cup Range(SubSeq(sparse, 1, own[2])),
             result[j] \in Range(dense) => a \in Range(SubSeq(dense, 1, own[1])),
             result[j] \in Range(sparse) => a \in Range(SubSeq(sparse, 1, own[2]))
      PROVE  \E i \in 1..(j - 1) : result[i] = a
  <2>1. j \in DOMAIN result /\ result[j].thread # thread
    BY <1>1 DEF Own
  <2>2. QED
    BY <1>2, <1>3, <1>4, <1>6, <2>1, OwnAhead
<1>7. QED
  BY <1>1, <1>5, <1>6

(* RagService.hybrid_search and rrf_merge: for any conversations, queries, *)
(* bounds and interleaving with the index worker, rows of other            *)
(* conversations come only into an answer that the own conversation could  *)
(* not fill, and never ahead of a row of the own conversation that was     *)
(* found wherever they were, as long as every rank counts (CANDIDATE_K is  *)
(* 50 in the code).                                                        *)
THEOREM OwnAlwaysFirst ==
    ASSUME RanksCount PROVE Spec => []OwnFirst
<1>1. Init => IInv /\ Parts
  <2>1. ASSUME Init PROVE Parts
    BY <2>1 DEF Init, NoSearch, Parts
  <2>2. QED
    BY <2>1, InitInv
<1>2. IInv /\ Parts /\ [Next]_vars => IInv' /\ Parts'
  BY NextInv, NextParts
<1>3. IInv /\ Parts => OwnFirst
  BY InvOwnFirst
<1>4. QED
  BY <1>1, <1>2, <1>3, PTL DEF Spec

=============================================================================
