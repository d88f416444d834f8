----------------------------- MODULE Knowledge -----------------------------
(***************************************************************************)
(* The vector memory of the conversations: finished turns are embedded and *)
(* inserted by the index worker, the oldest rows of a conversation are     *)
(* pruned, and the search tool merges what a dense and a sparse search     *)
(* find, at first in its own conversation, then everywhere.  Vectors are   *)
(* cached on disk.                                                         *)
(*                                                                         *)
(* A vector is the pair of the role and the text it was computed from.     *)
(* What a query is close to is part of the query: the texts above the      *)
(* score threshold and those that share a word with it, best first.  The   *)
(* embedding lock only keeps two calls of the embedding service apart,     *)
(* which have no effect on each other, and is left out.                    *)
(***************************************************************************)
EXTENDS Integers, FiniteSets, Sequences, SequencesExt

CONSTANTS
    Threads,     \* conversations
    Texts,       \* what can be said
    Queries,     \* [text, dense, sparse]: what can be asked
    LastTask,    \* index tasks (bound of the model)
    LastSecond,  \* of the clock (bound of the model)
    LastSearch,  \* searches (bound of the model)
    Keep,        \* rag_retention_per_thread
    CacheMax,    \* embed_cache_max_entries; 0 is no bound
    TopK,        \* rag_top_k
    CandidateK,  \* CANDIDATE_K (50 in the code)
    QueryLimit   \* _QUERY_LIMIT (16384 in the code)

ASSUME KnowledgeAssumption ==
    /\ Keep \in Nat \ {0} /\ CacheMax \in Nat /\ TopK \in Nat \ {0}
    /\ CandidateK \in Nat \ {0} /\ QueryLimit \in Nat \ {0}
    /\ LastTask \in Nat /\ LastSecond \in Nat /\ LastSearch \in Nat
    /\ \A q \in Queries : q.text \in Texts /\ q.dense \in Seq(Texts) /\ q.sparse \in Seq(Texts)

All == "all"     \* thread_id = None
None == <<>>     \* no vector: not in the cache
Blank == ""      \* a message without a text, a turn without a reply

VARIABLES
    clock,     \* seconds, the resolution of a timestamp
    rows,      \* the collection: [pk, thread, second, text, vec]
    cache,     \* embed_cache: [key, vec, second]
    lock,      \* _client_lock: who holds it
    task,      \* index_turn in progress
    search,    \* hybrid_search in progress, or its answer
    tasks, searches, \* how many there were
    unpruned   \* history: conversations whose last pruning failed

indexVars == <<task, tasks>>
searchVars == <<search, searches>>
storeVars == <<rows, lock, unpruned>>
vars == <<clock, cache, storeVars, indexVars, searchVars>>

NoTask == [at |-> "idle"]
NoSearch == [at |-> "idle"]

Init ==
    /\ clock = 0 /\ rows = {} /\ cache = {} /\ lock = "free"
    /\ task = NoTask /\ search = NoSearch /\ tasks = 0 /\ searches = 0
    /\ unpruned = {}

-----------------------------------------------------------------------------
(* EmbeddingCache and EmbeddingService                                     *)

Key(role, text) == <<role, text>>
Embedding(role, text) == <<role, text>>

Cached(key) ==
    IF \E e \in cache : e.key = key THEN (CHOOSE e \in cache : e.key = key).vec
    ELSE None

(* Mutant: the rows to stay are the oldest.                                *)
LeavesOldest(some, of) == \A e \in some, d \in of \ some : e.second <= d.second

(* The kept and the dropped part of a table ordered by a time in seconds:  *)
(* within a second the order is that of the database.                      *)
LeavesNewest(some, of) == \A e \in some, d \in of \ some : e.second >= d.second

(* set, mset: insert or replace, then delete the oldest beyond the bound.  *)
Remember(pairs) ==
    LET written == {[key |-> p.key, vec |-> p.vec, second |-> clock] : p \in pairs}
        all     == written \cup {e \in cache : \A p \in pairs : e.key # p.key}
    IN  \E left \in SUBSET all :
          /\ LeavesNewest(left, all)
          /\ Cardinality(left) = IF CacheMax = 0 \/ Cardinality(all) <= CacheMax
                                 THEN Cardinality(all) ELSE CacheMax
          /\ cache' = left

-----------------------------------------------------------------------------
(* RagService.index_turn, run by the one task of the index worker          *)

Said(message, reply) ==
    (IF message = Blank THEN <<>> ELSE <<message>>) \o (IF reply = Blank THEN <<>> ELSE <<reply>>)

IndexTurn ==
    /\ task.at = "idle" /\ tasks < LastTask
    /\ \E thread \in Threads, message, reply \in Texts \cup {Blank} :
          LET texts == Said(message, reply)
          IN  /\ texts # <<>>
              /\ task' = [at |-> "lookup", thread |-> thread, texts |-> texts,
                          second |-> clock, vecs |-> <<>>, fresh |-> {}]
    /\ tasks' = tasks + 1
    /\ UNCHANGED <<clock, cache, storeVars, searchVars>>

(* mget under the lock of the cache.                                       *)
Lookup ==
    /\ task.at = "lookup"
    /\ LET vecs    == [i \in DOMAIN task.texts |-> Cached(Key("document", task.texts[i]))]
           missing == {i \in DOMAIN vecs : vecs[i] = None}
       IN  task' = [task EXCEPT !.vecs = vecs, !.fresh = missing,
                                !.at = IF missing = {} THEN "insert" ELSE "embed"]
    /\ UNCHANGED <<clock, cache, tasks, storeVars, searchVars>>

(* Mutant: the new vectors are given out from the first text on.           *)
FilledFromFirst(vecs, fresh, new) ==
    [i \in DOMAIN vecs |-> IF i <= Len(new) THEN new[i] ELSE vecs[i]]

(* The j-th new vector belongs to the j-th text the cache did not know.    *)
Filled(vecs, fresh, new) ==
    [i \in DOMAIN vecs |->
        IF i \in fresh THEN new[Cardinality(fresh \cap 1..i)] ELSE vecs[i]]

(* One call for all missing texts, tried three times.                      *)
EmbedDocuments ==
    /\ task.at = "embed"
    /\ \E idxs \in [1..Cardinality(task.fresh) -> task.fresh] :
          LET new == [j \in DOMAIN idxs |-> Embedding("document", task.texts[idxs[j]])]
          IN  /\ \A j, k \in DOMAIN idxs : j < k => idxs[j] < idxs[k]
              /\ task' = [task EXCEPT !.vecs = Filled(@, task.fresh, new), !.at = "cache"]
    /\ UNCHANGED <<clock, cache, tasks, storeVars, searchVars>>

CacheDocuments ==
    /\ task.at = "cache"
    /\ Remember({[key |-> Key("document", task.texts[i]), vec |-> task.vecs[i]] :
                    i \in task.fresh})
    /\ task' = [task EXCEPT !.at = "insert"]
    /\ UNCHANGED <<clock, tasks, storeVars, searchVars>>

(* The lock is held from here to the end of the pruning.                   *)
Insert ==
    /\ task.at = "insert" /\ lock = "free" /\ lock' = "indexer"
    /\ rows' = rows \cup {[pk |-> 2 * tasks + i, thread |-> task.thread,
                           second |-> task.second, text |-> task.texts[i],
                           vec |-> task.vecs[i]] : i \in DOMAIN task.texts}
    /\ task' = [task EXCEPT !.at = "prune"]
    /\ UNCHANGED <<clock, cache, tasks, unpruned, searchVars>>

Of(thread) == {r \in rows : r.thread = thread}

Stay(kept, seen) == LeavesNewest(kept, seen)

(* _prune_thread: of the rows the query returns the newest Keep stay.      *)
Prune ==
    /\ task.at = "prune" /\ lock' = "free" /\ task' = NoTask
    /\ \E seen \in SUBSET Of(task.thread) :
          /\ Cardinality(seen) = IF Cardinality(Of(task.thread)) < QueryLimit
                                 THEN Cardinality(Of(task.thread)) ELSE QueryLimit
          /\ \E kept \in SUBSET seen :
                /\ Cardinality(kept) = IF Cardinality(seen) < Keep
                                       THEN Cardinality(seen) ELSE Keep
                /\ Stay(kept, seen)
                /\ rows' = rows \ (seen \ kept)
    /\ unpruned' = unpruned \ {task.thread}
    /\ UNCHANGED <<clock, cache, tasks, searchVars>>

(* Any step may raise: the task is over, what it did stays.                *)
IndexFails ==
    /\ task.at \in {"embed", "insert", "prune"}
    /\ task' = NoTask
    /\ IF task.at = "prune"
       THEN lock' = "free" /\ unpruned' = unpruned \cup {task.thread}
       ELSE UNCHANGED <<lock, unpruned>>
    /\ UNCHANGED <<clock, cache, rows, tasks, searchVars>>

-----------------------------------------------------------------------------
(* search_chat_history and RagService.hybrid_search                        *)

Request(at, thread, query, since) ==
    [at |-> at, thread |-> thread, query |-> query, since |-> since,
     wide |-> FALSE, vec |-> None, dense |-> <<>>, sparse |-> <<>>,
     own |-> <<0, 0>>, result |-> <<>>]

(* By meaning, from the own conversation, or by a keyword, everywhere and  *)
(* by words alone; both within a window of time.                           *)
Search ==
    /\ search.at \in {"idle", "done"} /\ searches < LastSearch
    /\ \E query \in Queries, since \in 0..clock :
          \/ \E thread \in Threads : search' = Request("vector", thread, query, since)
          \/ search' = Request("sparse", All, query, since)
    /\ searches' = searches + 1
    /\ UNCHANGED <<clock, cache, storeVars, indexVars>>

(* embed_query: from the cache or from the service.                        *)
QueryVector ==
    /\ search.at = "vector"
    /\ LET known == Cached(Key("query", search.query.text))
       IN  search' = IF known # None THEN [search EXCEPT !.vec = known, !.at = "dense"]
                     ELSE [search EXCEPT !.vec = Embedding("query", search.query.text),
                                         !.at = "cache"]
    /\ UNCHANGED <<clock, cache, searches, storeVars, indexVars>>

CacheQuery ==
    /\ search.at = "cache"
    /\ Remember({[key |-> Key("query", search.query.text), vec |-> search.vec]})
    /\ search' = [search EXCEPT !.at = "dense"]
    /\ UNCHANGED <<clock, searches, storeVars, indexVars>>

(* The first n of some rows in an order, a set of pairs; only one list     *)
(* qualifies when the order is total.                                      *)
FirstOf(found, n, order) ==
    {list \in [1..(IF Cardinality(found) < n THEN Cardinality(found) ELSE n) -> found] :
        /\ IsInjective(list)
        /\ \A i, j \in DOMAIN list : i < j => <<list[i], list[j]>> \in order
        /\ \A i \in DOMAIN list : \A r \in found \ Range(list) : <<list[i], r>> \in order}

Place(text, list) == CHOOSE i \in DOMAIN list : list[i] = text

(* Milvus: the best CandidateK rows that pass the filter; says[r] is what  *)
(* the field searched says of row r.                                       *)
Hits(list, says) ==
    LET found == {r \in rows : /\ says[r] \in Range(list)
                               /\ r.second >= search.since
                               /\ search.wide \/ search.thread \in {All, r.thread}}
        order == {p \in found \X found :
                     \/ Place(says[p[1]], list) < Place(says[p[2]], list)
                     \/ says[p[1]] = says[p[2]] /\ p[1].pk < p[2].pk}
    IN  FirstOf(found, CandidateK, order)

DenseHits == Hits(search.query.dense, [r \in rows |-> r.vec[2]])
SparseHits == Hits(search.query.sparse, [r \in rows |-> r.text])

(* Mutant: a search does not wait for the writer.                          *)
StoreFreeAlways == TRUE

StoreFree == lock = "free"

SearchDense ==
    /\ search.at = "dense" /\ StoreFree
    /\ \E hits \in DenseHits :
          search' = [search EXCEPT !.dense = @ \o hits, !.at = "sparse"]
    /\ UNCHANGED <<clock, cache, searches, storeVars, indexVars>>

(* Mutant: a row that both signals find counts twice.                      *)
EnoughTwice(s) == Len(s.dense) + Len(s.sparse) >= TopK

Enough(s) == Cardinality(Range(s.dense) \cup Range(s.sparse)) >= TopK

(* The search of the own conversation suffices, or all are searched.       *)
SearchSparse ==
    /\ search.at = "sparse" /\ StoreFree
    /\ \E hits \in SparseHits :
       LET s == [search EXCEPT !.sparse = @ \o hits]
       IN  search' = IF s.wide \/ s.thread = All \/ Enough(s) THEN [s EXCEPT !.at = "merge"]
                     ELSE [s EXCEPT !.at = "vector", !.wide = TRUE,
                                    !.own = <<Len(s.dense), Len(s.sparse)>>]
    /\ UNCHANGED <<clock, cache, searches, storeVars, indexVars>>

(* 1 / (k + rank), in units of 10^-9.                                      *)
Reciprocal(rank) == 1000000000 \div (60 + rank)

Ranks(list, row) == {i \in DOMAIN list : list[i] = row}

(* Mutant: what was scored before is overwritten.                          *)
ScoreLast(dense, sparse, row) ==
    IF row \in Range(sparse) THEN Reciprocal(Max(Ranks(sparse, row)))
    ELSE Reciprocal(Max(Ranks(dense, row)))

(* What a row gathers along one list: a summand for every time it is met.  *)
Gathered(list, row) ==
    LET upTo[n \in 0..Len(list)] ==
            IF n = 0 THEN 0
            ELSE upTo[n - 1] + (IF list[n] = row THEN Reciprocal(n) ELSE 0)
    IN  upTo[Len(list)]

Score(dense, sparse, row) == Gathered(dense, row) + Gathered(sparse, row)

(* The rank at which a row is met first, dense hits before sparse ones.    *)
FirstRank(dense, sparse, row) ==
    Min(IF row \in Range(dense) THEN Ranks(dense, row) ELSE Ranks(sparse, row))

(* rrf_merge and the cut: a stable sort of the rows as they are met.       *)
RrfMerge(dense, sparse) ==
    LET found == Range(dense) \cup Range(sparse)
        SortKey(r) == <<-Score(dense, sparse, r), FirstRank(dense, sparse, r),
                     Min(Ranks(dense \o sparse, r))>>
        order == {p \in found \X found :
                     \E i \in 1..3 : /\ SortKey(p[1])[i] < SortKey(p[2])[i]
                                     /\ \A j \in 1..(i - 1) :
                                           SortKey(p[1])[j] = SortKey(p[2])[j]}
    IN  FirstOf(found, TopK, order)

Answer ==
    /\ search.at = "merge"
    /\ \E result \in RrfMerge(search.dense, search.sparse) :
          search' = [search EXCEPT !.at = "done", !.result = result]
    /\ UNCHANGED <<clock, cache, searches, storeVars, indexVars>>

(* Embedding or searching raises: the answer is empty.                     *)
SearchFails ==
    /\ search.at \in {"vector", "dense", "sparse"}
    /\ search' = NoSearch
    /\ UNCHANGED <<clock, cache, searches, storeVars, indexVars>>

-----------------------------------------------------------------------------
Tick ==
    /\ clock < LastSecond /\ clock' = clock + 1
    /\ UNCHANGED <<cache, storeVars, indexVars, searchVars>>

(* The bounds of the model are reached.                                    *)
Rest ==
    /\ task.at = "idle" /\ search.at \in {"idle", "done"}
    /\ UNCHANGED vars

IndexStep == IndexTurn \/ Lookup \/ EmbedDocuments \/ CacheDocuments \/ Insert \/ Prune \/ IndexFails
SearchStep == Search \/ QueryVector \/ CacheQuery \/ SearchDense \/ SearchSparse \/ Answer \/ SearchFails

Next == IndexStep \/ SearchStep \/ Tick \/ Rest

Spec == Init /\ [][Next]_vars

-----------------------------------------------------------------------------
(* Properties                                                              *)

Keys == {"query", "document"} \X Texts

TypeOK ==
    /\ clock \in 0..LastSecond /\ lock \in {"free", "indexer"}
    /\ rows \subseteq [pk : Nat, thread : Threads, second : 0..LastSecond,
                       text : Texts, vec : Keys]
    /\ cache \subseteq [key : Keys, vec : Keys, second : 0..LastSecond]
    /\ \A e, f \in cache : e.key = f.key => e = f
    /\ \A r, t \in rows : r.pk = t.pk => r = t
    /\ task.at \in {"idle", "lookup", "embed", "cache", "insert", "prune"}
    /\ search.at \in {"idle", "vector", "cache", "dense", "sparse", "merge", "done"}
    /\ tasks \in 0..LastTask /\ searches \in 0..LastSearch
    /\ unpruned \subseteq Threads

(* Whatever was cached, evicted or embedded anew in between, a row is      *)
(* stored with the vector of its own text, a vector is cached under its    *)
(* own key, and a query is searched for with its own vector.               *)
VectorsTrue ==
    /\ TypeOK
    /\ \A r \in rows : r.vec = Embedding("document", r.text)
    /\ \A e \in cache : e.vec = e.key
    /\ search.at \in {"dense", "cache"} => search.vec = Embedding("query", search.query.text)

(* The cache never outgrows its bound, and what it forgets is never newer  *)
(* than what it still knows of before.                                     *)
CacheForgetsOldest ==
    [][/\ CacheMax > 0 => Cardinality(cache') <= CacheMax
       /\ \A e \in cache, f \in cache \cap cache' :
             (\A g \in cache' : g.key # e.key) => e.second <= f.second]_vars

(* A conversation loses rows only to newer ones, only the oldest, and no   *)
(* more than the retention asks for.                                       *)
PrunesOldest ==
    \A r \in rows \ rows' :
        LET left == {s \in rows' : s.thread = r.thread}
        IN  /\ Cardinality(left) >= Keep
            /\ \A s \in left : s.second >= r.second

(* Nobody but the writer ever sees more of a conversation than the         *)
(* retention allows, unless its last pruning failed: not in the collection *)
(* while the lock is free and not in what one search call returned.        *)
SeesRetained ==
    \A t \in Threads \ unpruned' :
        /\ lock' = "free" => Cardinality({r \in rows' : r.thread = t}) <= Keep
        /\ search'.at = "sparse" /\ search.at = "dense" =>
              LET new == SubSeq(search'.dense, Len(search.dense) + 1, Len(search'.dense))
              IN  Cardinality({r \in Range(new) : r.thread = t}) <= Keep

(* The retention of the collection, as the writer and the readers see it.  *)
Retention == [][PrunesOldest /\ SeesRetained]_vars

(* An answer holds every row once and no more than were asked for; every   *)
(* row in it is close to the query or shares a word with it and lies in    *)
(* the window; and it falls short only if a search of all conversations    *)
(* found no more.                                                          *)
AnswerSound ==
    search.at = "done" =>
        LET found == Range(search.dense) \cup Range(search.sparse)
        IN  /\ IsInjective(search.result) /\ Range(search.result) \subseteq found
            /\ Len(search.result) = Min({TopK, Cardinality(found)})
            /\ Len(search.result) < TopK => search.wide \/ search.thread = All
            /\ \A r \in Range(search.result) :
                  /\ r.second >= search.since
                  /\ r.text \in Range(search.query.dense) \cup Range(search.query.sparse)

Own(s, r) == r.thread = s.thread

(* Rows of other conversations come only into an answer that the own       *)
(* conversation could not fill, and never ahead of a row of the own        *)
(* conversation that every signal which found them found first.            *)
OwnFirst ==
    search.at = "done" /\ search.thread # All =>
        LET ownDense  == Range(SubSeq(search.dense, 1, search.own[1]))
            ownSparse == Range(SubSeq(search.sparse, 1, search.own[2]))
        IN  \A j \in DOMAIN search.result :
              LET b == search.result[j]
              IN  ~Own(search, b) =>
                    /\ Cardinality(ownDense \cup ownSparse) < TopK
                    /\ \A a \in ownDense \cup ownSparse :
                          /\ b \in Range(search.dense) => a \in ownDense
                          /\ b \in Range(search.sparse) => a \in ownSparse
                          => \E i \in 1..(j - 1) : search.result[i] = a

=============================================================================
