--------------------------- MODULE EmbeddingCaches --------------------------
(***************************************************************************)
(* The caches between a text and its vector: those of the local model and  *)
(* that of the pipeline.                                                   *)
(***************************************************************************)
EXTENDS Integers, Sequences, FiniteSets, SequencesExt, FiniteSetsExt

(***************************************************************************)
(* LocalModel with its two cache levels: the in-process cache of OnnxModel *)
(* behind one lock, and the Redis cache shared by instances behind         *)
(* another.  A vector is identified with the text it embeds; Zero is the   *)
(* vector a failed inference yields.  Callers hold one lock at a time, so  *)
(* their steps interleave between look-up, inference and write-through.    *)
(***************************************************************************)

CONSTANTS EmbedText, EmbedCaller, OnnxCapacity, MaxFailures, Zero

ASSUME OnnxAssumption == OnnxCapacity \in Nat \ {0}

VARIABLES
  onnxCache,   \* cached text -> vector, a function with a changing domain
  onnxOrder,   \* insertion order, one entry per insertion
  redisCache,  \* same, shared
  embedCall,   \* caller -> its batch, step and results
  failedRuns   \* failed inferences so far

onnxVars == <<onnxCache, onnxOrder, redisCache, embedCall, failedRuns>>

Batch == {<<t, u>> : t, u \in EmbedText}
Free == [step |-> "idle", texts |-> <<>>, results |-> <<>>, missed |-> {}]

OnnxInit ==
  /\ onnxCache = <<>> /\ onnxOrder = <<>> /\ redisCache = <<>> /\ failedRuns = 0
  /\ embedCall = [c \in EmbedCaller |-> Free]

cached(cache, t) == t \in DOMAIN cache
put_entry(cache, t, v) == [u \in DOMAIN cache \cup {t} |-> IF u = t THEN v ELSE cache[u]]
dropped(cache, t) == [u \in DOMAIN cache \ {t} |-> cache[u]]

\* Inference answers every text with its vector or, on any error, all with Zero.
embed_batch_uncached(texts, ok) == [i \in DOMAIN texts |-> IF ok THEN texts[i] ELSE Zero]

---------------------------------------------------------------------------
(* OnnxModel: one insertion, with eviction of the oldest insertion. *)

full_order(order) == Len(order) >= OnnxCapacity

insert_evicting(state, t, v) ==
  LET trimmed == IF full_order(state.order)
                 THEN [cache |-> dropped(state.cache, Head(state.order)), order |-> Tail(state.order)]
                 ELSE state
  IN [cache |-> put_entry(trimmed.cache, t, v), order |-> Append(trimmed.order, t)]

miss_indices(texts, miss) == miss

misses(cache, texts) == SetToSortSeq({i \in DOMAIN texts : ~cached(cache, texts[i])}, <)

\* OnnxModel::embed_batch, also what embed_text does for a single text: hits
\* are taken from the cache, the others computed together, each inserted in
\* turn (a text missing twice is inserted twice).
embed_batch(texts, ok) ==
  LET miss == misses(onnxCache, texts)
      computed == embed_batch_uncached([j \in DOMAIN miss |-> texts[miss[j]]], ok)
      index == miss_indices(texts, miss)
      filled == FoldLeftDomain(LAMBDA st, j : insert_evicting(st, texts[miss[j]], computed[j]),
                               [cache |-> onnxCache, order |-> onnxOrder], miss)
  IN [cache |-> filled.cache, order |-> filled.order,
      results |-> [i \in DOMAIN texts |->
                     IF cached(onnxCache, texts[i]) THEN onnxCache[texts[i]]
                     ELSE IF \E j \in DOMAIN index : index[j] = i
                          THEN computed[CHOOSE j \in DOMAIN index : index[j] = i] ELSE Zero]]

---------------------------------------------------------------------------
(* LocalModel::embed_batch_sync and embed_text with the Redis level. *)

\* MGET; a Redis error counts as all misses.
get_batch(c, texts) ==
  /\ embedCall[c].step = "idle"
  /\ \E up \in BOOLEAN :
       LET hits == [i \in {k \in DOMAIN texts : up /\ cached(redisCache, texts[k])} |-> redisCache[texts[i]]]
       IN embedCall' = [embedCall EXCEPT ![c] =
            [step |-> IF DOMAIN hits = DOMAIN texts THEN "done" ELSE "missed", texts |-> texts,
             results |-> hits, missed |-> DOMAIN texts \ DOMAIN hits]]
  /\ UNCHANGED <<onnxCache, onnxOrder, redisCache, failedRuns>>

embed_text(c) == \E t \in EmbedText : get_batch(c, <<t>>)

embed_batch_sync(c) == \E texts \in Batch : get_batch(c, texts)

\* Inference on what Redis did not have, under the model lock.
Infer(c) ==
  LET call == embedCall[c]
      miss == SetToSortSeq(call.missed, <)
  IN /\ call.step = "missed"
     /\ \E ok \in BOOLEAN :
          LET ran == embed_batch([j \in DOMAIN miss |-> call.texts[miss[j]]], ok) IN
            /\ ~ok => failedRuns < MaxFailures
            /\ failedRuns' = IF ok THEN failedRuns ELSE failedRuns + 1
            /\ onnxCache' = ran.cache /\ onnxOrder' = ran.order
            /\ embedCall' = [embedCall EXCEPT ![c].step = "computed",
                 ![c].results = [i \in DOMAIN call.texts |->
                   IF i \in DOMAIN @ THEN @[i] ELSE ran.results[CHOOSE j \in DOMAIN miss : miss[j] = i]]]
     /\ UNCHANGED redisCache

\* Write-through of what was missing; a failed write is only logged.
put_batch(c) ==
  /\ embedCall[c].step = "computed"
  /\ \E up \in BOOLEAN :
       redisCache' = IF ~up THEN redisCache ELSE
         FoldSet(LAMBDA i, st : put_entry(st, embedCall[c].texts[i], embedCall[c].results[i]),
                 redisCache, embedCall[c].missed)
  /\ embedCall' = [embedCall EXCEPT ![c].step = "done", ![c].missed = {}]
  /\ UNCHANGED <<onnxCache, onnxOrder, failedRuns>>

Finish(c) ==
  /\ embedCall[c].step = "done" /\ embedCall' = [embedCall EXCEPT ![c] = Free]
  /\ UNCHANGED <<onnxCache, onnxOrder, redisCache, failedRuns>>

\* The asynchronous path of the pipeline goes past Redis.
embed_batch_async(c) ==
  /\ embedCall[c].step = "idle"
  /\ \E texts \in Batch, ok \in BOOLEAN :
       LET ran == embed_batch(texts, ok) IN
         /\ ~ok => failedRuns < MaxFailures
         /\ failedRuns' = IF ok THEN failedRuns ELSE failedRuns + 1
         /\ onnxCache' = ran.cache /\ onnxOrder' = ran.order
         /\ embedCall' = [embedCall EXCEPT ![c] = [step |-> "done", texts |-> texts, results |-> ran.results, missed |-> {}]]
  /\ UNCHANGED redisCache

\* Redis forgets an entry after its time to live.
Expire(t) ==
  /\ cached(redisCache, t) /\ redisCache' = dropped(redisCache, t)
  /\ UNCHANGED <<onnxCache, onnxOrder, embedCall, failedRuns>>

OnnxNext ==
  \/ \E c \in EmbedCaller : embed_text(c) \/ embed_batch_sync(c) \/ Infer(c) \/ put_batch(c) \/ Finish(c) \/ embed_batch_async(c)
  \/ \E t \in EmbedText : Expire(t)

---------------------------------------------------------------------------
(* Properties. *)

vector_of(t) == IF failedRuns = 0 THEN {t} ELSE {t, Zero}

\* A vector is never attributed to another text: each cached vector, on
\* either level, and each vector of an answer is the embedding of its own
\* text, or the zero vector once an inference has failed.  Hits, misses and
\* repeated texts of a batch never get their places mixed up.
VectorsBelongToTexts ==
  /\ \A t \in DOMAIN onnxCache : onnxCache[t] \in vector_of(t)
  /\ \A t \in DOMAIN redisCache : redisCache[t] \in vector_of(t)
  /\ \A c \in EmbedCaller : \A i \in DOMAIN embedCall[c].results :
       embedCall[c].results[i] \in vector_of(embedCall[c].texts[i])

\* The in-process cache stays within its capacity although one text may be
\* listed twice for eviction: every entry is still listed, so none can stay
\* for ever.
OnnxCacheBounded ==
  Len(onnxOrder) <= OnnxCapacity /\ DOMAIN onnxCache \subseteq Range(onnxOrder)

(***************************************************************************)
(* EmbedPipeline over EmbeddingCache.  The cache lock is not held over the *)
(* await of the model, so two calls may miss the same text, and a batch    *)
(* inserts what it computed after others have inserted and evicted.  The   *)
(* model is remote: it answers each input with an index, in any order.     *)
(* A vector is identified with the text it embeds.                         *)
(***************************************************************************)

CONSTANTS PipeText, PipeCall, CacheCapacity

VARIABLES
  cacheMap,    \* text -> vector, a function with a changing domain
  cacheOrder,  \* texts in order of insertion
  pipeCall     \* call -> step, texts, results so far

pipeVars == <<cacheMap, cacheOrder, pipeCall>>

Ready == [step |-> "idle", texts |-> <<>>, results |-> <<>>, reply |-> <<>>]

PipeInit == cacheMap = <<>> /\ cacheOrder = <<>> /\ pipeCall = [c \in PipeCall |-> Ready]

---------------------------------------------------------------------------
(* EmbeddingCache. *)

already(state, t) == t \in DOMAIN state.map

\* An entry that is there stays; the oldest goes when the cache is full.
insert(state, t, v) ==
  LET evicts == Cardinality(DOMAIN state.map) >= CacheCapacity /\ state.order # <<>>
      kept == IF evicts THEN [map |-> [u \in DOMAIN state.map \ {Head(state.order)} |-> state.map[u]],
                              order |-> Tail(state.order)]
              ELSE state
  IN IF already(state, t) THEN state
     ELSE [map |-> [u \in DOMAIN kept.map \cup {t} |-> IF u = t THEN v ELSE kept.map[u]],
           order |-> Append(kept.order, t)]

---------------------------------------------------------------------------
(* Calls. *)

missing(call) == SetToSortSeq(DOMAIN call.texts \ DOMAIN call.results, <)

LookUp(c, texts) ==
  LET hits == {i \in DOMAIN texts : texts[i] \in DOMAIN cacheMap}
  IN /\ pipeCall[c].step = "idle"
     /\ pipeCall' = [pipeCall EXCEPT ![c] =
           [step |-> IF hits = DOMAIN texts THEN "done" ELSE "asked", texts |-> texts,
            results |-> [i \in hits |-> cacheMap[texts[i]]], reply |-> <<>>]]
     /\ UNCHANGED <<cacheMap, cacheOrder>>

embed_cached(c) == \E t \in PipeText : LookUp(c, <<t>>)

embed_batch_cached(c) == \E texts \in BoundedSeq(PipeText, 2) \ {<<>>} : LookUp(c, texts)

\* RemoteHydrator: every text is asked for, the cached ones too.
hydrate_texts(c) ==
  /\ pipeCall[c].step = "idle"
  /\ \E texts \in BoundedSeq(PipeText, 2) \ {<<>>} :
       pipeCall' = [pipeCall EXCEPT ![c] = [step |-> "asked", texts |-> texts, results |-> <<>>, reply |-> <<>>]]
  /\ UNCHANGED <<cacheMap, cacheOrder>>

\* The service answers: pairs of index and vector, in any order.
RemoteAnswers(c) ==
  LET miss == missing(pipeCall[c]) IN
    /\ pipeCall[c].step = "asked"
    /\ \E p \in Permutations(DOMAIN miss) :
         pipeCall' = [pipeCall EXCEPT ![c].step = "answered",
           ![c].reply = [k \in DOMAIN miss |-> <<p[k], pipeCall[c].texts[miss[p[k]]]>>]]
    /\ UNCHANGED <<cacheMap, cacheOrder>>

\* The service is unreachable or its answer does not parse: the call fails.
EmbedServiceFails(c) ==
  /\ pipeCall[c].step = "asked" /\ pipeCall' = [pipeCall EXCEPT ![c] = Ready]
  /\ UNCHANGED <<cacheMap, cacheOrder>>

MutArrivalOrder(pairs) == pairs
sorted_pairs(pairs) == SortSeq(pairs, LAMBDA a, b : a[1] < b[1])

\* The k-th vector belongs to the k-th missing text; each is inserted.
FillCache(c) ==
  LET call == pipeCall[c]
      miss == missing(call)
      vecs == sorted_pairs(call.reply)
      filled == FoldLeftDomain(LAMBDA st, k : insert(st, call.texts[miss[k]], vecs[k][2]),
                               [map |-> cacheMap, order |-> cacheOrder], miss)
  IN /\ call.step = "answered"
     /\ cacheMap' = filled.map /\ cacheOrder' = filled.order
     /\ pipeCall' = [pipeCall EXCEPT ![c].step = "done", ![c].reply = <<>>,
          ![c].results = [i \in DOMAIN call.texts |->
            IF i \in DOMAIN @ THEN @[i] ELSE vecs[CHOOSE k \in DOMAIN miss : miss[k] = i][2]]]

Return(c) ==
  /\ pipeCall[c].step = "done" /\ pipeCall' = [pipeCall EXCEPT ![c] = Ready]
  /\ UNCHANGED <<cacheMap, cacheOrder>>

PipeNext ==
  \E c \in PipeCall :
    embed_cached(c) \/ embed_batch_cached(c) \/ hydrate_texts(c) \/ RemoteAnswers(c)
      \/ EmbedServiceFails(c) \/ FillCache(c) \/ Return(c)

---------------------------------------------------------------------------
(* Properties. *)

\* Whatever order the answers arrive in and however calls overlap, a text is
\* cached with, and answered by, its own vector.
PipelineVectorsOwn ==
  /\ \A t \in DOMAIN cacheMap : cacheMap[t] = t
  /\ \A c \in PipeCall : \A i \in DOMAIN pipeCall[c].results : pipeCall[c].results[i] = pipeCall[c].texts[i]

\* Map and eviction order list the same texts, each once, and no more than
\* the capacity: two calls that computed the same text insert it once.
CacheOrderExact ==
  /\ Range(cacheOrder) = DOMAIN cacheMap /\ Len(cacheOrder) = Cardinality(DOMAIN cacheMap)
  /\ Len(cacheOrder) <= CacheCapacity
=============================================================================
