--------------------------- MODULE EmbeddingCache ---------------------------
(***************************************************************************)
(* InMemoryEmbeddingCache (rag/cache.rs) as operators, and what an         *)
(* embedding service answers to a list of texts.                           *)
(*                                                                         *)
(* A cache is a sequence of entries, the first to evict first: by access   *)
(* under LRU, by insertion under FIFO; under LFU the counts decide.  An    *)
(* embedding is named by the text it was made of.  Times are taken to be   *)
(* distinct: ties would only let LRU and FIFO choose.                      *)
(***************************************************************************)
EXTENDS FiniteSets, Splitter

CONSTANTS
  MaxSize,      \* config.max_size
  MaxCount,     \* bound: accesses are counted up to here
  BatchSize     \* config.max_batch_size of the embedding client

ASSUME CacheAssumption == MaxSize \in Nat /\ MaxCount \in Nat \ {0} /\ BatchSize \in Nat \ {0}

Strategies == {"LRU", "FIFO", "LFU"}

CacheEntry(text, of) == [text |-> text, of |-> of, count |-> 1]
Without(cache, text) == Sublist(cache, {i \in DOMAIN cache : cache[i].text # text})
Lookup(cache, text)  == Sublist(cache, {i \in DOMAIN cache : cache[i].text = text})

Access(strategy, e) == [e EXCEPT !.count = IF strategy = "LFU" /\ @ < MaxCount THEN @ + 1 ELSE @]

(* get: a hit is moved to the end under LRU. *)
Touch(strategy, cache, text) ==
  IF strategy = "LRU" THEN Without(cache, text) \o Lookup(cache, text)
  ELSE [i \in DOMAIN cache |-> IF cache[i].text = text THEN Access(strategy, cache[i])
                                                       ELSE cache[i]]

GetBatch(strategy, cache, texts) ==
  LET after[k \in 0 .. Len(texts)] ==
        IF k = 0 THEN cache ELSE Touch(strategy, after[k - 1], texts[k])
  IN after[Len(texts)]

(* The embeddings found: none or one for each text. *)
Found(cache, texts) ==
  [i \in DOMAIN texts |-> LET hit == Lookup(cache, texts[i])
                          IN IF hit = <<>> THEN {} ELSE {Head(hit).of}]

(* insert: an entry of the same text is replaced.                          *)
Put(cache, e) == Append(Without(cache, e.text), e)

PutAll(cache, entries) ==
  LET after[k \in 0 .. Len(entries)] ==
        IF k = 0 THEN cache ELSE Put(after[k - 1], entries[k])
  IN after[Len(entries)]

(* A variant with a bug, to test EmbeddingOfText: lists are not compared.  *)
PutBatchZipped(cache, texts, embeddings) ==
  PutAll(cache, [i \in DOMAIN texts \cap DOMAIN embeddings |->
                   CacheEntry(texts[i], embeddings[i])])

PutBatch(cache, texts, embeddings) ==
  IF Len(texts) # Len(embeddings) THEN cache
  ELSE PutAll(cache, [i \in DOMAIN texts |-> CacheEntry(texts[i], embeddings[i])])

(* A variant with a bug, to test CacheBounded: one entry goes at a time.   *)
EvictOne(strategy, cache) ==
  {IF Len(cache) > MaxSize THEN Tail(cache) ELSE cache}

(* What may be left: exactly MaxSize entries of too many.  Under LFU ties  *)
(* are broken by the order of a hash map.                                  *)
EvictIfNeeded(strategy, cache) ==
  LET over == Len(cache) - MaxSize
      Left(gone) == Sublist(cache, {i \in DOMAIN cache : cache[i] \notin gone})
  IN CASE Len(cache) <= MaxSize -> {cache}
       [] Len(cache) > MaxSize /\ strategy # "LFU" -> {SubSeq(cache, over + 1, Len(cache))}
       [] OTHER -> {Left(gone) : gone \in
            {S \in SUBSET ToSet(cache) : Cardinality(S) = over /\
               \A e \in S, f \in ToSet(cache) \ S : e.count <= f.count}}

-----------------------------------------------------------------------------
(* RestEmbeddingClient: OpenAI is not sent blank texts, a batch of nothing *)
(* else is refused, and the answers of the batches are joined.             *)
EmbeddingProviders == {"Simple", "OpenAI", "Other"}

Batch(texts, k) ==
  SubSeq(texts, (k - 1) * BatchSize + 1,
         IF k * BatchSize < Len(texts) THEN k * BatchSize ELSE Len(texts))

CreateBatches(texts) ==
  [k \in 1 .. (Len(texts) + BatchSize - 1) \div BatchSize |-> Batch(texts, k)]

Valid(texts) == Sublist(texts, {i \in DOMAIN texts : ~IsBlank(texts[i])})

CallApi(provider, texts) == IF provider = "OpenAI" THEN Valid(texts) ELSE texts

Refused(provider, texts) ==
  \E batch \in ToSet(CreateBatches(texts)) : CallApi(provider, batch) = <<>>

GenerateEmbeddings(provider, texts) ==
  FlattenSeq([k \in DOMAIN CreateBatches(texts) |->
                CallApi(provider, CreateBatches(texts)[k])])
=============================================================================
