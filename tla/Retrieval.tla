----------------------------- MODULE Retrieval -----------------------------
(***************************************************************************)
(* RagSystem (rag/rag_system.rs) with its splitter, its cached embedding   *)
(* generator and its vector store: queries that run side by side, or one   *)
(* change of the documents, and a process that may die at any step and     *)
(* starts again from the files the cache, the store and the system keep.   *)
(*                                                                         *)
(* Every file is written in place: it is truncated, then filled.  Chunks,  *)
(* ids and embeddings are tied together only by position: the n-th chunk   *)
(* is the one whose embedding the store holds under n - 1.                 *)
(***************************************************************************)
EXTENDS EmbeddingCache

CONSTANTS
  Setups,      \* configurations: see Setup below
  Contents,    \* lists of documents to add
  Queries,     \* texts to look for
  Samples,     \* texts to split
  Readers,     \* tasks that query
  Writer,      \* the task that changes the documents
  MaxChunks    \* bound: chunks of the system

ASSUME RetrievalAssumption == Writer \notin Readers /\ MaxChunks \in Nat

(* A sample's letters rise, so that each tells where it stood.             *)
ASSUME TextsAssumption ==
  /\ Queries \subseteq Text /\ Contents \subseteq Seq(Text) /\ Samples \subseteq Text
  /\ \A list \in Contents : \A text \in ToSet(list) : WellFormed(text)
  /\ \A text \in Samples :
       /\ WellFormed(text)
       /\ \A i, j \in DOMAIN text :
            i < j /\ text[i] > Space /\ text[j] > Space => text[i] < text[j]

(* use: a system, or a splitter alone; cached: the generator is wrapped;   *)
(* persistent: the cache has a file; store: of the vectors.                *)
Setup == [use : {"system", "splitter"}, size : Nat \ {0}, overlap : Nat,
          cached : BOOLEAN, persistent : BOOLEAN, strategy : Strategies,
          provider : EmbeddingProviders, store : {"memory", "file"}]

ASSUME SetupsAssumption ==
  Setups \subseteq Setup /\ \A s \in Setups : s.persistent => s.cached

VARIABLES
  setup,
  split,       \* what the splitter alone was given, whether it ends, and what it made
  up,          \* "down", "loading" or "up"
  cache,
  loaded,      \* history: the entries of the cache when last loaded
  due,         \* the auto-save interval has elapsed
  documents,   \* the chunks
  counter,     \* document_id_counter
  store,       \* embeddings by id
  inFile,      \* whether the store is one with a file
  work,        \* what the writer has yet to add
  job,         \* each task's call of the embedding generator
  cacheFile, storeFile, systemFile

memoryVars == <<cache, loaded, due, documents, counter, store, inFile>>
fileVars   == <<cacheFile, storeFile, systemFile>>
vars == <<setup, split, up, memoryVars, work, job, fileVars>>

Tasks    == Readers \cup {Writer}
NoFile   == [state |-> "none", entries |-> <<>>]
Torn     == [state |-> "torn", entries |-> <<>>]
Full(x)  == [state |-> "full", entries |-> x]
NoStore  == [id \in {} |-> <<>>]
Idle     == [pc |-> "idle", texts |-> <<>>, found |-> <<>>, got |-> <<>>, copy |-> <<>>]
NoWork   == [mode |-> "none", lists |-> <<>>, chunks |-> <<>>, next |-> 0,
             hangs |-> FALSE]

TypeOK ==
  /\ setup \in Setups /\ up \in {"down", "loading", "up"}
  /\ counter \in 0 .. MaxChunks /\ Len(documents) <= MaxChunks
  /\ DOMAIN store \subseteq 0 .. MaxChunks - 1
  /\ work.mode \in {"none", "add", "directory", "reload", "clear"}
  /\ \A t \in Tasks : job[t].pc \in {"idle", "ask", "insert", "evict", "copy", "truncate",
                                     "write", "done", "storing", "clearing"}

Init ==
  /\ setup \in Setups /\ split = [text |-> <<>>, ended |-> TRUE, chunks |-> <<>>]
  /\ up = "down" /\ cache = <<>> /\ loaded = 0 /\ due = FALSE
  /\ documents = <<>> /\ counter = 0 /\ store = NoStore /\ inFile = FALSE
  /\ work = NoWork /\ job = [t \in Tasks |-> Idle]
  /\ cacheFile = NoFile /\ storeFile = NoFile /\ systemFile = NoFile

Quiet == \A t \in Tasks : job[t] = Idle
System == setup.use = "system"

-----------------------------------------------------------------------------
(* Starting, loading and dying. *)

(* PersistentEmbeddingCache::new: a file that cannot be read is an error.  *)
OpenCache ==
  /\ setup.persistent => cacheFile.state # "torn"
  /\ cache' = IF setup.persistent THEN cacheFile.entries ELSE <<>>
  /\ loaded' = Len(cache') /\ due' = FALSE

(* configure_rag_system, up to the documents, in each PersistenceMode.     *)
Start ==
  /\ System /\ up = "down"
  /\ OpenCache
  /\ \E mode \in {"Create", "Load", "CreateOrLoad"} :
       /\ setup.store = "file" /\ mode = "Load" => storeFile.state = "full"
       /\ store' = IF setup.store = "file" /\ mode # "Create" /\ storeFile.state = "full"
                   THEN storeFile.entries ELSE NoStore
  /\ inFile' = (setup.store = "file")
  /\ up' = "up" /\ documents' = <<>> /\ counter' = 0
  /\ UNCHANGED <<setup, split, work, job, fileVars>>

(* RagSystem::save; readers may be at work. *)
SaveSystem ==
  /\ up = "up" /\ work = NoWork
  /\ systemFile' = Full([documents |-> documents, counter |-> counter])
  /\ UNCHANGED <<setup, split, up, memoryVars, work, job, cacheFile, storeFile>>

(* RagSystem::load: the vectors of the store's file as they are, or none   *)
(* and every chunk is embedded again.                                      *)
LoadSystem ==
  /\ System /\ up = "down" /\ systemFile.state = "full"
  /\ setup.provider # "Simple" /\ setup.cached
  /\ OpenCache
  /\ documents' = systemFile.entries.documents /\ counter' = systemFile.entries.counter
  /\ LET asItIs == setup.store = "file" /\ storeFile.state = "full"
     IN /\ store'  = IF asItIs THEN storeFile.entries ELSE NoStore
        /\ inFile' = asItIs
        /\ up'     = IF asItIs \/ documents' = <<>> THEN "up" ELSE "loading"
        /\ work'   = IF up' = "up" THEN NoWork
                     ELSE [NoWork EXCEPT !.mode = "reload",
                             !.lists = [i \in DOMAIN documents' |-> <<documents'[i]>>]]
  /\ UNCHANGED <<setup, split, job, fileVars>>

Forget ==
  /\ up' = "down" /\ work' = NoWork /\ job' = [t \in Tasks |-> Idle]
  /\ cache' = <<>> /\ loaded' = 0 /\ due' = FALSE
  /\ documents' = <<>> /\ counter' = 0 /\ store' = NoStore /\ inFile' = FALSE

Crash == up # "down" /\ Forget /\ UNCHANGED <<setup, split, fileVars>>

-----------------------------------------------------------------------------
(* CachedEmbeddingGenerator::generate_embedding(s), one task's call. *)

Missed(t)       == {i \in DOMAIN job[t].texts : job[t].found[i] = {}}
MissingTexts(t) == Sublist(job[t].texts, Missed(t))

(* An embedding the service made is of the text that was missed in its     *)
(* place, if there is one.                                                 *)
Results(t) ==
  LET places == Sublist([i \in DOMAIN job[t].texts |-> i], Missed(t))
      Got(i) == {job[t].got[k] : k \in {k \in DOMAIN job[t].got \cap DOMAIN places : places[k] = i}}
  IN IF setup.cached
     THEN [i \in DOMAIN job[t].texts |-> job[t].found[i] \cup Got(i)]
     ELSE [i \in DOMAIN job[t].got |-> {job[t].got[i]}]

(* The cache is asked for all texts at once.                               *)
Begin(t, texts) ==
  LET found == IF setup.cached THEN Found(cache, texts) ELSE [i \in DOMAIN texts |-> {}]
  IN /\ cache' = IF setup.cached THEN GetBatch(setup.strategy, cache, texts) ELSE cache
     /\ job' = [job EXCEPT ![t] = [Idle EXCEPT !.texts = texts, !.found = found,
                  !.pc = IF {} \in ToSet(found) THEN "ask" ELSE "done"]]

GoTo(t, pc) == job' = [job EXCEPT ![t].pc = pc]

ServiceAnswers(t) ==
  /\ job[t].pc = "ask"
  /\ ~Refused(setup.provider, MissingTexts(t))
  /\ job' = [job EXCEPT ![t].pc = IF setup.cached THEN "insert" ELSE "done",
                        ![t].got = GenerateEmbeddings(setup.provider, MissingTexts(t))]
  /\ UNCHANGED <<setup, split, up, memoryVars, work, fileVars>>

Insert(t) ==
  /\ job[t].pc = "insert"
  /\ cache' = PutBatch(cache, MissingTexts(t), job[t].got)
  /\ GoTo(t, IF Len(MissingTexts(t)) = Len(job[t].got) THEN "evict" ELSE "done")
  /\ UNCHANGED <<setup, split, up, loaded, due, documents, counter, store, inFile, work, fileVars>>

(* Eviction and, of a cache with a file, auto_save_if_needed.              *)
Evict(t) ==
  /\ job[t].pc = "evict"
  /\ cache' \in EvictIfNeeded(setup.strategy, cache)
  /\ GoTo(t, IF setup.persistent /\ due THEN "copy" ELSE "done")
  /\ UNCHANGED <<setup, split, up, loaded, due, documents, counter, store, inFile, work, fileVars>>

IntervalElapses ==
  /\ up = "up" /\ setup.persistent /\ ~due /\ due' = TRUE
  /\ UNCHANGED <<setup, split, up, cache, loaded, documents, counter, store, inFile, work, job, fileVars>>

(* The call is over: with all embeddings, or with one missing.             *)
Embedded(t) == job[t].pc = "done" /\ {} \notin ToSet(Results(t))

NotEmbedded(t) ==
  \/ job[t].pc = "done" /\ {} \in ToSet(Results(t))
  \/ job[t].pc = "ask" /\ setup.provider # "Simple"

-----------------------------------------------------------------------------
(* The cache's file. *)

CopyCache(t) ==
  /\ job[t].pc = "copy"
  /\ job' = [job EXCEPT ![t].pc = "truncate", ![t].copy = cache]
  /\ UNCHANGED <<setup, split, up, memoryVars, work, fileVars>>

TruncateCacheFile(t) ==
  /\ job[t].pc = "truncate"
  /\ cacheFile' = Torn /\ GoTo(t, "write")
  /\ UNCHANGED <<setup, split, up, memoryVars, work, storeFile, systemFile>>

(* Written over what another task has written since, the file may be a mix *)
(* of both; when the write fails it stays truncated, which is only logged. *)
WriteCacheFile(t) ==
  /\ job[t].pc = "write"
  /\ \/ cacheFile' = Full(job[t].copy)
     \/ cacheFile.state = "full" /\ cacheFile.entries # job[t].copy /\ cacheFile' = Torn
     \/ cacheFile' = Torn
  /\ due' = (due /\ cacheFile'.state # "full")
  /\ job' = [job EXCEPT ![t] = IF job[t].texts = <<>> THEN Idle ELSE [@ EXCEPT !.pc = "done", !.copy = <<>>]]
  /\ UNCHANGED <<setup, split, up, cache, loaded, documents, counter, store, inFile, work, storeFile, systemFile>>

(* clear_cache, save_cache and load_cache of the system.                   *)
ClearCache(t) ==
  /\ t \in Readers /\ up = "up" /\ setup.cached /\ job[t] = Idle /\ work = NoWork
  /\ cache # <<>>
  /\ cache' = <<>>
  /\ IF setup.persistent THEN GoTo(t, "copy") ELSE UNCHANGED job
  /\ UNCHANGED <<setup, split, up, loaded, due, documents, counter, store, inFile, work, fileVars>>

SaveCache(t) ==
  /\ t \in Readers /\ up = "up" /\ setup.persistent /\ job[t] = Idle /\ work = NoWork
  /\ GoTo(t, "copy")
  /\ UNCHANGED <<setup, split, up, memoryVars, work, fileVars>>

LoadCache(t) ==
  /\ t \in Readers /\ up = "up" /\ setup.persistent /\ job[t] = Idle /\ work = NoWork
  /\ cacheFile.state = "full" /\ cache # cacheFile.entries
  /\ cache' = cacheFile.entries /\ loaded' = Len(cacheFile.entries)
  /\ UNCHANGED <<setup, split, up, due, documents, counter, store, inFile, work, job, fileVars>>

-----------------------------------------------------------------------------
(* Queries *)

Retrieve(t) ==
  /\ up = "up" /\ t \in Readers /\ job[t] = Idle /\ work = NoWork
  /\ \E query \in Queries : Begin(t, <<query>>)
  /\ UNCHANGED <<setup, split, up, loaded, due, documents, counter, store, inFile, work, fileVars>>

(* The search itself reads the store and the documents as they are.        *)
Search(t) ==
  /\ t \in Readers
  /\ Embedded(t) \/ NotEmbedded(t)
  /\ job' = [job EXCEPT ![t] = Idle]
  /\ UNCHANGED <<setup, split, up, memoryVars, work, fileVars>>

-----------------------------------------------------------------------------
(* The writer has the system for itself. *)

(* How many of the documents of a list come before one that is split for   *)
(* ever.                                                                   *)
SplitUpTo(list) ==
  Max({n \in 0 .. Len(list) : \A i \in 1 .. n : SplitEnds(setup.size, setup.overlap, list[i])})

(* add_documents stops at the first that fails, load_directory goes on;    *)
(* neither gets past one that is split for ever.                           *)
AddDocuments ==
  /\ up = "up" /\ Quiet /\ work = NoWork
  /\ \E list \in Contents, mode \in {"add", "directory"} :
       LET n == SplitUpTo(list)
       IN work' = [NoWork EXCEPT !.mode = mode, !.hangs = n < Len(list),
                     !.lists = [i \in 1 .. n |-> SplitText(setup.size, setup.overlap, list[i])]]
  /\ UNCHANGED <<setup, split, up, memoryVars, job, fileVars>>

NextDocument ==
  /\ work.mode \in {"add", "directory", "reload"} /\ job[Writer] = Idle
  /\ work.lists # <<>>
  /\ counter + Len(Head(work.lists)) <= MaxChunks \/ work.mode = "reload"
  /\ work' = [work EXCEPT !.chunks = Head(work.lists), !.lists = Tail(@), !.next = 1]
  /\ Begin(Writer, Head(work.lists))
  /\ UNCHANGED <<setup, split, up, loaded, due, documents, counter, store, inFile, fileVars>>

DocumentsDone ==
  /\ work.mode \in {"add", "directory", "reload"} /\ job[Writer] = Idle /\ ~work.hangs
  /\ work.lists # <<>> =>
       work.mode # "reload" /\ counter + Len(Head(work.lists)) > MaxChunks
  /\ work' = NoWork /\ up' = "up"
  /\ UNCHANGED <<setup, split, memoryVars, job, fileVars>>

(* The document is given up, or all of them, or the system being loaded.   *)
GiveUp ==
  CASE work.mode = "add"       -> work' = NoWork /\ job' = [job EXCEPT ![Writer] = Idle]
                                  /\ UNCHANGED <<up, memoryVars>>
    [] work.mode = "directory" -> work' = [work EXCEPT !.chunks = <<>>, !.next = 0]
                                  /\ job' = [job EXCEPT ![Writer] = Idle]
                                  /\ UNCHANGED <<up, memoryVars>>
    [] work.mode = "reload"    -> Forget

DocumentFails ==
  /\ NotEmbedded(Writer) /\ GiveUp
  /\ UNCHANGED <<setup, split, fileVars>>

(* The chunks to store: as many as there are embeddings.                   *)
ToStore == IF Len(work.chunks) < Len(Results(Writer)) THEN Len(work.chunks)
                                                      ELSE Len(Results(Writer))

NextChunk ==
  IF work.next < ToStore
  THEN work' = [work EXCEPT !.next = @ + 1] /\ GoTo(Writer, "done")
  ELSE /\ work' = [work EXCEPT !.chunks = <<>>, !.next = 0]
       /\ job' = [job EXCEPT ![Writer] = Idle]

Stored(id, of) == [i \in DOMAIN store \cup {id} |-> IF i = id THEN of ELSE store[i]]

(* The id is taken, the chunk pushed and its embedding inserted at once;   *)
(* then the store's file is opened and truncated, or cannot be.            *)
AddChunk ==
  /\ Embedded(Writer) /\ work.mode \in {"add", "directory"} /\ work.next <= ToStore
  /\ documents' = Append(documents, work.chunks[work.next])
  /\ counter'   = counter + 1
  /\ store'     = Stored(counter, CHOOSE of \in Results(Writer)[work.next] : TRUE)
  /\ IF inFile
     THEN storeFile' = Torn /\ GoTo(Writer, "storing") /\ UNCHANGED work
     ELSE NextChunk /\ UNCHANGED storeFile
  /\ UNCHANGED <<setup, split, up, cache, loaded, due, inFile, cacheFile, systemFile>>

AddChunkUnsaved ==
  /\ Embedded(Writer) /\ work.mode \in {"add", "directory"} /\ work.next <= ToStore
  /\ inFile
  /\ documents' = Append(documents, work.chunks[work.next])
  /\ counter'   = counter + 1
  /\ store'     = Stored(counter, CHOOSE of \in Results(Writer)[work.next] : TRUE)
  /\ job' = [job EXCEPT ![Writer] = Idle]
  /\ work' = IF work.mode = "add" THEN NoWork ELSE [work EXCEPT !.chunks = <<>>, !.next = 0]
  /\ UNCHANGED <<setup, split, up, cache, loaded, due, inFile, fileVars>>

(* An embedding made again while loading goes under the chunk's index.     *)
AddAgain ==
  /\ Embedded(Writer) /\ work.mode = "reload"
  /\ store' = Stored(Len(documents) - Len(work.lists) - 1,
                      CHOOSE of \in Results(Writer)[1] : TRUE)
  /\ NextChunk
  /\ UNCHANGED <<setup, split, up, cache, loaded, due, documents, counter, inFile, fileVars>>

(* A document whose embeddings are none, of a generator without cache.     *)
NothingToStore ==
  /\ Embedded(Writer) /\ work.mode \in {"add", "directory"} /\ ToStore = 0
  /\ work' = [work EXCEPT !.chunks = <<>>, !.next = 0]
  /\ job' = [job EXCEPT ![Writer] = Idle]
  /\ UNCHANGED <<setup, split, up, memoryVars, fileVars>>

StoreSaved ==
  /\ job[Writer].pc = "storing"
  /\ storeFile' = Full(store)
  /\ NextChunk
  /\ UNCHANGED <<setup, split, up, memoryVars, cacheFile, systemFile>>

StoreFails ==
  /\ job[Writer].pc = "storing" /\ GiveUp
  /\ UNCHANGED <<setup, split, fileVars>>

(* A variant with a bug, to test KeepsAligned: the counter goes on.        *)
ClearNotCounter ==
  /\ up = "up" /\ Quiet /\ work = NoWork /\ documents # <<>>
  /\ documents' = <<>> /\ store' = NoStore
  /\ IF inFile
     THEN /\ storeFile' = Torn /\ UNCHANGED counter
          /\ work' = [NoWork EXCEPT !.mode = "clear"] /\ GoTo(Writer, "clearing")
     ELSE UNCHANGED <<counter, storeFile, work, job>>
  /\ UNCHANGED <<setup, split, up, cache, loaded, due, inFile, cacheFile, systemFile>>

(* clear: the documents and the embeddings go first; the counter is reset  *)
(* once the store's file is written, and is not when it cannot be.         *)
Clear ==
  /\ up = "up" /\ Quiet /\ work = NoWork /\ documents # <<>>
  /\ documents' = <<>> /\ store' = NoStore
  /\ IF inFile
     THEN /\ storeFile' = Torn /\ UNCHANGED counter
          /\ work' = [NoWork EXCEPT !.mode = "clear"] /\ GoTo(Writer, "clearing")
     ELSE counter' = 0 /\ UNCHANGED <<storeFile, work, job>>
  /\ UNCHANGED <<setup, split, up, cache, loaded, due, inFile, cacheFile, systemFile>>

EndClear ==
  /\ job[Writer].pc = "clearing"
  /\ work' = NoWork /\ job' = [job EXCEPT ![Writer] = Idle]

ClearSaved ==
  /\ EndClear /\ storeFile' = Full(store) /\ counter' = 0
  /\ UNCHANGED <<setup, split, up, cache, loaded, due, documents, store, inFile, cacheFile, systemFile>>

ClearFails ==
  /\ EndClear
  /\ UNCHANGED <<setup, split, up, memoryVars, fileVars>>

-----------------------------------------------------------------------------
(* The splitter alone. *)

SplitAny ==
  /\ ~System
  /\ \E text \in IF split.text = <<>> THEN Samples ELSE {<<>>} :
       LET ends == SplitEnds(setup.size, setup.overlap, text)
       IN split' = [text |-> text, ended |-> ends,
                    chunks |-> IF ends THEN SplitText(setup.size, setup.overlap, text) ELSE <<>>]
  /\ UNCHANGED <<setup, up, memoryVars, work, job, fileVars>>

TaskStep(t) ==
  \/ ServiceAnswers(t) \/ Insert(t) \/ Evict(t) \/ CopyCache(t) \/ TruncateCacheFile(t)
  \/ WriteCacheFile(t) \/ Retrieve(t) \/ Search(t)
  \/ ClearCache(t) \/ SaveCache(t) \/ LoadCache(t)

WriterStep ==
  \/ AddDocuments \/ NextDocument \/ DocumentsDone \/ DocumentFails
  \/ AddChunk \/ AddChunkUnsaved \/ AddAgain \/ NothingToStore \/ StoreSaved \/ StoreFails
  \/ Clear \/ ClearSaved \/ ClearFails

Next ==
  \/ Start \/ SaveSystem \/ LoadSystem \/ Crash \/ IntervalElapses
  \/ \E t \in Tasks : TaskStep(t)
  \/ WriterStep \/ SplitAny

Spec == Init /\ [][Next]_vars

-----------------------------------------------------------------------------
(* No letter of the text has more than width bytes. *)
Narrow(text, width) == \A byte \in ToSet(text) : byte > Space => byte % 4 < width

(* A chunk has room for two of the widest letters beside the overlap, less *)
(* a byte, or for one when there is no overlap.                            *)
HasRoom(text) ==
  \E width \in 1 .. 4 :
    /\ Narrow(text, width)
    /\ \/ setup.size >= setup.overlap + 2 * width - 1
       \/ setup.overlap = 0 /\ setup.size >= width

(* Where a chunk has room the splitter ends, and when it ends it has lost  *)
(* no letter of the text, cut none in two, and kept those of a chunk in    *)
(* the text's order, whichever separators it came down to.  Without that   *)
(* room it may never end, and nothing in the code keeps a configuration    *)
(* from it: the chunk size is only checked not to be zero.                 *)
NothingLost ==
  LET letters == ToSet(split.text) \ {Newline, Space}
      chunks  == ToSet(split.chunks)
  IN /\ HasRoom(split.text) => split.ended
     /\ split.ended => letters \subseteq UNION {ToSet(chunk) : chunk \in chunks}
     /\ \A chunk \in chunks :
          /\ WellFormed(chunk)
          /\ \A i, j \in DOMAIN chunk :
               i < j /\ chunk[i] > Space /\ chunk[j] > Space => chunk[i] < chunk[j]

(* A chunk is longer than the chunk size only where there is an overlap,   *)
(* and then by no more than the overlap, the bytes before it of the letter *)
(* it begins in, and the separator that joins it to the next piece.        *)
ChunksFit ==
  \A width \in 1 .. 4 : Narrow(split.text, width) =>
    \A chunk \in ToSet(split.chunks) :
      Len(chunk) <= setup.size + (IF setup.overlap = 0 THEN 0 ELSE setup.overlap + width + 1)

(* When no task has inserted what it has yet to evict, the cache is within *)
(* its size, or within what it was loaded with: load does not evict.       *)
CacheBounded ==
  (\A t \in Tasks : job[t].pc # "evict")
     => Len(cache) <= MaxSize \/ Len(cache) <= loaded

(* Whatever the service leaves out, however batches and tasks overlap and  *)
(* whatever file was read, an embedding is cached under its own text only. *)
EmbeddingOfText ==
  \A e \in ToSet(cache) \cup ToSet(cacheFile.entries) : e.of = e.text

(* Chunk n - 1 and embedding n - 1 are of the same text, for every chunk.  *)
Aligned ==
  /\ counter = Len(documents)
  /\ \A n \in DOMAIN documents : n - 1 \in DOMAIN store /\ store[n - 1] = documents[n]

(* With a cached generator, chunks and embeddings come apart only when the *)
(* file of a cleared store cannot be written and when a system is loaded   *)
(* beside a store of another moment, never by failing documents, blank     *)
(* chunks or crashes.                                                      *)
KeepsAligned ==
  [][setup.cached /\ Aligned /\ ~Aligned' => LoadSystem \/ (inFile /\ Clear)]_vars
=============================================================================
