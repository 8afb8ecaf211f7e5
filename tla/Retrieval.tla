--------------------------------- MODULE Retrieval ---------------------------------
(***************************************************************************)
(* Advanced search (retrieval/): candidates from a hybrid query, reranked  *)
(* by vectors that a SQLite cache keeps, each search in a thread of its    *)
(* own; the embedder they and /v1/ask share is a global of                 *)
(* llm/embeddings.py without a lock.                                       *)
(*                                                                         *)
(* A vector is what made it and the text it is of: <<maker, text>>.        *)
(* Scores, weights and the figures of a trace are left out; which chunks   *)
(* are candidates is a free choice.                                        *)
(***************************************************************************)
EXTENDS VectorStore

CONSTANTS
  Search,       \* POSTs to /v1/search/advanced
  Chunk         \* texts of the chunk collection

VARIABLES
  installed,    \* what get_embedder can build: a subset of {"openai", "local"}
  embedder,     \* the global _model: "none", "openai", "loading", "local" or "mock"
  chunkClass,   \* whether the class weaviate_chunk_class exists
  cache,        \* rows of embedding_cache, <<text, vector>>
  user          \* where each search is, and the embedding in progress of any user

rvars == <<installed, embedder, chunkClass, cache, user>>
vars == <<storeVars, writer, asker, faults, rvars>>

User == Search \cup Asker

(* task: what is embedded, "tierA" or "tierB" for the question, or a chunk. *)
(* with: the embedder this thread got.  left: candidates to rerank.        *)
Fresh == [pc |-> "start", task |-> "none", with |-> "none", vector |-> <<"none", "none">>,
          left |-> {}, saw |-> FALSE]

RInit ==
  /\ installed \in {{"openai", "local"}, {"local"}, {}}
  /\ embedder = "none"
  /\ chunkClass = FALSE
  /\ cache = {}
  /\ user = [u \in User |-> Fresh]

Init == SInit /\ RInit

(* What is left of a search that has ended.                                *)
Done == [Fresh EXCEPT !.pc = "done"]
Failed(q) == [Fresh EXCEPT !.pc = "failed", !.saw = q.saw]

At(u, label) == user[u].pc = label
Set(u, q) == user' = [user EXCEPT ![u] = q]
-----------------------------------------------------------------------------
(***************************************************************************)
(* embed_text.                                                             *)
(***************************************************************************)

Embedding(q, task) == [q EXCEPT !.pc = "get", !.task = task]

(* get_embedder: whatever is in the global is used, also a local model     *)
(* that another thread is still loading; its end reads the global again.   *)
GetEmbedder(u) ==
  /\ At(u, "get")
  /\ Set(u, IF embedder = "none" THEN [user[u] EXCEPT !.pc = "init"]
            ELSE [user[u] EXCEPT !.pc = "call", !.with = embedder])
  /\ UNCHANGED <<storeVars, writer, asker, faults, installed, embedder, chunkClass, cache>>

(* Mutant: the local model is put in place before OpenAI is tried. *)
InitEmbedderLocalFirst(u) ==
  /\ At(u, "init")
  /\ embedder' = IF embedder = "loading" /\ "openai" \in installed THEN "openai" ELSE "loading"
  /\ Set(u, [user[u] EXCEPT !.pc = CASE embedder' = "openai" -> "get"
                                     [] "openai" \in installed -> "init"
                                     [] OTHER -> "load"])
  /\ UNCHANGED <<storeVars, writer, asker, faults, installed, chunkClass, cache>>

(* The global was unset when this thread looked; others may have set it.   *)
InitEmbedder(u) ==
  /\ At(u, "init")
  /\ embedder' = IF "openai" \in installed THEN "openai" ELSE "loading"
  /\ Set(u, [user[u] EXCEPT !.pc = IF "openai" \in installed THEN "get" ELSE "load"])
  /\ UNCHANGED <<storeVars, writer, asker, faults, installed, chunkClass, cache>>

(* The model takes its time to load; then the global is set again.         *)
LoadEmbedder(u) ==
  /\ At(u, "load")
  /\ embedder' = IF "local" \in installed THEN "local" ELSE "mock"
  /\ Set(u, [user[u] EXCEPT !.pc = "get"])
  /\ UNCHANGED <<storeVars, writer, asker, faults, installed, chunkClass, cache>>

(* The embedder answers, or fails; then, and while a model is loading, the *)
(* vector is pseudo-random.                                                *)
Reranking(q) == [q EXCEPT !.pc = "rerank", !.task = "none", !.vector = Fresh.vector]

Embed(u, maker) ==
  LET q == [user[u] EXCEPT !.with = "none"] IN
  Set(u, IF q.task = "tierB" THEN Reranking(q)
         ELSE [q EXCEPT !.pc = "embedded", !.vector = <<maker, q.task>>])

CallEmbedder(u) ==
  /\ At(u, "call")
  /\ \/ /\ Embed(u, IF user[u].with = "loading" THEN "mock" ELSE user[u].with)
        /\ UNCHANGED faults
     \/ /\ user[u].with \in {"openai", "local"}
        /\ Fault
        /\ Embed(u, "mock")
  /\ UNCHANGED <<storeVars, writer, asker, installed, embedder, chunkClass, cache>>
-----------------------------------------------------------------------------
(***************************************************************************)
(* /v1/ask embeds its question in the event loop's thread, then searches   *)
(* the store.                                                              *)
(***************************************************************************)
BeginAsk(a) ==
  /\ At(a, "start")
  /\ Set(a, Embedding(user[a], "question"))
  /\ UNCHANGED <<storeVars, writer, asker, faults, installed, embedder, chunkClass, cache>>

AskEmbedded(a) ==
  /\ At(a, "embedded")
  /\ Set(a, Done)
  /\ Ask(a, "ensure")
  /\ UNCHANGED <<storeVars, writer, faults, installed, embedder, chunkClass, cache>>
-----------------------------------------------------------------------------
(***************************************************************************)
(* run_advanced_search.                                                    *)
(***************************************************************************)
BeginSearch(s) ==
  /\ At(s, "start")
  /\ Set(s, [user[s] EXCEPT !.pc = "ensure", !.saw = chunkClass])
  /\ UNCHANGED <<storeVars, writer, asker, faults, installed, embedder, chunkClass, cache>>

(* Mutant: the class is always created. *)
EnsureNoChunks(s) ==
  /\ At(s, "ensure")
  /\ Set(s, [user[s] EXCEPT !.pc = "create"])
  /\ UNCHANGED <<storeVars, writer, asker, faults, installed, embedder, chunkClass, cache>>

(* _ensure_chunk_collection: exists, or else create, whose exception is    *)
(* not looked into.                                                        *)
EnsureChunks(s) ==
  /\ At(s, "ensure")
  /\ Set(s, IF chunkClass THEN Embedding(user[s], "tierA") ELSE [user[s] EXCEPT !.pc = "create"])
  /\ UNCHANGED <<storeVars, writer, asker, faults, installed, embedder, chunkClass, cache>>

CreateChunks(s) ==
  /\ At(s, "create")
  /\ Set(s, IF chunkClass THEN Failed(user[s]) ELSE Embedding(user[s], "tierA"))
  /\ chunkClass' = TRUE
  /\ UNCHANGED <<storeVars, writer, asker, faults, installed, embedder, cache>>

(* The hybrid query: at most topN candidates, perhaps none.                *)
Retrieve(s) ==
  /\ At(s, "embedded") /\ user[s].task = "tierA"
  /\ \E C \in SUBSET Chunk :
       Set(s, IF C = {} THEN Done ELSE Embedding([user[s] EXCEPT !.left = C], "tierB"))
  /\ UNCHANGED <<storeVars, writer, asker, faults, installed, embedder, chunkClass, cache>>

Hit(q, c) == [q EXCEPT !.left = @ \ {c}]
Miss(q, c) == Embedding(Hit(q, c), c)
Rows(c) == {row \in cache : row[1] = c}

(* get_cached_vector, or else embed_docs.                                  *)
LookUp(s, c) ==
  /\ At(s, "rerank") /\ c \in user[s].left
  /\ Set(s, IF Rows(c) # {} THEN Hit(user[s], c) ELSE Miss(user[s], c))
  /\ UNCHANGED <<storeVars, writer, asker, faults, installed, embedder, chunkClass, cache>>

(* put_cached_vector, under the text's hash and tier B's model id, which   *)
(* need not be the maker of the vector; an upsert, so the last one stays.  *)
PutVector(s) ==
  /\ At(s, "embedded") /\ user[s].task \in Chunk
  /\ cache' = (cache \ Rows(user[s].task)) \cup {<<user[s].task, user[s].vector>>}
  /\ Set(s, Reranking(user[s]))
  /\ UNCHANGED <<storeVars, writer, asker, faults, installed, embedder, chunkClass>>

Rerank(s) ==
  /\ At(s, "rerank") /\ user[s].left = {}
  /\ Set(s, Done)
  /\ UNCHANGED <<storeVars, writer, asker, faults, installed, embedder, chunkClass, cache>>

(* Weaviate does not answer, or the cache is locked too long: HTTP 500.    *)
SearchFails(s) ==
  /\ user[s].pc \in {"ensure", "create", "embedded", "rerank"}
  /\ Fault
  /\ Set(s, Failed(user[s]))
  /\ UNCHANGED <<storeVars, writer, asker, installed, embedder, chunkClass, cache>>

RNext ==
  \/ \E u \in User : GetEmbedder(u) \/ InitEmbedder(u) \/ LoadEmbedder(u) \/ CallEmbedder(u)
  \/ \E a \in Asker : BeginAsk(a) \/ AskEmbedded(a)
  \/ \E s \in Search :
       \/ BeginSearch(s) \/ EnsureChunks(s) \/ CreateChunks(s) \/ Retrieve(s)
       \/ \E c \in Chunk : LookUp(s, c)
       \/ PutVector(s) \/ Rerank(s) \/ SearchFails(s)

Next == (StoreNext /\ UNCHANGED rvars) \/ RNext

Spec == Init /\ [][Next]_vars
-----------------------------------------------------------------------------
Maker == {"openai", "local", "mock"}

TypeOK ==
  /\ StoreTypeOK
  /\ embedder \in {"none", "loading"} \cup Maker /\ chunkClass \in BOOLEAN
  /\ \A row \in cache : row[1] \in Chunk /\ row[2][1] \in Maker
  /\ \A u \in User : user[u].left \subseteq Chunk

(* With OpenAI configured and no failing call every stored vector is       *)
(* OpenAI's, in whatever order threads find the global embedder unset: the *)
(* fallbacks are for failures only.                                        *)
OpenAIUnlessItFailed ==
  "openai" \in installed /\ faults = 0 => \A row \in cache : row[2][1] = "openai"

(* A search that begins when the chunk collection exists fails only when a *)
(* service does; the ones before may collide in creating it.               *)
LaterSearchesDoNotCollide ==
  \A s \in Search : At(s, "failed") /\ user[s].saw => faults > 0

(* provider.py promises an exception for a failed embedding, "no silent    *)
(* fallback": nothing but a model's vector is ever stored.                 *)
OnlyModelsFillTheCache == \A row \in cache : row[2][1] # "mock"
=============================================================================
