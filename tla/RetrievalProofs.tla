------------------------------ MODULE RetrievalProofs ------------------------------
(***************************************************************************)
(* Workers, questions and searches that meet in the vector store, in the   *)
(* chunk collection and in the global embedder do one another no harm, for *)
(* any number of them, of stories and of chunks.                           *)
(***************************************************************************)
EXTENDS Retrieval, TLAPS

USE StoreAssumption

-----------------------------------------------------------------------------
(* Types, and what each label says of the embedding in progress: a thread  *)
(* that calls has an embedder, and what it has embedded has a maker.       *)
Task == {"none", "question", "tierA", "tierB"} \cup Chunk

WriterLabel == {"row", "ensure", "create", "ready", "replace", "done", "failed"}

AskerState == [pc : {"embed", "ensure", "create", "ready", "rows", "done", "failed"},
               found : SUBSET Story, contexts : SUBSET Story]

UserState == [pc : {"start", "ensure", "create", "get", "init", "load", "call", "embedded",
                    "rerank", "done", "failed"},
              task : Task, with : {"none", "loading"} \cup Maker,
              vector : ({"none"} \cup Maker) \X Task,
              left : SUBSET Chunk, saw : BOOLEAN]

StoreTypes ==
  /\ collection \in BOOLEAN
  /\ objects \in SUBSET Story /\ clusters \in SUBSET Story
  /\ writer \in [Writer -> WriterLabel]
  /\ asker \in [Asker -> AskerState]
  /\ faults \in 0..MaxFault

UserTypes ==
  /\ installed \in SUBSET {"openai", "local"}
  /\ embedder \in {"none", "loading"} \cup Maker
  /\ chunkClass \in BOOLEAN
  /\ cache \in SUBSET (Chunk \X (Maker \X Task))
  /\ user \in [User -> UserState]

CallsAreReady ==
  \A u \in User : /\ At(u, "call") => user[u].with # "none"
                  /\ At(u, "embedded") => user[u].vector[1] \in Maker

Types == StoreTypes /\ UserTypes /\ CallsAreReady

-----------------------------------------------------------------------------
(* A vector follows its story's row; a search finds vectors, and nothing   *)
(* is said of its contexts before it has read them.                        *)
RowsComeFirst ==
  /\ objects \subseteq clusters
  /\ \A w \in Writer : writer[w] # "row" => StoryOf[w] \in clusters

ContextsComeLast ==
  \A a \in Asker :
    /\ asker[a].found \subseteq clusters
    /\ asker[a].pc = "embed" => asker[a].found = {}
    /\ asker[a].pc # "done" => asker[a].contexts = {}
    /\ user[a].pc # "done" => asker[a].pc = "embed"

(* OpenAI is the first embedder that is tried: while it answers, no thread *)
(* gets to the others.                                                     *)
OpenAIFirst ==
  "openai" \in installed /\ faults = 0 =>
    /\ embedder \in {"none", "openai"}
    /\ \A row \in cache : row[2][1] = "openai"
    /\ \A u \in User : /\ user[u].pc # "load"
                       /\ At(u, "call") => user[u].with = "openai"
                       /\ At(u, "embedded") => user[u].vector[1] = "openai"

(* The chunk collection is never dropped: who has seen it does not create  *)
(* it.                                                                     *)
SeenStays ==
  \A u \in User :
    user[u].saw => /\ chunkClass
                   /\ user[u].pc # "create"
                   /\ At(u, "failed") => faults > 0

IInv ==
  /\ Types
  /\ RacesAreAbsorbed
  /\ RowsComeFirst /\ ContextsComeLast /\ HitsHaveRows
  /\ OpenAIFirst
  /\ SeenStays

-----------------------------------------------------------------------------
LEMMA InitOK == Init => IInv
<1> SUFFICES ASSUME Init PROVE IInv
  OBVIOUS
<1> USE DEF Init, SInit, RInit
<1>1. StoreTypes
  BY DEF StoreTypes, WriterLabel, AskerState
<1>2. \A u \in User : user[u] = Fresh
  OBVIOUS
<1>3. Fresh \in UserState
  BY DEF Fresh, UserState, Task, Maker
<1>4. UserTypes
  BY <1>3 DEF UserTypes, Maker
<1>5. CallsAreReady /\ OpenAIFirst /\ SeenStays
  BY <1>2 DEF CallsAreReady, OpenAIFirst, SeenStays, At, Fresh
<1>6. RacesAreAbsorbed /\ RowsComeFirst
  BY DEF RacesAreAbsorbed, RowsComeFirst
<1>7. ContextsComeLast /\ HitsHaveRows
  BY DEF ContextsComeLast, HitsHaveRows
<1> QED
  BY <1>1, <1>4, <1>5, <1>6, <1>7 DEF IInv, Types
-----------------------------------------------------------------------------
(* The steps of the store leave the searches and the embedder alone.       *)
LEMMA StoreTypesStep ==
  ASSUME Types, StoreNext, UNCHANGED rvars
  PROVE  Types'
<1> USE DEF Types, StoreTypes, WriterLabel, AskerState
<1>1. UserTypes' /\ CallsAreReady'
  BY DEF rvars, UserTypes, CallsAreReady, At
<1>2. ASSUME NEW w \in Writer,
             \/ WriteCluster(w) \/ EnsureForUpsert(w) \/ CreateForUpsert(w)
             \/ Insert(w) \/ Replace(w) \/ UpsertFails(w)
      PROVE  StoreTypes'
  <2>1. \A l \in WriterLabel : To(w, l) => writer' \in [Writer -> WriterLabel]
    BY DEF To
  <2>2. {Found, Created} \subseteq WriterLabel
    BY DEF Found, Created
  <2>3. CASE WriteCluster(w)
    BY <2>1, <2>3 DEF WriteCluster
  <2>4. CASE EnsureForUpsert(w) \/ CreateForUpsert(w) \/ Replace(w)
    BY <2>1, <2>2, <2>4 DEF EnsureForUpsert, CreateForUpsert, Replace, storeVars
  <2>5. CASE Insert(w)
    BY <2>1, <2>5 DEF Insert
  <2>6. CASE UpsertFails(w)
    BY <2>1, <2>6 DEF UpsertFails, Fault, storeVars
  <2> QED
    BY <1>2, <2>3, <2>4, <2>5, <2>6
<1>3. ASSUME NEW a \in Asker,
             \/ EnsureForSearch(a) \/ CreateForSearch(a) \/ SearchStore(a)
             \/ ReadRows(a) \/ AskFails(a)
      PROVE  StoreTypes'
  <2>1. \A l \in {"ready", "create", "failed"} : Ask(a, l) => asker' \in [Asker -> AskerState]
    BY DEF Ask
  <2>2. CASE EnsureForSearch(a)
    BY <2>1, <2>2 DEF EnsureForSearch, Found, storeVars
  <2>3. CASE CreateForSearch(a)
    BY <2>1, <2>3 DEF CreateForSearch, Created
  <2>4. CASE SearchStore(a)
    <3>1. PICK F \in SUBSET Story :
            asker' = [asker EXCEPT ![a].pc = IF F = {} THEN "done" ELSE "rows", ![a].found = F]
      BY <2>4 DEF SearchStore
    <3> DEFINE q == [asker[a] EXCEPT !.pc = IF F = {} THEN "done" ELSE "rows", !.found = F]
    <3>2. asker' = [asker EXCEPT ![a] = q]
      BY <3>1
    <3>3. asker[a] \in AskerState /\ q \in AskerState
      OBVIOUS
    <3>4. asker' \in [Asker -> AskerState]
      BY <3>2, <3>3
    <3> QED
      BY <2>4, <3>4 DEF SearchStore, storeVars
  <2>5. CASE ReadRows(a)
    BY <2>5 DEF ReadRows, storeVars
  <2>6. CASE AskFails(a)
    BY <2>1, <2>6 DEF AskFails, Fault, storeVars
  <2> QED
    BY <1>3, <2>2, <2>3, <2>4, <2>5, <2>6
<1> QED
  BY <1>1, <1>2, <1>3 DEF StoreNext

(* A step that leaves the store alone and gives one user a new state.      *)
LEMMA SetTypes ==
  ASSUME Types, NEW u \in User, NEW q \in UserState, Set(u, q),
         q.pc = "call" => q.with # "none",
         q.pc = "embedded" => q.vector[1] \in Maker,
         StoreTypes', UNCHANGED installed, (embedder \in {"none", "loading"} \cup Maker)',
         (chunkClass \in BOOLEAN)', (cache \in SUBSET (Chunk \X (Maker \X Task)))'
  PROVE  Types'
<1>1. user' \in [User -> UserState] /\ user'[u] = q /\ \A v \in User \ {u} : user'[v] = user[v]
  BY DEF Set, Types, UserTypes
<1>2. UserTypes'
  BY <1>1 DEF Types, UserTypes
<1>3. CallsAreReady'
  BY <1>1 DEF Types, CallsAreReady, At
<1> QED
  BY <1>2, <1>3 DEF Types

LEMMA EmbedderTypesStep ==
  ASSUME Types, NEW u \in User,
         GetEmbedder(u) \/ InitEmbedder(u) \/ LoadEmbedder(u) \/ CallEmbedder(u)
  PROVE  Types'
<1> DEFINE p == user[u]
<1>1. p \in UserState
  BY DEF Types, UserTypes
<1>2. CASE GetEmbedder(u)
  <2> DEFINE q == IF embedder = "none" THEN [p EXCEPT !.pc = "init"]
                  ELSE [p EXCEPT !.pc = "call", !.with = embedder]
  <2>1. q \in UserState /\ (q.pc = "call" => q.with # "none") /\ q.pc # "embedded"
    BY <1>1 DEF UserState, Types, UserTypes
  <2>2. Set(u, q)
    BY <1>2 DEF GetEmbedder
  <2> QED
    BY <1>2, <2>1, <2>2, SetTypes DEF GetEmbedder, storeVars, Types, StoreTypes, UserTypes
<1>3. CASE InitEmbedder(u)
  <2> DEFINE q == [p EXCEPT !.pc = IF "openai" \in installed THEN "get" ELSE "load"]
  <2>1. q \in UserState /\ q.pc # "call" /\ q.pc # "embedded"
    BY <1>1 DEF UserState
  <2>2. Set(u, q)
    BY <1>3 DEF InitEmbedder
  <2> QED
    BY <1>3, <2>1, <2>2, SetTypes DEF InitEmbedder, storeVars, Types, StoreTypes, UserTypes, Maker
<1>4. CASE LoadEmbedder(u)
  <2> DEFINE q == [p EXCEPT !.pc = "get"]
  <2>1. q \in UserState /\ q.pc = "get"
    BY <1>1 DEF UserState
  <2>2. Set(u, q)
    BY <1>4 DEF LoadEmbedder
  <2> QED
    BY <1>4, <2>1, <2>2, SetTypes DEF LoadEmbedder, storeVars, Types, StoreTypes, UserTypes, Maker
<1>5. CASE CallEmbedder(u)
  <2>1. p.with # "none"
    BY <1>5 DEF CallEmbedder, Types, CallsAreReady, At
  <2>2. PICK maker \in Maker : Embed(u, maker)
    BY <1>1, <1>5, <2>1 DEF CallEmbedder, UserState, Maker
  <2> DEFINE r == [p EXCEPT !.with = "none"]
             q == IF r.task = "tierB" THEN Reranking(r)
                  ELSE [r EXCEPT !.pc = "embedded", !.vector = <<maker, r.task>>]
  <2>3. Set(u, q)
    BY <2>2 DEF Embed
  <2>4. r \in UserState /\ r.task \in Task
    BY <1>1 DEF UserState
  <2>6. q \in UserState /\ q.pc # "call" /\ (q.pc = "embedded" => q.vector[1] \in Maker)
    <3>1. CASE r.task = "tierB"
      BY <2>4, <3>1 DEF Reranking, Fresh, UserState, Task
    <3>2. CASE r.task # "tierB"
      BY <2>4, <3>2 DEF UserState
    <3> QED
      BY <3>1, <3>2
  <2>7. StoreTypes'
    BY <1>5 DEF CallEmbedder, storeVars, Types, StoreTypes, Fault
  <2> QED
    BY <1>5, <2>3, <2>6, <2>7, SetTypes DEF CallEmbedder, Types, UserTypes
<1> QED
  BY <1>2, <1>3, <1>4, <1>5

LEMMA AskTypesStep ==
  ASSUME Types, NEW a \in Asker, BeginAsk(a) \/ AskEmbedded(a)
  PROVE  Types'
<1>1. a \in User /\ user[a] \in UserState
  BY DEF Types, UserTypes, User
<1>2. CASE BeginAsk(a)
  <2>1. Embedding(user[a], "question") \in UserState /\ Embedding(user[a], "question").pc = "get"
    BY <1>1 DEF Embedding, UserState, Task
  <2> QED
    BY <1>1, <1>2, <2>1, SetTypes DEF BeginAsk, storeVars, Types, StoreTypes, UserTypes
<1>3. CASE AskEmbedded(a)
  <2>1. Done \in UserState /\ Done.pc = "done"
    BY DEF Done, Fresh, UserState, Task
  <2>2. asker' \in [Asker -> AskerState]
    BY <1>3 DEF AskEmbedded, Ask, Types, StoreTypes, AskerState
  <2> QED
    BY <1>1, <1>3, <2>1, <2>2, SetTypes DEF AskEmbedded, storeVars, Types, StoreTypes, UserTypes
<1> QED
  BY <1>2, <1>3

LEMMA SearchTypesStep ==
  ASSUME Types, NEW s \in Search,
         \/ BeginSearch(s) \/ EnsureChunks(s) \/ CreateChunks(s) \/ Retrieve(s)
         \/ \E c \in Chunk : LookUp(s, c)
         \/ PutVector(s) \/ Rerank(s) \/ SearchFails(s)
  PROVE  Types'
<1> DEFINE p == user[s]
<1>1. s \in User /\ p \in UserState
  BY DEF Types, UserTypes, User
<1>2. \A t \in Task : Embedding(p, t) \in UserState /\ Embedding(p, t).pc = "get"
  BY <1>1 DEF Embedding, UserState
<1>3. Failed(p) \in UserState /\ Failed(p).pc = "failed"
  BY <1>1 DEF Failed, Fresh, UserState, Task
<1>4. Done \in UserState /\ Done.pc = "done"
  BY DEF Done, Fresh, UserState, Task
<1>5. /\ storeVars' = storeVars /\ UNCHANGED <<writer, asker>> /\ faults' \in 0..MaxFault
      /\ UNCHANGED <<installed, embedder>>
  BY DEF BeginSearch, EnsureChunks, CreateChunks, Retrieve, LookUp, PutVector, Rerank,
         SearchFails, Fault, Types, StoreTypes
<1>6. StoreTypes' /\ (embedder \in {"none", "loading"} \cup Maker)'
  BY <1>5 DEF storeVars, Types, StoreTypes, UserTypes
<1> USE <1>1, <1>5, <1>6
<1>7. CASE BeginSearch(s)
  <2> DEFINE q == [p EXCEPT !.pc = "ensure", !.saw = chunkClass]
  <2>1. q \in UserState /\ q.pc = "ensure" /\ Set(s, q)
    BY <1>7 DEF BeginSearch, UserState, Types, UserTypes
  <2> QED
    BY <1>7, <2>1, SetTypes DEF BeginSearch, Types, UserTypes
<1>8. CASE EnsureChunks(s)
  <2> DEFINE q == IF chunkClass THEN Embedding(p, "tierA") ELSE [p EXCEPT !.pc = "create"]
  <2>1. q \in UserState /\ q.pc \in {"get", "create"}
    BY <1>2 DEF UserState, Task
  <2>2. Set(s, q)
    BY <1>8 DEF EnsureChunks
  <2> QED
    BY <1>8, <2>1, <2>2, SetTypes DEF EnsureChunks, Types, UserTypes
<1>9. CASE CreateChunks(s)
  <2> DEFINE q == IF chunkClass THEN Failed(p) ELSE Embedding(p, "tierA")
  <2>1. q \in UserState /\ q.pc \in {"get", "failed"}
    BY <1>2, <1>3 DEF Task
  <2>2. Set(s, q)
    BY <1>9 DEF CreateChunks
  <2> QED
    BY <1>9, <2>1, <2>2, SetTypes DEF CreateChunks, Types, UserTypes
<1>10. CASE Retrieve(s)
  <2>1. PICK C \in SUBSET Chunk :
          Set(s, IF C = {} THEN Done ELSE Embedding([p EXCEPT !.left = C], "tierB"))
    BY <1>10 DEF Retrieve
  <2> DEFINE q == IF C = {} THEN Done ELSE Embedding([p EXCEPT !.left = C], "tierB")
  <2>2. q \in UserState /\ q.pc \in {"get", "done"}
    BY <1>4 DEF Embedding, UserState, Task
  <2> QED
    BY <1>10, <2>1, <2>2, SetTypes DEF Retrieve, Types, UserTypes
<1>11. ASSUME NEW c \in Chunk, LookUp(s, c) PROVE Types'
  <2> DEFINE q == IF Rows(c) # {} THEN Hit(p, c) ELSE Miss(p, c)
  <2>1. Hit(p, c) \in UserState /\ Hit(p, c).pc = p.pc
    BY DEF Hit, UserState
  <2>2. Miss(p, c) \in UserState /\ Miss(p, c).pc = "get"
    BY <2>1 DEF Miss, Embedding, UserState, Task
  <2>3. q \in UserState /\ q.pc \in {"rerank", "get"}
    BY <1>11, <2>1, <2>2 DEF LookUp, At
  <2>4. Set(s, q)
    BY <1>11 DEF LookUp
  <2> QED
    BY <1>11, <2>3, <2>4, SetTypes DEF LookUp, Types, UserTypes
<1>12. CASE PutVector(s)
  <2>1. Reranking(p) \in UserState /\ Reranking(p).pc = "rerank" /\ Set(s, Reranking(p))
    BY <1>12 DEF PutVector, Reranking, Fresh, UserState, Task
  <2>2. p.vector \in Maker \X Task /\ p.task \in Chunk
    BY <1>12 DEF PutVector, UserState, Types, CallsAreReady, At
  <2>3. cache' \in SUBSET (Chunk \X (Maker \X Task))
    BY <1>12, <2>2 DEF PutVector, Rows, Types, UserTypes
  <2> QED
    BY <1>12, <2>1, <2>3, SetTypes DEF PutVector, Types, UserTypes
<1>13. CASE Rerank(s)
  BY <1>4, <1>13, SetTypes DEF Rerank, Types, UserTypes
<1>14. CASE SearchFails(s)
  BY <1>3, <1>14, SetTypes DEF SearchFails, Types, UserTypes
<1> QED
  BY <1>7, <1>8, <1>9, <1>10, <1>11, <1>12, <1>13, <1>14

LEMMA TypesStep == Types /\ [Next]_vars => Types'
<1> SUFFICES ASSUME Types, [Next]_vars PROVE Types'
  OBVIOUS
<1>1. CASE UNCHANGED vars
  BY <1>1 DEF vars, rvars, storeVars, Types, StoreTypes, UserTypes, CallsAreReady, At
<1>2. CASE StoreNext /\ UNCHANGED rvars
  BY <1>2, StoreTypesStep
<1>3. CASE RNext
  BY <1>3, EmbedderTypesStep, AskTypesStep, SearchTypesStep DEF RNext
<1> QED
  BY <1>1, <1>2, <1>3 DEF Next

-----------------------------------------------------------------------------
(* Only a service that fails makes an upsert or a question fail.           *)
LEMMA RacesStep ==
  ASSUME Types, RacesAreAbsorbed, [Next]_vars
  PROVE  RacesAreAbsorbed'
<1> USE DEF RacesAreAbsorbed
<1> faults \in Nat /\ writer \in [Writer -> WriterLabel] /\ asker \in [Asker -> AskerState]
  BY DEF Types, StoreTypes
<1>1. CASE UNCHANGED vars
  BY <1>1 DEF vars, storeVars
<1>2. ASSUME NEW w \in Writer,
             \/ WriteCluster(w) \/ EnsureForUpsert(w) \/ CreateForUpsert(w)
             \/ Insert(w) \/ Replace(w) \/ UpsertFails(w)
      PROVE  RacesAreAbsorbed'
  <2>1. \A l \in WriterLabel \ {"failed"} :
          To(w, l) => \A v \in Writer : writer'[v] = "failed" => writer[v] = "failed"
    BY DEF To
  <2>2. {Found, Created} \subseteq WriterLabel \ {"failed"}
    BY DEF Found, Created, WriterLabel
  <2>3. CASE UpsertFails(w)
    BY <2>3 DEF UpsertFails, Fault
  <2>4. CASE ~UpsertFails(w)
    BY <1>2, <2>1, <2>2, <2>4
      DEF WriteCluster, EnsureForUpsert, CreateForUpsert, Insert, Replace, WriterLabel
  <2> QED
    BY <2>3, <2>4
<1>3. ASSUME NEW a \in Asker,
             \/ EnsureForSearch(a) \/ CreateForSearch(a) \/ SearchStore(a)
             \/ ReadRows(a) \/ AskFails(a)
      PROVE  RacesAreAbsorbed'
  BY <1>3 DEF EnsureForSearch, CreateForSearch, SearchStore, ReadRows, AskFails, Ask, Found,
              Created, Fault, AskerState
<1>4. CASE RNext
  <2>1. ASSUME NEW a \in Asker, AskEmbedded(a) PROVE RacesAreAbsorbed'
    BY <2>1 DEF AskEmbedded, Ask, AskerState
  <2>2. CASE UNCHANGED <<writer, asker>> /\ faults' >= faults
    BY <2>2
  <2> QED
    <3>1. ASSUME NEW u \in User,
                 GetEmbedder(u) \/ InitEmbedder(u) \/ LoadEmbedder(u) \/ CallEmbedder(u)
          PROVE  RacesAreAbsorbed'
      BY <2>2, <3>1 DEF GetEmbedder, InitEmbedder, LoadEmbedder, CallEmbedder, Fault
    <3>2. ASSUME NEW a \in Asker, BeginAsk(a) PROVE RacesAreAbsorbed'
      BY <2>2, <3>2 DEF BeginAsk
    <3>3. ASSUME NEW s \in Search,
                 \/ BeginSearch(s) \/ EnsureChunks(s) \/ CreateChunks(s) \/ Retrieve(s)
                 \/ \E c \in Chunk : LookUp(s, c)
                 \/ PutVector(s) \/ Rerank(s) \/ SearchFails(s)
          PROVE  RacesAreAbsorbed'
      BY <2>2, <3>3 DEF BeginSearch, EnsureChunks, CreateChunks, Retrieve, LookUp, PutVector,
                        Rerank, SearchFails, Fault
    <3> QED
      BY <1>4, <2>1, <3>1, <3>2, <3>3 DEF RNext
<1> QED
  BY <1>1, <1>2, <1>3, <1>4 DEF Next, StoreNext

(* Rows are never deleted: a vector keeps the row that was there before it. *)
LEMMA RowsStep ==
  ASSUME Types, RowsComeFirst, [Next]_vars
  PROVE  RowsComeFirst' /\ clusters \subseteq clusters'
<1> USE DEF RowsComeFirst
<1> writer \in [Writer -> WriterLabel] /\ StoryOf \in [Writer -> Story]
  BY DEF Types, StoreTypes
<1>1. CASE UNCHANGED <<objects, clusters, writer>>
  BY <1>1
<1>2. ASSUME NEW w \in Writer,
             \/ WriteCluster(w) \/ EnsureForUpsert(w) \/ CreateForUpsert(w)
             \/ Insert(w) \/ Replace(w) \/ UpsertFails(w)
      PROVE  RowsComeFirst' /\ clusters \subseteq clusters'
  <2>1. CASE WriteCluster(w)
    BY <2>1 DEF WriteCluster, To
  <2>2. CASE Insert(w)
    BY <2>2 DEF Insert, To
  <2>3. CASE EnsureForUpsert(w) \/ CreateForUpsert(w) \/ Replace(w) \/ UpsertFails(w)
    BY <2>3 DEF EnsureForUpsert, CreateForUpsert, Replace, UpsertFails, To, storeVars
  <2> QED
    BY <1>2, <2>1, <2>2, <2>3
<1> QED
  BY <1>1, <1>2
    DEF Next, StoreNext, RNext, vars, storeVars, GetEmbedder, InitEmbedder, LoadEmbedder,
        CallEmbedder, BeginAsk, AskEmbedded, BeginSearch, EnsureChunks, CreateChunks, Retrieve,
        LookUp, PutVector, Rerank, SearchFails, EnsureForSearch, CreateForSearch, SearchStore,
        ReadRows, AskFails

(* What a question has found keeps its rows until they are read.           *)
LEMMA ContextsStep ==
  ASSUME Types, RowsComeFirst, ContextsComeLast, [Next]_vars
  PROVE  ContextsComeLast'
<1> USE DEF ContextsComeLast
<1>0. clusters \subseteq clusters'
  BY RowsStep
<1> asker \in [Asker -> AskerState] /\ user \in [User -> UserState]
  BY DEF Types, StoreTypes, UserTypes
<1>1. CASE UNCHANGED <<asker, user>>
  BY <1>0, <1>1
<1>2. ASSUME NEW a \in Asker,
             \/ EnsureForSearch(a) \/ CreateForSearch(a) \/ SearchStore(a)
             \/ ReadRows(a) \/ AskFails(a),
             UNCHANGED user
      PROVE  ContextsComeLast'
  <2>1. a \in User /\ asker[a] \in AskerState
    BY DEF User
  <2>2. \A l \in {"create", "ready", "failed"} :
          asker[a].pc \notin {"embed", "done"} /\ Ask(a, l) => ContextsComeLast'
    BY <1>0, <1>2, <2>1 DEF Ask, AskerState
  <2>3. CASE EnsureForSearch(a)
    BY <2>2, <2>3 DEF EnsureForSearch, Found
  <2>4. CASE CreateForSearch(a)
    BY <2>2, <2>4 DEF CreateForSearch, Created
  <2>5. CASE AskFails(a)
    BY <2>2, <2>5 DEF AskFails
  <2>6. CASE SearchStore(a)
    <3>1. PICK F \in SUBSET objects :
            asker' = [asker EXCEPT ![a].pc = IF F = {} THEN "done" ELSE "rows", ![a].found = F]
      BY <2>6 DEF SearchStore
    <3>2. /\ asker'[a].found = F /\ asker'[a].contexts = asker[a].contexts
          /\ asker'[a].pc \in {"done", "rows"}
          /\ \A b \in Asker \ {a} : asker'[b] = asker[b]
      BY <2>1, <3>1 DEF AskerState
    <3>3. asker[a].contexts = {} /\ asker[a].pc = "ready" /\ F \subseteq clusters
      BY <2>6 DEF SearchStore, RowsComeFirst
    <3> QED
      BY <1>0, <1>2, <2>1, <3>2, <3>3
  <2>7. CASE ReadRows(a)
    BY <1>0, <1>2, <2>1, <2>7 DEF ReadRows, AskerState
  <2> QED
    BY <1>2, <2>3, <2>4, <2>5, <2>6, <2>7
<1>3. ASSUME NEW a \in Asker, AskEmbedded(a) PROVE ContextsComeLast'
  <2>1. a \in User /\ asker[a] \in AskerState
    BY DEF User
  <2> QED
    BY <1>0, <1>3, <2>1 DEF AskEmbedded, Ask, Set, Done, At, AskerState, Fresh
<1>4. ASSUME NEW u \in User, user[u].pc # "done", NEW q, Set(u, q), UNCHANGED asker
      PROVE  ContextsComeLast'
  <2>1. \A v \in User : user'[v].pc # "done" => user[v].pc # "done"
    BY <1>4 DEF Set
  <2> QED
    BY <1>0, <1>4, <2>1 DEF User
<1>5. CASE RNext
  <2>1. ASSUME NEW a \in Asker, BeginAsk(a) PROVE ContextsComeLast'
    BY <1>4, <2>1 DEF BeginAsk, User, At
  <2>2. ASSUME NEW u \in User,
               GetEmbedder(u) \/ InitEmbedder(u) \/ LoadEmbedder(u) \/ CallEmbedder(u)
        PROVE  ContextsComeLast'
    BY <1>4, <2>2 DEF GetEmbedder, InitEmbedder, LoadEmbedder, CallEmbedder, Embed, At
  <2>3. ASSUME NEW s \in Search,
               \/ BeginSearch(s) \/ EnsureChunks(s) \/ CreateChunks(s) \/ Retrieve(s)
               \/ \E c \in Chunk : LookUp(s, c)
               \/ PutVector(s) \/ Rerank(s) \/ SearchFails(s)
        PROVE  ContextsComeLast'
    BY <1>4, <2>3 DEF BeginSearch, EnsureChunks, CreateChunks, Retrieve, LookUp, PutVector,
                      Rerank, SearchFails, At, User
  <2> QED
    BY <1>3, <1>5, <2>1, <2>2, <2>3 DEF RNext
<1>6. CASE StoreNext /\ UNCHANGED rvars
  <2>1. UNCHANGED user
    BY <1>6 DEF rvars
  <2> QED
    BY <1>1, <1>2, <1>6, <2>1
      DEF StoreNext, WriteCluster, EnsureForUpsert, CreateForUpsert, Insert, Replace, UpsertFails
<1> QED
  BY <1>1, <1>5, <1>6 DEF Next, vars, rvars

(* While OpenAI answers, a thread that finds the embedder unset sets it to *)
(* OpenAI, and one that finds it set finds OpenAI.                         *)
LEMMA OpenAIStep ==
  ASSUME Types, OpenAIFirst, [Next]_vars
  PROVE  OpenAIFirst'
<1> faults \in Nat /\ user \in [User -> UserState]
  BY DEF Types, StoreTypes, UserTypes
<1>1. /\ UNCHANGED installed /\ faults' \in {faults, faults + 1}
  BY DEF Next, StoreNext, RNext, vars, rvars, storeVars, Fault, GetEmbedder, InitEmbedder,
         LoadEmbedder, CallEmbedder, BeginAsk, AskEmbedded, BeginSearch, EnsureChunks,
         CreateChunks, Retrieve, LookUp, PutVector, Rerank, SearchFails, EnsureForSearch,
         CreateForSearch, SearchStore, ReadRows, AskFails, WriteCluster, EnsureForUpsert,
         CreateForUpsert, Insert, Replace, UpsertFails
<1> SUFFICES ASSUME "openai" \in installed, faults = 0, faults' = 0
             PROVE  OpenAIFirst'
  BY <1>1 DEF OpenAIFirst
<1>2. /\ embedder \in {"none", "openai"}
      /\ \A row \in cache : row[2][1] = "openai"
      /\ \A u \in User : /\ user[u].pc # "load"
                         /\ At(u, "call") => user[u].with = "openai"
                         /\ At(u, "embedded") => user[u].vector[1] = "openai"
  BY DEF OpenAIFirst
<1>3. CASE UNCHANGED rvars
  BY <1>3 DEF rvars, OpenAIFirst, At
<1>4. ASSUME NEW u \in User, NEW q, Set(u, q), q.pc # "load",
             q.pc = "call" => q.with = "openai",
             q.pc = "embedded" => q.vector[1] = "openai",
             embedder' \in {"none", "openai"},
             \A row \in cache' : row[2][1] = "openai"
      PROVE  OpenAIFirst'
  <2>1. \A v \in User : user'[v] = user[v] \/ user'[v] = q
    BY <1>4 DEF Set
  <2> QED
    BY <1>2, <1>4, <2>1 DEF OpenAIFirst, At
<1>5. \A u \in User, t \in Task : Embedding(user[u], t).pc = "get"
  BY DEF Embedding, UserState
<1>6. Done.pc = "done" /\ \A u \in User : Failed(user[u]).pc = "failed"
  BY DEF Done, Failed, Fresh
<1>7. ASSUME NEW u \in User, GetEmbedder(u) PROVE OpenAIFirst'
  <2> DEFINE q == IF embedder = "none" THEN [user[u] EXCEPT !.pc = "init"]
                  ELSE [user[u] EXCEPT !.pc = "call", !.with = embedder]
  <2>1. q.pc \in {"init", "call"} /\ (q.pc = "call" => q.with = "openai")
    BY <1>2 DEF UserState
  <2>2. Set(u, q)
    BY <1>7 DEF GetEmbedder
  <2> QED
    BY <1>2, <1>4, <1>7, <2>1, <2>2 DEF GetEmbedder
<1>8. ASSUME NEW u \in User, InitEmbedder(u) PROVE OpenAIFirst'
  <2> DEFINE q == [user[u] EXCEPT !.pc = "get"]
  <2>1. Set(u, q) /\ q.pc = "get" /\ embedder' = "openai"
    BY <1>8 DEF InitEmbedder, UserState
  <2> QED
    BY <1>2, <1>4, <1>8, <2>1 DEF InitEmbedder
<1>9. ASSUME NEW u \in User, LoadEmbedder(u) PROVE OpenAIFirst'
  BY <1>2, <1>9 DEF LoadEmbedder, At
<1>10. ASSUME NEW u \in User, CallEmbedder(u) PROVE OpenAIFirst'
  <2> DEFINE r == [user[u] EXCEPT !.with = "none"]
             q == IF r.task = "tierB" THEN Reranking(r)
                  ELSE [r EXCEPT !.pc = "embedded", !.vector = <<"openai", r.task>>]
  <2>1. user[u].with = "openai"
    BY <1>2, <1>10 DEF CallEmbedder
  <2>2. Embed(u, "openai")
    BY <1>10, <2>1 DEF CallEmbedder, Fault
  <2>3. Set(u, q)
    BY <2>2 DEF Embed
  <2>4. q.pc \in {"rerank", "embedded"} /\ (q.pc = "embedded" => q.vector[1] = "openai")
    BY DEF Reranking, UserState
  <2> QED
    BY <1>2, <1>4, <1>10, <2>3, <2>4 DEF CallEmbedder
<1>11. ASSUME NEW a \in Asker, BeginAsk(a) \/ AskEmbedded(a) PROVE OpenAIFirst'
  BY <1>2, <1>4, <1>5, <1>6, <1>11 DEF BeginAsk, AskEmbedded, User, Task
<1>12. ASSUME NEW s \in Search, BeginSearch(s) PROVE OpenAIFirst'
  <2> DEFINE q == [user[s] EXCEPT !.pc = "ensure", !.saw = chunkClass]
  <2>1. s \in User /\ Set(s, q) /\ q.pc = "ensure"
    BY <1>12 DEF BeginSearch, User, UserState
  <2> QED
    BY <1>2, <1>4, <1>12, <2>1 DEF BeginSearch
<1>13. ASSUME NEW s \in Search, EnsureChunks(s) PROVE OpenAIFirst'
  <2> DEFINE q == IF chunkClass THEN Embedding(user[s], "tierA") ELSE [user[s] EXCEPT !.pc = "create"]
  <2>1. s \in User /\ Set(s, q) /\ q.pc \in {"get", "create"}
    BY <1>5, <1>13 DEF EnsureChunks, User, UserState, Task
  <2> QED
    BY <1>2, <1>4, <1>13, <2>1 DEF EnsureChunks
<1>14. ASSUME NEW s \in Search, CreateChunks(s) \/ Rerank(s) \/ SearchFails(s) PROVE OpenAIFirst'
  <2>1. s \in User
    BY DEF User
  <2>2. PICK q : Set(s, q) /\ q.pc \in {"failed", "get", "done"}
    BY <1>5, <1>6, <1>14, <2>1 DEF CreateChunks, Rerank, SearchFails, Task
  <2>3. UNCHANGED <<embedder, cache>>
    BY <1>14 DEF CreateChunks, Rerank, SearchFails
  <2> QED
    BY <1>2, <1>4, <2>1, <2>2, <2>3
<1>15. ASSUME NEW s \in Search, Retrieve(s) PROVE OpenAIFirst'
  <2>1. s \in User
    BY DEF User
  <2>2. PICK C \in SUBSET Chunk :
          Set(s, IF C = {} THEN Done ELSE Embedding([user[s] EXCEPT !.left = C], "tierB"))
    BY <1>15 DEF Retrieve
  <2> DEFINE q == IF C = {} THEN Done ELSE Embedding([user[s] EXCEPT !.left = C], "tierB")
  <2>3. q.pc \in {"done", "get"}
    BY <1>6, <2>1 DEF Embedding, UserState
  <2> QED
    BY <1>2, <1>4, <1>15, <2>1, <2>2, <2>3 DEF Retrieve
<1>16. ASSUME NEW s \in Search, NEW c \in Chunk, LookUp(s, c) PROVE OpenAIFirst'
  <2> DEFINE q == IF Rows(c) # {} THEN Hit(user[s], c) ELSE Miss(user[s], c)
  <2>1. s \in User /\ Set(s, q) /\ user[s].pc = "rerank"
    BY <1>16 DEF LookUp, User, At
  <2>2. q.pc \in {"rerank", "get"}
    BY <2>1 DEF Hit, Miss, Embedding, UserState
  <2> QED
    BY <1>2, <1>4, <1>16, <2>1, <2>2 DEF LookUp
<1>17. ASSUME NEW s \in Search, PutVector(s) PROVE OpenAIFirst'
  <2>1. s \in User /\ Set(s, Reranking(user[s])) /\ At(s, "embedded")
    BY <1>17 DEF PutVector, User
  <2>2. Reranking(user[s]).pc = "rerank"
    BY <2>1 DEF Reranking, UserState
  <2>3. \A row \in cache' : row[2][1] = "openai"
    BY <1>2, <1>17, <2>1 DEF PutVector, Rows
  <2> QED
    BY <1>2, <1>4, <1>17, <2>1, <2>2, <2>3 DEF PutVector
<1> QED
  BY <1>3, <1>7, <1>8, <1>9, <1>10, <1>11, <1>12, <1>13, <1>14, <1>15, <1>16, <1>17
    DEF Next, RNext, vars, rvars

(* Who begins when the chunk collection is there finds it there.           *)
LEMMA SeenStep ==
  ASSUME Types, SeenStays, [Next]_vars
  PROVE  SeenStays'
<1> faults \in Nat /\ user \in [User -> UserState] /\ chunkClass \in BOOLEAN
  BY DEF Types, StoreTypes, UserTypes
<1>1. (chunkClass => chunkClass') /\ faults' \in {faults, faults + 1}
  BY DEF Next, StoreNext, RNext, vars, rvars, storeVars, Fault, GetEmbedder, InitEmbedder,
         LoadEmbedder, CallEmbedder, BeginAsk, AskEmbedded, BeginSearch, EnsureChunks,
         CreateChunks, Retrieve, LookUp, PutVector, Rerank, SearchFails, EnsureForSearch,
         CreateForSearch, SearchStore, ReadRows, AskFails, WriteCluster, EnsureForUpsert,
         CreateForUpsert, Insert, Replace, UpsertFails
<1>2. CASE UNCHANGED user
  BY <1>1, <1>2 DEF SeenStays, At
<1>3. ASSUME NEW u \in User, NEW q, Set(u, q),
             q.saw => /\ user[u].saw \/ chunkClass
                      /\ q.pc # "create"
                      /\ q.pc = "failed" => faults' > 0
      PROVE  SeenStays'
  <2>1. \A v \in User : (v = u /\ user'[v] = q) \/ user'[v] = user[v]
    BY <1>3 DEF Set
  <2> QED
    BY <1>1, <1>3, <2>1 DEF SeenStays, At
<1>4. \A u \in User : user[u] \in UserState
  OBVIOUS
<1>5. \A u \in User, t \in Task : Embedding(user[u], t).pc = "get" /\ Embedding(user[u], t).saw = user[u].saw
  BY DEF Embedding, UserState
<1>6. /\ Done.saw = FALSE
      /\ \A u \in User : Failed(user[u]).pc = "failed" /\ Failed(user[u]).saw = user[u].saw
  BY DEF Done, Failed, Fresh
<1>7. ASSUME NEW u \in User,
             GetEmbedder(u) \/ InitEmbedder(u) \/ LoadEmbedder(u) \/ CallEmbedder(u)
      PROVE  SeenStays'
  <2>1. ASSUME NEW q, Set(u, q), q.saw = user[u].saw, q.pc \notin {"create", "failed"}
        PROVE  SeenStays'
    <3>1. user[u].saw => chunkClass
      BY DEF SeenStays
    <3> QED
      BY <1>3, <2>1, <3>1
  <2>2. CASE GetEmbedder(u)
    <3> DEFINE q == IF embedder = "none" THEN [user[u] EXCEPT !.pc = "init"]
                    ELSE [user[u] EXCEPT !.pc = "call", !.with = embedder]
    <3>1. q.saw = user[u].saw /\ q.pc \in {"init", "call"}
      BY <1>4 DEF UserState
    <3>2. Set(u, q)
      BY <2>2 DEF GetEmbedder
    <3> HIDE DEF q
    <3> QED
      BY <2>1, <3>1, <3>2
  <2>3. CASE InitEmbedder(u)
    <3> DEFINE q == [user[u] EXCEPT !.pc = IF "openai" \in installed THEN "get" ELSE "load"]
    <3>1. q.saw = user[u].saw /\ q.pc \in {"get", "load"}
      BY <1>4 DEF UserState
    <3>2. Set(u, q)
      BY <2>3 DEF InitEmbedder
    <3> HIDE DEF q
    <3> QED
      BY <2>1, <3>1, <3>2
  <2>4. CASE LoadEmbedder(u)
    <3> DEFINE q == [user[u] EXCEPT !.pc = "get"]
    <3>1. q.saw = user[u].saw /\ q.pc = "get"
      BY <1>4 DEF UserState
    <3>2. Set(u, q)
      BY <2>4 DEF LoadEmbedder
    <3> HIDE DEF q
    <3> QED
      BY <2>1, <3>1, <3>2
  <2>5. CASE CallEmbedder(u)
    <3>1. PICK maker : Embed(u, maker)
      BY <2>5 DEF CallEmbedder
    <3> DEFINE r == [user[u] EXCEPT !.with = "none"]
               q == IF r.task = "tierB" THEN Reranking(r)
                    ELSE [r EXCEPT !.pc = "embedded", !.vector = <<maker, r.task>>]
    <3>2. Set(u, q)
      BY <3>1 DEF Embed
    <3>3. q.saw = user[u].saw /\ q.pc \in {"rerank", "embedded"}
      BY <1>4 DEF Reranking, UserState
    <3> HIDE DEF q
    <3> QED
      BY <2>1, <3>2, <3>3
  <2> QED
    BY <1>7, <2>2, <2>3, <2>4, <2>5
<1>8. ASSUME NEW a \in Asker, BeginAsk(a) \/ AskEmbedded(a) PROVE SeenStays'
  BY <1>3, <1>5, <1>6, <1>8 DEF BeginAsk, AskEmbedded, User, Task
<1>9. ASSUME NEW s \in Search,
             \/ BeginSearch(s) \/ EnsureChunks(s) \/ CreateChunks(s) \/ Retrieve(s)
             \/ \E c \in Chunk : LookUp(s, c)
             \/ PutVector(s) \/ Rerank(s) \/ SearchFails(s)
      PROVE  SeenStays'
  <2>1. s \in User
    BY DEF User
  <2>2. CASE BeginSearch(s)
    <3> DEFINE q == [user[s] EXCEPT !.pc = "ensure", !.saw = chunkClass]
    <3>1. Set(s, q) /\ q.pc = "ensure" /\ q.saw = chunkClass
      BY <1>4, <2>1, <2>2 DEF BeginSearch, UserState
    <3> QED
      BY <1>3, <2>1, <3>1
  <2>3. CASE EnsureChunks(s)
    <3>1. PICK q : Set(s, q) /\ q.saw = user[s].saw /\ (~chunkClass \/ q.pc = "get") /\ q.pc # "failed"
      BY <1>4, <1>5, <2>1, <2>3 DEF EnsureChunks, UserState, Task
    <3>2. user[s].saw => chunkClass
      BY <2>1 DEF SeenStays
    <3> QED
      BY <1>3, <2>1, <3>1, <3>2
  <2>4. CASE CreateChunks(s)
    <3>1. ~user[s].saw
      BY <2>1, <2>4 DEF CreateChunks, SeenStays, At
    <3>2. PICK q : Set(s, q) /\ q.saw = user[s].saw
      BY <1>5, <1>6, <2>1, <2>4 DEF CreateChunks, Task
    <3> QED
      BY <1>3, <2>1, <3>1, <3>2
  <2>5. CASE Retrieve(s)
    <3>1. PICK C \in SUBSET Chunk :
            Set(s, IF C = {} THEN Done ELSE Embedding([user[s] EXCEPT !.left = C], "tierB"))
      BY <2>5 DEF Retrieve
    <3> DEFINE r == Embedding([user[s] EXCEPT !.left = C], "tierB")
    <3>2. r.pc = "get" /\ r.saw = user[s].saw
      BY <1>4, <2>1 DEF Embedding, UserState
    <3> QED
      BY <1>3, <1>6, <2>1, <3>1, <3>2
  <2>6. ASSUME NEW c \in Chunk, LookUp(s, c) PROVE SeenStays'
    <3> DEFINE q == IF Rows(c) # {} THEN Hit(user[s], c) ELSE Miss(user[s], c)
    <3>1. Set(s, q) /\ user[s].pc = "rerank"
      BY <2>6 DEF LookUp, At
    <3>2. q.pc \in {"rerank", "get"} /\ q.saw = user[s].saw
      BY <1>4, <2>1, <3>1 DEF Hit, Miss, Embedding, UserState
    <3> QED
      BY <1>3, <2>1, <3>1, <3>2
  <2>7. CASE PutVector(s)
    <3>1. Set(s, Reranking(user[s])) /\ Reranking(user[s]).pc = "rerank"
          /\ Reranking(user[s]).saw = user[s].saw
      BY <1>4, <2>1, <2>7 DEF PutVector, Reranking, UserState
    <3> QED
      BY <1>3, <2>1, <3>1
  <2>8. CASE Rerank(s)
    BY <1>3, <1>6, <2>1, <2>8 DEF Rerank
  <2>9. CASE SearchFails(s)
    <3>1. Set(s, Failed(user[s])) /\ faults' > 0
      BY <2>9 DEF SearchFails, Fault
    <3> QED
      BY <1>3, <1>6, <2>1, <3>1
  <2> QED
    BY <1>9, <2>2, <2>3, <2>4, <2>5, <2>6, <2>7, <2>8, <2>9
<1> QED
  BY <1>2, <1>7, <1>8, <1>9 DEF Next, RNext, vars, rvars

(* Until it is done a question has read no row, and every vector it found  *)
(* has one.                                                                *)
LEMMA HitsStep ==
  ASSUME Types, RowsComeFirst, ContextsComeLast, HitsHaveRows, [Next]_vars
  PROVE  HitsHaveRows'
<1> asker \in [Asker -> AskerState]
  BY DEF Types, StoreTypes
<1>1. CASE UNCHANGED asker
  BY <1>1 DEF HitsHaveRows
<1>2. ASSUME NEW a \in Asker, NEW q, asker' = [asker EXCEPT ![a] = q],
             q.pc = "done" => q.contexts = q.found
      PROVE  HitsHaveRows'
  BY <1>2 DEF HitsHaveRows
<1>3. ASSUME NEW a \in Asker, NEW l \in {"ensure", "create", "ready", "failed"}, Ask(a, l)
      PROVE  HitsHaveRows'
  <2> DEFINE q == [asker[a] EXCEPT !.pc = l]
  <2>1. q.pc # "done"
    BY DEF AskerState
  <2>2. asker' = [asker EXCEPT ![a] = q]
    BY <1>3 DEF Ask
  <2> HIDE DEF q
  <2> QED
    BY <1>2, <2>1, <2>2
<1>4. ASSUME NEW a \in Asker,
             \/ EnsureForSearch(a) \/ CreateForSearch(a) \/ AskFails(a) \/ AskEmbedded(a)
      PROVE  HitsHaveRows'
  BY <1>3, <1>4 DEF EnsureForSearch, CreateForSearch, AskFails, AskEmbedded, Found, Created
<1>5. ASSUME NEW a \in Asker, SearchStore(a) PROVE HitsHaveRows'
  <2>1. PICK F \in SUBSET objects :
          asker' = [asker EXCEPT ![a].pc = IF F = {} THEN "done" ELSE "rows", ![a].found = F]
    BY <1>5 DEF SearchStore
  <2> DEFINE q == [asker[a] EXCEPT !.pc = IF F = {} THEN "done" ELSE "rows", !.found = F]
  <2>2. asker' = [asker EXCEPT ![a] = q]
    BY <2>1
  <2>3. asker[a].contexts = {}
    BY <1>5 DEF SearchStore, ContextsComeLast
  <2>4. q.pc = "done" => q.contexts = q.found
    BY <2>3 DEF AskerState
  <2> HIDE DEF q
  <2> QED
    BY <1>2, <2>2, <2>4
<1>6. ASSUME NEW a \in Asker, ReadRows(a) PROVE HitsHaveRows'
  <2> DEFINE q == [asker[a] EXCEPT !.pc = "done", !.contexts = asker[a].found \cap clusters]
  <2>1. asker' = [asker EXCEPT ![a] = q]
    BY <1>6 DEF ReadRows
  <2>2. asker[a].found \subseteq clusters
    BY DEF ContextsComeLast
  <2>3. q.contexts = q.found
    BY <2>2 DEF AskerState
  <2> HIDE DEF q
  <2> QED
    BY <1>2, <2>1, <2>3
<1>7. CASE RNext
  <2>1. RNext => UNCHANGED asker \/ \E a \in Asker : AskEmbedded(a)
    BY DEF RNext, GetEmbedder, InitEmbedder, LoadEmbedder, CallEmbedder, BeginAsk, BeginSearch,
           EnsureChunks, CreateChunks, Retrieve, LookUp, PutVector, Rerank, SearchFails
  <2> QED
    BY <1>1, <1>4, <1>7, <2>1
<1>8. CASE StoreNext
  <2>1. \A w \in Writer :
          \/ WriteCluster(w) \/ EnsureForUpsert(w) \/ CreateForUpsert(w)
          \/ Insert(w) \/ Replace(w) \/ UpsertFails(w)
          => UNCHANGED asker
    BY DEF WriteCluster, EnsureForUpsert, CreateForUpsert, Insert, Replace, UpsertFails
  <2> QED
    BY <1>1, <1>4, <1>5, <1>6, <1>8, <2>1 DEF StoreNext
<1> QED
  BY <1>1, <1>7, <1>8 DEF Next, vars

-----------------------------------------------------------------------------
(* The inductive invariant.                                                *)
LEMMA Invariant == Spec => []IInv
<1>1. IInv /\ [Next]_vars => IInv'
  BY TypesStep, RacesStep, RowsStep, ContextsStep, HitsStep, OpenAIStep,
     SeenStep DEF IInv
<1> QED
  BY InitOK, <1>1, PTL DEF Spec

(* No upsert and no question fails for meeting another.                    *)
THEOREM RacesAreAbsorbedCorrect == Spec => []RacesAreAbsorbed
<1>1. IInv => RacesAreAbsorbed
  BY DEF IInv
<1> QED
  BY Invariant, <1>1, PTL

(* What a search finds reaches the contexts of its answer.                 *)
THEOREM HitsHaveRowsCorrect == Spec => []HitsHaveRows
<1>1. IInv => HitsHaveRows
  BY DEF IInv
<1> QED
  BY Invariant, <1>1, PTL

(* The vectors that are kept are OpenAI's while OpenAI answers.            *)
THEOREM OpenAIUnlessItFailedCorrect == Spec => []OpenAIUnlessItFailed
<1>1. IInv => OpenAIUnlessItFailed
  BY DEF IInv, OpenAIFirst, OpenAIUnlessItFailed
<1> QED
  BY Invariant, <1>1, PTL

(* Once the chunk collection exists no search fails for creating it.       *)
THEOREM LaterSearchesDoNotCollideCorrect == Spec => []LaterSearchesDoNotCollide
<1>1. IInv => LaterSearchesDoNotCollide
  BY DEF IInv, SeenStays, LaterSearchesDoNotCollide, User
<1> QED
  BY Invariant, <1>1, PTL

(* No state of the two modules leaves its types.                           *)
THEOREM TypeCorrect == Spec => []TypeOK
<1>1. ContextsComeLast /\ HitsHaveRows /\ Types => TypeOK
  BY DEF ContextsComeLast, HitsHaveRows, Types, StoreTypes, UserTypes, TypeOK, StoreTypeOK,
         AskerState, UserState, WriterLabel, Maker
<1> QED
  BY Invariant, <1>1, PTL DEF IInv
=============================================================================
