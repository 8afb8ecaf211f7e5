-------------------------------- MODULE VectorStore --------------------------------
(***************************************************************************)
(* The external vector store (vector_store/weaviate_client.py): workers    *)
(* upsert the vector of a story after its row in Postgres, and /v1/ask     *)
(* searches the store and then reads the rows (llm/rag.py).  Every call    *)
(* makes a store object of its own, whose collection is not yet known.     *)
(*                                                                         *)
(* Of an object only its story is kept; which objects are near a question  *)
(* is a free choice.                                                       *)
(***************************************************************************)
EXTENDS Naturals, FiniteSets

CONSTANTS
  Story,        \* clusters
  Writer,       \* summarize jobs that reach the story's embedding
  StoryOf,      \* the story of each writer
  Asker,        \* POSTs to /v1/ask
  TopK,         \* top_k of retrieve_similar
  MaxFault      \* bound: calls of a service that fail

ASSUME StoreAssumption ==
  /\ StoryOf \in [Writer -> Story]
  /\ TopK \in Nat \ {0} /\ MaxFault \in Nat

VARIABLES
  collection,   \* whether the class weaviate_class exists
  objects,      \* stories with an object in the store
  clusters,     \* stories with a row in Postgres
  writer,       \* where each writer is
  asker,        \* where each question is, what the search found, its contexts
  faults        \* bound: calls that failed so far

storeVars == <<collection, objects, clusters>>

(* A new store, or one that has the vectors of some stories.               *)
SInit ==
  /\ objects \in SUBSET Story /\ clusters = objects
  /\ collection = (objects # {})
  /\ writer = [w \in Writer |-> "row"]
  /\ asker = [a \in Asker |-> [pc |-> "embed", found |-> {}, contexts |-> {}]]
  /\ faults = 0
-----------------------------------------------------------------------------
(* _ensure_collection: exists, or else create; whatever create raises, it  *)
(* looks again.                                                            *)
Found == IF collection THEN "ready" ELSE "create"

(* Mutant: the exception of create is passed on. *)
CreatedOrRaised == IF collection THEN "failed" ELSE "ready"

Created == "ready"

(* A call that fails because the service does.                             *)
Fault ==
  /\ faults < MaxFault
  /\ faults' = faults + 1

To(w, label) == writer' = [writer EXCEPT ![w] = label]

(* Mutant: rows are written in a batch, when the next job begins. *)
WriteClusterInBatch(w) ==
  /\ writer[w] = "row"
  /\ To(w, "ensure")
  /\ clusters' = clusters \cup {StoryOf[v] : v \in {v \in Writer : writer[v] = "done"}}
  /\ UNCHANGED <<collection, objects, asker, faults>>

(* insert_cluster, before insert_embedding.                                *)
WriteCluster(w) ==
  /\ writer[w] = "row"
  /\ To(w, "ensure")
  /\ clusters' = clusters \cup {StoryOf[w]}
  /\ UNCHANGED <<collection, objects, asker, faults>>

EnsureForUpsert(w) ==
  /\ writer[w] = "ensure"
  /\ To(w, Found)
  /\ UNCHANGED <<storeVars, asker, faults>>

CreateForUpsert(w) ==
  /\ writer[w] = "create"
  /\ To(w, Created)
  /\ collection' = TRUE
  /\ UNCHANGED <<objects, clusters, asker, faults>>

(* _upsert_sync: the id is derived from the story; insert, and replace     *)
(* when the object exists.                                                 *)
Insert(w) ==
  /\ writer[w] = "ready"
  /\ IF StoryOf[w] \in objects THEN To(w, "replace") /\ UNCHANGED objects
                               ELSE To(w, "done") /\ objects' = objects \cup {StoryOf[w]}
  /\ UNCHANGED <<collection, clusters, asker, faults>>

Replace(w) ==
  /\ writer[w] = "replace"
  /\ To(w, "done")
  /\ UNCHANGED <<storeVars, asker, faults>>

(* The store does not answer: the exception ends the job, the row stays.   *)
UpsertFails(w) ==
  /\ writer[w] \in {"ensure", "create", "ready", "replace"}
  /\ Fault
  /\ To(w, "failed")
  /\ UNCHANGED <<storeVars, asker>>
-----------------------------------------------------------------------------
Ask(a, label) == asker' = [asker EXCEPT ![a].pc = label]

EnsureForSearch(a) ==
  /\ asker[a].pc = "ensure"
  /\ Ask(a, Found)
  /\ UNCHANGED <<storeVars, writer, faults>>

CreateForSearch(a) ==
  /\ asker[a].pc = "create"
  /\ Ask(a, Created)
  /\ collection' = TRUE
  /\ UNCHANGED <<objects, clusters, writer, faults>>

(* near_vector, limit = top_k.                                             *)
SearchStore(a) ==
  /\ asker[a].pc = "ready"
  /\ \E F \in SUBSET objects :
       /\ Cardinality(F) <= TopK
       /\ asker' = [asker EXCEPT ![a].pc = IF F = {} THEN "done" ELSE "rows", ![a].found = F]
  /\ UNCHANGED <<storeVars, writer, faults>>

(* get_clusters_by_ids: an id without a row is left out; what is left is   *)
(* the contexts of generate_answer.                                        *)
ReadRows(a) ==
  /\ asker[a].pc = "rows"
  /\ asker' = [asker EXCEPT ![a].pc = "done", ![a].contexts = asker[a].found \cap clusters]
  /\ UNCHANGED <<storeVars, writer, faults>>

(* A service does not answer: HTTP 500.                                    *)
AskFails(a) ==
  /\ asker[a].pc \in {"ensure", "create", "ready", "rows"}
  /\ Fault
  /\ Ask(a, "failed")
  /\ UNCHANGED <<storeVars, writer>>

StoreNext ==
  \/ \E w \in Writer : \/ WriteCluster(w) \/ EnsureForUpsert(w) \/ CreateForUpsert(w)
                       \/ Insert(w) \/ Replace(w) \/ UpsertFails(w)
  \/ \E a \in Asker : \/ EnsureForSearch(a) \/ CreateForSearch(a) \/ SearchStore(a)
                      \/ ReadRows(a) \/ AskFails(a)
-----------------------------------------------------------------------------
StoreTypeOK ==
  /\ collection \in BOOLEAN
  /\ objects \subseteq Story /\ clusters \subseteq Story
  /\ writer \in [Writer -> {"row", "ensure", "create", "ready", "replace", "done", "failed"}]
  /\ \A a \in Asker : /\ asker[a].pc \in {"embed", "ensure", "create", "ready", "rows", "done", "failed"}
                      /\ asker[a].found \subseteq Story /\ asker[a].contexts \subseteq asker[a].found
  /\ faults \in 0..MaxFault

(* Two workers, and a question, that meet in the creation of the class or  *)
(* in the insertion of one story's vector do not fail for it: an upsert    *)
(* or a question fails only when a service does.                           *)
RacesAreAbsorbed ==
  faults = 0 => /\ \A w \in Writer : writer[w] # "failed"
                /\ \A a \in Asker : asker[a].pc # "failed"

(* What a search finds reaches the answer's contexts: no vector is in the  *)
(* store without its story's row in Postgres, though no transaction spans  *)
(* the two.                                                                *)
HitsHaveRows ==
  \A a \in Asker : asker[a].pc = "done" => asker[a].contexts = asker[a].found
=============================================================================
