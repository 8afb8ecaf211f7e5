---------------------------------- MODULE Repo ----------------------------------
(***************************************************************************)
(* The Postgres tables the ingestion pipeline writes, and db/repo.py, the  *)
(* functions that write them.  The pool's connections run in autocommit:   *)
(* every function below is one statement, and a crash can fall between any *)
(* two of them.                                                            *)
(*                                                                         *)
(* A raw item is [source, url, published]: exactly the three fields the    *)
(* article id is a hash of (ingest/dedup.py).  An item without a date is   *)
(* hashed with the current time instead, so ingesting it again never       *)
(* yields the same id.                                                     *)
(***************************************************************************)
EXTENDS Naturals, FiniteSets

CONSTANTS
  Source,       \* source ids of the registry
  Item,         \* raw items the collectors can yield
  Cluster,      \* ids cluster_id() can produce: fresh on every call
  EventKey,     \* (event type, UTC day) pairs an event id is hashed from
  Undated,      \* published_at of an item whose feed gives none
  NoItem        \* no row

ASSUME RepoAssumption ==
  /\ \A i \in Item : i.source \in Source
  /\ NoItem \notin Item
  /\ IsFiniteSet(Item)

VARIABLES
  sources,      \* rows of sources
  articles,     \* rows of articles, as the item each was stored from
  bodies,       \* articles with an article_bodies row
  summaries,    \* summaries: <<"L1", item>>, <<"L2", item>>, <<"L3", cluster>>
  embedded,     \* articles with a row in embeddings
  sourceCount,  \* clusters.source_count; 0 where the cluster has no row
  members,      \* rows <<cluster, article>> of cluster_members
  vector,       \* the article whose embedding the cluster's row holds
  events,       \* rows of events, <<cluster, key>>
  expectations, \* number of expectations rows of each event
  audits,       \* clusters with a cluster_asset_targeting_audit row
  impacts       \* events with event_impacts rows

articleTables == <<sources, articles, bodies, summaries, embedded>>
storyTables == <<sourceCount, members, vector>>
eventTables == <<events, expectations, audits, impacts>>
dbVars == <<articleTables, storyTables, eventTables>>

Event == Cluster \X EventKey

RepoTypeOK ==
  /\ sources \subseteq Source
  /\ articles \subseteq Item
  /\ bodies \subseteq Item
  /\ summaries \subseteq ({"L1", "L2"} \X Item) \cup ({"L3"} \X Cluster)
  /\ embedded \subseteq Item
  /\ sourceCount \in [Cluster -> Nat]
  /\ members \subseteq Cluster \X Item
  /\ vector \in [Cluster -> Item \cup {NoItem}]
  /\ events \subseteq Event
  /\ expectations \in [Event -> Nat]
  /\ audits \subseteq Cluster
  /\ impacts \subseteq Event

RepoInit ==
  /\ sources = {} /\ articles = {} /\ bodies = {} /\ summaries = {} /\ embedded = {}
  /\ sourceCount = [c \in Cluster |-> 0]
  /\ members = {}
  /\ vector = [c \in Cluster |-> NoItem]
  /\ events = {}
  /\ expectations = [e \in Event |-> 0]
  /\ audits = {} /\ impacts = {}

ClusterRows == {c \in Cluster : sourceCount[c] > 0}

-----------------------------------------------------------------------------
UpsertSources(enabled) ==
  /\ sources' = sources \cup enabled
  /\ UNCHANGED <<articles, bodies, summaries, embedded, storyTables, eventTables>>

(* The two unique constraints of articles: its primary key, and the index  *)
(* on canonical_url.  Only the second raises; the statement's ON CONFLICT  *)
(* clause absorbs the first.                                               *)
SameArticleId(i) == i \in articles /\ i.published # Undated
UrlTaken(i) == \E a \in articles : a.url = i.url

(* insert_article returns the id when the statement succeeds, whether or   *)
(* not it stored a row, and None on a unique violation.                    *)
ReturnsArticleId(i) == SameArticleId(i) \/ ~UrlTaken(i)

(* The row needs its source: articles.source_id is a foreign key.          *)
ViolatesSourceKey(i) == ~UrlTaken(i) /\ i.source \notin sources

InsertArticle(i) ==
  /\ ~ViolatesSourceKey(i)
  /\ articles' = IF UrlTaken(i) THEN articles ELSE articles \cup {i}
  /\ UNCHANGED <<sources, bodies, summaries, embedded, storyTables, eventTables>>

InsertArticleBody(i) ==
  /\ i \in articles
  /\ bodies' = bodies \cup {i}
  /\ UNCHANGED <<sources, articles, summaries, embedded, storyTables, eventTables>>

InsertSummary(level, object) ==
  /\ summaries' = summaries \cup {<<level, object>>}
  /\ UNCHANGED <<sources, articles, bodies, embedded, storyTables, eventTables>>

InsertArticleEmbedding(i) ==
  /\ embedded' = embedded \cup {i}
  /\ UNCHANGED <<sources, articles, bodies, summaries, storyTables, eventTables>>

(* Mutant: the conflict clause sets source_count instead of adding to it. *)
InsertClusterResetsCount(c) ==
  /\ sourceCount' = [sourceCount EXCEPT ![c] = 1]
  /\ UNCHANGED <<articleTables, members, vector, eventTables>>

(* A new cluster starts with source_count 1; an existing row gains one.    *)
InsertCluster(c) ==
  /\ sourceCount' = [sourceCount EXCEPT ![c] = @ + 1]
  /\ UNCHANGED <<articleTables, members, vector, eventTables>>

AddClusterMember(c, i) ==
  /\ c \in ClusterRows /\ i \in articles
  /\ members' = members \cup {<<c, i>>}
  /\ UNCHANGED <<articleTables, sourceCount, vector, eventTables>>

(* The upsert replaces the vector: a cluster is found by its last article. *)
InsertClusterEmbedding(c, i) ==
  /\ vector' = [vector EXCEPT ![c] = i]
  /\ UNCHANGED <<articleTables, sourceCount, members, eventTables>>

(* get_clusters_for_embedding joins the vectors with the clusters' rows.   *)
SearchableClusters == {c \in ClusterRows : vector[c] # NoItem}

InsertEvent(c, k) ==
  /\ c \in ClusterRows
  /\ events' = events \cup {<<c, k>>}
  /\ UNCHANGED <<articleTables, storyTables, expectations, audits, impacts>>

(* expectations has no natural key: every call adds a row.                 *)
InsertExpectation(c, k) ==
  /\ <<c, k>> \in events
  /\ expectations' = [expectations EXCEPT ![<<c, k>>] = @ + 1]
  /\ UNCHANGED <<articleTables, storyTables, events, audits, impacts>>

(* The function logs and swallows what its insert raises: its caller       *)
(* cannot tell whether there is a row.                                     *)
PersistAssetTargetingAudit(c) ==
  /\ audits' \in {audits, audits \cup {c}}
  /\ UNCHANGED <<articleTables, storyTables, events, expectations, impacts>>

InsertEventImpacts(c, k) ==
  /\ <<c, k>> \in events
  /\ impacts' = impacts \cup {<<c, k>>}
  /\ UNCHANGED <<articleTables, storyTables, events, expectations, audits>>
=============================================================================
