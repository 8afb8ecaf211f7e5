------------------------------- MODULE ArchiveProofs -------------------------------
(***************************************************************************)
(* The pipeline implements StoryArchive: step by step, for any number of   *)
(* workers, items, stories and faults.  And a lone worker opens a story    *)
(* only when it has found none that is near.                               *)
(***************************************************************************)
EXTENDS PipelineProofs

-----------------------------------------------------------------------------
(* The four tables of the archive, as a statement leaves them.             *)
StoryTablesKept == UNCHANGED <<members, vector, events>>
ArticleTablesKept == UNCHANGED <<articles, bodies, summaries, embedded>>

LEMMA NothingRead ==
  ASSUME ArticleTablesKept, StoryTablesKept
  PROVE  UNCHANGED Archive!vars
BY DEF ArticleTablesKept, StoryTablesKept, CompleteArticles, Members, Archive!vars

(* A statement on the row of one article completes that one at most.       *)
LEMMA CompletesOne ==
  ASSUME DbGrows, StoryTablesKept, NEW i \in Item,
         articles' \subseteq articles \cup {i}, bodies' \subseteq bodies \cup {i},
         embedded' \subseteq embedded \cup {i},
         \A j \in Item : j # i => /\ <<"L1", j>> \in summaries' => <<"L1", j>> \in summaries
                                  /\ <<"L2", j>> \in summaries' => <<"L2", j>> \in summaries,
         articles' \subseteq Item
  PROVE  [Archive!Next]_(Archive!vars)
<1>1. CompleteArticles \subseteq CompleteArticles'
  BY DEF CompleteArticles, DbGrows
<1>2. CompleteArticles' \subseteq CompleteArticles \cup {i}
  BY DEF CompleteArticles
<1>3. UNCHANGED <<[c \in Cluster |-> Members(c)], vector, events>>
  BY DEF StoryTablesKept, Members
<1>4. CASE i \in CompleteArticles'
  <2>1. CompleteArticles' = CompleteArticles \cup {i}
    BY <1>1, <1>2, <1>4
  <2>2. Archive!Complete(i)
    BY <1>3, <2>1 DEF Archive!Complete
  <2> QED
    BY <2>2 DEF Archive!Next
<1>5. CASE i \notin CompleteArticles'
  <2>1. CompleteArticles' = CompleteArticles
    BY <1>1, <1>2, <1>5
  <2> QED
    BY <1>3, <2>1 DEF Archive!vars
<1> QED
  BY <1>4, <1>5

(* The statements that complete an article.                                *)
LEMMA ArticleStatements ==
  ASSUME TypeInv, TypeInv', DbGrows, NEW w \in Worker,
         StoreArticle(w) \/ StoreBody(w) \/ StoreL1(w) \/ StoreL2(w) \/ EmbedArticle(w)
  PROVE  [Archive!Next]_(Archive!vars)
<1> DEFINE i == job[w].item
<1>1. i \in Item
  <2>1. pc[w] \in Busy
    BY Labels DEF StoreArticle, StoreBody, StoreL1, StoreL2, EmbedArticle, Advance
  <2> QED
    BY <2>1, BusyJob DEF TypeInv, TypeOK, Job
<1>2. articles' \subseteq Item
  BY DEF TypeInv, TypeOK, RepoTypeOK
<1>3. CASE StoreArticle(w)
  BY <1>1, <1>2, <1>3, CompletesOne
     DEF StoreArticle, InsertArticle, storyTables, eventTables, StoryTablesKept
<1>4. CASE StoreBody(w)
  BY <1>1, <1>2, <1>4, CompletesOne
     DEF StoreBody, InsertArticleBody, storyTables, eventTables, StoryTablesKept
<1>5. CASE StoreL1(w)
  BY <1>1, <1>2, <1>5, CompletesOne
     DEF StoreL1, InsertSummary, storyTables, eventTables, StoryTablesKept
<1>6. CASE StoreL2(w)
  BY <1>1, <1>2, <1>6, CompletesOne
     DEF StoreL2, InsertSummary, storyTables, eventTables, StoryTablesKept
<1>7. CASE EmbedArticle(w)
  BY <1>1, <1>2, <1>7, CompletesOne
     DEF EmbedArticle, InsertArticleEmbedding, storyTables, eventTables, StoryTablesKept
<1> QED
  BY <1>3, <1>4, <1>5, <1>6, <1>7

(* The member row comes after everything that makes its article complete.  *)
LEMMA MemberJoins ==
  ASSUME TypeInv, JobsOK, NEW w \in Worker, AddMember(w)
  PROVE  Archive!Next
<1> DEFINE i == job[w].item
           c == job[w].cluster
<1>1. pc[w] = "add_cluster_member"
  BY DEF AddMember, Advance
<1>2. i \in Item /\ c \in Cluster /\ SummarizeFacts(w)
  BY <1>1, SummarizeJob, Labels
<1>3. i \in CompleteArticles
  BY <1>1, <1>2, Labels DEF SummarizeFacts, CompleteArticles
<1>4. members' = members \cup {<<c, i>>} /\ UNCHANGED <<articles, bodies, summaries, embedded, vector, events>>
  BY DEF AddMember, AddClusterMember, articleTables, eventTables
<1>5. \A d \in Cluster : Members(d)' = IF d = c THEN Members(d) \cup {i} ELSE Members(d)
  BY <1>2, <1>4 DEF Members
<1> DEFINE old == [d \in Cluster |-> Members(d)]
<1>6. [d \in Cluster |-> Members(d)]' = [old EXCEPT ![c] = @ \cup {i}]
  BY <1>2, <1>5
<1>7. CompleteArticles' = CompleteArticles
  BY <1>4 DEF CompleteArticles
<1>8. Archive!Join(c, i)
  BY <1>3, <1>4, <1>6, <1>7 DEF Archive!Join
<1> QED
  BY <1>2, <1>8 DEF Archive!Next

(* The vector comes after the member row.                                  *)
LEMMA VectorFinds ==
  ASSUME TypeInv, JobsOK, NEW w \in Worker, EmbedCluster(w)
  PROVE  Archive!Next
<1> DEFINE i == job[w].item
           c == job[w].cluster
<1>1. pc[w] = "insert_cluster_embedding"
  BY DEF EmbedCluster, Advance
<1>2. i \in Item /\ c \in Cluster /\ SummarizeFacts(w)
  BY <1>1, SummarizeJob, Labels
<1>3. i \in Members(c)
  BY <1>1, <1>2, Labels DEF SummarizeFacts, Members
<1>4. vector' = [vector EXCEPT ![c] = i] /\ UNCHANGED <<articles, bodies, summaries, embedded, members, events>>
  BY DEF EmbedCluster, InsertClusterEmbedding, articleTables, eventTables
<1>5. UNCHANGED <<CompleteArticles, [d \in Cluster |-> Members(d)]>>
  BY <1>4 DEF CompleteArticles, Members
<1>6. Archive!FindBy(c, i)
  BY <1>2, <1>3, <1>4, <1>5 DEF Archive!FindBy
<1> QED
  BY <1>2, <1>6 DEF Archive!Next

(* The event comes after the vector.                                       *)
LEMMA EventIsReported ==
  ASSUME TypeInv, JobsOK, NEW w \in Worker, StoreEvent(w)
  PROVE  Archive!Next
<1> DEFINE c == job[w].cluster
<1>1. pc[w] = "insert_event"
  BY DEF StoreEvent
<1>2. c \in Cluster /\ SummarizeFacts(w)
  BY <1>1, SummarizeJob, Labels
<1>3. vector[c] # NoItem
  BY <1>1, <1>2, Labels DEF SummarizeFacts
<1>4. PICK k \in EventKey : InsertEvent(c, k)
  BY DEF StoreEvent
<1>5. events' = events \cup {<<c, k>>} /\ UNCHANGED <<articles, bodies, summaries, embedded, members, vector>>
  BY <1>4 DEF InsertEvent, articleTables, storyTables
<1>6. UNCHANGED <<CompleteArticles, [d \in Cluster |-> Members(d)]>>
  BY <1>5 DEF CompleteArticles, Members
<1>7. Archive!Report(c, k)
  BY <1>2, <1>3, <1>5, <1>6 DEF Archive!Report
<1> QED
  BY <1>2, <1>7 DEF Archive!Next

(* No other statement writes what the archive shows: the L3 summary is not *)
(* of an article.                                                          *)
LEMMA OtherStatements ==
  ASSUME TypeInv, NEW w \in Worker,
         \/ RejectArticle(w) \/ ChooseCluster(w) \/ RejectVectors(w) \/ StoreL3(w) \/ StoreCluster(w)
         \/ StoreExpectation(w) \/ StoreAudit(w) \/ StoreImpacts(w) \/ SkipTargeting(w)
         \/ TakeIngest(w) \/ TakeSummarize(w) \/ TakeIndex(w)
         \/ InsertRun(w) \/ FinishRun(w) \/ Push(w)
         \/ Start(w) \/ AbortStart(w) \/ Raise(w) \/ Crash(w)
  PROVE  UNCHANGED Archive!vars
<1>1. CASE StoreL3(w)
  <2>1. summaries' = summaries \cup {<<"L3", job[w].cluster>>}
        /\ UNCHANGED <<articles, bodies, embedded, members, vector, events>>
    BY <1>1 DEF StoreL3, InsertSummary, storyTables, eventTables
  <2>2. CompleteArticles' = CompleteArticles
    BY <2>1 DEF CompleteArticles
  <2> QED
    BY <2>1, <2>2 DEF Members, Archive!vars
<1>2. CASE \/ RejectArticle(w) \/ ChooseCluster(w) \/ RejectVectors(w) \/ StoreCluster(w)
           \/ StoreExpectation(w) \/ StoreAudit(w) \/ StoreImpacts(w) \/ SkipTargeting(w)
  BY <1>2, NothingRead
     DEF RejectArticle, ChooseCluster, RejectVectors, StoreCluster, StoreExpectation, StoreAudit, StoreImpacts,
         SkipTargeting, InsertCluster, InsertExpectation, PersistAssetTargetingAudit,
         InsertEventImpacts, dbVars, articleTables, storyTables, eventTables,
         ArticleTablesKept, StoryTablesKept
<1>3. CASE \/ TakeIngest(w) \/ TakeSummarize(w) \/ TakeIndex(w)
           \/ InsertRun(w) \/ FinishRun(w) \/ Push(w)
           \/ Start(w) \/ AbortStart(w) \/ Raise(w) \/ Crash(w)
  BY <1>3, NothingRead
     DEF TakeIngest, TakeSummarize, TakeIndex, Hold, InsertRun, FinishRun, Push, Start, AbortStart,
         Raise, Crash, UpsertSources, dbVars, articleTables, storyTables, eventTables,
         ArticleTablesKept, StoryTablesKept
<1> QED
  BY <1>1, <1>2, <1>3

LEMMA ArchiveInit == Init => Archive!Init
<1> SUFFICES ASSUME Init PROVE Archive!Init
  OBVIOUS
<1>1. CompleteArticles = {} /\ \A c \in Cluster : Members(c) = {}
  BY DEF Init, RepoInit, CompleteArticles, Members
<1> QED
  BY <1>1 DEF Init, RepoInit, Archive!Init

LEMMA ArchiveStep ==
  ASSUME TypeInv, Causality, [Next]_vars
  PROVE  [Archive!Next]_(Archive!vars)
<1>1. DbGrows /\ TypeInv'
  BY TypeNext DEF TypeStep
<1>2. JobsOK
  BY DEF Causality
<1>3. CASE UNCHANGED dbVars
  <2>1. UNCHANGED Archive!vars
    BY <1>3, NothingRead DEF dbVars, articleTables, storyTables, eventTables, ArticleTablesKept, StoryTablesKept
  <2> QED
    BY <2>1
<1>4. ASSUME NEW w \in Worker, Start(w) \/ AbortStart(w) \/ Work(w) \/ Raise(w) \/ Crash(w)
      PROVE  [Archive!Next]_(Archive!vars)
  <2>1. CASE StoreArticle(w) \/ StoreBody(w) \/ StoreL1(w) \/ StoreL2(w) \/ EmbedArticle(w)
    BY <1>1, <2>1, ArticleStatements
  <2>2. CASE AddMember(w) \/ EmbedCluster(w) \/ StoreEvent(w)
    BY <1>2, <2>2, MemberJoins, VectorFinds, EventIsReported
  <2>3. CASE \/ RejectArticle(w) \/ ChooseCluster(w) \/ RejectVectors(w) \/ StoreL3(w) \/ StoreCluster(w)
             \/ StoreExpectation(w) \/ StoreAudit(w) \/ StoreImpacts(w) \/ SkipTargeting(w)
             \/ TakeIngest(w) \/ TakeSummarize(w) \/ TakeIndex(w)
             \/ InsertRun(w) \/ FinishRun(w) \/ Push(w)
             \/ Start(w) \/ AbortStart(w) \/ Raise(w) \/ Crash(w)
    BY <2>3, OtherStatements
  <2> QED
    BY <1>4, <2>1, <2>2, <2>3 DEF Work, Ingest, Summarize
<1> QED
  BY <1>3, <1>4 DEF Next, vars, EnableSource, Poll

(* The pipeline implements the archive its readers see: articles enter it  *)
(* complete, stories gather complete articles and are found by one of      *)
(* their own, events are of stories that can be found, nothing is taken    *)
(* back; crashes, duplicates and races of workers do not show.             *)
THEOREM ArchiveIsKeptCorrect == Spec => ArchiveIsKept
<1>1. Init => Archive!Init
  BY ArchiveInit
<1>2. TypeInv /\ Causality /\ [Next]_vars => [Archive!Next]_(Archive!vars)
  BY ArchiveStep
<1> QED
  BY <1>1, <1>2, Causal, PTL DEF Spec, ArchiveIsKept, Archive!Spec

-----------------------------------------------------------------------------
(***************************************************************************)
(* A lone worker.                                                          *)
(***************************************************************************)
(* Between its choice and the cluster's row nobody else writes: a choice   *)
(* that has no row was made when no searchable story was near.             *)
ChoicesAreNeeded ==
  \A w \in Worker :
    pc[w] \in {"insert_L3", "insert_cluster"} /\ sourceCount[job[w].cluster] = 0
      => NearClusters(SearchableClusters, job[w].item) = {}

(* With no more stories than it may return, the lookup returns all.        *)
LEMMA LookupsAreComplete ==
  ASSUME IsFiniteSet(Cluster), Cardinality(Cluster) <= ClusterLimit, NEW S \in Lookups
  PROVE  S = SearchableClusters
<1>1. S \subseteq SearchableClusters /\ SearchableClusters \subseteq Cluster
  BY DEF Lookups, SearchableClusters, ClusterRows
<1>2. CASE Cardinality(S) = ClusterLimit
  <2>1. IsFiniteSet(S) /\ Cardinality(S) <= Cardinality(Cluster)
        /\ (Cardinality(S) = Cardinality(Cluster) => S = Cluster)
    BY <1>1, FS_Subset
  <2>2. Cardinality(S) \in Nat /\ Cardinality(Cluster) \in Nat
    BY <2>1, FS_CardinalityType
  <2> QED
    BY <1>1, <1>2, <2>1, <2>2, PipelineAssumption
<1> QED
  BY <1>2 DEF Lookups

LEMMA LoneChoice ==
  ASSUME IsFiniteSet(Cluster), Cardinality(Cluster) <= ClusterLimit, NEW w, Worker = {w},
         TypeInv, JobsOK, ChooseCluster(w)
  PROVE  ChoicesAreNeeded'
<1>1. PICK S \in Lookups :
        \E c \in (IF NearClusters(S, job[w].item) # {} THEN NearClusters(S, job[w].item) ELSE FreshClusters) :
          job' = [job EXCEPT ![w].cluster = c]
  BY DEF ChooseCluster
<1>2. S = SearchableClusters
  BY LookupsAreComplete
<1> DEFINE near == NearClusters(SearchableClusters, job[w].item)
<1>3. PICK c \in (IF near # {} THEN near ELSE FreshClusters) : job' = [job EXCEPT ![w].cluster = c]
  BY <1>1, <1>2
<1>4. pc[w] = "choose_cluster" /\ UNCHANGED <<sourceCount, vector>>
  BY DEF ChooseCluster, dbVars, storyTables
<1>5. job[w] \in Job
  BY <1>4, SummarizeJob, Labels
<1>6. job'[w].cluster = c /\ job'[w].item = job[w].item
  BY <1>3, <1>5 DEF Job, TypeInv, TypeOK, ControlTypeOK
<1>7. near # {} => sourceCount[c] > 0 /\ sourceCount[c] \in Nat
  BY <1>3 DEF NearClusters, SearchableClusters, ClusterRows, TypeInv, TypeOK, RepoTypeOK
<1>8. NearClusters(SearchableClusters, job[w].item)' = near
  BY <1>4, <1>6 DEF NearClusters, SearchableClusters, ClusterRows
<1> QED
  BY <1>4, <1>6, <1>7, <1>8 DEF ChoicesAreNeeded

(* Every other step leaves the choice and the tables it rests on alone, or *)
(* ends with the worker elsewhere.                                         *)
LEMMA LoneOtherSteps ==
  ASSUME NEW w, Worker = {w}, TypeInv, ChoicesAreNeeded, [Next]_vars, ~ChooseCluster(w)
  PROVE  ChoicesAreNeeded'
<1>1. CASE UNCHANGED <<pc, job, sourceCount, vector>>
  BY <1>1 DEF ChoicesAreNeeded, NearClusters, SearchableClusters, ClusterRows
<1>2. CASE StoreL3(w)
  <2>1. pc[w] = "insert_L3" /\ UNCHANGED <<job, sourceCount, vector>>
    BY <1>2 DEF StoreL3, Advance, InsertSummary, storyTables
  <2> QED
    BY <2>1 DEF ChoicesAreNeeded, NearClusters, SearchableClusters, ClusterRows
<1>3. CASE pc'[w] \notin {"insert_L3", "insert_cluster"}
  BY <1>3 DEF ChoicesAreNeeded
<1>4. CASE Start(w) \/ AbortStart(w) \/ Raise(w) \/ Crash(w) \/ TakeIngest(w) \/ TakeSummarize(w)
           \/ TakeIndex(w) \/ InsertRun(w) \/ FinishRun(w) \/ Push(w) \/ Ingest(w)
  <2>1. pc'[w] \notin {"insert_L3", "insert_cluster"} \/ UNCHANGED <<pc, job, sourceCount, vector>>
    BY <1>4 DEF TypeInv, TypeOK, ControlTypeOK, Start, AbortStart, Raise, Crash, Die, EndJob, Goto,
       TakeIngest, TakeSummarize, TakeIndex, Hold, InsertRun, FinishRun, Push, Ingest, StoreArticle,
       RejectArticle, StoreBody, Advance, UpsertSources, dbVars, storyTables
  <2> QED
    BY <1>1, <1>3, <2>1
<1>5. CASE Summarize(w) /\ ~ChooseCluster(w) /\ ~StoreL3(w)
  <2>1. pc'[w] \notin {"insert_L3", "insert_cluster"}
    BY <1>5 DEF TypeInv, TypeOK, ControlTypeOK, Goto, EndJob, Advance, Summarize, StoreL1, StoreL2, EmbedArticle,
       RejectVectors, StoreCluster, AddMember, EmbedCluster, StoreEvent, StoreExpectation, StoreAudit, StoreImpacts,
       SkipTargeting
  <2> QED
    BY <1>3, <2>1
<1> QED
  BY <1>1, <1>2, <1>4, <1>5 DEF Next, vars, dbVars, storyTables, EnableSource, Poll, Work

(* With one worker, and no more stories than the lookup may return, a      *)
(* story is opened only when no searchable story is near its article.      *)
THEOREM StoriesOpenOnlyWhenNoneIsNearCorrect ==
  ASSUME NEW lone, Worker = {lone}, IsFiniteSet(Cluster), Cardinality(Cluster) <= ClusterLimit
  PROVE  Spec => StoriesOpenOnlyWhenNoneIsNear
<1>1. Init => ChoicesAreNeeded
  BY DEF Init, ChoicesAreNeeded
<1>2. TypeInv /\ Causality /\ ChoicesAreNeeded /\ [Next]_vars => ChoicesAreNeeded'
  BY LoneChoice, LoneOtherSteps DEF Causality
<1>3. ChoicesAreNeeded /\ [Next]_vars
        => [\A w \in Worker : Opens(w) => NearClusters(SearchableClusters, job[w].item) = {}]_vars
  BY DEF Opens, ChoicesAreNeeded
<1>4. Spec => []ChoicesAreNeeded
  BY <1>1, <1>2, Causal, PTL DEF Spec
<1> QED
  BY <1>3, <1>4, PTL DEF Spec, StoriesOpenOnlyWhenNoneIsNear
=============================================================================
