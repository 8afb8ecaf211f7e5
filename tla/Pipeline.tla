-------------------------------- MODULE Pipeline --------------------------------
(***************************************************************************)
(* The ingestion pipeline: collectors push raw items to a Redis list, and  *)
(* a set of workers pop one job at a time and carry it through a chain of  *)
(* database statements (ingest/worker.py, queue/client.py, over Repo).     *)
(*                                                                         *)
(* A job leaves its list when it is popped (BLPOP), so a job whose worker  *)
(* dies or whose handler raises is gone.  Every action below is the code   *)
(* between two points where another process, or a crash, can get in: one   *)
(* database statement, one Redis command, or the pure code around them.    *)
(***************************************************************************)
EXTENDS Repo, Sequences, SequencesExt

CONSTANTS
  Worker,       \* worker processes
  Near,         \* pairs <<item, item>> whose embeddings exceed the threshold
  ClusterLimit, \* LIMIT of get_clusters_for_embedding (500 in the code)
  MaxPush,      \* bound: pushes to the ingest list in a behaviour
  MaxFault,     \* bound: crashes, exceptions and failed writes in a behaviour
  NoCluster, NoKey

ASSUME PipelineAssumption ==
  /\ IsFiniteSet(Worker)
  /\ Near \subseteq Item \X Item
  /\ ClusterLimit \in Nat \ {0}
  /\ MaxPush \in Nat /\ MaxFault \in Nat
  /\ NoCluster \notin Cluster /\ NoKey \notin EventKey

VARIABLES
  registry,       \* sources the registry file enables
  ingestQueue, summarizeQueue, indexQueue,   \* the Redis lists
  pc,             \* what each worker does next
  job,            \* the job each worker holds
  ended,          \* runs of jobs that are over, <<type, item, status>>
  lost,           \* history: jobs that died half-way, <<type, item>>
  pushes, faults  \* counted against MaxPush and MaxFault

queues == <<ingestQueue, summarizeQueue, indexQueue>>
ledger == <<ended, lost>>
bounds == <<pushes, faults>>
vars == <<dbVars, registry, queues, pc, job, ledger, bounds>>

(***************************************************************************)
(* The labels are the repo.py functions and Redis commands in the order    *)
(* the handlers call them.                                                 *)
(***************************************************************************)
IngestSteps == {"insert_article", "insert_article_body"}

(* Inside the try block of process_summarize: an exception closes the run. *)
GuardedSteps == {"insert_L1", "insert_L2", "insert_article_embedding",
                 "choose_cluster", "insert_L3"}

StorySteps == {"insert_cluster", "add_cluster_member", "insert_cluster_embedding",
               "insert_event", "insert_expectation"}

(* Asset targeting: its own try block swallows every exception.            *)
TargetSteps == {"persist_audit", "insert_event_impacts"}

SharedSteps == {"insert_run", "finish_run", "push"}

Busy == IngestSteps \cup GuardedSteps \cup StorySteps \cup TargetSteps \cup SharedSteps
Label == Busy \cup {"down", "idle"}

Job == [type : {"ingest", "summarize"}, item : Item, inserted : BOOLEAN,
        run : BOOLEAN, cluster : Cluster \cup {NoCluster}, key : EventKey \cup {NoKey}]

NoJob == [type |-> "none"]

NewJob(type, i) == [type |-> type, item |-> i, inserted |-> FALSE, run |-> FALSE,
                    cluster |-> NoCluster, key |-> NoKey]

QueueTypeOK ==
  /\ registry \subseteq Source
  /\ ingestQueue \in Seq(Item)
  /\ summarizeQueue \in Seq(Item)
  /\ indexQueue \in Seq(Cluster)

ControlTypeOK ==
  /\ pc \in [Worker -> Label]
  /\ job \in [Worker -> Job \cup {NoJob}]
  /\ \A w \in Worker : pc[w] \in Busy <=> job[w] # NoJob

LedgerTypeOK ==
  /\ ended \subseteq {"ingest", "summarize"} \X Item \X {"ok", "fail", "running"}
  /\ lost \subseteq {"ingest", "summarize"} \X Item
  /\ pushes \in 0..MaxPush
  /\ faults \in 0..MaxFault

TypeOK == RepoTypeOK /\ QueueTypeOK /\ ControlTypeOK /\ LedgerTypeOK

(* The system is deployed with a registry and an empty database; the       *)
(* workers are not started yet.                                            *)
Init ==
  /\ RepoInit
  /\ registry \in SUBSET Source
  /\ ingestQueue = <<>> /\ summarizeQueue = <<>> /\ indexQueue = <<>>
  /\ pc = [w \in Worker |-> "down"]
  /\ job = [w \in Worker |-> NoJob]
  /\ ended = {} /\ lost = {}
  /\ pushes = 0 /\ faults = 0

-----------------------------------------------------------------------------
(***************************************************************************)
(* The environment of the workers.                                         *)
(***************************************************************************)

(* An operator enables a source in the registry file.                      *)
EnableSource(s) ==
  /\ s \notin registry
  /\ registry' = registry \cup {s}
  /\ UNCHANGED <<dbVars, queues, pc, job, ledger, bounds>>

(* The daemon's poll, an admin's ingest run or a backfill pushes an item   *)
(* of an enabled source.  None of them remembers what it pushed before.    *)
Poll(i) ==
  /\ pushes < MaxPush
  /\ i.source \in registry
  /\ ingestQueue' = Append(ingestQueue, i)
  /\ pushes' = pushes + 1
  /\ UNCHANGED <<dbVars, registry, summarizeQueue, indexQueue, pc, job, ledger, faults>>

-----------------------------------------------------------------------------
(***************************************************************************)
(* The main loop of a worker.                                              *)
(***************************************************************************)
Goto(w, label) == pc' = [pc EXCEPT ![w] = label]

(* Mutant: the handler returns but its job stays with the worker. *)
EndJobKept(w, label) == Goto(w, label) /\ UNCHANGED job

EndJob(w, label) == Goto(w, label) /\ job' = [job EXCEPT ![w] = NoJob]

(* run_worker syncs the sources of the registry once, before its loop.     *)
Start(w) ==
  /\ pc[w] = "down"
  /\ UpsertSources(registry)
  /\ Goto(w, "idle")
  /\ UNCHANGED <<registry, queues, job, ledger, bounds>>

(* The process ends while it syncs, one statement per source.              *)
AbortStart(w) ==
  /\ pc[w] = "down"
  /\ faults < MaxFault
  /\ \E synced \in SUBSET registry : UpsertSources(synced)
  /\ faults' = faults + 1
  /\ UNCHANGED <<registry, queues, pc, job, ledger, pushes>>

Hold(w, type, i) ==
  /\ job' = [job EXCEPT ![w] = NewJob(type, i)]
  /\ Goto(w, "insert_run")
  /\ UNCHANGED <<dbVars, registry, indexQueue, ledger, bounds>>

(* BLPOP serves the lists in the order they are named: ingest first.       *)
TakeIngest(w) ==
  /\ pc[w] = "idle"
  /\ ingestQueue # <<>>
  /\ ingestQueue' = Tail(ingestQueue)
  /\ UNCHANGED summarizeQueue
  /\ Hold(w, "ingest", Head(ingestQueue))

TakeSummarize(w) ==
  /\ pc[w] = "idle"
  /\ ingestQueue = <<>> /\ summarizeQueue # <<>>
  /\ summarizeQueue' = Tail(summarizeQueue)
  /\ UNCHANGED ingestQueue
  /\ Hold(w, "summarize", Head(summarizeQueue))

(* process_index ends in its first statement: the query of                 *)
(* compute_intraday_from_clusters has a parameter and is given none, and   *)
(* the main loop logs the driver's exception.                              *)
TakeIndex(w) ==
  /\ pc[w] = "idle"
  /\ ingestQueue = <<>> /\ summarizeQueue = <<>> /\ indexQueue # <<>>
  /\ indexQueue' = Tail(indexQueue)
  /\ UNCHANGED <<dbVars, registry, ingestQueue, summarizeQueue, pc, job, ledger, bounds>>

(* The 'running' row of a job's run.  process_ingest goes on without one   *)
(* when the insert fails; process_summarize does not.                      *)
InsertRun(w) ==
  /\ pc[w] = "insert_run"
  /\ Goto(w, IF job[w].type = "ingest" THEN "insert_article" ELSE "insert_L1")
  /\ \/ /\ job' = [job EXCEPT ![w].run = TRUE]
        /\ UNCHANGED faults
     \/ /\ job[w].type = "ingest"
        /\ faults < MaxFault
        /\ faults' = faults + 1
        /\ UNCHANGED job
  /\ UNCHANGED <<dbVars, registry, queues, ledger, pushes>>

Close(w, status) ==
  ended' = IF job[w].run
           THEN ended \cup {<<job[w].type, job[w].item, status>>}
           ELSE ended

(* Mutant: the push of a finished ingest job is forgotten. *)
FinishRunWithoutPush(w) ==
  /\ pc[w] = "finish_run"
  /\ Close(w, "ok")
  /\ IF job[w].type = "ingest"
     THEN EndJob(w, "idle")
     ELSE Goto(w, "push") /\ job' = [job EXCEPT ![w].run = FALSE]
  /\ UNCHANGED <<dbVars, registry, queues, lost, bounds>>

(* finish_run, then the push of the next job; an item that was not         *)
(* inserted has none.                                                      *)
FinishRun(w) ==
  /\ pc[w] = "finish_run"
  /\ Close(w, "ok")
  /\ IF job[w].type = "ingest" /\ ~job[w].inserted
     THEN EndJob(w, "idle")
     ELSE Goto(w, "push") /\ job' = [job EXCEPT ![w].run = FALSE]
  /\ UNCHANGED <<dbVars, registry, queues, lost, bounds>>

Push(w) ==
  /\ pc[w] = "push"
  /\ \/ /\ job[w].type = "ingest"
        /\ summarizeQueue' = Append(summarizeQueue, job[w].item)
        /\ UNCHANGED indexQueue
     \/ /\ job[w].type = "summarize"
        /\ indexQueue' = Append(indexQueue, job[w].cluster)
        /\ UNCHANGED summarizeQueue
  /\ EndJob(w, "idle")
  /\ UNCHANGED <<dbVars, registry, ingestQueue, ledger, bounds>>

Die(w, label, status) ==
  /\ faults < MaxFault
  /\ faults' = faults + 1
  /\ Close(w, status)
  /\ lost' = lost \cup {<<job[w].type, job[w].item>>}
  /\ EndJob(w, label)

(* The handler raises: the main loop logs it and takes the next job.  Only *)
(* the try block of process_summarize marks the run, if it still can.      *)
Raise(w) ==
  /\ pc[w] \in Busy \ TargetSteps
  /\ ~(pc[w] = "insert_run" /\ job[w].type = "ingest")
  /\ \/ Die(w, "idle", "running")
     \/ pc[w] \in GuardedSteps /\ Die(w, "idle", "fail")
  /\ UNCHANGED <<dbVars, registry, queues, pushes>>

(* The process ends: killed, stopped for an update, or out of memory.      *)
Crash(w) ==
  /\ \/ pc[w] \in Busy /\ Die(w, "down", "running")
     \/ /\ pc[w] = "idle"
        /\ faults < MaxFault
        /\ faults' = faults + 1
        /\ Goto(w, "down")
        /\ UNCHANGED <<job, ledger>>
  /\ UNCHANGED <<dbVars, registry, queues, pushes>>

-----------------------------------------------------------------------------
(***************************************************************************)
(* process_ingest.                                                         *)
(***************************************************************************)

(* One statement on the worker's item, after which the worker goes on.     *)
Advance(w, from, to) ==
  /\ pc[w] = from
  /\ Goto(w, to)
  /\ UNCHANGED <<job, registry, queues, ledger, bounds>>

(* Mutant: the body of a stored article is left out. *)
StoreArticleWithoutBody(w) ==
  LET i == job[w].item IN
  /\ pc[w] = "insert_article"
  /\ InsertArticle(i)
  /\ job' = [job EXCEPT ![w].inserted = ReturnsArticleId(i)]
  /\ Goto(w, "finish_run")
  /\ UNCHANGED <<registry, queues, ledger, bounds>>

StoreArticle(w) ==
  LET i == job[w].item IN
  /\ pc[w] = "insert_article"
  /\ InsertArticle(i)
  /\ job' = [job EXCEPT ![w].inserted = ReturnsArticleId(i)]
  /\ Goto(w, IF ReturnsArticleId(i) THEN "insert_article_body" ELSE "finish_run")
  /\ UNCHANGED <<registry, queues, ledger, bounds>>

(* The source is not in the table: the insert raises, and the job is lost. *)
RejectArticle(w) ==
  /\ pc[w] = "insert_article"
  /\ ViolatesSourceKey(job[w].item)
  /\ Close(w, "running")
  /\ lost' = lost \cup {<<"ingest", job[w].item>>}
  /\ EndJob(w, "idle")
  /\ UNCHANGED <<dbVars, registry, queues, bounds>>

StoreBody(w) ==
  /\ Advance(w, "insert_article_body", "finish_run")
  /\ InsertArticleBody(job[w].item)

-----------------------------------------------------------------------------
(***************************************************************************)
(* process_summarize.                                                      *)
(***************************************************************************)
(* Mutant: no L2 summary is stored. *)
StoreL1Only(w) ==
  /\ Advance(w, "insert_L1", "insert_article_embedding")
  /\ InsertSummary("L1", job[w].item)

StoreL1(w) ==
  /\ Advance(w, "insert_L1", "insert_L2")
  /\ InsertSummary("L1", job[w].item)

StoreL2(w) ==
  /\ Advance(w, "insert_L2", "insert_article_embedding")
  /\ InsertSummary("L2", job[w].item)

EmbedArticle(w) ==
  /\ Advance(w, "insert_article_embedding", "choose_cluster")
  /\ InsertArticleEmbedding(job[w].item)

(* Mutant: the lookup may miss stories below the limit. *)
LookupsIncomplete == {S \in SUBSET SearchableClusters : Cardinality(S) <= ClusterLimit}

(* What the lookup returns: the ClusterLimit most recently seen clusters.  *)
(* Which ones those are is left open.                                      *)
Lookups == {S \in SUBSET SearchableClusters :
              \/ S = SearchableClusters /\ Cardinality(S) <= ClusterLimit
              \/ Cardinality(S) = ClusterLimit}

NearClusters(S, i) == {c \in S : <<i, vector[c]>> \in Near}

(* cluster_id() hashes the time of the call, so its ids are all different. *)
FreshClusters == {c \in Cluster : /\ sourceCount[c] = 0
                                  /\ <<"L3", c>> \notin summaries
                                  /\ \A w \in Worker : pc[w] \in Busy => job[w].cluster # c}

(* find_nearest_cluster: the best match above the threshold if there is    *)
(* one, else a new id.  Nothing is reserved in the database.               *)
ChooseCluster(w) ==
  /\ pc[w] = "choose_cluster"
  /\ \E S \in Lookups :
       LET near == NearClusters(S, job[w].item) IN
       \E c \in (IF near # {} THEN near ELSE FreshClusters) :
         job' = [job EXCEPT ![w].cluster = c]
  /\ Goto(w, "insert_L3")
  /\ UNCHANGED <<dbVars, registry, queues, ledger, bounds>>

(* The vectors of the stories come as the driver decodes them: as text,    *)
(* with no codec of pgvector registered, which is no row of numbers, so    *)
(* that the handler raises as soon as there is a story to compare with.    *)
(* Decoding belongs to the driver or an external store, so that the model  *)
(* keeps both outcomes.                                                    *)
RejectVectors(w) ==
  /\ pc[w] = "choose_cluster"
  /\ SearchableClusters # {}
  /\ Close(w, "fail")
  /\ lost' = lost \cup {<<"summarize", job[w].item>>}
  /\ EndJob(w, "idle")
  /\ UNCHANGED <<dbVars, registry, queues, bounds>>

(* Mutant: the member row is written before the cluster's. *)
StoreL3MemberNext(w) ==
  /\ Advance(w, "insert_L3", "add_cluster_member")
  /\ InsertSummary("L3", job[w].cluster)

StoreL3(w) ==
  /\ Advance(w, "insert_L3", "insert_cluster")
  /\ InsertSummary("L3", job[w].cluster)

(* Mutant: the vector is replaced before the member row is written. *)
StoreClusterVectorNext(w) ==
  /\ Advance(w, "insert_cluster", "insert_cluster_embedding")
  /\ InsertCluster(job[w].cluster)

StoreCluster(w) ==
  /\ Advance(w, "insert_cluster", "add_cluster_member")
  /\ InsertCluster(job[w].cluster)

(* Mutant: a story is never given a vector. *)
AddMemberNoVector(w) ==
  /\ Advance(w, "add_cluster_member", "insert_event")
  /\ AddClusterMember(job[w].cluster, job[w].item)

AddMember(w) ==
  /\ Advance(w, "add_cluster_member", "insert_cluster_embedding")
  /\ AddClusterMember(job[w].cluster, job[w].item)

(* Mutant: the run is finished before the event is written. *)
EmbedClusterThenFinish(w) ==
  /\ Advance(w, "insert_cluster_embedding", "finish_run")
  /\ InsertClusterEmbedding(job[w].cluster, job[w].item)

EmbedCluster(w) ==
  /\ Advance(w, "insert_cluster_embedding", "insert_event")
  /\ InsertClusterEmbedding(job[w].cluster, job[w].item)

(* The event type is a topic of the summary, the day that of the call.     *)
StoreEvent(w) ==
  /\ pc[w] = "insert_event"
  /\ \E k \in EventKey :
       /\ InsertEvent(job[w].cluster, k)
       /\ job' = [job EXCEPT ![w].key = k]
  /\ Goto(w, "insert_expectation")
  /\ UNCHANGED <<registry, queues, ledger, bounds>>

(* Asset targeting is for impact level L2 and above.                       *)
StoreExpectation(w) ==
  /\ \/ Advance(w, "insert_expectation", "persist_audit")
     \/ Advance(w, "insert_expectation", "finish_run")
  /\ InsertExpectation(job[w].cluster, job[w].key)

StoreAudit(w) ==
  /\ Advance(w, "persist_audit", "insert_event_impacts")
  /\ PersistAssetTargetingAudit(job[w].cluster)

StoreImpacts(w) ==
  /\ Advance(w, "insert_event_impacts", "finish_run")
  /\ InsertEventImpacts(job[w].cluster, job[w].key)

(* Asset targeting raised: the handler goes on without it.                 *)
SkipTargeting(w) ==
  /\ \/ Advance(w, "persist_audit", "finish_run")
     \/ Advance(w, "insert_event_impacts", "finish_run")
  /\ UNCHANGED dbVars
-----------------------------------------------------------------------------
Ingest(w) == StoreArticle(w) \/ RejectArticle(w) \/ StoreBody(w)

Summarize(w) ==
  \/ StoreL1(w) \/ StoreL2(w) \/ EmbedArticle(w) \/ ChooseCluster(w) \/ RejectVectors(w)
  \/ StoreL3(w) \/ StoreCluster(w) \/ AddMember(w) \/ EmbedCluster(w)
  \/ StoreEvent(w) \/ StoreExpectation(w)
  \/ StoreAudit(w) \/ StoreImpacts(w) \/ SkipTargeting(w)

Work(w) ==
  \/ TakeIngest(w) \/ TakeSummarize(w) \/ TakeIndex(w)
  \/ InsertRun(w) \/ FinishRun(w) \/ Push(w)
  \/ Ingest(w) \/ Summarize(w)

Next ==
  \/ \E s \in Source : EnableSource(s)
  \/ \E i \in Item : Poll(i)
  \/ \E w \in Worker : Start(w) \/ AbortStart(w) \/ Work(w) \/ Raise(w) \/ Crash(w)

Spec == Init /\ [][Next]_vars

(* A worker's loop keeps going, and Docker or systemd restarts it when it  *)
(* exits; polls, edits of the registry and faults need not happen.         *)
FairSpec == Spec /\ \A w \in Worker : WF_vars(Start(w)) /\ WF_vars(Work(w))
-----------------------------------------------------------------------------
(***************************************************************************)
(* Safety.                                                                 *)
(***************************************************************************)
Holds(w, type) == pc[w] \in Busy /\ job[w].type = type

Clustered(i) == \E c \in Cluster : <<c, i>> \in members

(* A summarize job, queued or in progress, names an article that is stored *)
(* with its body: process_ingest pushes only after both inserts, and no    *)
(* crash or duplicate lets a job overtake them.                            *)
SummarizeJobsAreStored ==
  \A i \in Item :
    \/ i \in ToSet(summarizeQueue)
    \/ \E w \in Worker : Holds(w, "summarize") /\ job[w].item = i
    => i \in articles \cap bodies

(* No statement of a handler trips over a foreign key of the schema, the   *)
(* one to sources excepted: the row it refers to was committed by an       *)
(* earlier statement of the same job or of the job that pushed it.         *)
NoDanglingReference ==
  \A w \in Worker :
    /\ pc[w] = "insert_article_body" => job[w].item \in articles
    /\ pc[w] = "add_cluster_member" => job[w].cluster \in ClusterRows /\ job[w].item \in articles
    /\ pc[w] = "insert_event" => job[w].cluster \in ClusterRows
    /\ pc[w] \in {"insert_expectation", "insert_event_impacts"}
         => <<job[w].cluster, job[w].key>> \in events

(* An article counts as a member of a story only once everything the API   *)
(* joins with it is there: its row and body, both summaries and its        *)
(* embedding, and the story's own L3 summary.                              *)
MembersAreComplete ==
  \A m \in members :
    /\ m[2] \in articles \cap bodies \cap embedded
    /\ {<<"L1", m[2]>>, <<"L2", m[2]>>, <<"L3", m[1]>>} \subseteq summaries

(* A story is searched by the embedding of one of its own members, however *)
(* the writes of two workers to the same story interleave.                 *)
VectorsAreOfMembers ==
  \A c \in Cluster : vector[c] # NoItem => <<c, vector[c]>> \in members

(* An event belongs to a story that a later article can still find.        *)
EventsAreOfSearchableStories ==
  \A e \in events : e[1] \in SearchableClusters

(* source_count never falls behind the number of members, although it is   *)
(* kept by a statement of its own, one commit ahead of the member row.     *)
Members(c) == {i \in Item : <<c, i>> \in members}
SourceCountCoversMembers ==
  \A c \in Cluster : sourceCount[c] >= Cardinality(Members(c))

(* An index job names a story with an event that has an expectation to     *)
(* measure.                                                                *)
IndexJobsFollowExpectations ==
  \A c \in ToSet(indexQueue) : \E k \in EventKey : <<c, k>> \in events /\ expectations[<<c, k>>] > 0

(* A run that ended 'ok' did what it reports: the URL is stored, or the    *)
(* article is in a story with an event and an expectation.                 *)
OkRunsAreComplete ==
  \A i \in Item :
    /\ <<"ingest", i, "ok">> \in ended => UrlTaken(i)
    /\ <<"summarize", i, "ok">> \in ended =>
         \E m \in members, k \in EventKey :
           m[2] = i /\ <<m[1], k>> \in events /\ expectations[<<m[1], k>>] > 0

(* A stored article is in a story, or on its way there, or was carried by  *)
(* a job that died: there is no other way to lose one.                     *)
StoredArticlesAreAccountedFor ==
  \A i \in articles :
    \/ Clustered(i)
    \/ i \in ToSet(summarizeQueue)
    \/ \E w \in Worker : Holds(w, "summarize") /\ job[w].item = i
    \/ \E w \in Worker : Holds(w, "ingest") /\ job[w].inserted /\ job[w].item = i
    \/ <<"ingest", i>> \in lost \/ <<"summarize", i>> \in lost

(* With one worker, and fewer stories than the lookup returns, a story is  *)
(* opened for an article only when no searchable story is near it.         *)
Opens(w) == pc[w] = "insert_cluster" /\ pc'[w] = "add_cluster_member" /\ sourceCount[job[w].cluster] = 0
StoriesOpenOnlyWhenNoneIsNear ==
  [][\A w \in Worker : Opens(w) => NearClusters(SearchableClusters, job[w].item) = {}]_vars

-----------------------------------------------------------------------------
(***************************************************************************)
(* What the readers of the tables see.                                     *)
(***************************************************************************)
CompleteArticles ==
  {i \in articles \cap bodies \cap embedded : {<<"L1", i>>, <<"L2", i>>} \subseteq summaries}

Archive == INSTANCE StoryArchive WITH
  Article <- Item, Story <- Cluster, Day <- EventKey, Nobody <- NoItem,
  archive <- CompleteArticles,
  story <- [c \in Cluster |-> Members(c)],
  face <- vector,
  timeline <- events

(* The pipeline implements the archive: every statement of a handler, also *)
(* of one that repeats a job or shares its story with another worker,      *)
(* completes an article, adds a complete article to a story, makes one of  *)
(* a story's own articles its vector, reports an event of a story that has *)
(* one, or changes nothing that is read; and no crash takes any of it back. *)
ArchiveIsKept == Archive!Spec

(***************************************************************************)
(* What the repository says and the code does not do.                      *)
(***************************************************************************)

(* The registry is hot-reloaded: a source enabled in it is polled, and its *)
(* items are ingested.                                                     *)
EnabledSourcesAreKnown ==
  \A w \in Worker : pc[w] = "insert_article" => ~ViolatesSourceKey(job[w].item)

(***************************************************************************)
(* Liveness, under FairSpec.                                               *)
(***************************************************************************)

(* An item that was pushed ends up in a story, or its URL belongs to       *)
(* another article, or one of its jobs died; priorities and a restart may  *)
(* delay it, but not for ever.                                             *)
Settled(i) ==
  \/ Clustered(i)
  \/ \E a \in articles : a.url = i.url /\ a # i
  \/ <<"ingest", i>> \in lost \/ <<"summarize", i>> \in lost

EveryItemSettles == \A i \in Item : (i \in ToSet(ingestQueue)) ~> Settled(i)
=============================================================================
