----------------------------- MODULE PipelineProofs -----------------------------
(* Type correctness and the causal order of the pipeline's tables, for     *)
(* every set of workers, items and stories and every bound.                *)
EXTENDS Pipeline, TLAPS, SequenceTheorems, FiniteSetTheorems

-----------------------------------------------------------------------------
(***************************************************************************)
(* Type correctness.                                                       *)
(***************************************************************************)
LEMMA TypeInit == Init => TypeOK
BY PipelineAssumption, EmptySeq DEF Init, TypeOK, QueueTypeOK, ControlTypeOK, LedgerTypeOK, RepoInit,
   RepoTypeOK, Label, Busy, NoJob, Event,
   IngestSteps, GuardedSteps, StorySteps, TargetSteps, SharedSteps

(* RPUSH and BLPOP keep the type of a list.                                *)
LEMMA SeqTypes ==
  ASSUME NEW S, NEW s \in Seq(S)
  PROVE  /\ \A x \in S : Append(s, x) \in Seq(S)
         /\ s # <<>> => Head(s) \in S /\ Tail(s) \in Seq(S)
BY AppendProperties, HeadTailProperties

(* The job of a busy worker is a record with all its fields.               *)
LEMMA BusyJob ==
  ASSUME ControlTypeOK, NEW w \in Worker, pc[w] \in Busy
  PROVE  job[w] \in Job
BY DEF ControlTypeOK

SummarizeSteps == GuardedSteps \cup StorySteps \cup TargetSteps

(* The steps of a summarize job that come after each of its statements.    *)
PastExpectation == TargetSteps \cup {"finish_run", "push"}
PastEvent == {"insert_expectation"} \cup PastExpectation
PastVector == {"insert_event"} \cup PastEvent
PastMember == {"insert_cluster_embedding"} \cup PastVector
PastCluster == {"add_cluster_member"} \cup PastMember
PastL3 == {"insert_cluster"} \cup PastCluster
PastChoice == {"insert_L3"} \cup PastL3
PastEmbedding == {"choose_cluster"} \cup PastChoice
PastL2 == {"insert_article_embedding"} \cup PastEmbedding
PastL1 == {"insert_L2"} \cup PastL2

(* What the label a worker is at says of its job: the handler it belongs   *)
(* to, and which of the local variables of process_summarize are set.      *)
Phase(l, j) ==
  /\ l \in IngestSteps => j.type = "ingest"
  /\ l \in SummarizeSteps => j.type = "summarize"
  /\ l \in PastChoice /\ j.type = "summarize" => j.cluster \in Cluster
  /\ l \in PastEvent /\ j.type = "summarize" => j.key \in EventKey

PhaseOK == \A w \in Worker : Phase(pc[w], job[w])

ControlOK == ControlTypeOK /\ PhaseOK

(* TypeOK is not inductive alone: an L3 summary is of a story only because *)
(* process_summarize chose one before it came to insert_L3.                *)
TypeInv == TypeOK /\ PhaseOK

(* A worker that goes on with a job, or with a new version of it.          *)
LEMMA KeepsControl ==
  ASSUME ControlOK, NEW w \in Worker, NEW l \in Busy, NEW j \in Job, Phase(l, j),
         pc' = [pc EXCEPT ![w] = l], job' = [job EXCEPT ![w] = j]
  PROVE  ControlOK'
<1>1. j # NoJob
  BY DEF Job, NoJob
<1>2. ControlTypeOK'
  BY <1>1 DEF ControlOK, ControlTypeOK, Label
<1>3. ASSUME NEW v \in Worker PROVE Phase(pc'[v], job'[v])
  BY DEF ControlOK, ControlTypeOK, PhaseOK
<1>4. QED
  BY <1>2, <1>3 DEF ControlOK, PhaseOK, Phase

(* A worker that only changes its label.                                   *)
LEMMA MovesControl ==
  ASSUME ControlOK, NEW w \in Worker, NEW l \in Busy, pc[w] \in Busy, Phase(l, job[w]),
         pc' = [pc EXCEPT ![w] = l], job' = job
  PROVE  ControlOK'
<1>1. job' = [job EXCEPT ![w] = job[w]] /\ job[w] \in Job
  BY BusyJob DEF ControlOK, ControlTypeOK
<1>2. QED
  BY <1>1, KeepsControl

(* The labels of a worker without a job.                                   *)
LEMMA Unlabelled == \A l \in {"down", "idle"} : \A j : l \notin Busy /\ Phase(l, j)
BY DEF Busy, Phase, SummarizeSteps, PastExpectation, PastEvent, PastVector, PastMember,
   PastCluster, PastL3, PastChoice, IngestSteps, GuardedSteps, StorySteps, TargetSteps, SharedSteps

(* A worker that is rid of its job, if it had one.                         *)
LEMMA DropsControl ==
  ASSUME ControlOK, NEW w \in Worker, NEW l \in {"down", "idle"},
         pc' = [pc EXCEPT ![w] = l], job' = [job EXCEPT ![w] = NoJob]
  PROVE  ControlOK'
<1>1. ControlTypeOK'
  BY Unlabelled DEF ControlOK, ControlTypeOK, Label
<1>2. ASSUME NEW v \in Worker PROVE Phase(pc'[v], job'[v])
  BY Unlabelled DEF ControlOK, ControlTypeOK, PhaseOK
<1>3. QED
  BY <1>1, <1>2 DEF ControlOK, PhaseOK, Phase

(* Steps outside the workers leave their control state alone.              *)
LEMMA ControlUnchanged == ASSUME ControlOK, UNCHANGED <<pc, job>> PROVE ControlOK'
BY DEF ControlOK, ControlTypeOK, PhaseOK, Phase

(* The assignments of the handlers keep a job a job.                       *)
LEMMA UpdatesJob ==
  ASSUME NEW j \in Job
  PROVE  /\ \A b \in BOOLEAN : [j EXCEPT !.run = b] \in Job /\ [j EXCEPT !.inserted = b] \in Job
         /\ \A c \in Cluster : [j EXCEPT !.cluster = c] \in Job
         /\ \A k \in EventKey : [j EXCEPT !.key = k] \in Job
BY DEF Job

(* A popped item makes a well-typed job.                                   *)
LEMMA NewJobType ==
  ASSUME NEW t \in {"ingest", "summarize"}, NEW i \in Item
  PROVE  NewJob(t, i) \in Job
BY DEF NewJob, Job

(* finish_run writes a well-typed row of runs.                             *)
LEMMA CloseType ==
  ASSUME LedgerTypeOK, NEW w \in Worker, job[w] \in Job,
         NEW s \in {"ok", "fail", "running"}, Close(w, s)
  PROVE  ended' \subseteq {"ingest", "summarize"} \X Item \X {"ok", "fail", "running"}
BY DEF LedgerTypeOK, Close, Job

(* No statement of repo.py that the pipeline executes deletes a row.       *)
DbGrows ==
  /\ sources \subseteq sources' /\ articles \subseteq articles' /\ bodies \subseteq bodies'
  /\ summaries \subseteq summaries' /\ embedded \subseteq embedded'
  /\ \A c \in Cluster : sourceCount[c] > 0 => sourceCount'[c] > 0
  /\ members \subseteq members'
  /\ \A c \in Cluster : vector[c] # NoItem => vector'[c] # NoItem
  /\ events \subseteq events'
  /\ \A e \in Event : expectations[e] > 0 => expectations'[e] > 0
  /\ audits \subseteq audits' /\ impacts \subseteq impacts'

RepoStep == RepoTypeOK' /\ DbGrows
TypeStep == TypeInv' /\ DbGrows

(* A step that touches no table.                                           *)
LEMMA DbUnchanged == ASSUME RepoTypeOK, UNCHANGED dbVars PROVE RepoStep
BY DEF RepoStep, DbGrows, RepoTypeOK, dbVars, articleTables, storyTables, eventTables

(* Every function of repo.py keeps the types of the tables.                *)
LEMMA RepoKeepsTypes ==
  ASSUME RepoTypeOK
  PROVE  /\ \A enabled \in SUBSET Source : UpsertSources(enabled) => RepoStep
         /\ \A i \in Item :
              /\ InsertArticle(i) => RepoStep
              /\ InsertArticleBody(i) => RepoStep
              /\ InsertSummary("L1", i) => RepoStep
              /\ InsertSummary("L2", i) => RepoStep
              /\ InsertArticleEmbedding(i) => RepoStep
         /\ \A c \in Cluster :
              /\ InsertSummary("L3", c) => RepoStep
              /\ InsertCluster(c) => RepoStep
              /\ PersistAssetTargetingAudit(c) => RepoStep
         /\ \A c \in Cluster, i \in Item :
              /\ AddClusterMember(c, i) => RepoStep
              /\ InsertClusterEmbedding(c, i) => RepoStep
         /\ \A c \in Cluster, k \in EventKey :
              /\ InsertEvent(c, k) => RepoStep
              /\ InsertExpectation(c, k) => RepoStep
              /\ InsertEventImpacts(c, k) => RepoStep
<1> USE DEF RepoTypeOK, RepoStep, DbGrows, ClusterRows, articleTables, storyTables, eventTables, Event
<1>1. ASSUME NEW enabled \in SUBSET Source PROVE UpsertSources(enabled) => RepoStep
  BY DEF UpsertSources
<1>2. ASSUME NEW i \in Item
      PROVE  /\ InsertArticle(i) => RepoStep
             /\ InsertArticleBody(i) => RepoStep
             /\ InsertSummary("L1", i) => RepoStep
             /\ InsertSummary("L2", i) => RepoStep
             /\ InsertArticleEmbedding(i) => RepoStep
  <2>1. InsertArticle(i) => RepoStep
    BY DEF InsertArticle
  <2>2. InsertArticleBody(i) => RepoStep
    BY DEF InsertArticleBody
  <2>3. InsertSummary("L1", i) => RepoStep
    BY DEF InsertSummary
  <2>4. InsertSummary("L2", i) => RepoStep
    BY DEF InsertSummary
  <2>5. InsertArticleEmbedding(i) => RepoStep
    BY DEF InsertArticleEmbedding
  <2>6. QED
    BY <2>1, <2>2, <2>3, <2>4, <2>5
<1>3. ASSUME NEW c \in Cluster
      PROVE  /\ InsertSummary("L3", c) => RepoStep
             /\ InsertCluster(c) => RepoStep
             /\ PersistAssetTargetingAudit(c) => RepoStep
  <2>1. InsertSummary("L3", c) => RepoStep
    BY DEF InsertSummary
  <2>2. InsertCluster(c) => RepoStep
    BY DEF InsertCluster
  <2>3. PersistAssetTargetingAudit(c) => RepoStep
    BY DEF PersistAssetTargetingAudit
  <2>4. QED
    BY <2>1, <2>2, <2>3
<1>4. ASSUME NEW c \in Cluster, NEW i \in Item
      PROVE  /\ AddClusterMember(c, i) => RepoStep
             /\ InsertClusterEmbedding(c, i) => RepoStep
  BY RepoAssumption DEF AddClusterMember, InsertClusterEmbedding
<1>5. ASSUME NEW c \in Cluster, NEW k \in EventKey
      PROVE  /\ InsertEvent(c, k) => RepoStep
             /\ InsertExpectation(c, k) => RepoStep
             /\ InsertEventImpacts(c, k) => RepoStep
  <2>1. InsertEvent(c, k) => RepoStep
    BY DEF InsertEvent
  <2>2. InsertExpectation(c, k) => RepoStep
    BY DEF InsertExpectation
  <2>3. InsertEventImpacts(c, k) => RepoStep
    BY DEF InsertEventImpacts
  <2>4. QED
    BY <2>1, <2>2, <2>3
<1>6. QED
  BY <1>1, <1>2, <1>3, <1>4, <1>5

(* A step that touches no list.                                            *)
LEMMA QueuesUnchanged == ASSUME QueueTypeOK, UNCHANGED <<registry, queues>> PROVE QueueTypeOK'
BY DEF QueueTypeOK, queues

(* A step that closes no run and counts nothing.                           *)
LEMMA LedgerUnchanged == ASSUME LedgerTypeOK, UNCHANGED <<ledger, bounds>> PROVE LedgerTypeOK'
BY DEF LedgerTypeOK, ledger, bounds

(* One statement of a handler keeps everything but the tables.             *)
LEMMA AdvanceTypes ==
  ASSUME TypeInv, NEW w \in Worker, NEW from \in Busy, NEW to \in Busy,
         Advance(w, from, to), Phase(to, job[w])
  PROVE  QueueTypeOK' /\ ControlOK' /\ LedgerTypeOK'
<1>1. QueueTypeOK' /\ LedgerTypeOK'
  BY QueuesUnchanged, LedgerUnchanged DEF TypeInv, TypeOK, Advance
<1>2. ControlOK'
  BY MovesControl DEF TypeInv, TypeOK, ControlOK, Advance, Goto
<1>3. QED
  BY <1>1, <1>2

(* So does the death of a job.                                             *)
LEMMA DieTypes ==
  ASSUME LedgerTypeOK, ControlOK, NEW w \in Worker, pc[w] \in Busy, NEW l \in {"idle", "down"},
         NEW s \in {"fail", "running"}, Die(w, l, s), pushes' = pushes
  PROVE  LedgerTypeOK' /\ ControlOK'
<1>1. job[w] \in Job
  BY BusyJob DEF ControlOK
<1>2. ended' \subseteq {"ingest", "summarize"} \X Item \X {"ok", "fail", "running"}
  BY <1>1, CloseType DEF Die
<1>3. LedgerTypeOK'
  BY <1>1, <1>2, PipelineAssumption DEF Die, LedgerTypeOK, Job
<1>4. ControlOK'
  BY DropsControl DEF Die, EndJob, Goto
<1>5. QED
  BY <1>3, <1>4

(* The label sets, expanded.                                               *)
LEMMA Labels ==
  /\ IngestSteps = {"insert_article", "insert_article_body"}
  /\ SummarizeSteps = {"insert_L1", "insert_L2", "insert_article_embedding", "choose_cluster",
             "insert_L3", "insert_cluster", "add_cluster_member", "insert_cluster_embedding",
             "insert_event", "insert_expectation", "persist_audit", "insert_event_impacts"}
  /\ Busy = IngestSteps \cup SummarizeSteps \cup {"insert_run", "finish_run", "push"}
  /\ PastExpectation = {"persist_audit", "insert_event_impacts", "finish_run", "push"}
  /\ PastEvent = {"insert_expectation"} \cup PastExpectation
  /\ PastVector = {"insert_event"} \cup PastEvent
  /\ PastMember = {"insert_cluster_embedding"} \cup PastVector
  /\ PastCluster = {"add_cluster_member"} \cup PastMember
  /\ PastL3 = {"insert_cluster"} \cup PastCluster
  /\ PastChoice = {"insert_L3"} \cup PastL3
  /\ PastEmbedding = {"choose_cluster"} \cup PastChoice
  /\ PastL2 = {"insert_article_embedding"} \cup PastEmbedding
  /\ PastL1 = {"insert_L2"} \cup PastL2
BY DEF Busy, SummarizeSteps, PastExpectation, PastEvent, PastVector, PastMember, PastCluster,
   PastL3, PastChoice, PastEmbedding, PastL2, PastL1,
   IngestSteps, GuardedSteps, StorySteps, TargetSteps, SharedSteps

(* Where a handler goes after a statement, its phase is still right.       *)
LEMMA NextPhase ==
  ASSUME NEW j \in Job, NEW from \in Busy, Phase(from, j), NEW to
  PROVE  /\ from = "insert_article_body" /\ to = "finish_run" => Phase(to, j)
         /\ <<from, to>> \in {<<"insert_L1", "insert_L2">>,
                <<"insert_L2", "insert_article_embedding">>,
                <<"insert_article_embedding", "choose_cluster">>,
                <<"insert_L3", "insert_cluster">>,
                <<"insert_cluster", "add_cluster_member">>,
                <<"add_cluster_member", "insert_cluster_embedding">>,
                <<"insert_cluster_embedding", "insert_event">>,
                <<"insert_expectation", "persist_audit">>,
                <<"insert_expectation", "finish_run">>,
                <<"persist_audit", "insert_event_impacts">>,
                <<"persist_audit", "finish_run">>,
                <<"insert_event_impacts", "finish_run">>} => Phase(to, j)
BY Labels DEF Phase, Job

(* Every step of a handler that is one statement on the job it holds.      *)
LEMMA StatementTypes ==
  ASSUME TypeInv, NEW w \in Worker
  PROVE  /\ StoreBody(w) => TypeStep
         /\ StoreL1(w) => TypeStep
         /\ StoreL2(w) => TypeStep
         /\ EmbedArticle(w) => TypeStep
         /\ StoreL3(w) => TypeStep
         /\ StoreCluster(w) => TypeStep
         /\ AddMember(w) => TypeStep
         /\ EmbedCluster(w) => TypeStep
         /\ StoreExpectation(w) => TypeStep
         /\ StoreAudit(w) => TypeStep
         /\ StoreImpacts(w) => TypeStep
         /\ SkipTargeting(w) => TypeStep
<1> USE DEF TypeInv, PhaseOK
<1>1. ASSUME pc[w] \in Busy PROVE job[w] \in Job /\ Phase(pc[w], job[w])
  BY <1>1, BusyJob DEF TypeOK
<1>2. ASSUME StoreBody(w) PROVE TypeStep
  <2>1. pc[w] \in Busy /\ job[w] \in Job /\ Phase(pc[w], job[w])
    BY <1>1, <1>2, Labels DEF StoreBody, Advance
  <2>2. QueueTypeOK' /\ ControlOK' /\ LedgerTypeOK'
    BY <1>2, <2>1, AdvanceTypes, NextPhase, Labels DEF StoreBody, Advance
  <2>3. RepoStep
    BY <1>2, <2>1, RepoKeepsTypes, DbUnchanged, Labels DEF TypeOK, StoreBody, Advance, Phase, Job
  <2>4. QED
    BY <2>2, <2>3 DEF TypeStep, RepoStep, TypeOK, ControlOK
<1>3. ASSUME StoreL1(w) PROVE TypeStep
  <2>1. pc[w] \in Busy /\ job[w] \in Job /\ Phase(pc[w], job[w])
    BY <1>1, <1>3, Labels DEF StoreL1, Advance
  <2>2. QueueTypeOK' /\ ControlOK' /\ LedgerTypeOK'
    BY <1>3, <2>1, AdvanceTypes, NextPhase, Labels DEF StoreL1, Advance
  <2>3. RepoStep
    BY <1>3, <2>1, RepoKeepsTypes, DbUnchanged, Labels DEF TypeOK, StoreL1, Advance, Phase, Job
  <2>4. QED
    BY <2>2, <2>3 DEF TypeStep, RepoStep, TypeOK, ControlOK
<1>4. ASSUME StoreL2(w) PROVE TypeStep
  <2>1. pc[w] \in Busy /\ job[w] \in Job /\ Phase(pc[w], job[w])
    BY <1>1, <1>4, Labels DEF StoreL2, Advance
  <2>2. QueueTypeOK' /\ ControlOK' /\ LedgerTypeOK'
    BY <1>4, <2>1, AdvanceTypes, NextPhase, Labels DEF StoreL2, Advance
  <2>3. RepoStep
    BY <1>4, <2>1, RepoKeepsTypes, DbUnchanged, Labels DEF TypeOK, StoreL2, Advance, Phase, Job
  <2>4. QED
    BY <2>2, <2>3 DEF TypeStep, RepoStep, TypeOK, ControlOK
<1>5. ASSUME EmbedArticle(w) PROVE TypeStep
  <2>1. pc[w] \in Busy /\ job[w] \in Job /\ Phase(pc[w], job[w])
    BY <1>1, <1>5, Labels DEF EmbedArticle, Advance
  <2>2. QueueTypeOK' /\ ControlOK' /\ LedgerTypeOK'
    BY <1>5, <2>1, AdvanceTypes, NextPhase, Labels DEF EmbedArticle, Advance
  <2>3. RepoStep
    BY <1>5, <2>1, RepoKeepsTypes, DbUnchanged, Labels DEF TypeOK, EmbedArticle, Advance, Phase, Job
  <2>4. QED
    BY <2>2, <2>3 DEF TypeStep, RepoStep, TypeOK, ControlOK
<1>6. ASSUME StoreL3(w) PROVE TypeStep
  <2>1. pc[w] \in Busy /\ job[w] \in Job /\ Phase(pc[w], job[w])
    BY <1>1, <1>6, Labels DEF StoreL3, Advance
  <2>2. QueueTypeOK' /\ ControlOK' /\ LedgerTypeOK'
    BY <1>6, <2>1, AdvanceTypes, NextPhase, Labels DEF StoreL3, Advance
  <2>3. RepoStep
    BY <1>6, <2>1, RepoKeepsTypes, DbUnchanged, Labels DEF TypeOK, StoreL3, Advance, Phase, Job
  <2>4. QED
    BY <2>2, <2>3 DEF TypeStep, RepoStep, TypeOK, ControlOK
<1>7. ASSUME StoreCluster(w) PROVE TypeStep
  <2>1. pc[w] \in Busy /\ job[w] \in Job /\ Phase(pc[w], job[w])
    BY <1>1, <1>7, Labels DEF StoreCluster, Advance
  <2>2. QueueTypeOK' /\ ControlOK' /\ LedgerTypeOK'
    BY <1>7, <2>1, AdvanceTypes, NextPhase, Labels DEF StoreCluster, Advance
  <2>3. RepoStep
    BY <1>7, <2>1, RepoKeepsTypes, DbUnchanged, Labels DEF TypeOK, StoreCluster, Advance, Phase, Job
  <2>4. QED
    BY <2>2, <2>3 DEF TypeStep, RepoStep, TypeOK, ControlOK
<1>8. ASSUME AddMember(w) PROVE TypeStep
  <2>1. pc[w] \in Busy /\ job[w] \in Job /\ Phase(pc[w], job[w])
    BY <1>1, <1>8, Labels DEF AddMember, Advance
  <2>2. QueueTypeOK' /\ ControlOK' /\ LedgerTypeOK'
    BY <1>8, <2>1, AdvanceTypes, NextPhase, Labels DEF AddMember, Advance
  <2>3. RepoStep
    BY <1>8, <2>1, RepoKeepsTypes, DbUnchanged, Labels DEF TypeOK, AddMember, Advance, Phase, Job
  <2>4. QED
    BY <2>2, <2>3 DEF TypeStep, RepoStep, TypeOK, ControlOK
<1>9. ASSUME EmbedCluster(w) PROVE TypeStep
  <2>1. pc[w] \in Busy /\ job[w] \in Job /\ Phase(pc[w], job[w])
    BY <1>1, <1>9, Labels DEF EmbedCluster, Advance
  <2>2. QueueTypeOK' /\ ControlOK' /\ LedgerTypeOK'
    BY <1>9, <2>1, AdvanceTypes, NextPhase, Labels DEF EmbedCluster, Advance
  <2>3. RepoStep
    BY <1>9, <2>1, RepoKeepsTypes, DbUnchanged, Labels DEF TypeOK, EmbedCluster, Advance, Phase, Job
  <2>4. QED
    BY <2>2, <2>3 DEF TypeStep, RepoStep, TypeOK, ControlOK
<1>10. ASSUME StoreExpectation(w) PROVE TypeStep
  <2>1. pc[w] \in Busy /\ job[w] \in Job /\ Phase(pc[w], job[w])
    BY <1>1, <1>10, Labels DEF StoreExpectation, Advance
  <2>2. QueueTypeOK' /\ ControlOK' /\ LedgerTypeOK'
    BY <1>10, <2>1, AdvanceTypes, NextPhase, Labels DEF StoreExpectation, Advance
  <2>3. RepoStep
    BY <1>10, <2>1, RepoKeepsTypes, DbUnchanged, Labels DEF TypeOK, StoreExpectation, Advance, Phase, Job
  <2>4. QED
    BY <2>2, <2>3 DEF TypeStep, RepoStep, TypeOK, ControlOK
<1>11. ASSUME StoreAudit(w) PROVE TypeStep
  <2>1. pc[w] \in Busy /\ job[w] \in Job /\ Phase(pc[w], job[w])
    BY <1>1, <1>11, Labels DEF StoreAudit, Advance
  <2>2. QueueTypeOK' /\ ControlOK' /\ LedgerTypeOK'
    BY <1>11, <2>1, AdvanceTypes, NextPhase, Labels DEF StoreAudit, Advance
  <2>3. RepoStep
    BY <1>11, <2>1, RepoKeepsTypes, DbUnchanged, Labels DEF TypeOK, StoreAudit, Advance, Phase, Job
  <2>4. QED
    BY <2>2, <2>3 DEF TypeStep, RepoStep, TypeOK, ControlOK
<1>12. ASSUME StoreImpacts(w) PROVE TypeStep
  <2>1. pc[w] \in Busy /\ job[w] \in Job /\ Phase(pc[w], job[w])
    BY <1>1, <1>12, Labels DEF StoreImpacts, Advance
  <2>2. QueueTypeOK' /\ ControlOK' /\ LedgerTypeOK'
    BY <1>12, <2>1, AdvanceTypes, NextPhase, Labels DEF StoreImpacts, Advance
  <2>3. RepoStep
    BY <1>12, <2>1, RepoKeepsTypes, DbUnchanged, Labels DEF TypeOK, StoreImpacts, Advance, Phase, Job
  <2>4. QED
    BY <2>2, <2>3 DEF TypeStep, RepoStep, TypeOK, ControlOK
<1>13. ASSUME SkipTargeting(w) PROVE TypeStep
  <2>1. pc[w] \in Busy /\ job[w] \in Job /\ Phase(pc[w], job[w])
    BY <1>1, <1>13, Labels DEF SkipTargeting, Advance
  <2>2. QueueTypeOK' /\ ControlOK' /\ LedgerTypeOK'
    BY <1>13, <2>1, AdvanceTypes, NextPhase, Labels DEF SkipTargeting, Advance
  <2>3. RepoStep
    BY <1>13, <2>1, RepoKeepsTypes, DbUnchanged, Labels DEF TypeOK, SkipTargeting, Advance, Phase, Job
  <2>4. QED
    BY <2>2, <2>3 DEF TypeStep, RepoStep, TypeOK, ControlOK
<1>14. QED
  BY <1>2, <1>3, <1>4, <1>5, <1>6, <1>7, <1>8, <1>9, <1>10, <1>11, <1>12, <1>13

(* The steps that take a job, choose for it, or end it.                    *)
LEMMA JobTypes ==
  ASSUME TypeInv, NEW w \in Worker
  PROVE  /\ Start(w) \/ AbortStart(w) => TypeStep
         /\ TakeIngest(w) => TypeStep
         /\ TakeSummarize(w) => TypeStep
         /\ TakeIndex(w) => TypeStep
         /\ InsertRun(w) => TypeStep
         /\ FinishRun(w) => TypeStep
         /\ Push(w) => TypeStep
         /\ Raise(w) => TypeStep
         /\ Crash(w) => TypeStep
         /\ StoreArticle(w) => TypeStep
         /\ RejectArticle(w) => TypeStep
         /\ ChooseCluster(w) => TypeStep
         /\ RejectVectors(w) => TypeStep
         /\ StoreEvent(w) => TypeStep
<1>0. /\ RepoTypeOK /\ QueueTypeOK /\ ControlOK /\ LedgerTypeOK
      /\ pc[w] \in Busy => job[w] \in Job /\ Phase(pc[w], job[w])
      /\ pc \in [Worker -> Label] /\ job \in [Worker -> Job \cup {NoJob}]
  BY BusyJob DEF TypeInv, TypeOK, ControlOK, PhaseOK, ControlTypeOK
<1>a. RepoStep /\ QueueTypeOK' /\ ControlOK' /\ LedgerTypeOK' => TypeStep
  BY DEF TypeStep, RepoStep, TypeInv, TypeOK, ControlOK
<1>1. ASSUME Start(w) PROVE TypeStep
  <2>1. RepoStep
    BY <1>0, <1>1, RepoKeepsTypes DEF Start, QueueTypeOK
  <2>2. job' = [job EXCEPT ![w] = NoJob]
    BY <1>0, <1>1, Labels DEF Start, ControlOK, ControlTypeOK
  <2>3. ControlOK'
    BY <1>0, <1>1, <2>2, DropsControl DEF Start, Goto
  <2>4. QED
    BY <1>0, <1>a, <1>1, <2>1, <2>3, QueuesUnchanged, LedgerUnchanged DEF Start
<1>b. ASSUME AbortStart(w) PROVE TypeStep
  <2>1. RepoStep
    BY <1>0, <1>b, RepoKeepsTypes DEF AbortStart, QueueTypeOK
  <2>2. LedgerTypeOK'
    BY <1>0, <1>b, PipelineAssumption DEF AbortStart, LedgerTypeOK, ledger
  <2>3. QED
    BY <1>0, <1>a, <1>b, <2>1, <2>2, QueuesUnchanged, ControlUnchanged DEF AbortStart
<1>2. ASSUME NEW t \in {"ingest", "summarize"}, NEW i \in Item, Hold(w, t, i), QueueTypeOK'
      PROVE  TypeStep
  <2>1. NewJob(t, i) \in Job /\ "insert_run" \in Busy /\ Phase("insert_run", NewJob(t, i))
    BY NewJobType, Labels DEF Phase
  <2>2. ControlOK'
    BY <1>0, <1>2, <2>1, KeepsControl DEF Hold, Goto
  <2>3. QED
    BY <1>0, <1>a, <1>2, <2>2, DbUnchanged, LedgerUnchanged DEF Hold
<1>3. ASSUME TakeIngest(w) PROVE TypeStep
  <2>1. Head(ingestQueue) \in Item /\ QueueTypeOK'
    BY <1>0, <1>3, SeqTypes DEF TakeIngest, Hold, QueueTypeOK
  <2>2. QED
    BY <1>2, <1>3, <2>1 DEF TakeIngest
<1>4. ASSUME TakeSummarize(w) PROVE TypeStep
  <2>1. Head(summarizeQueue) \in Item /\ QueueTypeOK'
    BY <1>0, <1>4, SeqTypes DEF TakeSummarize, Hold, QueueTypeOK
  <2>2. QED
    BY <1>2, <1>4, <2>1 DEF TakeSummarize
<1>5. ASSUME TakeIndex(w) PROVE TypeStep
  <2>1. QueueTypeOK'
    BY <1>0, <1>5, SeqTypes DEF TakeIndex, QueueTypeOK
  <2>2. QED
    BY <1>0, <1>a, <1>5, <2>1, DbUnchanged, ControlUnchanged, LedgerUnchanged DEF TakeIndex
<1>6. ASSUME InsertRun(w) PROVE TypeStep
  <2> DEFINE l == IF job[w].type = "ingest" THEN "insert_article" ELSE "insert_L1"
  <2>1. l \in Busy /\ Phase(l, job[w]) /\ Phase(l, [job[w] EXCEPT !.run = TRUE])
    BY <1>0, <1>6, Labels DEF InsertRun, Phase, Job
  <2>2. ControlOK'
    <3>1. CASE job' = [job EXCEPT ![w].run = TRUE]
      <4>1. job' = [job EXCEPT ![w] = [job[w] EXCEPT !.run = TRUE]]
        BY <3>1
      <4>2. QED
        BY <1>0, <1>6, <2>1, <4>1, KeepsControl, UpdatesJob, Labels DEF InsertRun, Goto
    <3>2. CASE UNCHANGED job
      BY <1>0, <1>6, <2>1, <3>2, MovesControl, Labels DEF InsertRun, Goto
    <3>3. QED
      BY <1>6, <3>1, <3>2 DEF InsertRun
  <2>3. LedgerTypeOK'
    BY <1>0, <1>6, PipelineAssumption DEF InsertRun, LedgerTypeOK, ledger
  <2>4. QED
    BY <1>0, <1>a, <1>6, <2>2, <2>3, DbUnchanged, QueuesUnchanged DEF InsertRun
<1>7. ASSUME FinishRun(w) PROVE TypeStep
  <2>1. pc[w] \in Busy /\ pc[w] = "finish_run"
    BY <1>7, Labels DEF FinishRun
  <2>2. LedgerTypeOK'
    <3>1. ended' \subseteq {"ingest", "summarize"} \X Item \X {"ok", "fail", "running"}
      BY <1>0, <1>7, <2>1, CloseType DEF FinishRun
    <3>2. QED
      BY <1>0, <1>7, <3>1 DEF FinishRun, LedgerTypeOK, bounds
  <2>3. ControlOK'
    <3>1. CASE EndJob(w, "idle")
      BY <1>0, <3>1, DropsControl DEF EndJob, Goto
    <3>2. CASE Goto(w, "push") /\ job' = [job EXCEPT ![w].run = FALSE]
      <4>1. job' = [job EXCEPT ![w] = [job[w] EXCEPT !.run = FALSE]]
        BY <3>2
      <4>2. "push" \in Busy /\ Phase("push", [job[w] EXCEPT !.run = FALSE])
        BY <1>0, <2>1, Labels DEF Phase, Job
      <4>3. QED
        BY <1>0, <2>1, <3>2, <4>1, <4>2, KeepsControl, UpdatesJob DEF Goto
    <3>3. QED
      BY <1>7, <3>1, <3>2 DEF FinishRun
  <2>4. QED
    BY <1>0, <1>a, <1>7, <2>2, <2>3, DbUnchanged, QueuesUnchanged DEF FinishRun
<1>8. ASSUME Push(w) PROVE TypeStep
  <2>1. pc[w] \in Busy /\ pc[w] = "push"
    BY <1>8, Labels DEF Push
  <2>2. /\ job[w].item \in Item
        /\ job[w].type = "summarize" => job[w].cluster \in Cluster
    BY <1>0, <2>1, Labels DEF Phase, Job
  <2>3. QueueTypeOK'
    <3>1. CASE job[w].type = "ingest"
      <4>1. Append(summarizeQueue, job[w].item) \in Seq(Item)
        BY <1>0, <2>2, AppendProperties DEF QueueTypeOK
      <4>2. QED
        BY <1>0, <1>8, <3>1, <4>1 DEF Push, QueueTypeOK
    <3>2. CASE job[w].type = "summarize"
      <4>1. Append(indexQueue, job[w].cluster) \in Seq(Cluster)
        BY <1>0, <2>2, <3>2, AppendProperties DEF QueueTypeOK
      <4>2. QED
        BY <1>0, <1>8, <3>2, <4>1 DEF Push, QueueTypeOK
    <3>3. QED
      BY <1>8, <3>1, <3>2 DEF Push
  <2>4. ControlOK'
    BY <1>0, <1>8, DropsControl DEF Push, EndJob, Goto
  <2>5. QED
    BY <1>0, <1>a, <1>8, <2>3, <2>4, DbUnchanged, LedgerUnchanged DEF Push
<1>9. ASSUME Raise(w) PROVE TypeStep
  <2>1. pc[w] \in Busy
    BY <1>9 DEF Raise
  <2>2. LedgerTypeOK' /\ ControlOK'
    BY <1>0, <1>9, <2>1, DieTypes DEF Raise
  <2>3. QED
    BY <1>0, <1>a, <1>9, <2>2, DbUnchanged, QueuesUnchanged DEF Raise
<1>10. ASSUME Crash(w) PROVE TypeStep
  <2>1. CASE pc[w] \in Busy /\ Die(w, "down", "running")
    <3>1. LedgerTypeOK' /\ ControlOK'
      BY <1>0, <1>10, <2>1, DieTypes DEF Crash
    <3>2. QED
      BY <1>0, <1>a, <1>10, <3>1, DbUnchanged, QueuesUnchanged DEF Crash
  <2>2. CASE pc[w] = "idle" /\ faults < MaxFault /\ faults' = faults + 1 /\ Goto(w, "down")
             /\ UNCHANGED <<job, ledger>>
    <3>1. job' = [job EXCEPT ![w] = NoJob]
      BY <1>0, <2>2, Labels DEF ControlOK, ControlTypeOK
    <3>2. ControlOK'
      BY <1>0, <2>2, <3>1, DropsControl DEF Goto
    <3>3. LedgerTypeOK'
      BY <1>0, <1>10, <2>2, PipelineAssumption DEF Crash, LedgerTypeOK, ledger
    <3>4. QED
      BY <1>0, <1>a, <1>10, <3>2, <3>3, DbUnchanged, QueuesUnchanged DEF Crash
  <2>3. QED
    BY <1>10, <2>1, <2>2 DEF Crash
<1>11. ASSUME StoreArticle(w) PROVE TypeStep
  <2> DEFINE i == job[w].item
             j == [job[w] EXCEPT !.inserted = ReturnsArticleId(i)]
             l == IF ReturnsArticleId(i) THEN "insert_article_body" ELSE "finish_run"
  <2>1. pc[w] \in Busy /\ pc[w] = "insert_article" /\ i \in Item
    BY <1>0, <1>11, Labels DEF StoreArticle, Job
  <2>2. ReturnsArticleId(i) \in BOOLEAN
    BY DEF ReturnsArticleId, SameArticleId, UrlTaken
  <2>3. j \in Job /\ j.type = "ingest"
    BY <1>0, <2>1, <2>2, UpdatesJob, Labels DEF Phase, Job
  <2>4. l \in Busy /\ Phase(l, j)
    BY <2>3, Labels DEF Phase
  <2>5. job' = [job EXCEPT ![w] = j] /\ pc' = [pc EXCEPT ![w] = l]
    BY <1>11 DEF StoreArticle, Goto
  <2>6. ControlOK'
    BY <1>0, <2>3, <2>4, <2>5, KeepsControl
  <2>7. RepoStep
    BY <1>0, <1>11, <2>1, RepoKeepsTypes DEF StoreArticle
  <2>8. QED
    BY <1>0, <1>a, <1>11, <2>6, <2>7, QueuesUnchanged, LedgerUnchanged DEF StoreArticle
<1>12. ASSUME RejectArticle(w) PROVE TypeStep
  <2>1. pc[w] \in Busy
    BY <1>12, Labels DEF RejectArticle
  <2>2. LedgerTypeOK'
    <3>1. ended' \subseteq {"ingest", "summarize"} \X Item \X {"ok", "fail", "running"}
      BY <1>0, <1>12, <2>1, CloseType DEF RejectArticle
    <3>2. QED
      BY <1>0, <1>12, <2>1, <3>1 DEF RejectArticle, LedgerTypeOK, bounds, Job
  <2>3. ControlOK'
    BY <1>0, <1>12, DropsControl DEF RejectArticle, EndJob, Goto
  <2>4. QED
    BY <1>0, <1>a, <1>12, <2>2, <2>3, DbUnchanged, QueuesUnchanged DEF RejectArticle
<1>c. ASSUME RejectVectors(w) PROVE TypeStep
  <2>1. pc[w] \in Busy
    BY <1>c, Labels DEF RejectVectors
  <2>2. LedgerTypeOK'
    <3>1. ended' \subseteq {"ingest", "summarize"} \X Item \X {"ok", "fail", "running"}
      BY <1>0, <1>c, <2>1, CloseType DEF RejectVectors
    <3>2. QED
      BY <1>0, <1>c, <2>1, <3>1 DEF RejectVectors, LedgerTypeOK, bounds, Job
  <2>3. ControlOK'
    BY <1>0, <1>c, DropsControl DEF RejectVectors, EndJob, Goto
  <2>4. QED
    BY <1>0, <1>a, <1>c, <2>2, <2>3, DbUnchanged, QueuesUnchanged DEF RejectVectors
<1>13. ASSUME ChooseCluster(w) PROVE TypeStep
  <2>1. pc[w] \in Busy /\ pc[w] = "choose_cluster"
    BY <1>13, Labels DEF ChooseCluster
  <2>2. PICK c \in Cluster : job' = [job EXCEPT ![w].cluster = c]
    BY <1>13 DEF ChooseCluster, Lookups, SearchableClusters, ClusterRows, NearClusters, FreshClusters
  <2>3. job' = [job EXCEPT ![w] = [job[w] EXCEPT !.cluster = c]]
    BY <2>2
  <2>4. /\ [job[w] EXCEPT !.cluster = c] \in Job
        /\ "insert_L3" \in Busy /\ Phase("insert_L3", [job[w] EXCEPT !.cluster = c])
    BY <1>0, <2>1, UpdatesJob, Labels DEF Phase, Job
  <2>5. ControlOK'
    BY <1>0, <1>13, <2>3, <2>4, KeepsControl DEF ChooseCluster, Goto
  <2>6. QED
    BY <1>0, <1>a, <1>13, <2>5, DbUnchanged, QueuesUnchanged, LedgerUnchanged DEF ChooseCluster
<1>14. ASSUME StoreEvent(w) PROVE TypeStep
  <2>1. pc[w] \in Busy /\ pc[w] = "insert_event"
    BY <1>14, Labels DEF StoreEvent
  <2>2. PICK k \in EventKey : InsertEvent(job[w].cluster, k) /\ job' = [job EXCEPT ![w].key = k]
    BY <1>14 DEF StoreEvent
  <2>3. job' = [job EXCEPT ![w] = [job[w] EXCEPT !.key = k]] /\ job[w].cluster \in Cluster
    BY <1>0, <2>1, <2>2, Labels DEF Phase
  <2>4. /\ [job[w] EXCEPT !.key = k] \in Job
        /\ "insert_expectation" \in Busy /\ Phase("insert_expectation", [job[w] EXCEPT !.key = k])
    BY <1>0, <2>1, UpdatesJob, Labels DEF Phase, Job
  <2>5. ControlOK'
    BY <1>0, <1>14, <2>3, <2>4, KeepsControl DEF StoreEvent, Goto
  <2>6. RepoStep
    BY <1>0, <2>2, <2>3, RepoKeepsTypes
  <2>7. QED
    BY <1>0, <1>a, <1>14, <2>5, <2>6, QueuesUnchanged, LedgerUnchanged DEF StoreEvent
<1>15. QED
  BY <1>1, <1>b, <1>3, <1>4, <1>5, <1>6, <1>7, <1>8, <1>9, <1>10, <1>11, <1>12, <1>c, <1>13, <1>14

(* The type invariant is inductive.                                        *)
LEMMA TypeNext == ASSUME TypeInv, [Next]_vars PROVE TypeStep
<1>0. RepoTypeOK /\ QueueTypeOK /\ ControlOK /\ LedgerTypeOK
  BY DEF TypeInv, TypeOK, ControlOK
<1>a. RepoStep /\ QueueTypeOK' /\ ControlOK' /\ LedgerTypeOK' => TypeStep
  BY DEF TypeStep, RepoStep, TypeInv, TypeOK, ControlOK
<1>1. ASSUME NEW s \in Source, EnableSource(s) PROVE TypeStep
  <2>1. QueueTypeOK'
    BY <1>0, <1>1 DEF EnableSource, QueueTypeOK, queues
  <2>2. QED
    BY <1>0, <1>a, <1>1, <2>1, DbUnchanged, ControlUnchanged, LedgerUnchanged DEF EnableSource
<1>2. ASSUME NEW i \in Item, Poll(i) PROVE TypeStep
  <2>1. QueueTypeOK' /\ LedgerTypeOK'
    BY <1>0, <1>2, PipelineAssumption, SeqTypes DEF Poll, QueueTypeOK, LedgerTypeOK, ledger
  <2>2. QED
    BY <1>0, <1>a, <1>2, <2>1, DbUnchanged, ControlUnchanged DEF Poll
<1>3. ASSUME NEW w \in Worker, Start(w) \/ AbortStart(w) \/ Work(w) \/ Raise(w) \/ Crash(w) PROVE TypeStep
  BY <1>3, StatementTypes, JobTypes DEF Work, Ingest, Summarize
<1>4. CASE UNCHANGED vars
  BY <1>0, <1>a, <1>4, DbUnchanged, QueuesUnchanged, ControlUnchanged, LedgerUnchanged DEF vars
<1>5. QED
  BY <1>1, <1>2, <1>3, <1>4 DEF Next

(* Every state of the pipeline is well typed: whatever the interleaving of *)
(* the workers, a story is chosen before it is written, an event before    *)
(* its expectation, and a worker holds a job exactly while it is busy.     *)
THEOREM TypeCorrect == Spec => []TypeOK
<1>1. Init => TypeInv
  BY TypeInit, Unlabelled DEF Init, TypeInv, PhaseOK
<1>2. TypeInv /\ [Next]_vars => TypeInv'
  BY TypeNext DEF TypeStep
<1>3. TypeInv => TypeOK
  BY DEF TypeInv
<1>4. QED
  BY <1>1, <1>2, <1>3, PTL DEF Spec

-----------------------------------------------------------------------------
(***************************************************************************)
(* The causal order of the tables.  The properties of the tables are not   *)
(* inductive: a member row is complete because the worker that writes it   *)
(* has passed the steps that write the rest.  So the invariant adds to     *)
(* them what the position of every worker says of the database.            *)
(***************************************************************************)
IngestFacts(w) ==
  /\ pc[w] \in {"insert_run", "insert_article"} => ~job[w].inserted
  /\ pc[w] = "insert_article_body" => job[w].item \in articles
  /\ pc[w] = "finish_run" => UrlTaken(job[w].item)
  /\ pc[w] = "push" \/ (pc[w] = "finish_run" /\ job[w].inserted)
       => job[w].item \in articles \cap bodies

SummarizeFacts(w) ==
  /\ job[w].item \in articles \cap bodies
  /\ pc[w] \in PastL1 => <<"L1", job[w].item>> \in summaries
  /\ pc[w] \in PastL2 => <<"L2", job[w].item>> \in summaries
  /\ pc[w] \in PastEmbedding => job[w].item \in embedded
  /\ pc[w] \in PastL3 => <<"L3", job[w].cluster>> \in summaries
  /\ pc[w] \in PastCluster => sourceCount[job[w].cluster] > 0
  /\ pc[w] \in PastMember => <<job[w].cluster, job[w].item>> \in members
  /\ pc[w] \in PastVector => vector[job[w].cluster] # NoItem
  /\ pc[w] \in PastEvent => <<job[w].cluster, job[w].key>> \in events
  /\ pc[w] \in PastExpectation => expectations[<<job[w].cluster, job[w].key>>] > 0

JobFacts(w) ==
  /\ Holds(w, "ingest") => IngestFacts(w)
  /\ Holds(w, "summarize") => SummarizeFacts(w)

QueuedArePersisted == ToSet(summarizeQueue) \subseteq articles \cap bodies

Tables ==
  /\ QueuedArePersisted /\ MembersAreComplete /\ VectorsAreOfMembers
  /\ EventsAreOfSearchableStories /\ IndexJobsFollowExpectations
  /\ OkRunsAreComplete

JobsOK == \A w \in Worker : JobFacts(w)
Causality == JobsOK /\ Tables

(* Growing tables keep what is known of a worker that does not move.       *)
LEMMA JobKept ==
  ASSUME TypeInv, DbGrows, NEW w \in Worker, JobFacts(w), pc'[w] = pc[w], job'[w] = job[w]
  PROVE  JobFacts(w)'
<1>1. CASE Holds(w, "ingest")
  <2>1. job[w].type = "ingest" /\ pc[w] \in Busy
    BY <1>1 DEF Holds
  <2>2. IngestFacts(w)'
    BY <1>1 DEF JobFacts, IngestFacts, UrlTaken, DbGrows
  <2>3. QED
    BY <2>1, <2>2 DEF JobFacts, Holds
<1>2. CASE Holds(w, "summarize")
  <2>1. job[w].type = "summarize" /\ pc[w] \in Busy /\ job[w] \in Job /\ Phase(pc[w], job[w])
    BY <1>2, BusyJob DEF Holds, TypeInv, TypeOK, PhaseOK
  <2>2. /\ pc[w] \in PastChoice => job[w].cluster \in Cluster
        /\ pc[w] \in PastEvent => <<job[w].cluster, job[w].key>> \in Event
    BY <2>1, Labels DEF Phase, Event
  <2>3. SummarizeFacts(w)'
    BY <1>2, <2>2, Labels DEF JobFacts, SummarizeFacts, DbGrows
  <2>4. QED
    BY <2>1, <2>3 DEF JobFacts, Holds
<1>3. CASE ~Holds(w, "ingest") /\ ~Holds(w, "summarize")
  BY <1>3 DEF JobFacts, Holds
<1>4. QED
  BY <1>1, <1>2, <1>3

(* So only the worker that moves needs a look.                             *)
LEMMA JobsKept ==
  ASSUME TypeInv, DbGrows, JobsOK, NEW w \in Worker, JobFacts(w)',
         NEW l, NEW j, pc' = [pc EXCEPT ![w] = l], job' = [job EXCEPT ![w] = j]
  PROVE  JobsOK'
<1>1. ASSUME NEW v \in Worker, v # w PROVE pc'[v] = pc[v] /\ job'[v] = job[v]
  BY <1>1 DEF TypeInv, TypeOK, ControlTypeOK
<1>2. ASSUME NEW v \in Worker PROVE JobFacts(v)'
  BY <1>1, JobKept DEF JobsOK
<1>3. QED
  BY <1>2 DEF JobsOK

(* A property of the tables survives every step that adds no row to the    *)
(* table it speaks of.                                                     *)
LEMMA TablesKept ==
  ASSUME TypeInv, DbGrows, Tables
  PROVE  /\ ToSet(summarizeQueue)' \subseteq ToSet(summarizeQueue) => QueuedArePersisted'
         /\ members' = members => MembersAreComplete'
         /\ vector' = vector => VectorsAreOfMembers'
         /\ events' = events => EventsAreOfSearchableStories'
         /\ ToSet(indexQueue)' \subseteq ToSet(indexQueue) => IndexJobsFollowExpectations'
         /\ (\A r \in ended' : r \in ended \/ r[3] # "ok") => OkRunsAreComplete'
<1>1. /\ ToSet(summarizeQueue)' \subseteq ToSet(summarizeQueue) => QueuedArePersisted'
      /\ members' = members => MembersAreComplete'
  BY DEF Tables, DbGrows, QueuedArePersisted, MembersAreComplete
<1>2. vector' = vector => VectorsAreOfMembers'
  BY DEF Tables, DbGrows, VectorsAreOfMembers
<1>3. events' = events => EventsAreOfSearchableStories'
  BY DEF Tables, DbGrows, EventsAreOfSearchableStories, SearchableClusters, ClusterRows
<1>4. ToSet(indexQueue)' \subseteq ToSet(indexQueue) => IndexJobsFollowExpectations'
  <2>1. ASSUME ToSet(indexQueue)' \subseteq ToSet(indexQueue), NEW c \in ToSet(indexQueue)'
        PROVE  \E k \in EventKey : <<c, k>> \in events' /\ expectations'[<<c, k>>] > 0
    <3>1. PICK k \in EventKey : <<c, k>> \in events /\ expectations[<<c, k>>] > 0
      BY <2>1 DEF Tables, IndexJobsFollowExpectations
    <3>2. QED
      BY <3>1 DEF DbGrows, TypeInv, TypeOK, RepoTypeOK
  <2>2. QED
    BY <2>1 DEF IndexJobsFollowExpectations
<1>5. (\A r \in ended' : r \in ended \/ r[3] # "ok") => OkRunsAreComplete'
  <2>1. ASSUME NEW i \in Item, <<"ingest", i, "ok">> \in ended PROVE UrlTaken(i)'
    BY <2>1 DEF Tables, OkRunsAreComplete, UrlTaken, DbGrows
  <2>2. ASSUME NEW i \in Item, <<"summarize", i, "ok">> \in ended
        PROVE  \E m \in members', k \in EventKey :
                 m[2] = i /\ <<m[1], k>> \in events' /\ expectations'[<<m[1], k>>] > 0
    <3>1. PICK m \in members, k \in EventKey :
            m[2] = i /\ <<m[1], k>> \in events /\ expectations[<<m[1], k>>] > 0
      BY <2>2 DEF Tables, OkRunsAreComplete
    <3>2. QED
      BY <3>1 DEF DbGrows, TypeInv, TypeOK, RepoTypeOK
  <2>3. ASSUME NEW t, NEW i PROVE <<t, i, "ok">>[3] = "ok"
    OBVIOUS
  <2>4. QED
    BY <2>1, <2>2, <2>3 DEF OkRunsAreComplete
<1>6. QED
  BY <1>1, <1>2, <1>3, <1>4, <1>5

(* A statement of a handler disturbs the facts of its own worker only.     *)
LEMMA AdvanceJobs ==
  ASSUME TypeInv, DbGrows, JobsOK, NEW w \in Worker, NEW from, NEW to,
         Advance(w, from, to), JobFacts(w)'
  PROVE  JobsOK'
<1>1. job' = [job EXCEPT ![w] = job[w]]
  BY DEF Advance, TypeInv, TypeOK, ControlTypeOK
<1>2. QED
  BY <1>1, JobsKept DEF Advance, Goto

(* What is known of the job of a worker at a step of process_summarize.    *)
LEMMA SummarizeJob ==
  ASSUME TypeInv, JobsOK, NEW w \in Worker, pc[w] \in SummarizeSteps
  PROVE  /\ job[w] \in Job /\ job[w].type = "summarize" /\ pc[w] \in Busy /\ SummarizeFacts(w)
         /\ job[w].item \in Item
         /\ pc[w] \in PastChoice => job[w].cluster \in Cluster
         /\ pc[w] \in PastEvent => job[w].key \in EventKey
<1>1. pc[w] \in Busy /\ job[w] \in Job /\ Phase(pc[w], job[w])
  BY BusyJob, Labels DEF TypeInv, TypeOK, PhaseOK
<1>2. job[w].type = "summarize"
  BY <1>1 DEF Phase
<1>3. SummarizeFacts(w)
  BY <1>1, <1>2 DEF JobsOK, JobFacts, Holds
<1>4. QED
  BY <1>1, <1>2, <1>3 DEF Phase, Job

(* The statements of process_summarize establish what comes after them.    *)
LEMMA SummarizeKeeps ==
  ASSUME TypeInv, DbGrows, Causality, NEW w \in Worker
  PROVE  /\ StoreL1(w) => Causality'
         /\ StoreL2(w) => Causality'
         /\ EmbedArticle(w) => Causality'
         /\ StoreL3(w) => Causality'
         /\ StoreCluster(w) => Causality'
         /\ AddMember(w) => Causality'
         /\ EmbedCluster(w) => Causality'
         /\ StoreExpectation(w) => Causality'
         /\ StoreAudit(w) => Causality'
         /\ StoreImpacts(w) => Causality'
         /\ SkipTargeting(w) => Causality'
<1>1. ASSUME StoreL1(w) PROVE Causality'
  <2>1. pc[w] \in SummarizeSteps
    BY <1>1, Labels DEF StoreL1, Advance
  <2>2. /\ job[w] \in Job /\ job[w].type = "summarize" /\ pc[w] \in Busy /\ SummarizeFacts(w)
        /\ job[w].item \in Item
        /\ pc[w] \in PastChoice => job[w].cluster \in Cluster
        /\ pc[w] \in PastEvent => job[w].key \in EventKey
    BY <2>1, SummarizeJob DEF Causality
  <2>3. /\ pc \in [Worker -> Label] /\ RepoTypeOK
    BY DEF TypeInv, TypeOK, ControlTypeOK
  <2>4. SummarizeFacts(w)'
    BY <1>1, <2>2, <2>3, Labels DEF StoreL1, Advance, Goto, InsertSummary, SummarizeFacts, DbGrows, RepoTypeOK, Event,
       articleTables, storyTables, eventTables
  <2>5. JobsOK'
    BY <1>1, <2>2, <2>4, AdvanceJobs DEF StoreL1, Advance, Causality, JobFacts, Holds
  <2>6. Tables'
    BY <1>1, <2>2, TablesKept DEF StoreL1, Advance, InsertSummary, Causality, Tables,
       articleTables, storyTables, eventTables, queues, ledger
  <2>7. QED
    BY <2>5, <2>6 DEF Causality
<1>2. ASSUME StoreL2(w) PROVE Causality'
  <2>1. pc[w] \in SummarizeSteps
    BY <1>2, Labels DEF StoreL2, Advance
  <2>2. /\ job[w] \in Job /\ job[w].type = "summarize" /\ pc[w] \in Busy /\ SummarizeFacts(w)
        /\ job[w].item \in Item
        /\ pc[w] \in PastChoice => job[w].cluster \in Cluster
        /\ pc[w] \in PastEvent => job[w].key \in EventKey
    BY <2>1, SummarizeJob DEF Causality
  <2>3. /\ pc \in [Worker -> Label] /\ RepoTypeOK
    BY DEF TypeInv, TypeOK, ControlTypeOK
  <2>4. SummarizeFacts(w)'
    BY <1>2, <2>2, <2>3, Labels DEF StoreL2, Advance, Goto, InsertSummary, SummarizeFacts, DbGrows, RepoTypeOK, Event,
       articleTables, storyTables, eventTables
  <2>5. JobsOK'
    BY <1>2, <2>2, <2>4, AdvanceJobs DEF StoreL2, Advance, Causality, JobFacts, Holds
  <2>6. Tables'
    BY <1>2, <2>2, TablesKept DEF StoreL2, Advance, InsertSummary, Causality, Tables,
       articleTables, storyTables, eventTables, queues, ledger
  <2>7. QED
    BY <2>5, <2>6 DEF Causality
<1>3. ASSUME EmbedArticle(w) PROVE Causality'
  <2>1. pc[w] \in SummarizeSteps
    BY <1>3, Labels DEF EmbedArticle, Advance
  <2>2. /\ job[w] \in Job /\ job[w].type = "summarize" /\ pc[w] \in Busy /\ SummarizeFacts(w)
        /\ job[w].item \in Item
        /\ pc[w] \in PastChoice => job[w].cluster \in Cluster
        /\ pc[w] \in PastEvent => job[w].key \in EventKey
    BY <2>1, SummarizeJob DEF Causality
  <2>3. /\ pc \in [Worker -> Label] /\ RepoTypeOK
    BY DEF TypeInv, TypeOK, ControlTypeOK
  <2>4. SummarizeFacts(w)'
    BY <1>3, <2>2, <2>3, Labels DEF EmbedArticle, Advance, Goto, InsertArticleEmbedding, SummarizeFacts, DbGrows, RepoTypeOK, Event,
       articleTables, storyTables, eventTables
  <2>5. JobsOK'
    BY <1>3, <2>2, <2>4, AdvanceJobs DEF EmbedArticle, Advance, Causality, JobFacts, Holds
  <2>6. Tables'
    BY <1>3, <2>2, TablesKept DEF EmbedArticle, Advance, InsertArticleEmbedding, Causality, Tables,
       articleTables, storyTables, eventTables, queues, ledger
  <2>7. QED
    BY <2>5, <2>6 DEF Causality
<1>4. ASSUME StoreL3(w) PROVE Causality'
  <2>1. pc[w] \in SummarizeSteps
    BY <1>4, Labels DEF StoreL3, Advance
  <2>2. /\ job[w] \in Job /\ job[w].type = "summarize" /\ pc[w] \in Busy /\ SummarizeFacts(w)
        /\ job[w].item \in Item
        /\ pc[w] \in PastChoice => job[w].cluster \in Cluster
        /\ pc[w] \in PastEvent => job[w].key \in EventKey
    BY <2>1, SummarizeJob DEF Causality
  <2>3. /\ pc \in [Worker -> Label] /\ RepoTypeOK
    BY DEF TypeInv, TypeOK, ControlTypeOK
  <2>4. SummarizeFacts(w)'
    BY <1>4, <2>2, <2>3, Labels DEF StoreL3, Advance, Goto, InsertSummary, SummarizeFacts, DbGrows, RepoTypeOK, Event,
       articleTables, storyTables, eventTables
  <2>5. JobsOK'
    BY <1>4, <2>2, <2>4, AdvanceJobs DEF StoreL3, Advance, Causality, JobFacts, Holds
  <2>6. Tables'
    BY <1>4, <2>2, TablesKept DEF StoreL3, Advance, InsertSummary, Causality, Tables,
       articleTables, storyTables, eventTables, queues, ledger
  <2>7. QED
    BY <2>5, <2>6 DEF Causality
<1>5. ASSUME StoreCluster(w) PROVE Causality'
  <2>1. pc[w] \in SummarizeSteps
    BY <1>5, Labels DEF StoreCluster, Advance
  <2>2. /\ job[w] \in Job /\ job[w].type = "summarize" /\ pc[w] \in Busy /\ SummarizeFacts(w)
        /\ job[w].item \in Item
        /\ pc[w] \in PastChoice => job[w].cluster \in Cluster
        /\ pc[w] \in PastEvent => job[w].key \in EventKey
    BY <2>1, SummarizeJob DEF Causality
  <2>3. /\ pc \in [Worker -> Label] /\ RepoTypeOK
    BY DEF TypeInv, TypeOK, ControlTypeOK
  <2>4. SummarizeFacts(w)'
    BY <1>5, <2>2, <2>3, Labels DEF StoreCluster, Advance, Goto, InsertCluster, SummarizeFacts, DbGrows, RepoTypeOK, Event,
       articleTables, storyTables, eventTables
  <2>5. JobsOK'
    BY <1>5, <2>2, <2>4, AdvanceJobs DEF StoreCluster, Advance, Causality, JobFacts, Holds
  <2>6. Tables'
    BY <1>5, <2>2, TablesKept DEF StoreCluster, Advance, InsertCluster, Causality, Tables,
       articleTables, storyTables, eventTables, queues, ledger
  <2>7. QED
    BY <2>5, <2>6 DEF Causality
<1>6. ASSUME AddMember(w) PROVE Causality'
  <2>1. pc[w] \in SummarizeSteps
    BY <1>6, Labels DEF AddMember, Advance
  <2>2. /\ job[w] \in Job /\ job[w].type = "summarize" /\ pc[w] \in Busy /\ SummarizeFacts(w)
        /\ job[w].item \in Item
        /\ pc[w] \in PastChoice => job[w].cluster \in Cluster
        /\ pc[w] \in PastEvent => job[w].key \in EventKey
    BY <2>1, SummarizeJob DEF Causality
  <2>3. /\ pc \in [Worker -> Label] /\ RepoTypeOK
    BY DEF TypeInv, TypeOK, ControlTypeOK
  <2>4. SummarizeFacts(w)'
    BY <1>6, <2>2, <2>3, Labels DEF AddMember, Advance, Goto, AddClusterMember, SummarizeFacts, DbGrows, RepoTypeOK, Event,
       articleTables, storyTables, eventTables
  <2>5. JobsOK'
    BY <1>6, <2>2, <2>4, AdvanceJobs DEF AddMember, Advance, Causality, JobFacts, Holds
  <2>6. Tables'
    <3>1. members' = members \cup {<<job[w].cluster, job[w].item>>}
      BY <1>6 DEF AddMember, AddClusterMember
    <3>2. /\ job[w].item \in articles \cap bodies \cap embedded
          /\ {<<"L1", job[w].item>>, <<"L2", job[w].item>>, <<"L3", job[w].cluster>>} \subseteq summaries
      BY <1>6, <2>2, Labels DEF AddMember, Advance, SummarizeFacts
    <3>3. ASSUME NEW m \in members'
          PROVE  /\ m[2] \in articles' \cap bodies' \cap embedded'
                 /\ {<<"L1", m[2]>>, <<"L2", m[2]>>, <<"L3", m[1]>>} \subseteq summaries'
      <4>1. CASE m \in members
        BY <4>1 DEF MembersAreComplete, Causality, Tables, DbGrows
      <4>2. CASE m = <<job[w].cluster, job[w].item>>
        BY <3>2, <4>2 DEF DbGrows
      <4>3. QED
        BY <3>1, <3>3, <4>1, <4>2
    <3>4. MembersAreComplete'
      BY <3>3 DEF MembersAreComplete
    <3>5. QED
      BY <1>6, <3>4, TablesKept DEF AddMember, Advance, AddClusterMember, Causality, Tables,
         articleTables, storyTables, eventTables, queues, ledger
  <2>7. QED
    BY <2>5, <2>6 DEF Causality
<1>7. ASSUME EmbedCluster(w) PROVE Causality'
  <2>1. pc[w] \in SummarizeSteps
    BY <1>7, Labels DEF EmbedCluster, Advance
  <2>2. /\ job[w] \in Job /\ job[w].type = "summarize" /\ pc[w] \in Busy /\ SummarizeFacts(w)
        /\ job[w].item \in Item
        /\ pc[w] \in PastChoice => job[w].cluster \in Cluster
        /\ pc[w] \in PastEvent => job[w].key \in EventKey
    BY <2>1, SummarizeJob DEF Causality
  <2>3. /\ pc \in [Worker -> Label] /\ RepoTypeOK
    BY DEF TypeInv, TypeOK, ControlTypeOK
  <2>4. SummarizeFacts(w)'
    BY <1>7, <2>2, RepoAssumption, <2>3, Labels DEF EmbedCluster, Advance, Goto, InsertClusterEmbedding, SummarizeFacts, DbGrows, RepoTypeOK, Event,
       articleTables, storyTables, eventTables
  <2>5. JobsOK'
    BY <1>7, <2>2, <2>4, AdvanceJobs DEF EmbedCluster, Advance, Causality, JobFacts, Holds
  <2>6. Tables'
    <3>1. vector' = [vector EXCEPT ![job[w].cluster] = job[w].item]
      BY <1>7 DEF EmbedCluster, InsertClusterEmbedding
    <3>2. <<job[w].cluster, job[w].item>> \in members /\ members' = members
      BY <1>7, <2>2, Labels DEF EmbedCluster, Advance, SummarizeFacts, InsertClusterEmbedding
    <3>3. VectorsAreOfMembers'
      BY <2>3, <3>1, <3>2 DEF VectorsAreOfMembers, Causality, Tables, RepoTypeOK
    <3>4. QED
      BY <1>7, <3>3, TablesKept DEF EmbedCluster, Advance, InsertClusterEmbedding, Causality, Tables,
         articleTables, storyTables, eventTables, queues, ledger
  <2>7. QED
    BY <2>5, <2>6 DEF Causality
<1>8. ASSUME StoreExpectation(w) PROVE Causality'
  <2>1. pc[w] \in SummarizeSteps
    BY <1>8, Labels DEF StoreExpectation, Advance
  <2>2. /\ job[w] \in Job /\ job[w].type = "summarize" /\ pc[w] \in Busy /\ SummarizeFacts(w)
        /\ job[w].item \in Item
        /\ pc[w] \in PastChoice => job[w].cluster \in Cluster
        /\ pc[w] \in PastEvent => job[w].key \in EventKey
    BY <2>1, SummarizeJob DEF Causality
  <2>3. /\ pc \in [Worker -> Label] /\ RepoTypeOK
    BY DEF TypeInv, TypeOK, ControlTypeOK
  <2>4. SummarizeFacts(w)'
    BY <1>8, <2>2, <2>3, Labels DEF StoreExpectation, Advance, Goto, InsertExpectation, SummarizeFacts, DbGrows, RepoTypeOK, Event,
       articleTables, storyTables, eventTables
  <2>5. JobsOK'
    BY <1>8, <2>2, <2>4, AdvanceJobs DEF StoreExpectation, Advance, Causality, JobFacts, Holds
  <2>6. Tables'
    BY <1>8, <2>2, TablesKept DEF StoreExpectation, Advance, InsertExpectation, Causality, Tables,
       articleTables, storyTables, eventTables, queues, ledger
  <2>7. QED
    BY <2>5, <2>6 DEF Causality
<1>9. ASSUME StoreAudit(w) PROVE Causality'
  <2>1. pc[w] \in SummarizeSteps
    BY <1>9, Labels DEF StoreAudit, Advance
  <2>2. /\ job[w] \in Job /\ job[w].type = "summarize" /\ pc[w] \in Busy /\ SummarizeFacts(w)
        /\ job[w].item \in Item
        /\ pc[w] \in PastChoice => job[w].cluster \in Cluster
        /\ pc[w] \in PastEvent => job[w].key \in EventKey
    BY <2>1, SummarizeJob DEF Causality
  <2>3. /\ pc \in [Worker -> Label] /\ RepoTypeOK
    BY DEF TypeInv, TypeOK, ControlTypeOK
  <2>4. SummarizeFacts(w)'
    BY <1>9, <2>2, <2>3, Labels DEF StoreAudit, Advance, Goto, PersistAssetTargetingAudit, SummarizeFacts, DbGrows, RepoTypeOK, Event,
       articleTables, storyTables, eventTables
  <2>5. JobsOK'
    BY <1>9, <2>2, <2>4, AdvanceJobs DEF StoreAudit, Advance, Causality, JobFacts, Holds
  <2>6. Tables'
    BY <1>9, <2>2, TablesKept DEF StoreAudit, Advance, PersistAssetTargetingAudit, Causality, Tables,
       articleTables, storyTables, eventTables, queues, ledger
  <2>7. QED
    BY <2>5, <2>6 DEF Causality
<1>10. ASSUME StoreImpacts(w) PROVE Causality'
  <2>1. pc[w] \in SummarizeSteps
    BY <1>10, Labels DEF StoreImpacts, Advance
  <2>2. /\ job[w] \in Job /\ job[w].type = "summarize" /\ pc[w] \in Busy /\ SummarizeFacts(w)
        /\ job[w].item \in Item
        /\ pc[w] \in PastChoice => job[w].cluster \in Cluster
        /\ pc[w] \in PastEvent => job[w].key \in EventKey
    BY <2>1, SummarizeJob DEF Causality
  <2>3. /\ pc \in [Worker -> Label] /\ RepoTypeOK
    BY DEF TypeInv, TypeOK, ControlTypeOK
  <2>4. SummarizeFacts(w)'
    BY <1>10, <2>2, <2>3, Labels DEF StoreImpacts, Advance, Goto, InsertEventImpacts, SummarizeFacts, DbGrows, RepoTypeOK, Event,
       articleTables, storyTables, eventTables
  <2>5. JobsOK'
    BY <1>10, <2>2, <2>4, AdvanceJobs DEF StoreImpacts, Advance, Causality, JobFacts, Holds
  <2>6. Tables'
    BY <1>10, <2>2, TablesKept DEF StoreImpacts, Advance, InsertEventImpacts, Causality, Tables,
       articleTables, storyTables, eventTables, queues, ledger
  <2>7. QED
    BY <2>5, <2>6 DEF Causality
<1>11. ASSUME SkipTargeting(w) PROVE Causality'
  <2>1. pc[w] \in SummarizeSteps
    BY <1>11, Labels DEF SkipTargeting, Advance
  <2>2. /\ job[w] \in Job /\ job[w].type = "summarize" /\ pc[w] \in Busy /\ SummarizeFacts(w)
        /\ job[w].item \in Item
        /\ pc[w] \in PastChoice => job[w].cluster \in Cluster
        /\ pc[w] \in PastEvent => job[w].key \in EventKey
    BY <2>1, SummarizeJob DEF Causality
  <2>3. /\ pc \in [Worker -> Label] /\ RepoTypeOK
    BY DEF TypeInv, TypeOK, ControlTypeOK
  <2>4. SummarizeFacts(w)'
    BY <1>11, <2>2, <2>3, Labels DEF SkipTargeting, Advance, Goto, dbVars, SummarizeFacts, DbGrows, RepoTypeOK, Event,
       articleTables, storyTables, eventTables
  <2>5. JobsOK'
    BY <1>11, <2>2, <2>4, AdvanceJobs DEF SkipTargeting, Advance, Causality, JobFacts, Holds
  <2>6. Tables'
    BY <1>11, <2>2, TablesKept DEF SkipTargeting, Advance, dbVars, Causality, Tables,
       articleTables, storyTables, eventTables, queues, ledger
  <2>7. QED
    BY <2>5, <2>6 DEF Causality
<1>12. QED
  BY <1>1, <1>2, <1>3, <1>4, <1>5, <1>6, <1>7, <1>8, <1>9, <1>10, <1>11

(* A Redis list, as the set of what is on it.                              *)
LEMMA ListSets ==
  ASSUME NEW S, NEW s \in Seq(S)
  PROVE  /\ \A x \in S : ToSet(Append(s, x)) = ToSet(s) \cup {x}
         /\ s # <<>> => Head(s) \in ToSet(s) /\ ToSet(Tail(s)) \subseteq ToSet(s)
<1>1. ASSUME NEW x \in S PROVE ToSet(Append(s, x)) = ToSet(s) \cup {x}
  <2>1. /\ Len(Append(s, x)) = Len(s) + 1 /\ Len(s) \in Nat
        /\ \A i \in 1..Len(s) : Append(s, x)[i] = s[i]
        /\ Append(s, x)[Len(s) + 1] = x
        /\ DOMAIN s = 1..Len(s) /\ DOMAIN Append(s, x) = 1..(Len(s) + 1)
    BY AppendProperties, LenProperties
  <2>2. QED
    BY <2>1 DEF ToSet
<1>2. ASSUME s # <<>> PROVE Head(s) \in ToSet(s) /\ ToSet(Tail(s)) \subseteq ToSet(s)
  <2>1. /\ Len(s) \in Nat \ {0} /\ DOMAIN s = 1..Len(s)
        /\ Head(s) = s[1]
        /\ Len(Tail(s)) = Len(s) - 1 /\ DOMAIN Tail(s) = 1..(Len(s) - 1)
        /\ \A i \in 1..(Len(s) - 1) : Tail(s)[i] = s[i + 1]
    BY <1>2, LenProperties, HeadTailProperties, EmptySeq
  <2>2. QED
    BY <2>1 DEF ToSet
<1>3. QED
  BY <1>1, <1>2

(* A worker that is not busy after its step knows nothing.                 *)
LEMMA DropsJob ==
  ASSUME TypeInv, DbGrows, JobsOK, NEW w \in Worker, NEW l \in {"down", "idle"},
         pc' = [pc EXCEPT ![w] = l], job' = [job EXCEPT ![w] = NoJob]
  PROVE  JobsOK'
<1>1. pc'[w] = l /\ l \notin Busy
  BY Unlabelled DEF TypeInv, TypeOK, ControlTypeOK
<1>2. JobFacts(w)'
  BY <1>1 DEF JobFacts, Holds
<1>3. QED
  BY <1>2, JobsKept

(* The main loop, and the end of a job, keep the causal order.             *)
LEMMA LoopKeeps ==
  ASSUME TypeInv, DbGrows, Causality, NEW w \in Worker
  PROVE  /\ Start(w) \/ AbortStart(w) => Causality'
         /\ TakeIngest(w) => Causality'
         /\ TakeSummarize(w) => Causality'
         /\ TakeIndex(w) => Causality'
         /\ InsertRun(w) => Causality'
         /\ FinishRun(w) => Causality'
         /\ Push(w) => Causality'
         /\ Raise(w) => Causality'
         /\ Crash(w) => Causality'
<1>0. /\ JobsOK /\ Tables /\ JobFacts(w) /\ QueueTypeOK
      /\ pc \in [Worker -> Label] /\ job \in [Worker -> Job \cup {NoJob}]
      /\ pc[w] \in Busy => job[w] \in Job /\ Phase(pc[w], job[w])
      /\ pc[w] \notin Busy => job[w] = NoJob
  BY BusyJob DEF Causality, JobsOK, TypeInv, TypeOK, ControlTypeOK, PhaseOK
<1>a. JobsOK' /\ Tables' => Causality'
  BY DEF Causality
<1>b. ASSUME UNCHANGED <<members, vector, events, impacts, summarizeQueue, indexQueue, ended>>
      PROVE  Tables'
  BY <1>0, <1>b, TablesKept DEF Tables
<1>1. ASSUME Start(w) PROVE Causality'
  <2>1. job' = [job EXCEPT ![w] = NoJob]
    BY <1>0, <1>1, Labels DEF Start
  <2>2. JobsOK'
    BY <1>0, <1>1, <2>1, DropsJob DEF Start, Goto
  <2>3. QED
    BY <1>a, <1>b, <1>1, <2>2 DEF Start, UpsertSources, storyTables, eventTables, queues, ledger
<1>e. ASSUME AbortStart(w) PROVE Causality'
  <2>1. JobsOK'
    BY <1>0, <1>e, JobKept DEF AbortStart, JobsOK
  <2>2. QED
    BY <1>a, <1>b, <1>e, <2>1 DEF AbortStart, UpsertSources, storyTables, eventTables, queues, ledger
<1>2. ASSUME TakeIngest(w) PROVE Causality'
  <2>1. JobFacts(w)'
    BY <1>0, <1>2 DEF TakeIngest, Hold, Goto, NewJob, JobFacts, Holds, IngestFacts
  <2>2. JobsOK'
    BY <1>0, <1>2, <2>1, JobsKept DEF TakeIngest, Hold, Goto
  <2>3. QED
    BY <1>a, <1>b, <1>2, <2>2 DEF TakeIngest, Hold, articleTables, storyTables, eventTables, dbVars, queues, ledger
<1>3. ASSUME TakeSummarize(w) PROVE Causality'
  <2>1. /\ Head(summarizeQueue) \in articles \cap bodies
        /\ ToSet(summarizeQueue)' \subseteq ToSet(summarizeQueue)
    BY <1>0, <1>3, ListSets DEF TakeSummarize, QueueTypeOK, Tables, QueuedArePersisted
  <2>2. /\ job'[w] = NewJob("summarize", Head(summarizeQueue)) /\ pc'[w] = "insert_run"
        /\ articles' = articles /\ bodies' = bodies
    BY <1>0, <1>3 DEF TakeSummarize, Hold, Goto, articleTables, storyTables, eventTables, dbVars, queues, ledger
  <2>3. SummarizeFacts(w)'
    BY <2>1, <2>2, Labels DEF SummarizeFacts, NewJob
  <2>4. JobFacts(w)'
    BY <2>2, <2>3 DEF JobFacts, Holds, NewJob
  <2>5. JobsOK'
    BY <1>0, <1>3, <2>4, JobsKept DEF TakeSummarize, Hold, Goto
  <2>6. Tables'
    BY <1>0, <1>3, <2>1, TablesKept DEF TakeSummarize, Hold, Tables, articleTables, storyTables, eventTables, dbVars, queues, ledger
  <2>7. QED
    BY <1>a, <2>5, <2>6
<1>4. ASSUME TakeIndex(w) PROVE Causality'
  <2>1. ToSet(indexQueue)' \subseteq ToSet(indexQueue)
    BY <1>0, <1>4, ListSets DEF TakeIndex, QueueTypeOK
  <2>2. JobsOK'
    BY <1>0, <1>4, JobKept DEF TakeIndex, JobsOK
  <2>3. Tables'
    BY <1>0, <1>4, <2>1, TablesKept DEF TakeIndex, Tables, articleTables, storyTables, eventTables, dbVars, queues, ledger
  <2>4. QED
    BY <1>a, <2>2, <2>3
<1>5. ASSUME InsertRun(w) PROVE Causality'
  <2>1. /\ pc[w] \in Busy /\ job[w] \in Job /\ pc[w] = "insert_run"
        /\ pc'[w] = IF job[w].type = "ingest" THEN "insert_article" ELSE "insert_L1"
    BY <1>0, <1>5, Labels DEF InsertRun, Goto
  <2>2. PICK b \in BOOLEAN : job' = [job EXCEPT ![w] = [job[w] EXCEPT !.run = b]]
    <3>1. CASE job' = [job EXCEPT ![w].run = TRUE]
      BY <3>1
    <3>2. CASE UNCHANGED job
      <4>1. job[w].run \in BOOLEAN /\ [job[w] EXCEPT !.run = job[w].run] = job[w]
        BY <2>1 DEF Job
      <4>2. job' = [job EXCEPT ![w] = [job[w] EXCEPT !.run = job[w].run]]
        BY <1>0, <3>2, <4>1
      <4>3. QED
        BY <4>1, <4>2
    <3>3. QED
      BY <1>5, <3>1, <3>2 DEF InsertRun
  <2>3. /\ job'[w].type = job[w].type /\ job'[w].item = job[w].item
        /\ job'[w].inserted = job[w].inserted
        /\ job[w].type \in {"ingest", "summarize"}
    BY <1>0, <2>1, <2>2 DEF Job
  <2>4. UNCHANGED dbVars
    BY <1>5 DEF InsertRun
  <2>5. JobFacts(w)'
    BY <1>0, <2>1, <2>3, <2>4, Labels DEF JobFacts, Holds, IngestFacts, SummarizeFacts, articleTables, storyTables, eventTables, dbVars, queues, ledger
  <2>6. JobsOK'
    BY <1>0, <1>5, <2>2, <2>5, JobsKept DEF InsertRun, Goto
  <2>7. QED
    BY <1>a, <1>b, <1>5, <2>4, <2>6 DEF InsertRun, articleTables, storyTables, eventTables, dbVars, queues, ledger
<1>6. ASSUME FinishRun(w) PROVE Causality'
  <2>1. /\ pc[w] \in Busy /\ job[w] \in Job /\ pc[w] = "finish_run" /\ Phase(pc[w], job[w])
        /\ job[w].type \in {"ingest", "summarize"} /\ job[w].item \in Item
        /\ UNCHANGED <<dbVars, queues>>
    BY <1>0, <1>6, Labels DEF FinishRun, Job
  <2>2. JobsOK'
    <3>1. CASE EndJob(w, "idle")
      BY <1>0, <3>1, DropsJob DEF EndJob, Goto
    <3>2. CASE /\ ~(job[w].type = "ingest" /\ ~job[w].inserted)
               /\ Goto(w, "push") /\ job' = [job EXCEPT ![w].run = FALSE]
      <4>1. /\ job' = [job EXCEPT ![w] = [job[w] EXCEPT !.run = FALSE]]
            /\ pc'[w] = "push"
        BY <1>0, <3>2 DEF Goto
      <4>2. /\ job'[w].type = job[w].type /\ job'[w].item = job[w].item
            /\ job'[w].cluster = job[w].cluster /\ job'[w].key = job[w].key
        BY <1>0, <2>1, <4>1 DEF Job
      <4>3. Holds(w, "ingest") => IngestFacts(w)'
        BY <1>0, <2>1, <3>2, <4>1, <4>2 DEF JobFacts, Holds, IngestFacts, articleTables, storyTables, eventTables, dbVars, queues, ledger
      <4>4. Holds(w, "summarize") => SummarizeFacts(w)'
        BY <1>0, <2>1, <4>1, <4>2, Labels DEF JobFacts, SummarizeFacts, articleTables, storyTables, eventTables, dbVars, queues, ledger
      <4>5. JobFacts(w)'
        BY <2>1, <4>2, <4>3, <4>4 DEF JobFacts, Holds
      <4>6. QED
        BY <1>0, <3>2, <4>1, <4>5, JobsKept DEF Goto
    <3>3. QED
      BY <1>6, <3>1, <3>2 DEF FinishRun
  <2>3. OkRunsAreComplete'
    <3>1. job[w].type = "ingest" => UrlTaken(job[w].item)
      BY <1>0, <2>1 DEF JobFacts, Holds, IngestFacts
    <3>2. job[w].type = "summarize" =>
            /\ <<job[w].cluster, job[w].item>> \in members /\ job[w].key \in EventKey
            /\ <<job[w].cluster, job[w].key>> \in events
            /\ expectations[<<job[w].cluster, job[w].key>>] > 0
      BY <1>0, <2>1, Labels DEF JobFacts, Holds, SummarizeFacts, Phase
    <3>3. ASSUME NEW i \in Item, <<"ingest", i, "ok">> \in ended' PROVE UrlTaken(i)
      BY <1>0, <1>6, <2>1, <3>1, <3>3 DEF FinishRun, Close, Tables, OkRunsAreComplete
    <3>4. ASSUME NEW i \in Item, <<"summarize", i, "ok">> \in ended'
          PROVE  \E m \in members, k \in EventKey :
                   m[2] = i /\ <<m[1], k>> \in events /\ expectations[<<m[1], k>>] > 0
      <4>1. CASE <<"summarize", i, "ok">> \in ended
        BY <1>0, <4>1 DEF Tables, OkRunsAreComplete
      <4>2. CASE job[w].type = "summarize" /\ job[w].item = i
        <5>1. <<job[w].cluster, i>>[1] = job[w].cluster /\ <<job[w].cluster, i>>[2] = i
          OBVIOUS
        <5>2. QED
          BY <3>2, <4>2, <5>1
      <4>3. QED
        BY <1>6, <2>1, <3>4, <4>1, <4>2 DEF FinishRun, Close
    <3>5. UNCHANGED <<articles, members, events, expectations>>
      BY <2>1 DEF articleTables, storyTables, eventTables, dbVars, queues, ledger
    <3>6. QED
      BY <3>3, <3>4, <3>5 DEF OkRunsAreComplete, UrlTaken
  <2>4. Tables'
    BY <1>0, <2>1, <2>3, TablesKept DEF Tables, articleTables, storyTables, eventTables, dbVars, queues, ledger
  <2>5. QED
    BY <1>a, <2>2, <2>4
<1>7. ASSUME Push(w) PROVE Causality'
  <2>1. /\ pc[w] \in Busy /\ job[w] \in Job /\ pc[w] = "push" /\ Phase(pc[w], job[w])
        /\ UNCHANGED <<dbVars, ended>>
    BY <1>0, <1>7, Labels DEF Push, articleTables, storyTables, eventTables, dbVars, queues, ledger
  <2>2. JobsOK'
    BY <1>0, <1>7, DropsJob DEF Push, EndJob, Goto
  <2>3. CASE job[w].type = "ingest"
    <3>1. job[w].item \in articles \cap bodies /\ job[w].item \in Item
      BY <1>0, <2>1, <2>3 DEF JobFacts, Holds, IngestFacts, Job
    <3>2. ToSet(summarizeQueue)' = ToSet(summarizeQueue) \cup {job[w].item} /\ UNCHANGED indexQueue
      <4>1. summarizeQueue' = Append(summarizeQueue, job[w].item) /\ UNCHANGED indexQueue
        BY <1>7, <2>3 DEF Push
      <4>2. ToSet(Append(summarizeQueue, job[w].item)) = ToSet(summarizeQueue) \cup {job[w].item}
        BY <1>0, <3>1, ListSets DEF QueueTypeOK
      <4>3. QED
        BY <4>1, <4>2
    <3>3. QueuedArePersisted'
      BY <1>0, <2>1, <3>1, <3>2 DEF QueuedArePersisted, Tables, articleTables, storyTables, eventTables, dbVars, queues, ledger
    <3>4. Tables'
      BY <1>0, <2>1, <3>2, <3>3, TablesKept DEF Tables, articleTables, storyTables, eventTables, dbVars, queues, ledger
    <3>5. QED
      BY <1>a, <2>2, <3>4
  <2>4. CASE job[w].type = "summarize"
    <3>1. /\ job[w].cluster \in Cluster /\ job[w].key \in EventKey
          /\ <<job[w].cluster, job[w].key>> \in events
          /\ expectations[<<job[w].cluster, job[w].key>>] > 0
      BY <1>0, <2>1, <2>4, Labels DEF JobFacts, Holds, SummarizeFacts, Phase
    <3>2. ToSet(indexQueue)' = ToSet(indexQueue) \cup {job[w].cluster} /\ UNCHANGED summarizeQueue
      <4>1. indexQueue' = Append(indexQueue, job[w].cluster) /\ UNCHANGED summarizeQueue
        BY <1>7, <2>4 DEF Push
      <4>2. ToSet(Append(indexQueue, job[w].cluster)) = ToSet(indexQueue) \cup {job[w].cluster}
        BY <1>0, <3>1, ListSets DEF QueueTypeOK
      <4>3. QED
        BY <4>1, <4>2
    <3>3. IndexJobsFollowExpectations'
      BY <1>0, <2>1, <3>1, <3>2 DEF IndexJobsFollowExpectations, Tables, articleTables, storyTables, eventTables, dbVars, queues, ledger
    <3>4. Tables'
      BY <1>0, <2>1, <3>2, <3>3, TablesKept DEF Tables, articleTables, storyTables, eventTables, dbVars, queues, ledger
    <3>5. QED
      BY <1>a, <2>2, <3>4
  <2>5. QED
    BY <1>7, <2>3, <2>4 DEF Push
<1>c. ASSUME NEW s \in {"running", "fail"}, Close(w, s), UNCHANGED <<dbVars, queues>>
      PROVE  Tables'
  <2>1. \A r \in ended' : r \in ended \/ r[3] # "ok"
    BY <1>c DEF Close
  <2>2. QED
    BY <1>0, <1>c, <2>1, TablesKept DEF Tables, articleTables, storyTables, eventTables, dbVars, queues, ledger
<1>d. ASSUME NEW l \in {"idle", "down"}, NEW s \in {"running", "fail"}, Die(w, l, s), UNCHANGED <<dbVars, queues>>
      PROVE  Causality'
  <2>1. JobsOK'
    BY <1>0, <1>d, DropsJob DEF Die, EndJob, Goto
  <2>2. QED
    BY <1>a, <1>c, <1>d, <2>1 DEF Die
<1>8. ASSUME Raise(w) PROVE Causality'
  BY <1>8, <1>d DEF Raise
<1>9. ASSUME Crash(w) PROVE Causality'
  <2>1. CASE Die(w, "down", "running")
    BY <1>9, <1>d, <2>1 DEF Crash
  <2>2. CASE pc[w] = "idle" /\ Goto(w, "down") /\ UNCHANGED <<job, ledger>>
    <3>1. job' = [job EXCEPT ![w] = NoJob]
      BY <1>0, <2>2, Labels
    <3>2. JobsOK'
      BY <1>0, <2>2, <3>1, DropsJob DEF Goto
    <3>3. QED
      BY <1>a, <1>b, <1>9, <2>2, <3>2 DEF Crash, articleTables, storyTables, eventTables, dbVars, queues, ledger
  <2>3. QED
    BY <1>9, <2>1, <2>2 DEF Crash
<1>10. QED
  BY <1>1, <1>e, <1>2, <1>3, <1>4, <1>5, <1>6, <1>7, <1>8, <1>9

(* So do process_ingest and the two choices of process_summarize.          *)
LEMMA HandlerKeeps ==
  ASSUME TypeInv, DbGrows, Causality, NEW w \in Worker
  PROVE  /\ StoreArticle(w) => Causality'
         /\ RejectArticle(w) => Causality'
         /\ StoreBody(w) => Causality'
         /\ ChooseCluster(w) => Causality'
         /\ RejectVectors(w) => Causality'
         /\ StoreEvent(w) => Causality'
<1>0. /\ JobsOK /\ Tables /\ JobFacts(w)
      /\ pc \in [Worker -> Label] /\ job \in [Worker -> Job \cup {NoJob}]
      /\ pc[w] \in Busy => job[w] \in Job /\ Phase(pc[w], job[w])
  BY BusyJob DEF Causality, JobsOK, TypeInv, TypeOK, ControlTypeOK, PhaseOK
<1>a. JobsOK' /\ Tables' => Causality'
  BY DEF Causality
<1>b. ASSUME UNCHANGED <<members, vector, events, impacts, summarizeQueue, indexQueue, ended>>
      PROVE  Tables'
  BY <1>0, <1>b, TablesKept DEF Tables
<1>1. ASSUME StoreArticle(w) PROVE Causality'
  <2> DEFINE i == job[w].item
             j == [job[w] EXCEPT !.inserted = ReturnsArticleId(i)]
             l == IF ReturnsArticleId(i) THEN "insert_article_body" ELSE "finish_run"
  <2>1. /\ pc[w] = "insert_article" /\ pc[w] \in Busy /\ job[w] \in Job /\ job[w].type = "ingest"
    BY <1>0, <1>1, Labels DEF StoreArticle, Phase
  <2>2. job' = [job EXCEPT ![w] = j] /\ pc' = [pc EXCEPT ![w] = l]
    BY <1>1 DEF StoreArticle, Goto
  <2>3. /\ pc'[w] = l /\ job'[w].type = "ingest" /\ job'[w].item = i
        /\ job'[w].inserted = ReturnsArticleId(i)
    BY <1>0, <2>1, <2>2 DEF Job
  <2>4. /\ ReturnsArticleId(i) => i \in articles'
        /\ ~ReturnsArticleId(i) => UrlTaken(i)'
    BY <1>1 DEF StoreArticle, InsertArticle, ReturnsArticleId, SameArticleId, UrlTaken
  <2>5. IngestFacts(w)'
    BY <2>3, <2>4 DEF IngestFacts, UrlTaken
  <2>6. JobFacts(w)'
    BY <2>3, <2>5 DEF JobFacts, Holds
  <2>7. JobsOK'
    BY <1>0, <2>2, <2>6, JobsKept
  <2>8. QED
    BY <1>a, <1>b, <1>1, <2>7 DEF StoreArticle, InsertArticle, articleTables, storyTables, eventTables, dbVars, queues, ledger
<1>2. ASSUME RejectArticle(w) PROVE Causality'
  <2>1. JobsOK'
    BY <1>0, <1>2, DropsJob DEF RejectArticle, EndJob, Goto
  <2>2. \A r \in ended' : r \in ended \/ r[3] # "ok"
    BY <1>2 DEF RejectArticle, Close
  <2>3. Tables'
    BY <1>0, <1>2, <2>2, TablesKept DEF RejectArticle, Tables, articleTables, storyTables, eventTables, dbVars, queues, ledger
  <2>4. QED
    BY <1>a, <2>1, <2>3
<1>c. ASSUME RejectVectors(w) PROVE Causality'
  <2>1. JobsOK'
    BY <1>0, <1>c, DropsJob DEF RejectVectors, EndJob, Goto
  <2>2. \A r \in ended' : r \in ended \/ r[3] # "ok"
    BY <1>c DEF RejectVectors, Close
  <2>3. Tables'
    BY <1>0, <1>c, <2>2, TablesKept DEF RejectVectors, Tables, articleTables, storyTables, eventTables, dbVars, queues, ledger
  <2>4. QED
    BY <1>a, <2>1, <2>3
<1>3. ASSUME StoreBody(w) PROVE Causality'
  <2>1. /\ pc[w] = "insert_article_body" /\ pc[w] \in Busy /\ job[w] \in Job /\ job[w].type = "ingest"
        /\ pc'[w] = "finish_run" /\ job' = job
    BY <1>0, <1>3, Labels DEF StoreBody, Advance, Goto, Phase
  <2>2. job[w].item \in articles' \cap bodies'
    BY <1>0, <1>3, <2>1 DEF StoreBody, InsertArticleBody, JobFacts, Holds, IngestFacts
  <2>3. IngestFacts(w)'
    BY <2>1, <2>2 DEF IngestFacts, UrlTaken
  <2>4. JobFacts(w)'
    BY <2>1, <2>3 DEF JobFacts, Holds
  <2>5. JobsOK'
    BY <1>0, <1>3, <2>4, AdvanceJobs DEF StoreBody
  <2>6. QED
    BY <1>a, <1>b, <1>3, <2>5 DEF StoreBody, InsertArticleBody, Advance, articleTables, storyTables, eventTables, dbVars, queues, ledger
<1>4. ASSUME ChooseCluster(w) PROVE Causality'
  <2>1. /\ pc[w] = "choose_cluster" /\ pc[w] \in Busy /\ job[w] \in Job /\ job[w].type = "summarize"
        /\ SummarizeFacts(w)
    BY <1>4, SummarizeJob, Labels DEF ChooseCluster, Causality
  <2>2. PICK c : job' = [job EXCEPT ![w].cluster = c]
    BY <1>4 DEF ChooseCluster
  <2>3. job' = [job EXCEPT ![w] = [job[w] EXCEPT !.cluster = c]] /\ pc'[w] = "insert_L3"
    BY <1>0, <1>4, <2>2 DEF ChooseCluster, Goto
  <2>4. job'[w].type = "summarize" /\ job'[w].item = job[w].item
    BY <1>0, <2>1, <2>3 DEF Job
  <2>5. SummarizeFacts(w)'
    BY <1>4, <2>1, <2>3, <2>4, Labels DEF ChooseCluster, SummarizeFacts, articleTables, storyTables, eventTables, dbVars, queues, ledger
  <2>6. JobFacts(w)'
    BY <2>4, <2>5 DEF JobFacts, Holds
  <2>7. JobsOK'
    BY <1>0, <1>4, <2>3, <2>6, JobsKept DEF ChooseCluster, Goto
  <2>8. QED
    BY <1>a, <1>b, <1>4, <2>7 DEF ChooseCluster, articleTables, storyTables, eventTables, dbVars, queues, ledger
<1>5. ASSUME StoreEvent(w) PROVE Causality'
  <2>1. /\ pc[w] = "insert_event" /\ pc[w] \in Busy /\ job[w] \in Job /\ job[w].type = "summarize"
        /\ SummarizeFacts(w) /\ job[w].cluster \in Cluster
    BY <1>5, SummarizeJob, Labels DEF StoreEvent, Causality
  <2>2. PICK k \in EventKey : InsertEvent(job[w].cluster, k) /\ job' = [job EXCEPT ![w].key = k]
    BY <1>5 DEF StoreEvent
  <2>3. job' = [job EXCEPT ![w] = [job[w] EXCEPT !.key = k]] /\ pc'[w] = "insert_expectation"
    BY <1>0, <1>5, <2>2 DEF StoreEvent, Goto
  <2>4. /\ job'[w].type = "summarize" /\ job'[w].item = job[w].item
        /\ job'[w].cluster = job[w].cluster /\ job'[w].key = k
    BY <1>0, <2>1, <2>3 DEF Job
  <2>5. /\ events' = events \cup {<<job[w].cluster, k>>}
        /\ UNCHANGED <<articles, bodies, embedded, summaries, sourceCount, members, vector, expectations,
                       audits, impacts>>
    BY <2>2 DEF InsertEvent, articleTables, storyTables, eventTables, dbVars, queues, ledger
  <2>6. SummarizeFacts(w)'
    BY <2>1, <2>3, <2>4, <2>5, Labels DEF SummarizeFacts
  <2>7. JobFacts(w)'
    BY <2>4, <2>6 DEF JobFacts, Holds
  <2>8. JobsOK'
    BY <1>0, <1>5, <2>3, <2>7, JobsKept DEF StoreEvent, Goto
  <2>9. EventsAreOfSearchableStories'
    <3>1. job[w].cluster \in SearchableClusters
      BY <2>1, Labels DEF SummarizeFacts, SearchableClusters, ClusterRows
    <3>2. SearchableClusters' = SearchableClusters
      BY <2>5 DEF SearchableClusters, ClusterRows
    <3>3. ASSUME NEW e \in events' PROVE e[1] \in SearchableClusters
      BY <1>0, <2>5, <3>1 DEF Tables, EventsAreOfSearchableStories
    <3>4. QED
      BY <3>2, <3>3 DEF EventsAreOfSearchableStories
  <2>10. Tables'
    BY <1>0, <1>5, <2>5, <2>9, TablesKept DEF StoreEvent, Tables, articleTables, storyTables, eventTables, dbVars, queues, ledger
  <2>11. QED
    BY <1>a, <2>8, <2>10
<1>6. QED
  BY <1>1, <1>2, <1>c, <1>3, <1>4, <1>5

(* The causal order is inductive.                                          *)
LEMMA CausalNext == ASSUME TypeInv, Causality, [Next]_vars PROVE Causality'
<1>1. DbGrows
  BY TypeNext DEF TypeStep
<1>2. ASSUME UNCHANGED <<dbVars, pc, job, ledger>>, summarizeQueue' = summarizeQueue, indexQueue' = indexQueue
      PROVE  Causality'
  <2>1. JobsOK'
    BY <1>1, <1>2, JobKept DEF Causality, JobsOK
  <2>2. Tables'
    BY <1>1, <1>2, TablesKept DEF Causality, Tables, articleTables, storyTables, eventTables, dbVars, queues, ledger
  <2>3. QED
    BY <2>1, <2>2 DEF Causality
<1>3. ASSUME NEW s \in Source, EnableSource(s) PROVE Causality'
  BY <1>2, <1>3 DEF EnableSource, queues
<1>4. ASSUME NEW i \in Item, Poll(i) PROVE Causality'
  BY <1>2, <1>4 DEF Poll
<1>5. ASSUME NEW w \in Worker, Start(w) \/ AbortStart(w) \/ Work(w) \/ Raise(w) \/ Crash(w) PROVE Causality'
  BY <1>1, <1>5, LoopKeeps, HandlerKeeps, SummarizeKeeps DEF Work, Ingest, Summarize
<1>6. CASE UNCHANGED vars
  BY <1>2, <1>6 DEF vars, queues
<1>7. QED
  BY <1>3, <1>4, <1>5, <1>6 DEF Next

(* Before the first job everything holds vacuously.                        *)
LEMMA CausalInit == Init => Causality
<1>1. Init => JobsOK
  BY Unlabelled DEF Init, JobsOK, JobFacts, Holds
<1>2. Init => Tables
  BY DEF Init, RepoInit, Tables, QueuedArePersisted, MembersAreComplete, VectorsAreOfMembers,
     EventsAreOfSearchableStories, IndexJobsFollowExpectations, OkRunsAreComplete, ToSet
<1>3. QED
  BY <1>1, <1>2 DEF Causality

(* The inductive invariant.                                                *)
LEMMA Causal == Spec => [](TypeInv /\ Causality)
<1>1. Init => TypeInv /\ Causality
  BY TypeInit, CausalInit, Unlabelled DEF Init, TypeInv, PhaseOK
<1>2. TypeInv /\ Causality /\ [Next]_vars => (TypeInv /\ Causality)'
  BY TypeNext, CausalNext DEF TypeStep
<1>3. QED
  BY <1>1, <1>2, PTL DEF Spec

(* A summarize job, queued or in progress, names an article that is stored *)
(* with its body, for any number of workers, crashes and duplicates:       *)
(* process_ingest pushes only after both inserts were committed.           *)
THEOREM SummarizeJobsAreStoredCorrect == Spec => []SummarizeJobsAreStored
<1>1. TypeInv /\ Causality => SummarizeJobsAreStored
  BY DEF Causality, JobsOK, JobFacts, SummarizeFacts, Tables, QueuedArePersisted, SummarizeJobsAreStored
<1>2. QED
  BY <1>1, Causal, PTL

(* No statement of a handler trips over a foreign key of the schema other  *)
(* than the one to sources: the order of the handlers' statements is an    *)
(* order in which the rows may refer to each other.                        *)
THEOREM NoDanglingReferenceCorrect == Spec => []NoDanglingReference
<1>1. ASSUME TypeInv, Causality, NEW w \in Worker
      PROVE  /\ pc[w] = "insert_article_body" => job[w].item \in articles
             /\ pc[w] = "add_cluster_member" => job[w].cluster \in ClusterRows /\ job[w].item \in articles
             /\ pc[w] = "insert_event" => job[w].cluster \in ClusterRows
             /\ pc[w] \in {"insert_expectation", "insert_event_impacts"}
                  => <<job[w].cluster, job[w].key>> \in events
  <2>1. pc[w] = "insert_article_body" => job[w].item \in articles
    BY <1>1, Labels DEF Causality, JobsOK, JobFacts, IngestFacts, Holds, TypeInv, PhaseOK, Phase
  <2>2. pc[w] \in SummarizeSteps =>
          /\ SummarizeFacts(w)
          /\ pc[w] \in PastChoice => job[w].cluster \in Cluster
    BY <1>1, SummarizeJob DEF Causality
  <2>3. QED
    BY <2>1, <2>2, Labels DEF SummarizeFacts, ClusterRows
<1>2. TypeInv /\ Causality => NoDanglingReference
  BY <1>1 DEF NoDanglingReference
<1>3. QED
  BY <1>2, Causal, PTL

(* An article is a member of a story only once its row, body, summaries    *)
(* and embedding, and the story's L3 summary, are committed: what the API  *)
(* joins with a member is never missing.                                   *)
THEOREM MembersAreCompleteCorrect == Spec => []MembersAreComplete
<1>1. TypeInv /\ Causality => MembersAreComplete
  BY DEF Causality, Tables
<1>2. QED
  BY <1>1, Causal, PTL

(* A story is searched by the embedding of one of its own members, however *)
(* many workers write to it, and wherever they crash.                      *)
THEOREM VectorsAreOfMembersCorrect == Spec => []VectorsAreOfMembers
<1>1. TypeInv /\ Causality => VectorsAreOfMembers
  BY DEF Causality, Tables
<1>2. QED
  BY <1>1, Causal, PTL

(* An event belongs to a story that a later article can still find.        *)
THEOREM EventsAreOfSearchableStoriesCorrect == Spec => []EventsAreOfSearchableStories
<1>1. TypeInv /\ Causality => EventsAreOfSearchableStories
  BY DEF Causality, Tables
<1>2. QED
  BY <1>1, Causal, PTL

(* An index job names a story with an event and an expectation to measure. *)
THEOREM IndexJobsFollowExpectationsCorrect == Spec => []IndexJobsFollowExpectations
<1>1. TypeInv /\ Causality => IndexJobsFollowExpectations
  BY DEF Causality, Tables
<1>2. QED
  BY <1>1, Causal, PTL

(* A run that finish_run marked 'ok' did what it reports.                  *)
THEOREM OkRunsAreCompleteCorrect == Spec => []OkRunsAreComplete
<1>1. TypeInv /\ Causality => OkRunsAreComplete
  BY DEF Causality, Tables
<1>2. QED
  BY <1>1, Causal, PTL

-----------------------------------------------------------------------------
(***************************************************************************)
(* No stored article is lost without a trace.                              *)
(***************************************************************************)
Carries(w, i) ==
  /\ job[w].item = i
  /\ Holds(w, "summarize") \/ (Holds(w, "ingest") /\ job[w].inserted)

Traced(i) ==
  \/ Clustered(i) \/ i \in ToSet(summarizeQueue)
  \/ <<"ingest", i>> \in lost \/ <<"summarize", i>> \in lost

(* StoredArticlesAreAccountedFor, in the terms of the lemmas below.        *)
LEMMA Accounts ==
  StoredArticlesAreAccountedFor <=>
    \A i \in articles : Traced(i) \/ \E w \in Worker : Carries(w, i)
BY DEF StoredArticlesAreAccountedFor, Traced, Carries

(* A worker hands the article on: to a story, to the queue, or, when its   *)
(* job dies, to the record of the lost jobs.                               *)
LEMMA HandsOn ==
  ASSUME TypeInv, Causality, DbGrows, NEW w \in Worker, NEW i \in Item, Carries(w, i),
         Start(w) \/ AbortStart(w) \/ Work(w) \/ Raise(w) \/ Crash(w)
  PROVE  Traced(i)' \/ Carries(w, i)'
<1>0. /\ pc[w] \in Busy /\ job[w] \in Job /\ JobFacts(w) /\ job[w].item = i
      /\ job[w].type \in {"ingest", "summarize"} /\ Phase(pc[w], job[w])
      /\ pc \in [Worker -> Label] /\ job \in [Worker -> Job \cup {NoJob}]
      /\ job[w].type = "ingest" => job[w].inserted
  BY BusyJob DEF Carries, Holds, Causality, JobsOK, TypeInv, TypeOK, ControlTypeOK, PhaseOK
<1>1. ASSUME pc'[w] \in Busy, job'[w].type = job[w].type, job'[w].item = job[w].item,
             job'[w].inserted = job[w].inserted
      PROVE  Carries(w, i)'
  BY <1>0, <1>1 DEF Carries, Holds
<1>2. ASSUME \/ StoreBody(w) \/ StoreL1(w) \/ StoreL2(w) \/ EmbedArticle(w) \/ StoreL3(w)
             \/ StoreCluster(w) \/ AddMember(w) \/ EmbedCluster(w) \/ StoreExpectation(w)
             \/ StoreAudit(w) \/ StoreImpacts(w) \/ SkipTargeting(w)
      PROVE  Carries(w, i)'
  <2>1. PICK to \in Busy : pc' = [pc EXCEPT ![w] = to] /\ job' = job
    BY <1>2, Labels DEF StoreBody, StoreL1, StoreL2, EmbedArticle, StoreL3, StoreCluster, AddMember,
       EmbedCluster, StoreExpectation, StoreAudit, StoreImpacts, SkipTargeting, Advance, Goto
  <2>2. QED
    BY <1>0, <1>1, <2>1
<1>3. ASSUME InsertRun(w) PROVE Carries(w, i)'
  <2>1. PICK l \in Busy : pc' = [pc EXCEPT ![w] = l]
    BY <1>3, Labels DEF InsertRun, Goto
  <2>2. CASE job' = [job EXCEPT ![w].run = TRUE]
    <3>1. job' = [job EXCEPT ![w] = [job[w] EXCEPT !.run = TRUE]]
      BY <2>2
    <3>2. job'[w].type = job[w].type /\ job'[w].item = job[w].item /\ job'[w].inserted = job[w].inserted
      BY <1>0, <3>1 DEF Job
    <3>3. QED
      BY <1>0, <1>1, <2>1, <3>2
  <2>3. CASE UNCHANGED job
    BY <1>0, <1>1, <2>1, <2>3
  <2>4. QED
    BY <1>3, <2>2, <2>3 DEF InsertRun
<1>4. ASSUME ChooseCluster(w) PROVE Carries(w, i)'
  <2>1. PICK c : job' = [job EXCEPT ![w].cluster = c]
    BY <1>4 DEF ChooseCluster
  <2>2. job' = [job EXCEPT ![w] = [job[w] EXCEPT !.cluster = c]]
    BY <2>1
  <2>3. job'[w].type = job[w].type /\ job'[w].item = job[w].item /\ job'[w].inserted = job[w].inserted
    BY <1>0, <2>2 DEF Job
  <2>4. pc'[w] \in Busy
    BY <1>0, <1>4, Labels DEF ChooseCluster, Goto
  <2>5. QED
    BY <1>1, <2>3, <2>4
<1>5. ASSUME StoreEvent(w) PROVE Carries(w, i)'
  <2>1. PICK k : job' = [job EXCEPT ![w].key = k]
    BY <1>5 DEF StoreEvent
  <2>2. job' = [job EXCEPT ![w] = [job[w] EXCEPT !.key = k]]
    BY <2>1
  <2>3. job'[w].type = job[w].type /\ job'[w].item = job[w].item /\ job'[w].inserted = job[w].inserted
    BY <1>0, <2>2 DEF Job
  <2>4. pc'[w] \in Busy
    BY <1>0, <1>5, Labels DEF StoreEvent, Goto
  <2>5. QED
    BY <1>1, <2>3, <2>4
<1>6. ASSUME FinishRun(w) PROVE Carries(w, i)'
  <2>1. Goto(w, "push") /\ job' = [job EXCEPT ![w].run = FALSE]
    BY <1>0, <1>6 DEF FinishRun
  <2>2. job' = [job EXCEPT ![w] = [job[w] EXCEPT !.run = FALSE]]
    BY <2>1
  <2>3. job'[w].type = job[w].type /\ job'[w].item = job[w].item /\ job'[w].inserted = job[w].inserted
    BY <1>0, <2>2 DEF Job
  <2>4. pc'[w] \in Busy
    BY <1>0, <2>1, Labels DEF Goto
  <2>5. QED
    BY <1>1, <2>3, <2>4
<1>7. ASSUME Push(w) PROVE Traced(i)'
  <2>1. CASE job[w].type = "ingest"
    <3>1. summarizeQueue' = Append(summarizeQueue, i)
      BY <1>0, <1>7, <2>1 DEF Push
    <3>2. ToSet(Append(summarizeQueue, i)) = ToSet(summarizeQueue) \cup {i}
      BY ListSets DEF TypeInv, TypeOK, QueueTypeOK
    <3>3. QED
      BY <3>1, <3>2 DEF Traced
  <2>2. CASE job[w].type = "summarize"
    <3>1. <<job[w].cluster, i>> \in members /\ job[w].cluster \in Cluster
      BY <1>0, <1>7, <2>2, Labels DEF Push, JobFacts, Holds, SummarizeFacts, Phase
    <3>2. QED
      BY <3>1 DEF Traced, Clustered, DbGrows
  <2>3. QED
    BY <1>0, <2>1, <2>2
<1>8. ASSUME \/ \E l, s : Die(w, l, s)
             \/ RejectArticle(w) \/ RejectVectors(w)
      PROVE  Traced(i)'
  <2>1. <<job[w].type, i>> \in lost' \/ <<"ingest", i>> \in lost' \/ <<"summarize", i>> \in lost'
    BY <1>0, <1>8 DEF Die, RejectArticle, RejectVectors
  <2>2. QED
    BY <1>0, <2>1 DEF Traced
<1>9. ~StoreArticle(w)
  BY <1>0, Labels DEF StoreArticle, JobFacts, Holds, IngestFacts, Phase
<1>10. ~Start(w) /\ ~AbortStart(w) /\ ~TakeIngest(w) /\ ~TakeSummarize(w) /\ ~TakeIndex(w) /\ pc[w] # "idle"
  BY <1>0, Labels DEF Start, AbortStart, TakeIngest, TakeSummarize, TakeIndex
<1>11. Raise(w) \/ Crash(w) => Traced(i)'
  BY <1>8, <1>10 DEF Raise, Crash
<1>12. QED
  BY <1>2, <1>3, <1>4, <1>5, <1>6, <1>7, <1>8, <1>9, <1>10, <1>11 DEF Work, Ingest, Summarize

(* What is traced stays so: a job leaves the queue into a worker's hands.  *)
LEMMA StaysTraced ==
  ASSUME TypeInv, DbGrows, NEW i \in Item, Traced(i), [Next]_vars
  PROVE  Traced(i)' \/ \E w \in Worker : Carries(w, i)'
<1>1. Clustered(i) => Clustered(i)'
  BY DEF Clustered, DbGrows
<1>2. lost \subseteq lost'
  BY DEF Next, vars, ledger, EnableSource, Poll, Start, AbortStart, Work, Raise, Crash, Die, TakeIngest, TakeSummarize,
     TakeIndex, Hold, InsertRun, FinishRun, Push, Ingest, StoreArticle, RejectArticle, StoreBody, Advance,
     Summarize, StoreL1, StoreL2, EmbedArticle, ChooseCluster, RejectVectors, StoreL3, StoreCluster, AddMember,
     EmbedCluster, StoreEvent, StoreExpectation, StoreAudit, StoreImpacts, SkipTargeting
<1>3. ASSUME i \in ToSet(summarizeQueue), NEW w \in Worker, TakeSummarize(w)
      PROVE  i \in ToSet(summarizeQueue)' \/ Carries(w, i)'
  <2>1. i = Head(summarizeQueue) \/ i \in ToSet(Tail(summarizeQueue))
    <3>1. summarizeQueue \in Seq(Item) /\ summarizeQueue # <<>>
      BY <1>3 DEF TakeSummarize, TypeInv, TypeOK, QueueTypeOK
    <3>2. /\ Len(summarizeQueue) \in Nat \ {0} /\ DOMAIN summarizeQueue = 1..Len(summarizeQueue)
          /\ Head(summarizeQueue) = summarizeQueue[1]
          /\ DOMAIN Tail(summarizeQueue) = 1..(Len(summarizeQueue) - 1)
          /\ \A n \in 1..(Len(summarizeQueue) - 1) : Tail(summarizeQueue)[n] = summarizeQueue[n + 1]
      BY <3>1, LenProperties, HeadTailProperties, EmptySeq
    <3>3. PICK n \in 1..Len(summarizeQueue) : i = summarizeQueue[n]
      BY <1>3, <3>2 DEF ToSet
    <3>4. n = 1 \/ (n - 1 \in 1..(Len(summarizeQueue) - 1) /\ n = (n - 1) + 1)
      BY <3>2
    <3>5. QED
      BY <3>2, <3>3, <3>4 DEF ToSet
  <2>2. CASE i \in ToSet(Tail(summarizeQueue))
    BY <1>3, <2>2 DEF TakeSummarize
  <2>3. CASE i = Head(summarizeQueue)
    <3>1. job'[w] = NewJob("summarize", i) /\ pc'[w] = "insert_run"
      BY <1>3, <2>3 DEF TakeSummarize, Hold, Goto, TypeInv, TypeOK, ControlTypeOK
    <3>2. QED
      BY <3>1, Labels DEF Carries, Holds, NewJob
  <2>4. QED
    BY <2>1, <2>2, <2>3
<1>4. ASSUME i \in ToSet(summarizeQueue), NEW w \in Worker, Push(w)
      PROVE  i \in ToSet(summarizeQueue)'
  <2>1. CASE job[w].type = "ingest"
    <3>1. summarizeQueue \in Seq(Item) /\ job[w].item \in Item
      BY <1>4, BusyJob, Labels DEF Push, TypeInv, TypeOK, QueueTypeOK, Job
    <3>2. summarizeQueue' = Append(summarizeQueue, job[w].item)
      BY <1>4, <2>1 DEF Push
    <3>3. QED
      BY <1>4, <3>1, <3>2, ListSets
  <2>2. CASE summarizeQueue' = summarizeQueue
    BY <1>4, <2>2
  <2>3. QED
    BY <1>4, <2>1, <2>2 DEF Push
<1>5. \/ summarizeQueue' = summarizeQueue
      \/ \E w \in Worker : TakeSummarize(w) \/ Push(w)
  BY DEF Next, vars, queues, EnableSource, Poll, Start, AbortStart, Work, Raise, Crash, TakeIngest,
     TakeIndex, InsertRun, FinishRun, Ingest, StoreArticle, RejectArticle, StoreBody, Advance,
     Summarize, StoreL1, StoreL2, EmbedArticle, ChooseCluster, RejectVectors, StoreL3, StoreCluster, AddMember,
     EmbedCluster, StoreEvent, StoreExpectation, StoreAudit, StoreImpacts, SkipTargeting
<1>6. QED
  BY <1>1, <1>2, <1>3, <1>4, <1>5 DEF Traced

(* A step moves one worker only, and stores an article only in             *)
(* StoreArticle.                                                           *)
LEMMA OnlyOneMoves ==
  ASSUME TypeInv, [Next]_vars, NEW v \in Worker
  PROVE  \/ pc'[v] = pc[v] /\ job'[v] = job[v]
         \/ Start(v) \/ AbortStart(v) \/ Work(v) \/ Raise(v) \/ Crash(v)
<1>1. ASSUME NEW w \in Worker, w # v, Start(w) \/ AbortStart(w) \/ Work(w) \/ Raise(w) \/ Crash(w)
      PROVE  pc'[v] = pc[v] /\ job'[v] = job[v]
  <2>1. /\ pc' = pc \/ \E l : pc' = [pc EXCEPT ![w] = l]
        /\ job' = job \/ \E j : job' = [job EXCEPT ![w] = j]
    BY <1>1 DEF Start, AbortStart, Work, Raise, Crash, Die, EndJob, Goto, TakeIngest, TakeSummarize, TakeIndex,
       Hold, InsertRun, FinishRun, Push, Ingest, StoreArticle, RejectArticle, StoreBody, Advance,
       Summarize, StoreL1, StoreL2, EmbedArticle, ChooseCluster, RejectVectors, StoreL3, StoreCluster, AddMember,
       EmbedCluster, StoreEvent, StoreExpectation, StoreAudit, StoreImpacts, SkipTargeting
  <2>2. QED
    BY <1>1, <2>1 DEF TypeInv, TypeOK, ControlTypeOK
<1>2. QED
  BY <1>1 DEF Next, vars, EnableSource, Poll

(* Only the insert of insert_article adds a row to articles.               *)
LEMMA OnlyStoreArticleStores ==
  ASSUME [Next]_vars, NEW i \in articles', i \notin articles
  PROVE  \E w \in Worker : StoreArticle(w) /\ i = job[w].item
<1>1. ASSUME NEW w \in Worker, Start(w) \/ AbortStart(w) \/ Raise(w) \/ Crash(w) \/ RejectArticle(w) \/ StoreBody(w)
             \/ TakeIngest(w) \/ TakeSummarize(w) \/ TakeIndex(w)
             \/ InsertRun(w) \/ FinishRun(w) \/ Push(w)
      PROVE  articles' = articles
  BY <1>1 DEF Start, AbortStart, UpsertSources, Raise, Crash, RejectArticle, StoreBody, InsertArticleBody,
     TakeIngest, TakeSummarize, TakeIndex, Hold, InsertRun, FinishRun, Push, dbVars,
     articleTables
<1>2. ASSUME NEW w \in Worker, Summarize(w)
      PROVE  articles' = articles
  BY <1>2 DEF Summarize, StoreL1, StoreL2, EmbedArticle, ChooseCluster, RejectVectors, StoreL3, StoreCluster,
     AddMember, EmbedCluster, StoreEvent, StoreExpectation, StoreAudit, StoreImpacts,
     SkipTargeting, InsertSummary, InsertArticleEmbedding, InsertCluster, AddClusterMember,
     InsertClusterEmbedding, InsertEvent, InsertExpectation, PersistAssetTargetingAudit,
     InsertEventImpacts, dbVars, articleTables
<1>3. PICK w \in Worker : StoreArticle(w)
  BY <1>1, <1>2 DEF Next, vars, EnableSource, Poll, Work, Ingest, dbVars, articleTables
<1>4. articles' = articles \cup {job[w].item}
  BY <1>3 DEF StoreArticle, InsertArticle
<1>5. QED
  BY <1>3, <1>4

(* A stored article is in a story, or on its way there in a queue or a     *)
(* worker's hands, or one of its jobs died: the interleaving of any number *)
(* of workers, duplicates and re-polls loses none of them otherwise.       *)
THEOREM StoredArticlesAreAccountedForCorrect == Spec => []StoredArticlesAreAccountedFor
<1>1. Init => StoredArticlesAreAccountedFor
  BY DEF Init, RepoInit, StoredArticlesAreAccountedFor
<1>2. ASSUME TypeInv, Causality, StoredArticlesAreAccountedFor, [Next]_vars
      PROVE  StoredArticlesAreAccountedFor'
  <2>1. DbGrows /\ TypeInv'
    BY <1>2, TypeNext DEF TypeStep
  <2>2. ASSUME NEW i \in articles, i \in Item PROVE Traced(i)' \/ \E w \in Worker : Carries(w, i)'
    <3>1. CASE Traced(i)
      BY <1>2, <2>1, <2>2, <3>1, StaysTraced
    <3>2. CASE \E w \in Worker : Carries(w, i)
      <4>1. PICK w \in Worker : Carries(w, i)
        BY <3>2
      <4>2. CASE pc'[w] = pc[w] /\ job'[w] = job[w]
        BY <4>1, <4>2 DEF Carries, Holds
      <4>3. CASE Start(w) \/ AbortStart(w) \/ Work(w) \/ Raise(w) \/ Crash(w)
        BY <1>2, <2>1, <2>2, <4>1, <4>3, HandsOn
      <4>4. QED
        BY <1>2, <4>2, <4>3, OnlyOneMoves
    <3>3. QED
      BY <1>2, <3>1, <3>2, Accounts
  <2>3. ASSUME NEW i \in articles', i \notin articles PROVE \E w \in Worker : Carries(w, i)'
    <3>1. PICK w \in Worker : StoreArticle(w) /\ i = job[w].item
      BY <1>2, <2>3, OnlyStoreArticleStores
    <3>2. ReturnsArticleId(i)
      BY <2>3, <3>1 DEF StoreArticle, InsertArticle, ReturnsArticleId
    <3>3. pc[w] \in Busy /\ job[w] \in Job /\ job[w].type = "ingest"
      BY <1>2, <3>1, BusyJob, Labels DEF StoreArticle, TypeInv, TypeOK, PhaseOK, Phase
    <3>4. job' = [job EXCEPT ![w] = [job[w] EXCEPT !.inserted = ReturnsArticleId(i)]]
      BY <3>1 DEF StoreArticle
    <3>5. /\ job'[w].item = i /\ job'[w].inserted = ReturnsArticleId(i) /\ job'[w].type = "ingest"
          /\ pc'[w] = "insert_article_body"
      BY <1>2, <3>1, <3>2, <3>3, <3>4 DEF StoreArticle, Goto, Job, TypeInv, TypeOK, ControlTypeOK
    <3>6. Carries(w, i)'
      BY <3>2, <3>5, Labels DEF Carries, Holds
    <3>7. QED
      BY <3>6
  <2>4. articles \subseteq Item
    BY <1>2 DEF TypeInv, TypeOK, RepoTypeOK
  <2>5. \A i \in articles' : Traced(i)' \/ \E w \in Worker : Carries(w, i)'
    BY <2>2, <2>3, <2>4
  <2>6. QED
    BY <2>5 DEF StoredArticlesAreAccountedFor, Traced, Carries
<1>3. QED
  BY <1>1, <1>2, Causal, PTL DEF Spec

-----------------------------------------------------------------------------
(***************************************************************************)
(* source_count, kept by a statement of its own.                           *)
(***************************************************************************)

(* Workers that have counted their article and not yet written its row.    *)
Claimants(c) == {w \in Worker : pc[w] = "add_cluster_member" /\ job[w].cluster = c}

(* SourceCountCoversMembers is not inductive: two workers between          *)
(* insert_cluster and add_cluster_member are two members to come.          *)
CountsCoverClaims ==
  \A c \in Cluster : sourceCount[c] >= Cardinality(Members(c)) + Cardinality(Claimants(c))

(* Items and workers are finitely many.                                    *)
LEMMA FiniteCounts ==
  ASSUME NEW c \in Cluster
  PROVE  /\ IsFiniteSet(Members(c)) /\ Cardinality(Members(c)) \in Nat
         /\ IsFiniteSet(Claimants(c)) /\ Cardinality(Claimants(c)) \in Nat
         /\ IsFiniteSet(Members(c)') /\ Cardinality(Members(c)') \in Nat
         /\ IsFiniteSet(Claimants(c)') /\ Cardinality(Claimants(c)') \in Nat
<1>1. /\ Members(c) \subseteq Item /\ Members(c)' \subseteq Item
      /\ Claimants(c) \subseteq Worker /\ Claimants(c)' \subseteq Worker
  BY DEF Members, Claimants
<1>2. IsFiniteSet(Members(c)) /\ IsFiniteSet(Members(c)')
  BY <1>1, RepoAssumption, FS_Subset
<1>3. IsFiniteSet(Claimants(c)) /\ IsFiniteSet(Claimants(c)')
  BY <1>1, PipelineAssumption, FS_Subset
<1>4. QED
  BY <1>2, <1>3, FS_CardinalityType

(* A step that counts nothing and adds no member can only lose a claimant. *)
LEMMA FewerClaims ==
  ASSUME RepoTypeOK, CountsCoverClaims, sourceCount' = sourceCount, members' = members,
         \A c \in Cluster : Claimants(c)' \subseteq Claimants(c)
  PROVE  CountsCoverClaims'
<1>1. ASSUME NEW c \in Cluster
      PROVE  sourceCount'[c] >= Cardinality(Members(c)') + Cardinality(Claimants(c)')
  <2>1. Members(c)' = Members(c)
    BY DEF Members
  <2>2. Cardinality(Claimants(c)') <= Cardinality(Claimants(c))
    BY FiniteCounts, FS_Subset
  <2>3. sourceCount[c] \in Nat /\ sourceCount'[c] = sourceCount[c]
    BY DEF RepoTypeOK
  <2>4. sourceCount[c] >= Cardinality(Members(c)) + Cardinality(Claimants(c))
    BY DEF CountsCoverClaims
  <2>5. Cardinality(Members(c)') = Cardinality(Members(c))
    BY <2>1
  <2>6. QED
    BY <2>2, <2>3, <2>4, <2>5, FiniteCounts
<1>2. QED
  BY <1>1 DEF CountsCoverClaims

(* A claim is counted when it is made ...                                  *)
LEMMA ClaimsAfterStoreCluster ==
  ASSUME TypeInv, CountsCoverClaims, NEW w \in Worker, StoreCluster(w)
  PROVE  CountsCoverClaims'
<1>1. /\ pc[w] = "insert_cluster" /\ pc' = [pc EXCEPT ![w] = "add_cluster_member"] /\ job' = job
      /\ sourceCount' = [sourceCount EXCEPT ![job[w].cluster] = @ + 1] /\ members' = members
      /\ sourceCount \in [Cluster -> Nat] /\ pc \in [Worker -> Label]
  BY DEF StoreCluster, Advance, Goto, InsertCluster, TypeInv, TypeOK, RepoTypeOK, ControlTypeOK
<1>2. ASSUME NEW c \in Cluster
      PROVE  sourceCount'[c] >= Cardinality(Members(c)') + Cardinality(Claimants(c)')
  <2>1. Cardinality(Members(c)') = Cardinality(Members(c))
    BY <1>1 DEF Members
  <2>2. sourceCount[c] >= Cardinality(Members(c)) + Cardinality(Claimants(c))
    BY DEF CountsCoverClaims
  <2>3. CASE c = job[w].cluster
    <3>1. Claimants(c)' = Claimants(c) \cup {w} /\ w \notin Claimants(c)
      BY <1>1, <2>3 DEF Claimants
    <3>2. Cardinality(Claimants(c)') = Cardinality(Claimants(c)) + 1
      BY <3>1, FiniteCounts, FS_AddElement
    <3>3. sourceCount'[c] = sourceCount[c] + 1 /\ sourceCount[c] \in Nat
      BY <1>1, <2>3
    <3>4. QED
      BY <2>1, <2>2, <3>2, <3>3, FiniteCounts
  <2>4. CASE c # job[w].cluster
    <3>1. Claimants(c)' = Claimants(c)
      BY <1>1, <2>4 DEF Claimants
    <3>2. sourceCount'[c] = sourceCount[c]
      BY <1>1, <2>4
    <3>3. QED
      BY <2>1, <2>2, <3>1, <3>2
  <2>5. QED
    BY <2>3, <2>4
<1>3. QED
  BY <1>2 DEF CountsCoverClaims

(* ... and turns into at most one member.                                  *)
LEMMA ClaimsAfterAddMember ==
  ASSUME TypeInv, CountsCoverClaims, NEW w \in Worker, AddMember(w)
  PROVE  CountsCoverClaims'
<1>1. /\ pc[w] = "add_cluster_member" /\ pc' = [pc EXCEPT ![w] = "insert_cluster_embedding"]
      /\ job' = job /\ members' = members \cup {<<job[w].cluster, job[w].item>>}
      /\ sourceCount' = sourceCount
      /\ sourceCount \in [Cluster -> Nat] /\ pc \in [Worker -> Label]
  BY DEF AddMember, Advance, Goto, AddClusterMember, TypeInv, TypeOK, RepoTypeOK, ControlTypeOK
<1>2. ASSUME NEW c \in Cluster
      PROVE  sourceCount'[c] >= Cardinality(Members(c)') + Cardinality(Claimants(c)')
  <2>1. sourceCount[c] >= Cardinality(Members(c)) + Cardinality(Claimants(c))
    BY DEF CountsCoverClaims
  <2>2. CASE c = job[w].cluster
    <3>1. Claimants(c)' = Claimants(c) \ {w} /\ w \in Claimants(c)
      BY <1>1, <2>2 DEF Claimants
    <3>2. Cardinality(Claimants(c)') = Cardinality(Claimants(c)) - 1
      BY <3>1, FiniteCounts, FS_RemoveElement
    <3>3. Members(c)' \subseteq Members(c) \cup {job[w].item}
      BY <1>1 DEF Members
    <3>4. Cardinality(Members(c)') <= Cardinality(Members(c)) + 1
      <4>1. /\ IsFiniteSet(Members(c) \cup {job[w].item})
            /\ Cardinality(Members(c) \cup {job[w].item}) <= Cardinality(Members(c)) + 1
        <5>1. Cardinality(Members(c) \cup {job[w].item}) =
                IF job[w].item \in Members(c) THEN Cardinality(Members(c)) ELSE Cardinality(Members(c)) + 1
          BY FiniteCounts, FS_AddElement
        <5>2. IsFiniteSet(Members(c) \cup {job[w].item})
          BY FiniteCounts, FS_AddElement
        <5>3. QED
          BY <5>1, <5>2, FiniteCounts
      <4>2. Cardinality(Members(c)') <= Cardinality(Members(c) \cup {job[w].item})
        BY <3>3, <4>1, FS_Subset
      <4>3. Cardinality(Members(c) \cup {job[w].item}) \in Nat
        BY <4>1, FS_CardinalityType
      <4>4. QED
        BY <4>1, <4>2, <4>3, FiniteCounts
    <3>5. QED
      BY <1>1, <2>1, <3>2, <3>4, FiniteCounts
  <2>3. CASE c # job[w].cluster
    <3>1. Claimants(c)' = Claimants(c) /\ Members(c)' = Members(c)
      BY <1>1, <2>3 DEF Claimants, Members
    <3>2. QED
      BY <1>1, <2>1, <3>1
  <2>4. QED
    BY <2>2, <2>3
<1>3. QED
  BY <1>2 DEF CountsCoverClaims

(* source_count never falls behind the number of members: insert_cluster   *)
(* commits before add_cluster_member, and its increment is made by the     *)
(* database, so two workers on one story are both counted.                 *)
THEOREM SourceCountCoversMembersCorrect == Spec => []SourceCountCoversMembers
<1>1. Init => CountsCoverClaims
  <2>1. ASSUME Init, NEW c \in Cluster
        PROVE  sourceCount[c] >= Cardinality(Members(c)) + Cardinality(Claimants(c))
    <3>1. Members(c) = {} /\ Claimants(c) = {} /\ sourceCount[c] = 0
      BY <2>1 DEF Init, RepoInit, Members, Claimants
    <3>2. QED
      BY <3>1, FS_EmptySet
  <2>2. QED
    BY <2>1 DEF CountsCoverClaims
<1>2. ASSUME TypeInv, CountsCoverClaims, [Next]_vars PROVE CountsCoverClaims'
  <2>1. CASE \E w \in Worker : StoreCluster(w) \/ AddMember(w)
    BY <1>2, <2>1, ClaimsAfterStoreCluster, ClaimsAfterAddMember
  <2>2. CASE ~\E w \in Worker : StoreCluster(w) \/ AddMember(w)
    <3>1. sourceCount' = sourceCount /\ members' = members
      BY <1>2, <2>2 DEF Next, vars, EnableSource, Poll, Start, AbortStart, Work, Raise, Crash, TakeIngest,
         TakeSummarize, TakeIndex, Hold, InsertRun, FinishRun, Push, Ingest, StoreArticle,
         RejectArticle, StoreBody, Advance, Summarize, StoreL1, StoreL2, EmbedArticle,
         ChooseCluster, RejectVectors, StoreL3, EmbedCluster, StoreEvent, StoreExpectation, StoreAudit,
         StoreImpacts, SkipTargeting, InsertArticle, UpsertSources, InsertArticleBody,
         InsertSummary, InsertArticleEmbedding, InsertClusterEmbedding, InsertEvent,
         InsertExpectation, PersistAssetTargetingAudit, InsertEventImpacts, dbVars, storyTables
    <3>2. ASSUME NEW w \in Worker, pc'[w] = "add_cluster_member"
          PROVE  pc[w] = pc'[w] /\ job'[w] = job[w]
      <4>1. CASE Start(w) \/ AbortStart(w) \/ Work(w) \/ Raise(w) \/ Crash(w)
        BY <1>2, <2>2, <3>2, <4>1 DEF TypeInv, TypeOK, ControlTypeOK, Start, AbortStart, Work, Raise, Crash,
           Die, EndJob, Goto, TakeIngest, TakeSummarize, TakeIndex, Hold, InsertRun, FinishRun,
           Push, Ingest, StoreArticle, RejectArticle, StoreBody, Advance, Summarize, StoreL1,
           StoreL2, EmbedArticle, ChooseCluster, RejectVectors, StoreL3, EmbedCluster, StoreEvent,
           StoreExpectation, StoreAudit, StoreImpacts, SkipTargeting
      <4>2. QED
        BY <1>2, <4>1, OnlyOneMoves
    <3>3. \A c \in Cluster : Claimants(c)' \subseteq Claimants(c)
      BY <3>2 DEF Claimants
    <3>4. QED
      BY <1>2, <3>1, <3>3, FewerClaims DEF TypeInv, TypeOK
  <2>3. QED
    BY <2>1, <2>2
<1>3. ASSUME TypeInv, CountsCoverClaims PROVE SourceCountCoversMembers
  <2>1. ASSUME NEW c \in Cluster PROVE sourceCount[c] >= Cardinality(Members(c))
    BY <1>3, FiniteCounts DEF CountsCoverClaims, TypeInv, TypeOK, RepoTypeOK
  <2>2. QED
    BY <2>1 DEF SourceCountCoversMembers
<1>4. QED
  BY <1>1, <1>2, <1>3, Causal, PTL DEF Spec
=============================================================================
