---------------------------------- MODULE ApiProofs ----------------------------------
(***************************************************************************)
(* The API process keeps one pool, costs no request its connection while   *)
(* Postgres and Redis serve and no backfill runs, and repeats no finished  *)
(* work, for any number of requests, keys, items and faults and whatever   *)
(* the clients ask for.                                                    *)
(***************************************************************************)
EXTENDS Api, FiniteSetTheorems, SequenceTheorems, TLAPS

USE ApiAssumption

-----------------------------------------------------------------------------
(* The states of a request.                                                *)
Connecting == {"connect", "ensure", "create", "waiting", "using"}
ActiveLabel == Connecting \cup {"handle", "init", "push", "close", "closing", "store"}
Use == {"lookup", "stamp", "step", "insert_run", "finish_run"}
Kind == Posts \cup {"read"}
Course == Failures \cup {"connect", "skip", "leave"}
Step == [noPool : Course, onError : Course, then : Ends]
Plan == Seq(Step)

Active == [pc : ActiveLabel, use : Use, bad : BOOLEAN, key : Key \cup {NoKey}, kind : Kind,
           plan : Plan, pool : 0..MaxPool, run : BOOLEAN, began : BOOLEAN, beside : SUBSET Request]
Ended == [pc : {"done"}, kind : Kind, key : Key \cup {NoKey}, beside : SUBSET Request,
          answer : Course \cup Ends \cup {"replay", "refused", "unauthorized", "dropped"}]

-----------------------------------------------------------------------------
(* Every plan is a sequence of connections, and only an ingest run and a   *)
(* backfill have none.                                                     *)
GoodPlan(p) == p \in Plan /\ p # <<>>

LEMMA GoodPlans ==
  /\ \A a \in Step : GoodPlan(<<a>>)
  /\ \A a, b \in Step : GoodPlan(<<a, b>>)
  /\ \A a, b, c \in Step : GoodPlan(<<a, b, c>>)
  /\ \A p, q \in Plan : GoodPlan(p) \/ GoodPlan(q) => GoodPlan(p \o q)
<1>1. \A a, b, c \in Step : GoodPlan(<<a>>) /\ GoodPlan(<<a, b>>) /\ GoodPlan(<<a, b, c>>)
  BY DEF GoodPlan, Plan
<1>2. ASSUME NEW p \in Plan, NEW q \in Plan, p # <<>> \/ q # <<>>
      PROVE  p \o q \in Plan /\ p \o q # <<>>
  <2>1. p \o q \in Seq(Step) /\ Len(p \o q) = Len(p) + Len(q)
    BY ConcatProperties DEF Plan
  <2>2. Len(p) > 0 \/ Len(q) > 0
    BY <1>2, EmptySeq DEF Plan
  <2>3. Len(p) \in Nat /\ Len(q) \in Nat
    BY LenProperties DEF Plan
  <2> QED
    BY <2>1, <2>2, <2>3, EmptySeq DEF Plan
<1> QED
  BY <1>1, <1>2 DEF GoodPlan

LEMMA Connections ==
  \A a, b \in Course : /\ Conn(a) \in Step /\ IfPool(a, b) \in Step
                       /\ NoRows(IfPool(a, b)) \in Step /\ NoRows(Conn(a)) \in Step
                       /\ Unusable(a) \in Step /\ Ending(IfPool(a, b), "unusable") \in Step
<1>1. \A a, b \in Course : Conn(a) \in Step /\ IfPool(a, b) \in Step
  BY DEF Conn, IfPool, Step, Course, Ends
<1>2. \A s \in Step : Ending(s, "nodata") \in Step /\ Ending(s, "unusable") \in Step
  BY DEF Ending, Step, Ends
<1> QED
  BY <1>1, <1>2 DEF NoRows, Unusable

LEMMA ImpactPlans == \A a \in Course : \A p \in AssetImpacts(a) : GoodPlan(p)
<1> TAKE a \in Course
<1>1. Conn(a) \in Step /\ Conn("skip") \in Step
  BY Connections DEF Course
<1> QED
  BY <1>1, GoodPlans DEF AssetImpacts

LEMMA PlansAreGood ==
  ASSUME NEW e \in Endpoint, NEW p \in Plans[e]
  PROVE  p \in Plan /\ (e \notin {"ingest", "backfill"} => p # <<>>)
<1> DEFINE courses == {"skip", "leave", "error", "errors", "default", "unavailable", "down"}
<1> USE GoodPlans
<1>1. \A a, b \in courses : /\ Conn(a) \in Step /\ IfPool(a, b) \in Step
                            /\ NoRows(IfPool(a, b)) \in Step /\ NoRows(Conn(a)) \in Step
                            /\ Unusable(a) \in Step /\ Ending(IfPool(a, b), "unusable") \in Step
  BY Connections DEF Course, Failures
<1> HIDE DEF courses
<1>2. \A x \in Ready \cup Health \cup Status \cup SpSentiment : GoodPlan(x)
  BY <1>1 DEF Ready, Health, Status, SpSentiment, courses
<1>3. \A x \in MoodNow \cup IntradayIndex \cup ListClusters \cup TopicsIndex : GoodPlan(x)
  BY <1>1 DEF MoodNow, IntradayIndex, ListClusters, TopicsIndex, courses
<1>4. \A x \in Universes \cup Sectors \cup EventStudy \cup Constituents \cup AdminOps \cup Ask : GoodPlan(x)
  BY <1>1 DEF Universes, Sectors, EventStudy, Constituents, AdminOps, Ask, courses
<1>5. \A a \in courses : \A x \in AssetImpacts(a) : GoodPlan(x)
  BY ImpactPlans DEF Course, Failures, courses
<1>6. \A x \in ClusterById \cup ImpactsByCluster : GoodPlan(x)
  <2>1. GoodPlan(<<Conn("error")>>) /\ GoodPlan(<<Conn("error"), Conn("error")>>) /\ GoodPlan(<<Conn("skip")>>)
    BY <1>1 DEF courses
  <2>6. GoodPlan(<<Unusable("error")>>) /\ GoodPlan(<<Unusable("errors")>>)
    BY <1>1 DEF courses
  <2>2. \A q, x : GoodPlan(q) /\ GoodPlan(x) => GoodPlan(q \o x)
    BY DEF GoodPlan
  <2>3. "leave" \in courses /\ "errors" \in courses
    BY DEF courses
  <2> HIDE GoodPlans
  <2>4. \A x \in ClusterById : GoodPlan(x)
    <3>1. \A x \in AssetImpacts("leave") : GoodPlan(x)
      BY <1>5, <2>3
    <3> DEFINE rows == {<<Conn("error")>>, <<Conn("error"), Conn("error")>>}
    <3>2. \A q \in rows : GoodPlan(q)
      BY <2>1
    <3> HIDE DEF rows
    <3>3. ClusterById = {<<Unusable("error")>>} \cup rows \cup {q \o x : q \in rows, x \in AssetImpacts("leave")}
      BY DEF ClusterById, rows
    <3>4. \A y \in {q \o x : q \in rows, x \in AssetImpacts("leave")} :
            \E q \in rows, x \in AssetImpacts("leave") : y = q \o x
      OBVIOUS
    <3>5. ASSUME NEW y \in ClusterById, y \notin rows, y # <<Unusable("error")>> PROVE GoodPlan(y)
      <4>1. PICK q \in rows, x \in AssetImpacts("leave") : y = q \o x
        BY <3>3, <3>4, <3>5
      <4> QED
        BY <2>2, <3>1, <3>2, <4>1
    <3> QED
      BY <2>6, <3>2, <3>5
  <2>5. \A x \in ImpactsByCluster : GoodPlan(x)
    <3>1. \A x \in AssetImpacts("errors") : GoodPlan(x)
      BY <1>5, <2>3
    <3> QED
      BY <2>1, <2>2, <2>6, <3>1 DEF ImpactsByCluster
  <2> QED
    BY <2>4, <2>5
<1>7. ASSUME NEW a \in Step, NoRows(a) \in Step, NEW s \in courses
      PROVE  \A x \in LatestOf(a, s) : GoodPlan(x)
  <2>1. GoodPlan(<<a>>) /\ GoodPlan(<<NoRows(a)>>) /\ GoodPlan(<<a, Unusable(s)>>)
    BY <1>1, <1>7
  <2> QED
    BY <1>5, <2>1 DEF LatestOf, GoodPlan
<1>8. \A x \in LatestImpacts \cup ImpactMarkets : GoodPlan(x)
  BY <1>1, <1>7 DEF LatestImpacts, ImpactMarkets, courses
<1>9. \A x \in Plans[e] : GoodPlan(x) \/ (e \in {"ingest", "backfill"} /\ x = <<>>)
  BY <1>2, <1>3, <1>4, <1>6, <1>8 DEF Plans, Endpoint
<1>10. <<>> \in Plan
  BY DEF Plan
<1> QED
  BY <1>9, <1>10 DEF GoodPlan
-----------------------------------------------------------------------------
(* What the label of a request says of it: an ingest run and a backfill    *)
(* take no connection of a plan, a key is looked up before any work.       *)
Fit(q) ==
  /\ q.kind \in {"read", "ask"} => q.plan # <<>>
  /\ q.pc \in Connecting /\ q.use = "step" => q.kind \in {"read", "ask"}
  /\ q.use \in {"lookup", "stamp"} => q.pc \in Connecting /\ ~q.began
  /\ q.pc = "handle" => q.kind \in Posts /\ ~q.began
  /\ q.use \in {"insert_run", "finish_run"} => q.kind = "backfill" /\ q.began
  /\ q.pc \in {"init", "close", "closing"} => q.kind = "backfill" /\ q.began
  /\ q.pc = "push" => q.kind \in {"ingest", "backfill"} /\ q.began
  /\ q.pc = "store" => q.kind \in Posts

(* A backfill that has called init_pool.                                   *)
Replacing(q) ==
  \/ q.use \in {"insert_run", "finish_run"} \/ q.pc \in {"close", "closing"}
  \/ q.pc = "push" /\ q.kind = "backfill"

(* How a request goes on from a connection: it stays what it was, and it   *)
(* ends there only when it has pushed nothing.                             *)
Follows(q, n) ==
  /\ n \in Active \cup Ended
  /\ n.key = q.key /\ n.kind = q.kind /\ n.beside = q.beside
  /\ n.pc # "done" => /\ n.began = q.began
                      /\ Fit(n)
                      /\ Replacing(n) => Replacing(q)
                      /\ n.pc = "store" => n.kind # "ingest"
  /\ n.pc = "done" => q.kind \in {"read", "ask"} \/ ~q.began

(* It has left the connection.                                             *)
Leaves(q, n) == Follows(q, n) /\ n.pc \notin {"ensure", "create", "waiting", "using"}

Answers == Course \cup Ends \cup {"replay", "refused", "unauthorized", "dropped"}

LEMMA AnsweredType ==
  ASSUME NEW q \in Active, NEW a \in Answers
  PROVE  /\ Answered(q, a) \in Ended
         /\ Answered(q, a).pc = "done" /\ Answered(q, a).key = q.key /\ Answered(q, a).kind = q.kind
         /\ Answered(q, a).beside = q.beside /\ Answered(q, a).answer = a
BY DEF Answered, Active, Ended, Answers

LEMMA AnsweredLeaves ==
  ASSUME NEW q \in Active, NEW a \in Answers, q.kind \in {"read", "ask"} \/ ~q.began
  PROVE  Leaves(q, Answered(q, a))
<1> DEFINE n == Answered(q, a)
<1>1. n \in Ended /\ n.pc = "done" /\ n.key = q.key /\ n.kind = q.kind /\ n.beside = q.beside
  BY AnsweredType
<1> HIDE DEF n
<1>2. Leaves(q, n)
  BY <1>1 DEF Leaves, Follows
<1> QED
  BY <1>2 DEF n

LEMMA AdmittedLeaves ==
  ASSUME NEW q \in Active, Fit(q), q.pc \in Connecting, q.use \in {"lookup", "stamp"}
  PROVE  Leaves(q, Admitted(q))
<1> DEFINE n == Admitted(q)
<1>1. n = [q EXCEPT !.pc = IF q.kind \in Posts THEN "handle" ELSE "connect", !.use = "step"]
  BY DEF Admitted
<1>2. /\ n \in Active /\ n.key = q.key /\ n.kind = q.kind /\ n.beside = q.beside
      /\ n.began = q.began /\ n.plan = q.plan /\ n.use = "step"
      /\ n.pc = IF q.kind \in Posts THEN "handle" ELSE "connect"
  BY <1>1 DEF Active, ActiveLabel, Connecting, Use
<1> HIDE DEF n
<1>3. Fit(n)
  BY <1>2 DEF Fit, Posts, Active, Kind, Connecting
<1>4. Leaves(q, n)
  BY <1>2, <1>3 DEF Leaves, Follows, Replacing
<1> QED
  BY <1>4 DEF n

LEMMA LongTail ==
  ASSUME NEW s \in Seq(Step), Len(s) > 1
  PROVE  Tail(s) \in Seq(Step) /\ Tail(s) # <<>>
<1> DEFINE t == Tail(s)
           n == Len(s)
           m == Len(t)
<1>1. s # <<>> /\ n \in Nat /\ n > 1
  BY EmptySeq, LenProperties
<1>2. t \in Seq(Step) /\ m = n - 1
  BY <1>1, HeadTailProperties
<1> HIDE DEF n
<1>3. m # 0
  <2> HIDE DEF m
  <2> QED
    BY <1>1, <1>2
<1> HIDE DEF t
<1>4. t # <<>>
  BY <1>2, <1>3, EmptySeq
<1> QED
  BY <1>2, <1>4 DEF t

LEMMA EndOfPlan ==
  ASSUME NEW q \in Active, Fit(q), q.kind \in {"read", "ask"}
  PROVE  Head(q.plan).then \in Ends
<1>1. q.plan \in Seq(Step) /\ q.plan # <<>>
  BY DEF Fit, Active, Plan
<1>2. Head(q.plan) \in Step
  BY <1>1, HeadTailProperties
<1> QED
  BY <1>2 DEF Step

LEMMA NextStepLeaves ==
  ASSUME NEW q \in Active, Fit(q), q.pc \in Connecting, q.use = "step"
  PROVE  Leaves(q, NextStep(q))
<1>1. q.kind \in {"read", "ask"}
  BY DEF Fit
<1>2. CASE Len(q.plan) > 1
  <2> DEFINE n == [q EXCEPT !.pc = "connect", !.plan = Tail(@)]
  <2>1. q.plan \in Seq(Step)
    BY DEF Active, Plan
  <2>2. Tail(q.plan) \in Plan /\ Tail(q.plan) # <<>>
    BY <1>2, <2>1, LongTail DEF Plan
  <2>3. /\ n \in Active /\ n.key = q.key /\ n.kind = q.kind /\ n.beside = q.beside
        /\ n.began = q.began /\ n.plan # <<>> /\ n.use = "step" /\ n.pc = "connect"
    BY <2>2 DEF Active, ActiveLabel, Connecting
  <2>4. NextStep(q) = n
    BY <1>2 DEF NextStep
  <2> HIDE DEF n
  <2>5. Leaves(q, n)
    BY <1>1, <2>3 DEF Leaves, Follows, Replacing, Fit, Connecting
  <2> QED
    BY <2>4, <2>5
<1>3. CASE ~(Len(q.plan) > 1) /\ q.kind \in Posts /\ Head(q.plan).then = "ok"
  <2> DEFINE n == [q EXCEPT !.pc = "store"]
  <2>1. /\ n \in Active /\ n.key = q.key /\ n.kind = q.kind /\ n.beside = q.beside
        /\ n.began = q.began /\ n.plan = q.plan /\ n.use = "step" /\ n.pc = "store"
    BY DEF Active, ActiveLabel, Connecting
  <2>2. NextStep(q) = n
    BY <1>3 DEF NextStep
  <2> HIDE DEF n
  <2>3. Leaves(q, n)
    BY <1>1, <1>3, <2>1 DEF Leaves, Follows, Replacing, Fit, Connecting
  <2> QED
    BY <2>2, <2>3
<1>4. CASE ~(Len(q.plan) > 1) /\ ~(q.kind \in Posts /\ Head(q.plan).then = "ok")
  <2> DEFINE a == Head(q.plan).then
  <2>2. a \in Answers
    BY <1>1, EndOfPlan DEF Answers
  <2>1. NextStep(q) = Answered(q, a)
    BY <1>4 DEF NextStep
  <2> QED
    BY <1>1, <2>1, <2>2, AnsweredLeaves
<1> QED
  BY <1>2, <1>3, <1>4

LEMMA SkipOrLeaves ==
  ASSUME NEW q \in Active, Fit(q), q.pc \in Connecting, q.use = "step", NEW a \in Course
  PROVE  Leaves(q, SkipOr(q, a))
<1>1. q.kind \in {"read", "ask"} /\ q.plan # <<>> /\ q.plan \in Seq(Step)
  BY DEF Fit, Active, Plan
<1>2. CASE a = "skip"
  BY <1>2, NextStepLeaves DEF SkipOr
<1>3. CASE a = "leave"
  <2> DEFINE n == [q EXCEPT !.plan = <<Head(@)>>]
  <2>1. <<Head(q.plan)>> \in Plan /\ <<Head(q.plan)>> # <<>>
    BY <1>1, HeadTailProperties DEF Plan
  <2>2. /\ n \in Active /\ n.key = q.key /\ n.kind = q.kind /\ n.beside = q.beside
        /\ n.began = q.began /\ n.plan # <<>> /\ n.use = "step" /\ n.pc = q.pc
    BY <2>1 DEF Active
  <2>3. SkipOr(q, a) = NextStep(n)
    BY <1>3 DEF SkipOr
  <2> HIDE DEF n
  <2>4. Fit(n)
    BY <1>1, <2>2 DEF Fit, Connecting
  <2>5. Leaves(n, NextStep(n))
    BY <2>2, <2>4, NextStepLeaves
  <2>6. Leaves(q, NextStep(n))
    BY <1>1, <2>2, <2>5 DEF Leaves, Follows, Replacing
  <2> QED
    BY <2>3, <2>6
<1>4. CASE a \notin {"skip", "leave"}
  <2>1. SkipOr(q, a) = Answered(q, a) /\ a \in Answers
    BY <1>4 DEF SkipOr, Answers
  <2> QED
    BY <1>1, <2>1, AnsweredLeaves
<1> QED
  BY <1>2, <1>3, <1>4

(* The connection of a backfill's run.                                     *)
LEMMA RunLeaves ==
  ASSUME NEW q \in Active, Fit(q), q.use \in {"insert_run", "finish_run"},
         NEW l \in {"push", "close"}
  PROVE  Leaves(q, [q EXCEPT !.pc = l, !.run = TRUE]) /\ Leaves(q, [q EXCEPT !.pc = l])
<1>1. ASSUME NEW n \in Active, n.key = q.key, n.kind = q.kind, n.beside = q.beside,
             n.began = q.began, n.plan = q.plan, n.use = q.use, n.pc = l
      PROVE  Leaves(q, n)
  BY <1>1 DEF Leaves, Follows, Replacing, Fit, Connecting, Posts
<1> DEFINE n == [q EXCEPT !.pc = l, !.run = TRUE]
           m == [q EXCEPT !.pc = l]
<1>2. /\ n \in Active /\ n.key = q.key /\ n.kind = q.kind /\ n.beside = q.beside
      /\ n.began = q.began /\ n.plan = q.plan /\ n.use = q.use /\ n.pc = l
  BY DEF Active, ActiveLabel, Connecting
<1>3. /\ m \in Active /\ m.key = q.key /\ m.kind = q.kind /\ m.beside = q.beside
      /\ m.began = q.began /\ m.plan = q.plan /\ m.use = q.use /\ m.pc = l
  BY DEF Active, ActiveLabel, Connecting
<1> HIDE DEF n, m
<1>4. Leaves(q, n) /\ Leaves(q, m)
  BY <1>1, <1>2, <1>3
<1> QED
  BY <1>4 DEF n, m

LEMMA StampLeaves ==
  ASSUME NEW q \in Active, Fit(q), q.pc \in Connecting, q.use = "lookup"
  PROVE  Leaves(q, [q EXCEPT !.pc = "connect", !.use = "stamp"])
<1> DEFINE n == [q EXCEPT !.pc = "connect", !.use = "stamp"]
<1>1. /\ n \in Active /\ n.key = q.key /\ n.kind = q.kind /\ n.beside = q.beside
      /\ n.began = q.began /\ n.plan = q.plan /\ n.use = "stamp" /\ n.pc = "connect"
  BY DEF Active, ActiveLabel, Connecting, Use
<1> HIDE DEF n
<1>2. Leaves(q, n)
  BY <1>1 DEF Leaves, Follows, Replacing, Fit, Connecting
<1> QED
  BY <1>2 DEF n

(* Without a pool a request goes on as after an exception, or its key is   *)
(* refused.                                                                *)
LEMMA UnreadyIs ==
  ASSUME NEW q, NEW n \in Unready(q)
  PROVE  n = Raised(q) \/ (q.use = "lookup" /\ n = Answered(q, "unauthorized"))
BY DEF Unready

(* Wherever a connection ends, and however.                                *)
LEMMA ConnectionLeaves ==
  ASSUME NEW q \in Active, Fit(q), q.pc \in Connecting
  PROVE  /\ Leaves(q, Returned(q)) /\ Leaves(q, Raised(q))
         /\ \A n \in Unready(q) : Leaves(q, n)
         /\ NoPool(q) # "connect" => Leaves(q, SkipOr(q, NoPool(q)))
<1>1. "unauthorized" \in Answers /\ "unavailable" \in Answers
  BY DEF Answers, Course, Failures
<1>2. CASE q.use = "lookup"
  <2>1. ~q.began
    BY <1>2 DEF Fit
  <2>3. Leaves(q, Answered(q, "unauthorized")) /\ Leaves(q, Answered(q, "unavailable"))
    BY <1>1, <2>1, AnsweredLeaves
  <2>4. Leaves(q, [q EXCEPT !.pc = "connect", !.use = "stamp"])
    BY <1>2, StampLeaves
  <2>2. NoPool(q) = "connect" /\ Raised(q) = Answered(q, "unavailable")
        /\ Returned(q) = IF q.bad THEN Answered(q, "unauthorized")
                         ELSE [q EXCEPT !.pc = "connect", !.use = "stamp"]
    BY <1>2 DEF NoPool, Raised, Returned
  <2> QED
    BY <2>2, <2>3, <2>4, UnreadyIs
<1>3. CASE q.use = "stamp"
  <2>1. NoPool(q) = "connect" /\ Raised(q) = Admitted(q)
        /\ Returned(q) = Admitted(q)
    BY <1>3 DEF NoPool, Raised, Returned
  <2> QED
    BY <1>3, <2>1, AdmittedLeaves, UnreadyIs
<1>4. CASE q.use = "insert_run"
  <2>1. Raised(q) = [q EXCEPT !.pc = "push"]
    BY <1>4 DEF Raised
  <2>2. Returned(q) = [q EXCEPT !.pc = "push", !.run = TRUE]
    BY <1>4 DEF Returned
  <2>3. NoPool(q) = "connect"
    BY <1>4 DEF NoPool
  <2>4. Leaves(q, Returned(q)) /\ Leaves(q, Raised(q))
    BY <1>4, <2>1, <2>2, RunLeaves
  <2> QED
    BY <1>4, <2>3, <2>4, UnreadyIs
<1>5. CASE q.use = "finish_run"
  <2>1. NoPool(q) = "connect" /\ Raised(q) = [q EXCEPT !.pc = "close"]
        /\ Returned(q) = [q EXCEPT !.pc = "close"]
    BY <1>5 DEF NoPool, Raised, Returned
  <2>2. Leaves(q, [q EXCEPT !.pc = "close"])
    BY <1>5, RunLeaves
  <2> QED
    BY <1>5, <2>1, <2>2, UnreadyIs
<1>6. CASE q.use = "step"
  <2>1. Head(q.plan) \in Step
    BY <1>6, HeadTailProperties DEF Fit, Active, Plan
  <2>2. Head(q.plan).onError \in Course /\ Head(q.plan).noPool \in Course
    BY <2>1 DEF Step
  <2>3. NoPool(q) = Head(q.plan).noPool /\ Raised(q) = SkipOr(q, Head(q.plan).onError)
        /\ Returned(q) = NextStep(q)
    BY <1>6 DEF NoPool, Raised, Returned
  <2> QED
    BY <1>6, <2>2, <2>3, NextStepLeaves, SkipOrLeaves, UnreadyIs
<1> QED
  BY <1>2, <1>3, <1>4, <1>5, <1>6 DEF Active, Use
-----------------------------------------------------------------------------
(* The requests and what they leave behind.                                *)
LedgerTypes ==
  /\ req \in [Request -> {Idle} \cup Active \cup Ended]
  /\ stored \in [Key -> Request \cup {Nobody}]
  /\ pushed \in [Request -> 0..Items]
  /\ blind \in SUBSET Request
  /\ replaced \in BOOLEAN

Fits ==
  \A r \in Request : InProgress(r) => Fit(req[r]) /\ (Replacing(req[r]) => replaced)

(* Only an ingest run and a backfill push, and only once they have begun;  *)
(* an ingest run stores its answer when it has pushed all.                 *)
PushesAreOfWork ==
  \A r \in Request :
    /\ pushed[r] > 0 => /\ req[r].pc # "idle" /\ req[r].kind \in {"ingest", "backfill"}
                        /\ InProgress(r) => req[r].began
    /\ At(r, "store") /\ req[r].kind = "ingest" => pushed[r] = Items

(* Who has worked and is done has an answer under its key, his own or      *)
(* another's; of two who are at work, or were, one saw the other.          *)
AtWork(r) == (InProgress(r) /\ req[r].began) \/ Worked(r)

AnswersAreKept ==
  \A r \in Request :
    At(r, "done") /\ Worked(r) /\ req[r].key # NoKey
      => r \in blind \/ stored[req[r].key] # Nobody

WorkersSeeEachOther ==
  \A r, q \in Request :
    r # q /\ AtWork(r) /\ AtWork(q) /\ req[r].key = req[q].key /\ req[r].key # NoKey
      => q \in req[r].beside \/ r \in req[q].beside \/ {r, q} \cap blind # {}

Ledger ==
  /\ LedgerTypes /\ Fits /\ PushesAreOfWork
  /\ StoredAnswersAreOfDoneWork /\ AnswersAreKept /\ WorkersSeeEachOther

LEMMA Progress ==
  ASSUME LedgerTypes, NEW r \in Request
  PROVE  /\ InProgress(r) => req[r] \in Active
         /\ req[r].pc = "done" => req[r] \in Ended
         /\ req[r].pc = "idle" => req[r] = Idle
BY DEF LedgerTypes, InProgress, Idle, Active, Ended, ActiveLabel, Connecting

(* A request goes on with the work it has begun, or ends it.               *)
LEMMA GoesOn ==
  ASSUME Ledger, NEW r \in Request, InProgress(r), NEW n \in Active \cup Ended, Set(r, n),
         n.key = req[r].key, n.kind = req[r].kind, n.beside = req[r].beside,
         n.pc # "done" => /\ n.began = req[r].began /\ Fit(n) /\ (Replacing(n) => replaced')
                          /\ n.pc = "store" /\ n.kind = "ingest" => pushed[r] = Items,
         n.pc = "done" => \/ pushed[r] = 0 \/ n.key = NoKey
                          \/ r \in blind' \/ stored'[n.key] # Nobody,
         \/ stored' = stored
         \/ /\ n.pc = "done" /\ (n.kind = "ingest" => pushed[r] = Items)
            /\ \E k \in Key : stored' = [stored EXCEPT ![k] = r],
         pushed' = pushed, blind \subseteq blind', blind' \in SUBSET Request,
         replaced => replaced', replaced' \in BOOLEAN
  PROVE  Ledger'
<1> USE DEF Ledger
<1>1. req[r] \in Active /\ req[r].pc \notin {"idle", "done"}
  BY Progress DEF InProgress
<1>2. n.pc # "idle" /\ req'[r] = n /\ \A v \in Request : v # r => req'[v] = req[v]
  BY DEF Set, LedgerTypes, Active, Ended, ActiveLabel, Connecting
<1>3. LedgerTypes'
  <2>1. stored' \in [Key -> Request \cup {Nobody}]
    BY DEF LedgerTypes
  <2> QED
    BY <2>1 DEF LedgerTypes, Set
<1>4. Fits'
  BY <1>2 DEF Fits, InProgress
<1>5. PushesAreOfWork'
  <2>1. ASSUME NEW v \in Request
        PROVE  /\ pushed'[v] > 0 => /\ req'[v].pc # "idle" /\ req'[v].kind \in {"ingest", "backfill"}
                                    /\ InProgress(v)' => req'[v].began
               /\ At(v, "store")' /\ req'[v].kind = "ingest" => pushed'[v] = Items
    <3>1. CASE v = r
      BY <1>2, <3>1 DEF PushesAreOfWork, InProgress, At
    <3>2. CASE v # r
      BY <1>2, <3>2 DEF PushesAreOfWork, InProgress, At
    <3> QED
      BY <3>1, <3>2
  <2> QED
    BY <2>1 DEF PushesAreOfWork
<1>6. StoredAnswersAreOfDoneWork'
  <2>1. ASSUME NEW k \in Key, NEW v \in Request, stored'[k] = v
        PROVE  req'[v].pc = "done" /\ (req'[v].kind = "ingest" => pushed[v] = Items)
    <3>1. CASE stored[k] = v
      <4>1. req[v].pc = "done" /\ (req[v].kind = "ingest" => pushed[v] = Items)
        BY <3>1 DEF StoredAnswersAreOfDoneWork, At
      <4> QED
        BY <1>1, <1>2, <4>1
    <3>2. CASE stored[k] # v
      <4>1. v = r /\ n.pc = "done" /\ (n.kind = "ingest" => pushed[r] = Items)
        BY <2>1, <3>2 DEF LedgerTypes
      <4> QED
        BY <1>2, <4>1
    <3> QED
      BY <3>1, <3>2
  <2>2. \A k \in Key : stored'[k] # Nobody => stored'[k] \in Request
    BY <1>3 DEF LedgerTypes
  <2> QED
    BY <2>1, <2>2 DEF StoredAnswersAreOfDoneWork, At
<1>7. \A k \in Key : stored[k] # Nobody => stored'[k] # Nobody
  BY DEF LedgerTypes
<1>8. AnswersAreKept'
  <2>1. ASSUME NEW v \in Request, At(v, "done")', Worked(v)', req'[v].key # NoKey
        PROVE  v \in blind' \/ stored'[req'[v].key] # Nobody
    <3>1. CASE v = r
      BY <1>2, <2>1, <3>1 DEF At, Worked, LedgerTypes
    <3>2. CASE v # r
      <4>1. req[v].key \in Key
        BY <1>2, <2>1, <3>2, Progress DEF At, Ended
      <4> QED
        BY <1>2, <1>7, <2>1, <3>2, <4>1 DEF At, Worked, AnswersAreKept
    <3> QED
      BY <3>1, <3>2
  <2> QED
    BY <2>1 DEF AnswersAreKept
<1>9. WorkersSeeEachOther'
  <2>1. \A v \in Request : AtWork(v)' => AtWork(v)
    BY <1>1, <1>2 DEF AtWork, InProgress, Worked
  <2>2. \A v \in Request : (req'[v].key = req[v].key /\ req'[v].beside = req[v].beside) \/ v # r
    BY <1>2
  <2>3. \A v \in Request : req'[v].key = req[v].key /\ req'[v].beside = req[v].beside
    BY <1>2, <2>2
  <2> QED
    BY <2>1, <2>3 DEF WorkersSeeEachOther
<1> QED
  BY <1>3, <1>4, <1>5, <1>6, <1>8, <1>9

(* What a connection leads to.                                             *)
LEMMA FollowsGoesOn ==
  ASSUME Ledger, NEW r \in Request, InProgress(r), NEW n, Set(r, n), Follows(req[r], n),
         UNCHANGED <<stored, pushed, replaced, blind>>
  PROVE  Ledger'
<1>1. req[r] \in Active
  BY Progress DEF Ledger
<1>2. n.pc = "done" => pushed[r] = 0
  BY DEF Ledger, LedgerTypes, PushesAreOfWork, Follows
<1>3. Replacing(n) /\ n.pc # "done" => replaced'
  BY DEF Ledger, Fits, Follows
<1>4. blind \subseteq blind' /\ blind' \in SUBSET Request /\ replaced' \in BOOLEAN
      /\ (replaced => replaced')
  BY DEF Ledger, LedgerTypes
<1>5. /\ n \in Active \cup Ended /\ n.key = req[r].key /\ n.kind = req[r].kind
      /\ n.beside = req[r].beside
      /\ n.pc # "done" => n.began = req[r].began /\ Fit(n) /\ (n.pc = "store" => n.kind # "ingest")
  BY DEF Follows
<1>6. n.pc # "done" => /\ n.began = req[r].began /\ Fit(n) /\ (Replacing(n) => replaced')
                       /\ n.pc = "store" /\ n.kind = "ingest" => pushed[r] = Items
  BY <1>3, <1>5
<1> QED
  BY <1>2, <1>4, <1>5, <1>6, GoesOn

(* Where a connection is taken or waited for.                              *)
LEMMA Moves ==
  ASSUME NEW q \in Active, Fit(q), q.pc \in Connecting, NEW l \in Connecting, NEW p \in 0..MaxPool
  PROVE  Follows(q, [q EXCEPT !.pc = l, !.pool = p]) /\ Follows(q, [q EXCEPT !.pc = l])
<1>1. ASSUME NEW n \in Active, n.key = q.key, n.kind = q.kind, n.beside = q.beside,
             n.began = q.began, n.plan = q.plan, n.use = q.use, n.pc = l
      PROVE  Follows(q, n)
  BY <1>1 DEF Follows, Replacing, Fit, Connecting
<1> DEFINE n == [q EXCEPT !.pc = l, !.pool = p]
           m == [q EXCEPT !.pc = l]
<1>2. /\ n \in Active /\ n.key = q.key /\ n.kind = q.kind /\ n.beside = q.beside
      /\ n.began = q.began /\ n.plan = q.plan /\ n.use = q.use /\ n.pc = l
  BY DEF Active, ActiveLabel
<1>3. /\ m \in Active /\ m.key = q.key /\ m.kind = q.kind /\ m.beside = q.beside
      /\ m.began = q.began /\ m.plan = q.plan /\ m.use = q.use /\ m.pc = l
  BY DEF Active, ActiveLabel
<1> HIDE DEF n, m
<1>4. Follows(q, n) /\ Follows(q, m)
  BY <1>1, <1>2, <1>3
<1> QED
  BY <1>4 DEF n, m

(* The pools of the process.                                               *)
PoolTypes ==
  /\ up \in BOOLEAN
  /\ pool \in 0..MaxPool
  /\ status \in [1..MaxPool -> {"unused", "open", "closing", "closed"}]
  /\ lock \in Request \cup {Nobody}
  /\ faults \in Nat

(* Nothing is being served by a process that is down; the lock is held by  *)
(* whoever creates a pool, and only while there is none; the global pool   *)
(* is the open one; and in a process that has met no failure it is there,  *)
(* and it is the one every waiting request waits for.                      *)
PoolInv ==
  /\ PoolTypes
  /\ ~up => pool = 0 /\ lock = Nobody /\ \A r \in Request : ~InProgress(r)
  /\ \A r \in Request : At(r, "create") => lock = r
  /\ ~replaced => /\ \A p \in 1..MaxPool : status[p] = "open" <=> p = pool
                  /\ lock # Nobody => pool = 0
  /\ ~replaced /\ faults = 0 =>
       /\ up => pool # 0
       /\ \A r \in Request : At(r, "waiting") => req[r].pool = pool

IInv == Ledger /\ PoolInv /\ OutagesHaveACause

LEMMA TakingFollows ==
  ASSUME IInv, NEW r \in Request, At(r, "connect") \/ At(r, "ensure") \/ At(r, "waiting"),
         NEW p \in 0..MaxPool, TakeFrom(r, p)
  PROVE  \E n : /\ Set(r, n) /\ Follows(req[r], n) /\ n.pc \notin {"create", "ensure"}
                /\ n.pc = "waiting" => n.pool = p
                /\ n.pc = "done" => status[p] # "open"
<1>1. InProgress(r) /\ req[r].pc \in Connecting
  BY DEF InProgress, At, Connecting
<1>2. req[r] \in Active /\ Fit(req[r])
  BY <1>1, Progress DEF IInv, Ledger, Fits
<1>3. ASSUME NEW l \in {"using", "waiting"}, Set(r, [req[r] EXCEPT !.pc = l, !.pool = p])
      PROVE  \E n : /\ Set(r, n) /\ Follows(req[r], n) /\ n.pc \notin {"create", "ensure"}
                    /\ n.pc = "waiting" => n.pool = p
                    /\ n.pc # "done"
  <2> DEFINE n == [req[r] EXCEPT !.pc = l, !.pool = p]
  <2>1. n.pc = l /\ n.pool = p
    BY <1>2 DEF Active
  <2>2. Follows(req[r], n)
    BY <1>1, <1>2, Moves DEF Connecting
  <2> HIDE DEF n
  <2>3. Set(r, n)
    BY <1>3 DEF n
  <2> QED
    BY <2>1, <2>2, <2>3
<1>4. CASE status[p] # "open" /\ Set(r, Raised(req[r]))
  <2>1. Leaves(req[r], Raised(req[r]))
    BY <1>1, <1>2, ConnectionLeaves
  <2> QED
    BY <1>4, <2>1 DEF Leaves
<1> QED
  BY <1>3, <1>4 DEF TakeFrom

(* Steps of a request that leave the pools and the lock alone.             *)
LEMMA PoolGoesOn ==
  ASSUME IInv, NEW r \in Request, InProgress(r), NEW n \in Active \cup Ended, Set(r, n),
         UNCHANGED <<up, pool, status, lock>>,
         faults' \in Nat, faults' = 0 => faults = 0, replaced => replaced',
         n.pc = "create" => lock = r,
         n.pc = "waiting" => n.pool = pool \/ faults' # 0 \/ replaced',
         n.pc = "done" /\ n.answer \in Failures \cup {"dropped"} => faults' # 0 \/ replaced'
  PROVE  PoolInv' /\ OutagesHaveACause'
<1>1. n.pc # "idle" /\ req'[r] = n /\ \A v \in Request : v # r => req'[v] = req[v]
  BY DEF Set, IInv, Ledger, LedgerTypes, Active, Ended, ActiveLabel, Connecting
<1>2. PoolInv'
  <2>1. PoolTypes'
    BY DEF IInv, PoolInv, PoolTypes
  <2>2. up
    BY DEF IInv, PoolInv
  <2>3. \A v \in Request : At(v, "create")' => lock' = v
    BY <1>1 DEF IInv, PoolInv, At
  <2>4. ~replaced' => /\ \A p \in 1..MaxPool : status'[p] = "open" <=> p = pool'
                      /\ lock' # Nobody => pool' = 0
    BY DEF IInv, PoolInv
  <2>5. ~replaced' /\ faults' = 0 =>
          /\ up' => pool' # 0
          /\ \A v \in Request : At(v, "waiting")' => req'[v].pool = pool'
    BY <1>1 DEF IInv, PoolInv, At
  <2> QED
    BY <2>1, <2>2, <2>3, <2>4, <2>5 DEF PoolInv
<1>3. OutagesHaveACause'
  <2>1. ASSUME NEW v \in Request, At(v, "done")', req'[v].answer \in Failures \cup {"dropped"}
        PROVE  faults' # 0 \/ replaced'
    <3>1. CASE v = r
      BY <1>1, <2>1, <3>1 DEF At
    <3>2. CASE v # r
      <4>1. faults > 0 \/ replaced
        BY <1>1, <2>1, <3>2 DEF At, IInv, OutagesHaveACause
      <4> QED
        BY <4>1
    <3> QED
      BY <3>1, <3>2
  <2>2. faults' # 0 => faults' > 0
    OBVIOUS
  <2> QED
    BY <2>1, <2>2 DEF OutagesHaveACause, At
<1> QED
  BY <1>2, <1>3

(* A pool is made where there is none.                                     *)
LEMMA PoolMade ==
  ASSUME IInv, InstallPool, pool = 0, up' = TRUE, UNCHANGED <<faults, replaced>>,
         lock' = Nobody, req' \in [Request -> {Idle} \cup Active \cup Ended],
         \A v \in Request : ~At(v, "create")',
         \A v \in Request : At(v, "waiting")' => At(v, "waiting") /\ req'[v] = req[v],
         \A v \in Request : At(v, "done")' => At(v, "done") /\ req'[v] = req[v]
  PROVE  PoolInv' /\ OutagesHaveACause'
<1> DEFINE p == NextPool
<1>1. p \in 1..MaxPool /\ pool' = p /\ status' = [status EXCEPT ![p] = "open"]
  BY DEF InstallPool
<1> HIDE DEF p
<1>2. PoolTypes'
  BY <1>1 DEF IInv, PoolInv, PoolTypes
<1>3. ~replaced' => \A x \in 1..MaxPool : status'[x] = "open" <=> x = pool'
  BY <1>1 DEF IInv, PoolInv, PoolTypes
<1>4. ~replaced' /\ faults' = 0 => \A v \in Request : ~At(v, "waiting")'
  <2>1. ASSUME ~replaced, faults = 0, NEW v \in Request, At(v, "waiting")
        PROVE  FALSE
    <3>1. up /\ pool # 0
      BY <2>1 DEF IInv, PoolInv, InProgress, At
    <3> QED
      BY <3>1
  <2> QED
    BY <2>1
<1>5. PoolInv'
  BY <1>1, <1>2, <1>3, <1>4 DEF PoolInv
<1>6. OutagesHaveACause'
  BY DEF IInv, OutagesHaveACause, At
<1> QED
  BY <1>5, <1>6

(* The lock is taken by a request that finds no pool.                      *)
LEMMA LockTaken ==
  ASSUME IInv, NEW r \in Request, At(r, "connect") \/ At(r, "ensure"),
         pool = 0, lock = Nobody, lock' = r, Goto(r, "create"),
         UNCHANGED <<up, pool, status, stored, pushed, replaced, blind, faults>>
  PROVE  IInv'
<1>1. InProgress(r) /\ req[r].pc \in Connecting
  BY DEF InProgress, At, Connecting
<1>2. req[r] \in Active /\ Fit(req[r])
  BY <1>1, Progress DEF IInv, Ledger, Fits
<1> DEFINE n == [req[r] EXCEPT !.pc = "create"]
<1>3. n.pc = "create"
  BY <1>2 DEF Active
<1>4. Follows(req[r], n)
  BY <1>1, <1>2, Moves DEF Connecting, IInv, PoolInv, PoolTypes
<1>5. Set(r, n)
  BY DEF Goto
<1> HIDE DEF n
<1>6. Ledger'
  BY <1>1, <1>4, <1>5, FollowsGoesOn DEF IInv
<1>7. req'[r] = n /\ \A v \in Request : v # r => req'[v] = req[v]
  BY <1>5 DEF Set, IInv, Ledger, LedgerTypes
<1>8. PoolInv'
  <2>1. PoolTypes' /\ up
    BY <1>1 DEF IInv, PoolInv, PoolTypes
  <2>2. \A v \in Request : At(v, "create")' => lock' = v
    BY <1>7, ApiAssumption DEF IInv, PoolInv, At
  <2>3. ~replaced' => /\ \A p \in 1..MaxPool : status'[p] = "open" <=> p = pool'
                      /\ lock' # Nobody => pool' = 0
    BY DEF IInv, PoolInv
  <2>4. ~(~replaced /\ faults = 0)
    BY <2>1 DEF IInv, PoolInv
  <2> QED
    BY <2>1, <2>2, <2>3, <2>4 DEF PoolInv
<1>9. OutagesHaveACause'
  BY <1>3, <1>7 DEF IInv, OutagesHaveACause, At
<1> QED
  BY <1>6, <1>8, <1>9 DEF IInv
-----------------------------------------------------------------------------
(* What the healthy end of a connection answers.                           *)
LEMMA ReturnedAnswers ==
  ASSUME NEW q \in Active, Fit(q), q.pc = "using", Returned(q).pc = "done"
  PROVE  Returned(q).answer \in {"unauthorized"} \cup Ends
<1>1. \A a : Answered(q, a).answer = a
  BY DEF Answered
<1>2. CASE q.use = "lookup"
  <2>1. Returned(q) = IF q.bad THEN Answered(q, "unauthorized")
                      ELSE [q EXCEPT !.pc = "connect", !.use = "stamp"]
    BY <1>2 DEF Returned
  <2>2. [q EXCEPT !.pc = "connect", !.use = "stamp"].pc = "connect"
    BY DEF Active
  <2> QED
    BY <1>1, <2>1, <2>2
<1>3. CASE q.use = "stamp"
  <2>1. Returned(q) = Admitted(q)
    BY <1>3 DEF Returned
  <2>2. Admitted(q).pc # "done"
    BY DEF Admitted, Active
  <2> QED
    BY <2>1, <2>2
<1>4. CASE q.use = "insert_run"
  <2>1. Returned(q) = [q EXCEPT !.pc = "push", !.run = TRUE]
    BY <1>4 DEF Returned
  <2> QED
    BY <2>1 DEF Active
<1>5. CASE q.use = "finish_run"
  <2>1. Returned(q) = [q EXCEPT !.pc = "close"]
    BY <1>5 DEF Returned
  <2> QED
    BY <2>1 DEF Active
<1>6. CASE q.use = "step"
  <2>1. Returned(q) = NextStep(q)
    BY <1>6 DEF Returned
  <2>2. CASE Len(q.plan) > 1
    <3>1. NextStep(q).pc = "connect"
      BY <2>2 DEF NextStep, Active
    <3> QED
      BY <2>1, <3>1
  <2>3. CASE ~(Len(q.plan) > 1)
    <3>1. NextStep(q) = [q EXCEPT !.pc = "store"] \/ NextStep(q) = Answered(q, Head(q.plan).then)
      BY <2>3 DEF NextStep
    <3>2. [q EXCEPT !.pc = "store"].pc = "store"
      BY DEF Active
    <3>3. Head(q.plan).then \in Ends
      BY <1>6, EndOfPlan DEF Fit, Connecting
    <3> QED
      BY <1>1, <2>1, <3>1, <3>2, <3>3
  <2> QED
    BY <2>2, <2>3
<1> QED
  BY <1>2, <1>3, <1>4, <1>5, <1>6 DEF Active, Use

(* A request goes on from a connection.                                    *)
LEMMA FollowsKeepsAll ==
  ASSUME IInv, NEW r \in Request, InProgress(r), NEW n, Set(r, n), Follows(req[r], n),
         UNCHANGED <<up, pool, status, lock, stored, pushed, replaced, blind>>,
         faults' = faults \/ (faults' = faults + 1),
         n.pc \in {"create", "waiting"} => n.pc = "waiting" /\ (n.pool = pool \/ faults' # 0 \/ replaced),
         n.pc = "done" /\ n.answer \in Failures \cup {"dropped"} => faults' # 0 \/ replaced
  PROVE  IInv'
<1>1. Ledger'
  BY FollowsGoesOn DEF IInv
<1>2. n \in Active \cup Ended
  BY DEF Follows
<1>3. faults \in Nat
  BY DEF IInv, PoolInv, PoolTypes
<1>4. PoolInv' /\ OutagesHaveACause'
  BY <1>2, <1>3, PoolGoesOn
<1> QED
  BY <1>1, <1>4 DEF IInv

LEMMA TakingKeepsAll ==
  ASSUME IInv, NEW r \in Request, At(r, "connect") \/ At(r, "ensure") \/ At(r, "waiting"),
         NEW p \in 0..MaxPool, TakeFrom(r, p),
         p = pool \/ (At(r, "waiting") /\ p = req[r].pool),
         UNCHANGED <<up, pool, status, lock, stored, pushed, replaced, blind, faults>>
  PROVE  IInv'
<1>2. PICK n : /\ Set(r, n) /\ Follows(req[r], n) /\ n.pc \notin {"create", "ensure"}
               /\ n.pc = "waiting" => n.pool = p
               /\ n.pc = "done" => status[p] # "open"
  BY TakingFollows
<1>3. faults \in Nat
  BY DEF IInv, PoolInv, PoolTypes
<1>5. InProgress(r)
  BY DEF InProgress, At
<1>4. ~replaced /\ faults = 0 => p = pool /\ status[p] = "open"
  <2>1. ASSUME ~replaced, faults = 0 PROVE p = pool /\ up /\ pool # 0
    BY <1>5, <2>1 DEF IInv, PoolInv
  <2>2. pool \in 0..MaxPool
    BY DEF IInv, PoolInv, PoolTypes
  <2>3. ~replaced => \A x \in 1..MaxPool : x = pool => status[x] = "open"
    BY DEF IInv, PoolInv
  <2> QED
    BY <2>1, <2>2, <2>3
<1> QED
  BY <1>2, <1>4, <1>5, FollowsKeepsAll

LEMMA AcquireStep ==
  ASSUME IInv, NEW r \in Request, Acquire(r)
  PROVE  IInv'
<1>1. At(r, "connect") /\ InProgress(r) /\ req[r].pc \in Connecting /\ up
  BY DEF Acquire, InProgress, At, Connecting, IInv, PoolInv
<1>2. req[r] \in Active /\ Fit(req[r])
  BY <1>1, Progress DEF IInv, Ledger, Fits
<1>3. UNCHANGED <<up, pool, status, stored, pushed, replaced, blind, faults>>
  BY DEF Acquire
<1>4. pool \in 0..MaxPool /\ faults \in Nat
  BY DEF IInv, PoolInv, PoolTypes
<1>5. CASE pool # 0 /\ TakeFrom(r, pool) /\ UNCHANGED lock
  <2>1. pool \in 1..MaxPool
    BY <1>4, <1>5
  <2> QED
    BY <1>1, <1>3, <1>5, <2>1, TakingKeepsAll
<1>6. CASE /\ pool = 0 /\ NoPool(req[r]) # "connect"
           /\ Set(r, SkipOr(req[r], NoPool(req[r]))) /\ UNCHANGED lock
  <2> DEFINE n == SkipOr(req[r], NoPool(req[r]))
  <2>1. Leaves(req[r], n)
    BY <1>1, <1>2, <1>6, ConnectionLeaves
  <2>2. Set(r, n)
    BY <1>6
  <2> HIDE DEF n
  <2>3. faults # 0 \/ replaced
    BY <1>1, <1>6 DEF IInv, PoolInv
  <2> QED
    BY <1>1, <1>3, <1>6, <2>1, <2>2, <2>3, FollowsKeepsAll DEF Leaves
<1>7. CASE pool = 0 /\ lock = Nobody /\ lock' = r /\ Goto(r, "create")
  BY <1>1, <1>3, <1>7, LockTaken
<1>8. CASE pool = 0 /\ Goto(r, "ensure") /\ UNCHANGED lock
  <2> DEFINE n == [req[r] EXCEPT !.pc = "ensure"]
  <2>1. n.pc = "ensure" /\ Set(r, n)
    BY <1>2, <1>8 DEF Active, Goto
  <2>2. Follows(req[r], n)
    BY <1>1, <1>2, <1>4, Moves DEF Connecting
  <2> HIDE DEF n
  <2> QED
    BY <1>1, <1>3, <1>8, <2>1, <2>2, FollowsKeepsAll
<1> QED
  BY <1>5, <1>6, <1>7, <1>8 DEF Acquire

LEMMA EnsurePoolStep ==
  ASSUME IInv, NEW r \in Request, EnsurePool(r)
  PROVE  IInv'
<1>1. At(r, "ensure") /\ lock = Nobody
  BY DEF EnsurePool
<1>2. UNCHANGED <<up, pool, status, stored, pushed, replaced, blind, faults>>
  BY DEF EnsurePool
<1>3. CASE pool # 0 /\ TakeFrom(r, pool) /\ UNCHANGED lock
  <2>1. pool \in 1..MaxPool
    BY <1>3 DEF IInv, PoolInv, PoolTypes
  <2> QED
    BY <1>1, <1>2, <1>3, <2>1, TakingKeepsAll
<1>4. CASE pool = 0 /\ lock' = r /\ Goto(r, "create")
  BY <1>1, <1>2, <1>4, LockTaken
<1> QED
  BY <1>3, <1>4 DEF EnsurePool

LEMMA CreatePoolStep ==
  ASSUME IInv, NEW r \in Request, CreatePool(r)
  PROVE  IInv'
<1>1. At(r, "create") /\ InProgress(r) /\ req[r].pc \in Connecting /\ up /\ lock = r
  BY DEF CreatePool, InProgress, At, Connecting, IInv, PoolInv
<1>2. req[r] \in Active /\ Fit(req[r])
  BY <1>1, Progress DEF IInv, Ledger, Fits
<1>3. lock' = Nobody /\ UNCHANGED <<up, stored, pushed, replaced, blind>>
  BY DEF CreatePool
<1>4. \A v \in Request : At(v, "create") => v = r
  BY <1>1 DEF IInv, PoolInv
<1>5. ~replaced => pool = 0
  BY <1>1, ApiAssumption DEF IInv, PoolInv
<1>6. CASE /\ InstallPool /\ UNCHANGED faults
           /\ Set(r, [req[r] EXCEPT !.pc = "using", !.pool = NextPool])
  <2> DEFINE p == NextPool
             n == [req[r] EXCEPT !.pc = "using", !.pool = p]
  <2>1. p \in 1..MaxPool /\ pool' = p /\ status' = [status EXCEPT ![p] = "open"]
    BY <1>6 DEF InstallPool
  <2>2. Set(r, n)
    BY <1>6
  <2> HIDE DEF p
  <2>3. p \in 0..MaxPool
    BY <2>1, ApiAssumption
  <2>4. n.pc = "using"
    BY <1>2 DEF Active
  <2>5. Follows(req[r], n)
    BY <1>1, <1>2, <2>3, Moves DEF Connecting
  <2> HIDE DEF n
  <2>6. Ledger'
    BY <1>1, <1>3, <2>2, <2>5, FollowsGoesOn DEF IInv
  <2>7. n \in Active \cup Ended /\ req'[r] = n /\ \A v \in Request : v # r => req'[v] = req[v]
    BY <2>2, <2>5 DEF Set, Follows, IInv, Ledger, LedgerTypes
  <2>8. req' \in [Request -> {Idle} \cup Active \cup Ended]
    BY <2>6 DEF Ledger, LedgerTypes
  <2>9. CASE ~replaced
    BY <1>1, <1>3, <1>4, <1>5, <1>6, <2>4, <2>6, <2>7, <2>8, <2>9, PoolMade DEF At, IInv
  <2>10. CASE replaced
    <3>1. PoolTypes'
      BY <1>3, <1>6, <2>1, <2>3 DEF IInv, PoolInv, PoolTypes
    <3>2. \A v \in Request : ~At(v, "create")'
      BY <1>4, <2>4, <2>7 DEF At
    <3>3. PoolInv'
      BY <1>1, <1>3, <2>10, <3>1, <3>2 DEF PoolInv
    <3>4. OutagesHaveACause'
      BY <1>3, <2>10 DEF OutagesHaveACause
    <3> QED
      BY <2>6, <3>3, <3>4 DEF IInv
  <2> QED
    BY <2>6, <2>9, <2>10 DEF IInv
<1>7. CASE Fault /\ (\E q \in Unready(req[r]) : Set(r, q)) /\ UNCHANGED <<pool, status>>
  <2>2. PICK n \in Unready(req[r]) : Set(r, n)
    BY <1>7
  <2>1. Leaves(req[r], n)
    BY <1>1, <1>2, ConnectionLeaves
  <2>3. Ledger'
    BY <1>1, <1>3, <2>1, <2>2, FollowsGoesOn DEF IInv, Leaves
  <2>4. n.pc # "create" /\ req'[r] = n /\ \A v \in Request : v # r => req'[v] = req[v]
    BY <2>1, <2>2 DEF Set, Leaves, IInv, Ledger, LedgerTypes
  <2>5. faults' \in Nat /\ faults' # 0 /\ faults' > 0
    BY <1>7 DEF Fault, IInv, PoolInv, PoolTypes
  <2>6. PoolTypes'
    BY <1>3, <1>7, <2>5 DEF IInv, PoolInv, PoolTypes
  <2>7. \A v \in Request : ~At(v, "create")'
    BY <1>4, <2>4 DEF At
  <2>8. PoolInv'
    BY <1>1, <1>3, <1>7, <2>5, <2>6, <2>7 DEF PoolInv, IInv
  <2>9. OutagesHaveACause'
    BY <2>5 DEF OutagesHaveACause
  <2> QED
    BY <2>3, <2>8, <2>9 DEF IInv
<1> QED
  BY <1>6, <1>7 DEF CreatePool

LEMMA WakeStep ==
  ASSUME IInv, NEW r \in Request, Wake(r)
  PROVE  IInv'
<1>1. At(r, "waiting") /\ InProgress(r)
  BY DEF Wake, At, InProgress
<1>2. req[r].pool \in 0..MaxPool
  BY <1>1, Progress DEF IInv, Ledger, Active
<1> QED
  BY <1>1, <1>2, TakingKeepsAll DEF Wake

LEMMA QueryStep ==
  ASSUME IInv, NEW r \in Request, Query(r)
  PROVE  IInv'
<1>1. At(r, "using") /\ req[r].pc = "using" /\ InProgress(r) /\ req[r].pc \in Connecting
  BY DEF Query, InProgress, At, Connecting
<1>2. req[r] \in Active /\ Fit(req[r])
  BY <1>1, Progress DEF IInv, Ledger, Fits
<1>3. UNCHANGED <<up, pool, status, lock, stored, pushed, replaced, blind>>
  BY DEF Query
<1>4. faults \in Nat
  BY DEF IInv, PoolInv, PoolTypes
<1>5. CASE Set(r, Returned(req[r])) /\ UNCHANGED faults
  <2> DEFINE n == Returned(req[r])
  <2>1. Leaves(req[r], n)
    BY <1>1, <1>2, ConnectionLeaves
  <2>2. n.pc = "done" => n.answer \in {"unauthorized"} \cup Ends
    BY <1>1, <1>2, ReturnedAnswers
  <2>3. Set(r, n)
    BY <1>5
  <2> HIDE DEF n
  <2>4. n.pc \notin {"create", "waiting"}
    BY <2>1 DEF Leaves
  <2>5. ~(n.pc = "done" /\ n.answer \in Failures \cup {"dropped"})
    BY <2>2 DEF Failures, Ends
  <2> QED
    BY <1>1, <1>3, <1>5, <2>1, <2>3, <2>4, <2>5, FollowsKeepsAll DEF Leaves
<1>6. CASE Set(r, Raised(req[r])) /\ Fault
  <2> DEFINE n == Raised(req[r])
  <2>1. Leaves(req[r], n)
    BY <1>1, <1>2, ConnectionLeaves
  <2>2. Set(r, n)
    BY <1>6
  <2> HIDE DEF n
  <2>3. faults' = faults + 1 /\ faults' # 0
    BY <1>4, <1>6 DEF Fault
  <2> QED
    BY <1>1, <1>3, <2>1, <2>2, <2>3, FollowsKeepsAll DEF Leaves
<1> QED
  BY <1>5, <1>6 DEF Query
-----------------------------------------------------------------------------
(* The handlers.  A request that ends there, or goes on with the work it   *)
(* has begun.                                                              *)
LEMMA HandlerKeepsAll ==
  ASSUME IInv, NEW r \in Request, InProgress(r), NEW n \in Active \cup Ended, Set(r, n),
         n.key = req[r].key, n.kind = req[r].kind, n.beside = req[r].beside,
         n.pc # "done" => /\ n.began = req[r].began /\ Fit(n) /\ (Replacing(n) => replaced')
                          /\ n.pc = "store" /\ n.kind = "ingest" => pushed[r] = Items,
         n.pc = "done" => \/ pushed[r] = 0 \/ n.key = NoKey
                          \/ r \in blind' \/ stored'[n.key] # Nobody,
         \/ stored' = stored
         \/ /\ n.pc = "done" /\ (n.kind = "ingest" => pushed[r] = Items)
            /\ \E k \in Key : stored' = [stored EXCEPT ![k] = r],
         pushed' = pushed, blind \subseteq blind', blind' \in SUBSET Request,
         UNCHANGED <<up, pool, status, lock, replaced>>,
         faults' = faults \/ faults' = faults + 1,
         n.pc \notin {"create", "waiting"},
         n.pc = "done" /\ n.answer \in Failures \cup {"dropped"} => faults' # 0
  PROVE  IInv'
<1>1. replaced \in BOOLEAN /\ replaced' \in BOOLEAN
  BY DEF IInv, Ledger, LedgerTypes
<1>2. Ledger'
  BY <1>1, GoesOn DEF IInv
<1>3. faults \in Nat
  BY DEF IInv, PoolInv, PoolTypes
<1>4. PoolInv' /\ OutagesHaveACause'
  BY <1>3, PoolGoesOn
<1> QED
  BY <1>2, <1>4 DEF IInv

(* A request begins its work: it sees whoever is at work under its key,    *)
(* and finds the answer of whoever has been, or misses one that is lost.   *)
LEMMA WorkBegins ==
  ASSUME IInv, NEW r \in Request, At(r, "handle"), Work(r),
         \/ ~Hit(r) /\ blind' = blind /\ faults' = faults
         \/ blind' = blind \cup {r} /\ faults' = faults + 1,
         UNCHANGED <<up, pool, status, lock, stored, pushed, replaced>>
  PROVE  IInv'
<1> DEFINE s == [ask |-> "connect", ingest |-> "push", backfill |-> "init"][req[r].kind]
           n == [req[r] EXCEPT !.began = TRUE, !.beside = Beside(r), !.pc = s]
<1>1. InProgress(r) /\ req[r] \in Active /\ Fit(req[r])
  BY Progress DEF InProgress, At, IInv, Ledger, Fits
<1>2. req[r].kind \in Posts /\ ~req[r].began /\ req[r].pc = "handle"
  BY <1>1 DEF Fit, At
<1>3. /\ req[r].kind = "ask" => s = "connect"
      /\ req[r].kind = "ingest" => s = "push"
      /\ req[r].kind = "backfill" => s = "init"
  OBVIOUS
<1> HIDE DEF s
<1>4. s \in {"connect", "push", "init"}
  BY <1>2, <1>3 DEF Posts
<1>5. Beside(r) \in SUBSET Request
  BY DEF Beside
<1>6. /\ n \in Active /\ n.pc = s /\ n.began /\ n.beside = Beside(r) /\ n.key = req[r].key
      /\ n.kind = req[r].kind /\ n.use = req[r].use /\ n.plan = req[r].plan
  BY <1>1, <1>4, <1>5 DEF Active, ActiveLabel, Connecting
<1>7. Set(r, n)
  BY DEF Work, s
<1> HIDE DEF n
<1>8. n.pc \notin {"idle", "done"} /\ req'[r] = n /\ \A v \in Request : v # r => req'[v] = req[v]
  BY <1>4, <1>6, <1>7 DEF Set, IInv, Ledger, LedgerTypes
<1>9. Fit(n) /\ ~Replacing(n)
  BY <1>1, <1>2, <1>3, <1>4, <1>6 DEF Fit, Replacing, Posts, Connecting
<1>10. LedgerTypes'
  BY <1>6, <1>7 DEF LedgerTypes, Set, IInv, Ledger
<1>11. Fits'
  BY <1>8, <1>9 DEF Fits, InProgress, IInv, Ledger
<1>12. PushesAreOfWork'
  <2>1. pushed[r] = 0
    BY <1>1, <1>2 DEF IInv, Ledger, PushesAreOfWork, LedgerTypes
  <2>2. \A v \in Request : v # r =>
          /\ pushed'[v] > 0 => /\ req'[v].pc # "idle" /\ req'[v].kind \in {"ingest", "backfill"}
                               /\ InProgress(v)' => req'[v].began
          /\ At(v, "store")' /\ req'[v].kind = "ingest" => pushed'[v] = Items
    BY <1>8 DEF IInv, Ledger, PushesAreOfWork, InProgress, At
  <2>3. n.pc # "store" /\ ~(pushed'[r] > 0)
    BY <1>4, <1>6, <2>1
  <2>4. /\ pushed'[r] > 0 => /\ req'[r].pc # "idle" /\ req'[r].kind \in {"ingest", "backfill"}
                             /\ InProgress(r)' => req'[r].began
        /\ At(r, "store")' /\ req'[r].kind = "ingest" => pushed'[r] = Items
    BY <1>8, <2>3 DEF At
  <2> QED
    BY <2>2, <2>4 DEF PushesAreOfWork
<1>13. StoredAnswersAreOfDoneWork'
  BY <1>2, <1>8 DEF IInv, Ledger, LedgerTypes, StoredAnswersAreOfDoneWork, At
<1>14. AnswersAreKept'
  BY <1>8 DEF IInv, Ledger, AnswersAreKept, At, Worked
<1>15. WorkersSeeEachOther'
  <2>1. ASSUME NEW v \in Request, v # r, AtWork(v)', req'[v].key = req[r].key, req[r].key # NoKey
        PROVE  v \in Beside(r) \/ v \in blind' \/ r \in blind'
    <3>1. AtWork(v) /\ req[v].key = req[r].key
      BY <1>8, <2>1 DEF AtWork, InProgress, Worked
    <3>2. CASE InProgress(v) /\ req[v].began
      BY <2>1, <3>1, <3>2 DEF Beside
    <3>3. CASE Worked(v) /\ ~InProgress(v)
      <4>1. At(v, "done")
        BY <3>3 DEF IInv, Ledger, PushesAreOfWork, Worked, InProgress, At
      <4>2. v \in blind \/ stored[req[r].key] # Nobody
        BY <2>1, <3>1, <3>3, <4>1 DEF IInv, Ledger, AnswersAreKept
      <4> QED
        BY <2>1, <4>2 DEF Hit
    <3>4. CASE Worked(v) /\ InProgress(v)
      BY <3>2, <3>4 DEF IInv, Ledger, PushesAreOfWork, Worked
    <3> QED
      BY <3>1, <3>2, <3>3, <3>4 DEF AtWork
  <2>2. ASSUME NEW v \in Request, NEW q \in Request, v # q, v # r, q # r, AtWork(v)', AtWork(q)',
               req'[v].key = req'[q].key, req'[v].key # NoKey
        PROVE  q \in req'[v].beside \/ v \in req'[q].beside \/ {v, q} \cap blind' # {}
    <3>1. AtWork(v) /\ AtWork(q) /\ req[v].key = req[q].key /\ req[v].key # NoKey
      BY <1>8, <2>2 DEF AtWork, InProgress, Worked
    <3>2. q \in req[v].beside \/ v \in req[q].beside \/ {v, q} \cap blind # {}
      BY <2>2, <3>1 DEF IInv, Ledger, WorkersSeeEachOther
    <3> QED
      BY <1>8, <2>2, <3>2
  <2>3. ASSUME NEW v \in Request, NEW q \in Request, v # q, AtWork(v)', AtWork(q)',
               req'[v].key = req'[q].key, req'[v].key # NoKey
        PROVE  q \in req'[v].beside \/ v \in req'[q].beside \/ {v, q} \cap blind' # {}
    <3>1. CASE v = r
      BY <1>6, <1>8, <2>1, <2>3, <3>1
    <3>2. CASE q = r
      BY <1>6, <1>8, <2>1, <2>3, <3>2
    <3> QED
      BY <2>2, <2>3, <3>1, <3>2
  <2> QED
    BY <2>3 DEF WorkersSeeEachOther
<1>16. PoolInv' /\ OutagesHaveACause'
  <2>1. n.pc \notin {"create", "waiting", "done"}
    BY <1>4, <1>6
  <2>2. faults \in Nat
    BY DEF IInv, PoolInv, PoolTypes
  <2> QED
    BY <1>1, <1>6, <1>7, <2>1, <2>2, PoolGoesOn
<1> QED
  BY <1>10, <1>11, <1>12, <1>13, <1>14, <1>15, <1>16 DEF IInv, Ledger

(* The answers a handler ends with.                                        *)
LEMMA HandlerEnds ==
  ASSUME IInv, NEW r \in Request, InProgress(r), NEW a \in {"replay", "refused", "ok", "error"},
         Answer(r, a),
         \/ pushed[r] = 0 \/ req[r].key = NoKey \/ r \in blind' \/ stored'[req[r].key] # Nobody,
         \/ stored' = stored
         \/ /\ req[r].kind = "ingest" => pushed[r] = Items
            /\ \E k \in Key : stored' = [stored EXCEPT ![k] = r],
         pushed' = pushed, blind' \in {blind, blind \cup {r}},
         UNCHANGED <<up, pool, status, lock, replaced>>,
         \/ faults' = faults /\ a # "error"
         \/ faults' = faults + 1
  PROVE  IInv'
<1> DEFINE n == Answered(req[r], a)
<1>1. req[r] \in Active
  BY Progress DEF IInv, Ledger
<1>2. a \in Answers
  BY DEF Answers, Course, Failures, Ends
<1>3. /\ n \in Ended /\ n.pc = "done" /\ n.key = req[r].key /\ n.kind = req[r].kind
      /\ n.beside = req[r].beside /\ n.answer = a
  BY <1>1, <1>2, AnsweredType
<1>4. Set(r, n)
  BY DEF Answer
<1> HIDE DEF n
<1>5. faults \in Nat
  BY DEF IInv, PoolInv, PoolTypes
<1>6. a \in Failures \cup {"dropped"} => faults' # 0
  BY <1>5 DEF Failures
<1>7. blind \subseteq blind' /\ blind' \in SUBSET Request
  BY DEF IInv, Ledger, LedgerTypes
<1> QED
  BY <1>3, <1>4, <1>6, <1>7, HandlerKeepsAll

LEMMA HandleStep ==
  ASSUME IInv, NEW r \in Request, Handle(r)
  PROVE  IInv'
<1>1. At(r, "handle") /\ InProgress(r)
  BY DEF Handle, At, InProgress
<1>2. UNCHANGED <<up, pool, status, lock, stored, pushed, replaced>>
  BY DEF Handle
<1>3. pushed[r] = 0
  <2>1. ~req[r].began
    BY <1>1 DEF IInv, Ledger, Fits, Fit, At
  <2> QED
    BY <1>1, <2>1 DEF IInv, Ledger, PushesAreOfWork, LedgerTypes
<1>4. CASE (Answer(r, "replay") \/ Answer(r, "refused")) /\ UNCHANGED <<faults, blind>>
  BY <1>1, <1>2, <1>3, <1>4, HandlerEnds
<1>5. CASE ~Hit(r) /\ Work(r) /\ UNCHANGED <<faults, blind>>
  BY <1>1, <1>2, <1>5, WorkBegins
<1>6. CASE Fault /\ Work(r) /\ blind' = blind \cup {r}
  BY <1>1, <1>2, <1>6, WorkBegins DEF Fault
<1> QED
  BY <1>4, <1>5, <1>6 DEF Handle

LEMMA StoreStep ==
  ASSUME IInv, NEW r \in Request, Store(r)
  PROVE  IInv'
<1>1. At(r, "store") /\ InProgress(r) /\ Answer(r, "ok")
  BY DEF Store, At, InProgress
<1>2. UNCHANGED <<up, pool, status, lock, pushed, replaced>>
  BY DEF Store
<1>3. req[r].kind = "ingest" => pushed[r] = Items
  BY <1>1 DEF IInv, Ledger, PushesAreOfWork
<1>4. req[r].key \in Key \cup {NoKey}
  BY <1>1, Progress DEF IInv, Ledger, Active
<1>5. CASE req[r].key = NoKey /\ stored' = stored /\ UNCHANGED <<faults, blind>>
  BY <1>1, <1>2, <1>5, HandlerEnds
<1>6. CASE /\ req[r].key # NoKey /\ stored' = [stored EXCEPT ![req[r].key] = r]
           /\ UNCHANGED <<faults, blind>>
  <2>1. req[r].key \in Key /\ stored'[req[r].key] # Nobody
    BY <1>4, <1>6, ApiAssumption DEF IInv, Ledger, LedgerTypes
  <2> QED
    BY <1>1, <1>2, <1>3, <1>6, <2>1, HandlerEnds
<1>7. CASE Fault /\ blind' = blind \cup {r} /\ UNCHANGED stored
  BY <1>1, <1>2, <1>7, HandlerEnds DEF Fault
<1> QED
  BY <1>5, <1>6, <1>7 DEF Store

LEMMA PushStep ==
  ASSUME IInv, NEW r \in Request, Push(r)
  PROVE  IInv'
<1>1. At(r, "push") /\ req[r].pc = "push" /\ InProgress(r)
  BY DEF Push, At, InProgress
<1>2. req[r] \in Active /\ Fit(req[r])
  BY <1>1, Progress DEF IInv, Ledger, Fits
<1>3. UNCHANGED <<up, pool, status, lock, stored, replaced>>
  BY DEF Push
<1>4. req[r].kind \in {"ingest", "backfill"} /\ req[r].began
  BY <1>1, <1>2 DEF Fit
<1>5. faults \in Nat /\ blind \in SUBSET Request
  BY DEF IInv, PoolInv, PoolTypes, Ledger, LedgerTypes
<1>6. CASE /\ pushed[r] < Items /\ pushed' = [pushed EXCEPT ![r] = @ + 1]
           /\ UNCHANGED <<req, blind, faults>>
  <2>1. pushed[r] \in 0..Items
    BY DEF IInv, Ledger, LedgerTypes
  <2>2. pushed'[r] = pushed[r] + 1 /\ pushed' \in [Request -> 0..Items]
        /\ \A v \in Request : v # r => pushed'[v] = pushed[v]
    BY <1>6, <2>1, ApiAssumption DEF IInv, Ledger, LedgerTypes
  <2>3. LedgerTypes'
    BY <1>3, <1>6, <2>2 DEF IInv, Ledger, LedgerTypes
  <2>4. Fits'
    BY <1>3, <1>6 DEF IInv, Ledger, Fits, InProgress
  <2>5. PushesAreOfWork'
    BY <1>1, <1>4, <1>6, <2>2 DEF IInv, Ledger, PushesAreOfWork, InProgress, At
  <2>6. StoredAnswersAreOfDoneWork'
    BY <1>1, <1>3, <1>6, <2>2 DEF IInv, Ledger, LedgerTypes, StoredAnswersAreOfDoneWork, At
  <2>7. AnswersAreKept'
    BY <1>1, <1>3, <1>6, <2>2 DEF IInv, Ledger, AnswersAreKept, At, Worked
  <2>8. \A v \in Request : AtWork(v)' => AtWork(v)
    BY <1>1, <1>4, <1>6, <2>2 DEF AtWork, InProgress, Worked
  <2>9. WorkersSeeEachOther'
    BY <1>6, <2>8 DEF IInv, Ledger, WorkersSeeEachOther
  <2>10. PoolInv'
    BY <1>3, <1>6 DEF IInv, PoolInv, PoolTypes, InProgress, At
  <2>11. OutagesHaveACause'
    BY <1>3, <1>6 DEF IInv, OutagesHaveACause, At
  <2> QED
    BY <2>3, <2>4, <2>5, <2>6, <2>7, <2>9, <2>10, <2>11 DEF IInv, Ledger
<1>7. ASSUME UNCHANGED <<pushed, blind>>, faults' = faults \/ faults' = faults + 1,
             NEW n \in Active, Set(r, n), n.key = req[r].key, n.kind = req[r].kind,
             n.beside = req[r].beside, n.began = req[r].began, n.plan = req[r].plan,
             \/ n.pc = "store" /\ n.use = req[r].use /\ pushed[r] = Items
             \/ n.pc = "connect" /\ n.use = "finish_run" /\ n.kind = "backfill"
             \/ n.pc = "close" /\ n.use = req[r].use /\ n.kind = "backfill"
      PROVE  IInv'
  <2>1. Fit(n)
    BY <1>1, <1>2, <1>4, <1>7 DEF Fit, Connecting, Posts
  <2>2. Replacing(n) => replaced'
    <3>1. req[r].kind = "backfill" => replaced
      BY <1>1 DEF IInv, Ledger, Fits, Replacing
    <3>2. n.pc = "store" => ~(n.use \in {"insert_run", "finish_run"}) \/ n.kind = "backfill"
      BY <1>2, <1>7 DEF Fit
    <3>3. Replacing(n) => n.kind = "backfill"
      BY <1>7, <3>2 DEF Replacing
    <3> QED
      BY <1>3, <1>7, <3>1, <3>3
  <2>3. n.pc \notin {"create", "waiting", "done"}
    BY <1>7
  <2>4. n.pc = "store" /\ n.kind = "ingest" => pushed[r] = Items
    BY <1>7
  <2> QED
    BY <1>1, <1>3, <1>5, <1>7, <2>1, <2>2, <2>3, <2>4, HandlerKeepsAll
<1>8. CASE /\ pushed[r] = Items \/ (req[r].kind = "backfill" /\ faults < MaxFault)
           /\ faults' = IF pushed[r] = Items THEN faults ELSE faults + 1
           /\ IF req[r].kind = "ingest" THEN Goto(r, "store")
              ELSE IF req[r].run THEN Set(r, [req[r] EXCEPT !.pc = "connect", !.use = "finish_run"])
              ELSE Goto(r, "close")
           /\ UNCHANGED <<pushed, blind>>
  <2>1. faults' = faults \/ faults' = faults + 1
    BY <1>8
  <2>2. CASE req[r].kind = "ingest"
    <3> DEFINE n == [req[r] EXCEPT !.pc = "store"]
    <3>1. /\ n \in Active /\ n.pc = "store" /\ n.use = req[r].use /\ n.key = req[r].key
          /\ n.kind = req[r].kind /\ n.beside = req[r].beside /\ n.began = req[r].began
          /\ n.plan = req[r].plan
      BY <1>2 DEF Active, ActiveLabel
    <3>2. Set(r, n) /\ pushed[r] = Items
      BY <1>8, <2>2 DEF Goto
    <3> HIDE DEF n
    <3> QED
      BY <1>7, <1>8, <2>1, <3>1, <3>2
  <2>3. CASE req[r].kind = "backfill" /\ req[r].run
    <3> DEFINE n == [req[r] EXCEPT !.pc = "connect", !.use = "finish_run"]
    <3>1. /\ n \in Active /\ n.pc = "connect" /\ n.use = "finish_run" /\ n.key = req[r].key
          /\ n.kind = req[r].kind /\ n.beside = req[r].beside /\ n.began = req[r].began
          /\ n.plan = req[r].plan
      BY <1>2 DEF Active, ActiveLabel, Connecting, Use
    <3>2. Set(r, n)
      BY <1>8, <2>3
    <3> HIDE DEF n
    <3> QED
      BY <1>7, <1>8, <2>1, <2>3, <3>1, <3>2
  <2>4. CASE req[r].kind = "backfill" /\ ~req[r].run
    <3> DEFINE n == [req[r] EXCEPT !.pc = "close"]
    <3>1. /\ n \in Active /\ n.pc = "close" /\ n.use = req[r].use /\ n.key = req[r].key
          /\ n.kind = req[r].kind /\ n.beside = req[r].beside /\ n.began = req[r].began
          /\ n.plan = req[r].plan
      BY <1>2 DEF Active, ActiveLabel
    <3>2. Set(r, n)
      BY <1>8, <2>4 DEF Goto
    <3> HIDE DEF n
    <3> QED
      BY <1>7, <1>8, <2>1, <2>4, <3>1, <3>2
  <2> QED
    BY <1>4, <2>2, <2>3, <2>4
<1>9. CASE Fault /\ Answer(r, "error") /\ blind' = blind \cup {r} /\ UNCHANGED pushed
  BY <1>1, <1>3, <1>9, HandlerEnds DEF Fault
<1> QED
  BY <1>6, <1>8, <1>9 DEF Push
-----------------------------------------------------------------------------
(* A backfill takes the pool of the process it runs in: what is left to    *)
(* say of the pools is that the lock is held by whoever creates one.       *)
LEMMA Replaced ==
  ASSUME IInv, NEW r \in Request, InProgress(r), NEW n \in Active \cup Ended, Set(r, n),
         n.pc # "create", UNCHANGED <<up, lock>>, replaced' = TRUE, PoolTypes'
  PROVE  PoolInv' /\ OutagesHaveACause'
<1>1. n.pc # "idle" /\ req'[r] = n /\ \A v \in Request : v # r => req'[v] = req[v]
  BY DEF Set, IInv, Ledger, LedgerTypes, Active, Ended, ActiveLabel, Connecting
<1>2. up /\ \A v \in Request : At(v, "create")' => lock' = v
  BY <1>1 DEF IInv, PoolInv, At
<1> QED
  BY <1>2 DEF PoolInv, OutagesHaveACause

LEMMA InitPoolStep ==
  ASSUME IInv, NEW r \in Request, InitPool(r)
  PROVE  IInv'
<1>1. At(r, "init") /\ req[r].pc = "init" /\ InProgress(r)
  BY DEF InitPool, At, InProgress
<1>2. req[r] \in Active /\ Fit(req[r])
  BY <1>1, Progress DEF IInv, Ledger, Fits
<1>3. req[r].kind = "backfill" /\ req[r].began
  BY <1>1, <1>2 DEF Fit
<1>4. replaced' = TRUE /\ UNCHANGED <<up, lock, stored, pushed>>
  BY DEF InitPool
<1>5. PoolTypes'
  <2>1. InstallPool \/ UNCHANGED <<pool, status>>
    BY DEF InitPool
  <2>2. pool' \in 0..MaxPool /\ status' \in [1..MaxPool -> {"unused", "open", "closing", "closed"}]
    <3> DEFINE p == NextPool
    <3>1. CASE InstallPool
      <4>1. p \in 1..MaxPool /\ pool' = p /\ status' = [status EXCEPT ![p] = "open"]
        BY <3>1 DEF InstallPool
      <4> HIDE DEF p
      <4> QED
        BY <4>1, ApiAssumption DEF IInv, PoolInv, PoolTypes
    <3>2. CASE UNCHANGED <<pool, status>>
      BY <3>2 DEF IInv, PoolInv, PoolTypes
    <3> QED
      BY <2>1, <3>1, <3>2
  <2>3. faults' \in Nat
    BY DEF InitPool, Fault, IInv, PoolInv, PoolTypes
  <2> QED
    BY <1>4, <2>2, <2>3 DEF IInv, PoolInv, PoolTypes
<1>6. blind \in SUBSET Request
  BY DEF IInv, Ledger, LedgerTypes
<1>7. ASSUME NEW n \in Active, Set(r, n), n.key = req[r].key, n.kind = req[r].kind,
             n.beside = req[r].beside, n.began = req[r].began, n.plan = req[r].plan,
             \/ n.pc = "connect" /\ n.use = "insert_run"
             \/ n.pc = "close" /\ n.use = req[r].use,
             blind' = blind
      PROVE  IInv'
  <2>1. Fit(n)
    BY <1>1, <1>2, <1>3, <1>7 DEF Fit, Connecting, Posts
  <2>2. n.pc \notin {"create", "done", "store"}
    BY <1>7
  <2>3. Ledger'
    BY <1>1, <1>4, <1>6, <1>7, <2>1, <2>2, GoesOn DEF IInv
  <2> QED
    BY <1>1, <1>4, <1>5, <1>7, <2>2, <2>3, Replaced DEF IInv
<1>8. CASE /\ Set(r, [req[r] EXCEPT !.pc = "connect", !.use = "insert_run"])
           /\ blind' = blind
  <2> DEFINE n == [req[r] EXCEPT !.pc = "connect", !.use = "insert_run"]
  <2>1. /\ n \in Active /\ n.pc = "connect" /\ n.use = "insert_run" /\ n.key = req[r].key
        /\ n.kind = req[r].kind /\ n.beside = req[r].beside /\ n.began = req[r].began
        /\ n.plan = req[r].plan
    BY <1>2 DEF Active, ActiveLabel, Connecting, Use
  <2>2. Set(r, n)
    BY <1>8
  <2> HIDE DEF n
  <2> QED
    BY <1>7, <1>8, <2>1, <2>2
<1>9. CASE Goto(r, "close") /\ blind' = blind
  <2> DEFINE n == [req[r] EXCEPT !.pc = "close"]
  <2>1. /\ n \in Active /\ n.pc = "close" /\ n.use = req[r].use /\ n.key = req[r].key
        /\ n.kind = req[r].kind /\ n.beside = req[r].beside /\ n.began = req[r].began
        /\ n.plan = req[r].plan
    BY <1>2 DEF Active, ActiveLabel
  <2>2. Set(r, n)
    BY <1>9 DEF Goto
  <2> HIDE DEF n
  <2> QED
    BY <1>7, <1>9, <2>1, <2>2
<1>10. CASE Answer(r, "error") /\ blind' = blind \cup {r}
  <2> DEFINE n == Answered(req[r], "error")
  <2>1. /\ n \in Ended /\ n.pc = "done" /\ n.key = req[r].key /\ n.kind = req[r].kind
        /\ n.beside = req[r].beside
    BY <1>2, AnsweredType DEF Answers, Course, Failures
  <2>2. Set(r, n)
    BY <1>10 DEF Answer
  <2> HIDE DEF n
  <2>3. r \in blind' /\ blind \subseteq blind' /\ blind' \in SUBSET Request
    BY <1>6, <1>10
  <2>4. Ledger'
    BY <1>1, <1>4, <2>1, <2>2, <2>3, GoesOn DEF IInv
  <2> QED
    BY <1>1, <1>4, <1>5, <2>1, <2>2, <2>4, Replaced DEF IInv
<1> QED
  BY <1>8, <1>9, <1>10 DEF InitPool

LEMMA ClosePoolStep ==
  ASSUME IInv, NEW r \in Request, ClosePool(r) \/ PoolClosed(r)
  PROVE  IInv'
<1>1. At(r, "close") \/ At(r, "closing")
  BY DEF ClosePool, PoolClosed
<1>2. InProgress(r) /\ req[r].pc \in {"close", "closing"}
  BY <1>1 DEF At, InProgress
<1>3. req[r] \in Active /\ Fit(req[r])
  BY <1>2, Progress DEF IInv, Ledger, Fits
<1>4. req[r].kind = "backfill" /\ req[r].began
  BY <1>2, <1>3 DEF Fit
<1>5. UNCHANGED <<up, lock, stored, pushed, replaced, blind, faults>>
  BY DEF ClosePool, PoolClosed
<1>6. replaced' = TRUE
  BY <1>2, <1>5 DEF IInv, Ledger, LedgerTypes, Fits, Replacing
<1>7. PoolTypes'
  <2>1. \/ UNCHANGED <<pool, status>>
        \/ UNCHANGED pool /\ status' = [status EXCEPT ![pool] = IF @ = "open" THEN "closing" ELSE @]
        \/ pool' = 0 /\ status' = [status EXCEPT ![req[r].pool] = "closed"]
    BY DEF ClosePool, PoolClosed
  <2> QED
    BY <1>5, <2>1, ApiAssumption DEF IInv, PoolInv, PoolTypes
<1>8. ASSUME NEW n \in Active, Set(r, n), n.key = req[r].key, n.kind = req[r].kind,
             n.beside = req[r].beside, n.began = req[r].began, n.plan = req[r].plan,
             n.use = req[r].use, n.pc \in {"closing", "store"}
      PROVE  IInv'
  <2>1. Follows(req[r], n)
    BY <1>2, <1>3, <1>4, <1>8 DEF Follows, Fit, Replacing, Connecting, Posts
  <2>2. Ledger'
    BY <1>2, <1>5, <1>8, <2>1, FollowsGoesOn DEF IInv
  <2> QED
    BY <1>2, <1>5, <1>6, <1>7, <1>8, <2>2, Replaced DEF IInv
<1>9. CASE Goto(r, "store")
  <2> DEFINE n == [req[r] EXCEPT !.pc = "store"]
  <2>1. /\ n \in Active /\ n.pc = "store" /\ n.use = req[r].use /\ n.key = req[r].key
        /\ n.kind = req[r].kind /\ n.beside = req[r].beside /\ n.began = req[r].began
        /\ n.plan = req[r].plan
    BY <1>3 DEF Active, ActiveLabel
  <2>2. Set(r, n)
    BY <1>9 DEF Goto
  <2> HIDE DEF n
  <2> QED
    BY <1>8, <2>1, <2>2
<1>10. CASE req' = [req EXCEPT ![r].pc = "closing", ![r].pool = pool]
  <2> DEFINE n == [req[r] EXCEPT !.pc = "closing", !.pool = pool]
  <2>1. pool \in 0..MaxPool
    BY DEF IInv, PoolInv, PoolTypes
  <2>2. /\ n \in Active /\ n.pc = "closing" /\ n.use = req[r].use /\ n.key = req[r].key
        /\ n.kind = req[r].kind /\ n.beside = req[r].beside /\ n.began = req[r].began
        /\ n.plan = req[r].plan
    BY <1>3, <2>1 DEF Active, ActiveLabel
  <2>3. Set(r, n)
    BY <1>10 DEF Set, IInv, Ledger, LedgerTypes
  <2> HIDE DEF n
  <2> QED
    BY <1>8, <2>2, <2>3
<1> QED
  BY <1>9, <1>10 DEF ClosePool, PoolClosed
-----------------------------------------------------------------------------
(* Requests come, and the process comes and goes.                          *)
LEMMA NewRequests ==
  ASSUME NEW r \in Request, NEW o \in Offers(r), NEW p \in Plans[o.endpoint]
  PROVE  /\ NewRequest(o, p) \in Active /\ Fit(NewRequest(o, p))
         /\ NewRequest(o, p).pc = "connect" /\ NewRequest(o, p).use = "lookup"
         /\ ~NewRequest(o, p).began
<1> DEFINE n == NewRequest(o, p)
           k == IF o.endpoint \in Posts THEN o.endpoint ELSE "read"
           bad == (o.credential = "bad")
<1>1. o.endpoint \in Endpoint /\ o.key \in Key \cup {NoKey}
  BY OffersAssumption
<1>2. p \in Plan /\ (o.endpoint \notin {"ingest", "backfill"} => p # <<>>)
  BY <1>1, PlansAreGood
<1>3. k \in Kind /\ (k \in {"read", "ask"} => o.endpoint \notin {"ingest", "backfill"})
  BY DEF Kind, Posts
<1>4. n = [pc |-> "connect", use |-> "lookup", bad |-> bad, key |-> o.key, kind |-> k,
           plan |-> p, pool |-> 0, run |-> FALSE, began |-> FALSE, beside |-> {}]
  BY DEF NewRequest
<1>5. bad \in BOOLEAN /\ 0 \in 0..MaxPool
  BY ApiAssumption
<1> HIDE DEF n, k, bad
<1>6. n \in Active
  BY <1>1, <1>2, <1>3, <1>4, <1>5 DEF Active, ActiveLabel, Connecting, Use
<1>7. Fit(n) /\ n.pc = "connect" /\ n.use = "lookup" /\ ~n.began
  BY <1>2, <1>3, <1>4 DEF Fit, Connecting
<1> QED
  BY <1>6, <1>7 DEF n

LEMMA ArriveStep ==
  ASSUME IInv, NEW r \in Request, Arrive(r)
  PROVE  IInv'
<1>1. up /\ req[r] = Idle
  BY DEF Arrive
<1>2. UNCHANGED <<up, pool, status, lock, stored, pushed, replaced, blind, faults>>
  BY DEF Arrive
<1>3. req[r].pc = "idle"
  BY <1>1 DEF Idle
<1>4. PICK o \in Offers(r) : \E p \in Plans[o.endpoint] :
        req' = [req EXCEPT ![r] = IF o.endpoint \in Open \/ o.credential = "env"
                                  THEN Admitted(NewRequest(o, p)) ELSE NewRequest(o, p)]
  BY DEF Arrive
<1>5. PICK p \in Plans[o.endpoint] :
        req' = [req EXCEPT ![r] = IF o.endpoint \in Open \/ o.credential = "env"
                                  THEN Admitted(NewRequest(o, p)) ELSE NewRequest(o, p)]
  BY <1>4
<1> DEFINE q == NewRequest(o, p)
           n == IF o.endpoint \in Open \/ o.credential = "env" THEN Admitted(q) ELSE q
<1>6. q \in Active /\ Fit(q) /\ q.pc = "connect" /\ q.use = "lookup" /\ ~q.began
  BY NewRequests
<1>7. Set(r, n)
  BY <1>5 DEF Set
<1> HIDE DEF q
<1>8. Leaves(q, Admitted(q)) /\ Admitted(q).use = "step"
  BY <1>6, AdmittedLeaves DEF Connecting, Admitted, Active
<1>9. Admitted(q).pc \in {"handle", "connect"}
  BY <1>6 DEF Admitted, Active
<1>10. Leaves(q, q)
  BY <1>6 DEF Leaves, Follows
<1>11. Leaves(q, n) /\ n.pc \in {"handle", "connect"} /\ n.use \in {"lookup", "step"}
  BY <1>6, <1>8, <1>9, <1>10
<1> HIDE DEF n
<1>12. n \in Active /\ Fit(n) /\ n.pc \in {"handle", "connect"} /\ ~n.began /\ ~Replacing(n)
  <2>1. n \in Active /\ Fit(n) /\ ~n.began
    BY <1>6, <1>11 DEF Leaves, Follows, Ended
  <2>2. ~Replacing(n)
    BY <1>11 DEF Replacing
  <2> QED
    BY <1>11, <2>1, <2>2
<1>13. req'[r] = n /\ \A v \in Request : v # r => req'[v] = req[v]
  BY <1>7 DEF Set, IInv, Ledger, LedgerTypes
<1>14. pushed[r] = 0
  BY <1>3 DEF IInv, Ledger, LedgerTypes, PushesAreOfWork
<1>15. LedgerTypes'
  BY <1>2, <1>7, <1>12 DEF IInv, Ledger, LedgerTypes, Set
<1>16. Fits'
  BY <1>2, <1>12, <1>13 DEF IInv, Ledger, Fits, InProgress
<1>17. PushesAreOfWork'
  BY <1>2, <1>12, <1>13, <1>14 DEF IInv, Ledger, PushesAreOfWork, InProgress, At
<1>18. StoredAnswersAreOfDoneWork'
  BY <1>2, <1>3, <1>13 DEF IInv, Ledger, LedgerTypes, StoredAnswersAreOfDoneWork, At
<1>19. AnswersAreKept'
  BY <1>2, <1>12, <1>13 DEF IInv, Ledger, AnswersAreKept, At, Worked
<1>20. WorkersSeeEachOther'
  <2>1. ~AtWork(r)'
    BY <1>2, <1>12, <1>13, <1>14 DEF AtWork, Worked
  <2>2. \A v \in Request : v # r /\ AtWork(v)' => AtWork(v)
    BY <1>2, <1>13 DEF AtWork, Worked, InProgress
  <2>3. \A v \in Request : AtWork(v)' => AtWork(v) /\ req'[v] = req[v]
    BY <1>13, <2>1, <2>2
  <2> QED
    BY <1>2, <2>3 DEF IInv, Ledger, WorkersSeeEachOther
<1>21. PoolInv'
  <2>1. PoolTypes'
    BY <1>2 DEF IInv, PoolInv, PoolTypes
  <2>2. \A v \in Request : v # r => (At(v, "create")' <=> At(v, "create"))
    BY <1>13 DEF At
  <2>3. ~At(r, "create")' /\ ~At(r, "waiting")'
    BY <1>12, <1>13 DEF At
  <2>4. \A v \in Request : At(v, "create")' => lock' = v
    BY <1>2, <2>2, <2>3 DEF IInv, PoolInv
  <2>5. ~replaced /\ faults = 0 => \A v \in Request : At(v, "waiting")' => req'[v].pool = pool
    BY <1>13, <2>3 DEF IInv, PoolInv, At
  <2> QED
    BY <1>1, <1>2, <2>1, <2>4, <2>5 DEF IInv, PoolInv
<1>22. OutagesHaveACause'
  BY <1>2, <1>11, <1>13 DEF IInv, OutagesHaveACause, At
<1> QED
  BY <1>15, <1>16, <1>17, <1>18, <1>19, <1>20, <1>21, <1>22 DEF IInv, Ledger

LEMMA LedgerRests ==
  ASSUME Ledger, UNCHANGED <<req, stored, pushed, replaced, blind>>
  PROVE  Ledger'
<1>1. LedgerTypes' /\ Fits' /\ PushesAreOfWork'
  BY DEF Ledger, LedgerTypes, Fits, PushesAreOfWork, InProgress, At
<1>2. StoredAnswersAreOfDoneWork' /\ AnswersAreKept'
  BY DEF Ledger, StoredAnswersAreOfDoneWork, AnswersAreKept, At, Worked
<1>3. WorkersSeeEachOther'
  <2>1. \A v \in Request : AtWork(v)' => AtWork(v)
    BY DEF AtWork, InProgress, Worked
  <2> QED
    BY <2>1 DEF Ledger, WorkersSeeEachOther
<1> QED
  BY <1>1, <1>2, <1>3 DEF Ledger

LEMMA StartUpStep ==
  ASSUME IInv, StartUp
  PROVE  IInv'
<1>1. Ledger'
  BY LedgerRests DEF IInv, StartUp
<1>2. up' = TRUE /\ UNCHANGED <<lock, req, held, stored, pushed, replaced, blind>>
  BY DEF StartUp
<1>3. pool = 0 /\ lock = Nobody /\ \A v \in Request : ~InProgress(v)
  BY DEF StartUp, IInv, PoolInv
<1>4. \A v \in Request : ~At(v, "create")' /\ ~At(v, "waiting")'
  BY <1>2, <1>3 DEF InProgress, At
<1>5. CASE InstallPool /\ UNCHANGED faults
  <2>1. req' \in [Request -> {Idle} \cup Active \cup Ended]
    BY <1>1 DEF Ledger, LedgerTypes
  <2>2. \A v \in Request : At(v, "done")' => At(v, "done") /\ req'[v] = req[v]
    BY <1>2 DEF At
  <2> QED
    BY <1>1, <1>2, <1>3, <1>4, <1>5, <2>1, <2>2, PoolMade DEF IInv
<1>6. CASE Fault /\ UNCHANGED <<pool, status>>
  <2>1. faults' \in Nat /\ faults' # 0 /\ faults' > 0
    BY <1>6 DEF Fault, IInv, PoolInv, PoolTypes
  <2>2. PoolTypes'
    BY <1>2, <1>6, <2>1 DEF IInv, PoolInv, PoolTypes
  <2>3. PoolInv'
    BY <1>2, <1>3, <1>4, <1>6, <2>1, <2>2 DEF IInv, PoolInv
  <2>4. OutagesHaveACause'
    BY <2>1 DEF OutagesHaveACause
  <2> QED
    BY <1>1, <2>3, <2>4 DEF IInv
<1> QED
  BY <1>5, <1>6 DEF StartUp

LEMMA ExitStep ==
  ASSUME IInv, Exit
  PROVE  IInv'
<1>1. /\ up' = FALSE /\ pool' = 0 /\ lock' = Nobody
      /\ status' = [p \in 1..MaxPool |-> IF p \in Created THEN "closed" ELSE "unused"]
      /\ req' = [r \in Request |-> IF InProgress(r) THEN Answered(req[r], "dropped") ELSE req[r]]
      /\ blind' = blind \cup {r \in Request : InProgress(r)}
      /\ UNCHANGED <<stored, pushed, replaced>>
  BY DEF Exit
<1>2. faults' \in Nat /\ faults' # 0 /\ faults' > 0
  BY DEF Exit, Fault, IInv, PoolInv, PoolTypes
<1>3. ASSUME NEW r \in Request, InProgress(r)
      PROVE  /\ req'[r] \in Ended /\ req'[r].pc = "done" /\ req'[r].key = req[r].key
             /\ req'[r].kind = req[r].kind /\ req'[r].beside = req[r].beside
  <2>1. req[r] \in Active /\ "dropped" \in Answers
    BY <1>3, Progress DEF IInv, Ledger, Answers
  <2> QED
    BY <1>1, <1>3, <2>1, AnsweredType
<1>4. ASSUME NEW r \in Request, ~InProgress(r)
      PROVE  req'[r] = req[r]
  BY <1>1, <1>4
<1>5. \A r \in Request : ~InProgress(r)'
  BY <1>3, <1>4 DEF InProgress
<1>6. LedgerTypes'
  <2>1. \A r \in Request : req'[r] \in {Idle} \cup Active \cup Ended
    BY <1>3, <1>4 DEF IInv, Ledger, LedgerTypes
  <2>2. req' \in [Request -> {Idle} \cup Active \cup Ended]
    BY <1>1, <2>1
  <2> QED
    BY <1>1, <2>2 DEF IInv, Ledger, LedgerTypes
<1>7. Fits'
  BY <1>5 DEF Fits
<1>8. PushesAreOfWork'
  <2>1. \A r \in Request : ~At(r, "store")'
    BY <1>5 DEF At, InProgress
  <2>2. \A r \in Request : pushed'[r] > 0 => req'[r].pc # "idle" /\ req'[r].kind \in {"ingest", "backfill"}
    BY <1>1, <1>3, <1>4 DEF IInv, Ledger, PushesAreOfWork
  <2> QED
    BY <1>5, <2>1, <2>2 DEF PushesAreOfWork
<1>9. StoredAnswersAreOfDoneWork'
  <2>1. ASSUME NEW k \in Key, stored[k] # Nobody
        PROVE  req'[stored[k]].pc = "done" /\ (req'[stored[k]].kind = "ingest" => pushed[stored[k]] = Items)
    <3>1. stored[k] \in Request
      BY <2>1 DEF IInv, Ledger, LedgerTypes
    <3>2. req[stored[k]].pc = "done" /\ (req[stored[k]].kind = "ingest" => pushed[stored[k]] = Items)
      BY <2>1 DEF IInv, Ledger, StoredAnswersAreOfDoneWork, At
    <3>3. ~InProgress(stored[k])
      BY <3>2 DEF InProgress
    <3> QED
      BY <1>4, <3>1, <3>2, <3>3
  <2> QED
    BY <1>1, <2>1 DEF StoredAnswersAreOfDoneWork, At
<1>10. AnswersAreKept'
  <2>1. ASSUME NEW r \in Request, At(r, "done")', Worked(r)', req'[r].key # NoKey
        PROVE  r \in blind' \/ stored'[req'[r].key] # Nobody
    <3>1. CASE InProgress(r)
      BY <1>1, <3>1
    <3>2. CASE ~InProgress(r)
      BY <1>1, <1>4, <2>1, <3>2 DEF IInv, Ledger, AnswersAreKept, At, Worked
    <3> QED
      BY <3>1, <3>2
  <2> QED
    BY <2>1 DEF AnswersAreKept
<1>11. WorkersSeeEachOther'
  <2>1. \A v \in Request : AtWork(v)' => AtWork(v)
    BY <1>1, <1>5 DEF AtWork, Worked
  <2>2. \A v \in Request : req'[v].key = req[v].key /\ req'[v].beside = req[v].beside
    BY <1>3, <1>4
  <2> QED
    BY <1>1, <2>1, <2>2 DEF IInv, Ledger, WorkersSeeEachOther
<1>12. PoolInv'
  <2>1. \A p \in 1..MaxPool : status'[p] # "open"
    BY <1>1
  <2>2. PoolTypes'
    <3>1. status' \in [1..MaxPool -> {"unused", "open", "closing", "closed"}]
      BY <1>1
    <3>2. pool' \in 0..MaxPool
      BY <1>1, ApiAssumption
    <3> QED
      BY <1>1, <1>2, <3>1, <3>2 DEF PoolTypes
  <2>3. \A r \in Request : ~At(r, "create")'
    BY <1>5 DEF At, InProgress
  <2> QED
    BY <1>1, <1>2, <1>5, <2>1, <2>2, <2>3 DEF PoolInv
<1>13. OutagesHaveACause'
  BY <1>2 DEF OutagesHaveACause
<1> QED
  BY <1>6, <1>7, <1>8, <1>9, <1>10, <1>11, <1>12, <1>13 DEF IInv, Ledger
-----------------------------------------------------------------------------
LEMMA InitIInv == Init => IInv
<1> SUFFICES ASSUME Init PROVE IInv
  OBVIOUS
<1>1. \A r \in Request : req[r].pc = "idle" /\ pushed[r] = 0
  BY DEF Init, Idle
<1>2. LedgerTypes /\ Fits
  <2>1. req \in [Request -> {Idle} \cup Active \cup Ended]
    BY DEF Init
  <2>2. pushed \in [Request -> 0..Items]
    BY ApiAssumption DEF Init
  <2>3. stored \in [Key -> Request \cup {Nobody}] /\ blind \in SUBSET Request /\ replaced \in BOOLEAN
    BY DEF Init
  <2> QED
    BY <1>1, <2>1, <2>2, <2>3 DEF LedgerTypes, Fits, InProgress
<1>3. PushesAreOfWork /\ StoredAnswersAreOfDoneWork /\ AnswersAreKept
  BY <1>1 DEF Init, PushesAreOfWork, StoredAnswersAreOfDoneWork, AnswersAreKept, At
<1>4. WorkersSeeEachOther
  BY <1>1 DEF WorkersSeeEachOther, AtWork, InProgress, Worked
<1>5. PoolInv
  <2>1. up = FALSE /\ pool = 0 /\ lock = Nobody /\ status = [p \in 1..MaxPool |-> "unused"] /\ faults = 0
    BY DEF Init
  <2>2. status \in [1..MaxPool -> {"unused", "open", "closing", "closed"}]
    BY <2>1
  <2>3. 0 \in 0..MaxPool
    BY ApiAssumption
  <2>4. PoolTypes
    BY <2>1, <2>2, <2>3 DEF PoolTypes
  <2>5. \A p \in 1..MaxPool : status[p] # "open" /\ p # 0
    BY <2>1
  <2> QED
    BY <1>1, <2>1, <2>4, <2>5 DEF PoolInv, InProgress, At
<1>6. OutagesHaveACause
  BY <1>1 DEF OutagesHaveACause, At
<1> QED
  BY <1>2, <1>3, <1>4, <1>5, <1>6 DEF IInv, Ledger

LEMMA NextIInv == IInv /\ [Next]_vars => IInv'
<1> SUFFICES ASSUME IInv, [Next]_vars PROVE IInv'
  OBVIOUS
<1>1. CASE StartUp
  BY <1>1, StartUpStep
<1>2. CASE Exit
  BY <1>2, ExitStep
<1>3. ASSUME NEW r \in Request, Arrive(r) PROVE IInv'
  BY <1>3, ArriveStep
<1>4. ASSUME NEW r \in Request, Advance(r) PROVE IInv'
  BY <1>4, AcquireStep, EnsurePoolStep, CreatePoolStep, WakeStep, QueryStep, HandleStep, InitPoolStep,
     PushStep, ClosePoolStep, StoreStep DEF Advance
<1>5. CASE UNCHANGED vars
  <2>1. Ledger'
    BY <1>5, LedgerRests DEF vars, IInv
  <2>2. PoolInv' /\ OutagesHaveACause'
    BY <1>5 DEF vars, IInv, PoolInv, PoolTypes, OutagesHaveACause, InProgress, At
  <2> QED
    BY <2>1, <2>2 DEF IInv
<1> QED
  BY <1>1, <1>2, <1>3, <1>4, <1>5 DEF Next

LEMMA InvariantOfApi == Spec => []IInv
BY InitIInv, NextIInv, PTL DEF Spec

(* However many requests find no pool, they make one between them, and the *)
(* global pool is the open one: ensure_pool looks again under _init_lock.  *)
(* Only a backfill, which installs a pool of its own, can change that.     *)
THEOREM OnePoolUnlessReplacedCorrect == Spec => []OnePoolUnlessReplaced
<1>1. ASSUME IInv PROVE OnePoolUnlessReplaced
  <2> SUFFICES ASSUME ~replaced
               PROVE  /\ Cardinality({p \in Created : status[p] = "open"}) <= 1
                      /\ pool # 0 => status[pool] = "open"
    BY DEF OnePoolUnlessReplaced
  <2>1. \A p \in 1..MaxPool : status[p] = "open" <=> p = pool
    BY <1>1 DEF IInv, PoolInv
  <2>2. pool \in 0..MaxPool
    BY <1>1 DEF IInv, PoolInv, PoolTypes
  <2> DEFINE S == {p \in Created : status[p] = "open"}
  <2>3. S \subseteq {pool}
    BY <2>1 DEF Created
  <2>4. IsFiniteSet({pool}) /\ Cardinality({pool}) = 1
    BY FS_Singleton
  <2>5. Cardinality(S) <= 1
    BY <2>3, <2>4, FS_Subset
  <2> QED
    BY <2>1, <2>2, <2>5
<1> QED
  BY <1>1, InvariantOfApi, PTL

(* No interleaving of requests that make, share and wait for the pool      *)
(* leaves one without a connection: who is told of a missing or broken     *)
(* service, or given the default for an absent pool, met a failure, or a   *)
(* backfill took the pool away.                                            *)
THEOREM OutagesHaveACauseCorrect == Spec => []OutagesHaveACause
<1>1. IInv => OutagesHaveACause
  BY DEF IInv
<1> QED
  BY <1>1, InvariantOfApi, PTL

(* set_cached comes after the work of the handler: an answer found under   *)
(* an Idempotency-Key reports a run whose items are all in the queue.      *)
THEOREM StoredAnswersAreOfDoneWorkCorrect == Spec => []StoredAnswersAreOfDoneWork
<1>1. IInv => StoredAnswersAreOfDoneWork
  BY DEF IInv, Ledger
<1> QED
  BY <1>1, InvariantOfApi, PTL

(* get_cached at the head of the handlers: two requests of one key both    *)
(* push items only when one began while the other was at work, or an       *)
(* answer could not be stored or found.                                    *)
THEOREM RepeatsHaveACauseCorrect == Spec => []RepeatsHaveACause
<1>1. IInv => RepeatsHaveACause
  BY DEF IInv, Ledger, WorkersSeeEachOther, RepeatsHaveACause, AtWork
<1> QED
  BY <1>1, InvariantOfApi, PTL

-----------------------------------------------------------------------------
(***************************************************************************)
(* Connections.                                                            *)
(***************************************************************************)
Serving(p) == status[p] \in {"open", "closing"}
TakenFrom(p) == {h \in held : h[2] = p}

(* A request has a connection exactly while it executes the statements of  *)
(* a block: one, of a pool that is not closed yet.  No pool gives out more *)
(* than it has.                                                            *)
ConnectionsAreReturned ==
  /\ \A r \in Request : At(r, "using") => req[r].pool \in 1..MaxPool /\ Serving(req[r].pool)
  /\ held \subseteq Request \X (1..MaxPool)
  /\ \A r \in Request, p \in 1..MaxPool : <<r, p>> \in held <=> At(r, "using") /\ req[r].pool = p
  /\ \A p \in 1..MaxPool : Cardinality(TakenFrom(p)) <= PoolSize

(* Pools are numbered as they are made; whoever waits for a connection or  *)
(* for the end of a pool waits for one that was made, and whoever has the  *)
(* lock makes one.                                                         *)
PoolsAreMade ==
  /\ pool \in {0} \cup Created
  /\ Created = 1..Cardinality(Created)
  /\ \A r \in Request : At(r, "waiting") \/ At(r, "closing") => req[r].pool \in Created
  /\ \A r \in Request : lock = r => At(r, "create")
  /\ faults <= MaxFault

ConnInv == ConnectionsAreReturned /\ PoolsAreMade

(* Where a request can be after a connection.                              *)
Beyond == {"connect", "handle", "push", "close", "store", "done"}

LEMMA NextStepBeyond ==
  ASSUME NEW q \in Active
  PROVE  NextStep(q).pc \in Beyond
<1>1. CASE Len(q.plan) > 1
  <2>1. [q EXCEPT !.pc = "connect", !.plan = Tail(@)].pc = "connect"
    BY DEF Active
  <2> QED
    BY <1>1, <2>1 DEF NextStep, Beyond
<1>2. CASE ~(Len(q.plan) > 1)
  <2>1. NextStep(q) = [q EXCEPT !.pc = "store"] \/ NextStep(q) = Answered(q, Head(q.plan).then)
    BY <1>2 DEF NextStep
  <2>2. [q EXCEPT !.pc = "store"].pc = "store" /\ \A a : Answered(q, a).pc = "done"
    BY DEF Active, Answered
  <2> QED
    BY <2>1, <2>2 DEF Beyond
<1> QED
  BY <1>1, <1>2

LEMMA SkipOrBeyond ==
  ASSUME NEW q \in Active, Fit(q), q.pc \in Connecting, q.use = "step", NEW a \in Course
  PROVE  SkipOr(q, a).pc \in Beyond
<1>1. CASE a = "skip"
  BY <1>1, NextStepBeyond DEF SkipOr
<1>2. CASE a = "leave"
  <2> DEFINE n == [q EXCEPT !.plan = <<Head(@)>>]
  <2>1. q.plan # <<>> /\ q.plan \in Seq(Step)
    BY DEF Fit, Active, Plan
  <2>2. <<Head(q.plan)>> \in Plan
    BY <2>1, HeadTailProperties DEF Plan
  <2>3. n \in Active
    BY <2>2 DEF Active
  <2>4. SkipOr(q, a) = NextStep(n)
    BY <1>2 DEF SkipOr
  <2> HIDE DEF n
  <2> QED
    BY <2>3, <2>4, NextStepBeyond
<1>3. CASE a \notin {"skip", "leave"}
  <2>1. SkipOr(q, a) = Answered(q, a)
    BY <1>3 DEF SkipOr
  <2> QED
    BY <2>1 DEF Answered, Beyond
<1> QED
  BY <1>1, <1>2, <1>3

LEMMA ConnectionEnds ==
  ASSUME NEW q \in Active, Fit(q), q.pc \in Connecting
  PROVE  /\ Returned(q).pc \in Beyond /\ Raised(q).pc \in Beyond
         /\ \A n \in Unready(q) : n.pc \in Beyond
         /\ NoPool(q) # "connect" => SkipOr(q, NoPool(q)).pc \in Beyond
<1>1. \A a : Answered(q, a).pc = "done"
  BY DEF Answered
<1>2. Admitted(q).pc \in {"handle", "connect"}
  BY DEF Admitted, Active
<1>3. CASE q.use = "lookup"
  <2>1. [q EXCEPT !.pc = "connect", !.use = "stamp"].pc = "connect"
    BY DEF Active
  <2> QED
    BY <1>1, <1>3, <2>1, UnreadyIs DEF NoPool, Raised, Returned, Beyond
<1>4. CASE q.use = "stamp"
  BY <1>1, <1>2, <1>4, UnreadyIs DEF NoPool, Raised, Returned, Beyond
<1>5. CASE q.use = "insert_run" \/ q.use = "finish_run"
  <2>1. /\ [q EXCEPT !.pc = "push", !.run = TRUE].pc = "push" /\ [q EXCEPT !.pc = "push"].pc = "push"
        /\ [q EXCEPT !.pc = "close"].pc = "close"
    BY DEF Active
  <2> QED
    BY <1>1, <1>5, <2>1, UnreadyIs DEF NoPool, Raised, Returned, Beyond
<1>6. CASE q.use = "step"
  <2>1. q.plan \in Seq(Step) /\ q.plan # <<>>
    BY <1>6 DEF Fit, Active, Plan
  <2>2. Head(q.plan) \in Step
    BY <2>1, HeadTailProperties
  <2>3. Head(q.plan).onError \in Course /\ Head(q.plan).noPool \in Course
    BY <2>2 DEF Step
  <2>4. /\ Returned(q) = NextStep(q)
        /\ Raised(q) = SkipOr(q, Head(q.plan).onError)
        /\ NoPool(q) = Head(q.plan).noPool
    BY <1>6 DEF Returned, Raised, NoPool
  <2> QED
    BY <1>6, <2>3, <2>4, NextStepBeyond, SkipOrBeyond, UnreadyIs
<1> QED
  BY <1>3, <1>4, <1>5, <1>6 DEF Active, Use

-----------------------------------------------------------------------------
(* How the connections change.                                             *)
LEMMA TakenIsFinite ==
  ASSUME ConnectionsAreReturned, NEW p
  PROVE  IsFiniteSet(TakenFrom(p)) /\ Cardinality(TakenFrom(p)) \in Nat
<1>1. IsFiniteSet(1..MaxPool)
  BY FS_Interval
<1>2. IsFiniteSet(Request \X (1..MaxPool))
  BY <1>1, FS_Product
<1>3. TakenFrom(p) \subseteq Request \X (1..MaxPool)
  BY DEF TakenFrom, ConnectionsAreReturned
<1> QED
  BY <1>2, <1>3, FS_Subset, FS_CardinalityType

(* A pool that is not being served has no connection out.                  *)
LEMMA IdlePools ==
  ASSUME ConnectionsAreReturned, NEW p \in 1..MaxPool, ~Serving(p)
  PROVE  Cardinality(TakenFrom(p)) = 0
<1>1. ASSUME NEW h \in TakenFrom(p)
      PROVE  FALSE
  <2>1. h \in held /\ h[2] = p /\ h[1] \in Request /\ h = <<h[1], h[2]>>
    BY DEF TakenFrom, ConnectionsAreReturned
  <2> QED
    BY <2>1 DEF ConnectionsAreReturned
<1> QED
  BY <1>1, FS_EmptySet

LEMMA ConnectionsRest ==
  ASSUME ConnectionsAreReturned, UNCHANGED held,
         \A v \in Request : /\ At(v, "using")' <=> At(v, "using")
                            /\ At(v, "using") => req'[v].pool = req[v].pool
                                                 /\ status'[req[v].pool] \in {"open", "closing"}
  PROVE  ConnectionsAreReturned'
<1>1. \A p : TakenFrom(p)' = TakenFrom(p)
  BY DEF TakenFrom
<1>2. \A p \in 1..MaxPool : Cardinality(TakenFrom(p))' <= PoolSize
  BY <1>1 DEF ConnectionsAreReturned
<1>3. \A v \in Request : At(v, "using")' => req'[v].pool \in 1..MaxPool /\ status'[req'[v].pool] \in {"open", "closing"}
  BY DEF ConnectionsAreReturned, Serving
<1>4. \A v \in Request, p \in 1..MaxPool : <<v, p>> \in held' <=> At(v, "using")' /\ req'[v].pool = p
  BY DEF ConnectionsAreReturned
<1> QED
  BY <1>2, <1>3, <1>4 DEF ConnectionsAreReturned, Serving

LEMMA ConnectionTaken ==
  ASSUME ConnectionsAreReturned, NEW r \in Request, ~At(r, "using"), NEW p \in 1..MaxPool,
         Serving(p)', Cardinality(TakenFrom(p)) < PoolSize,
         held' = held \cup {<<r, p>>}, At(r, "using")', req'[r].pool = p,
         \A v \in Request \ {r} : req'[v] = req[v],
         \A x \in 1..MaxPool : Serving(x) => Serving(x)'
  PROVE  ConnectionsAreReturned'
<1>1. \A v \in Request \ {r} : At(v, "using")' <=> At(v, "using")
  BY DEF At
<1>2. <<r, p>> \in Request \X (1..MaxPool) /\ held' \subseteq Request \X (1..MaxPool)
  BY DEF ConnectionsAreReturned
<1>3. \A v \in Request : At(v, "using")' => req'[v].pool \in 1..MaxPool /\ status'[req'[v].pool] \in {"open", "closing"}
  BY <1>1 DEF ConnectionsAreReturned, Serving
<1>4. ASSUME NEW v \in Request, NEW x \in 1..MaxPool
      PROVE  <<v, x>> \in held' <=> At(v, "using")' /\ req'[v].pool = x
  <2>1. CASE v = r
    BY <2>1 DEF ConnectionsAreReturned
  <2>2. CASE v # r
    BY <1>1, <2>2 DEF ConnectionsAreReturned
  <2> QED
    BY <2>1, <2>2
<1>5. ASSUME NEW x \in 1..MaxPool
      PROVE  Cardinality(TakenFrom(x)') <= PoolSize
  <2>1. CASE x = p
    <3>1. TakenFrom(p)' = TakenFrom(p) \cup {<<r, p>>}
      BY DEF TakenFrom
    <3>2. IsFiniteSet(TakenFrom(p)) /\ Cardinality(TakenFrom(p)) \in Nat
      BY TakenIsFinite
    <3> DEFINE T == TakenFrom(p)
               n == Cardinality(T \cup {<<r, p>>})
    <3>3. n = Cardinality(T) \/ n = Cardinality(T) + 1
      BY <3>2, FS_AddElement
    <3>4. n <= PoolSize
      BY <3>2, <3>3
    <3> QED
      BY <2>1, <3>1, <3>4
  <2>2. CASE x # p
    <3>1. TakenFrom(x)' = TakenFrom(x)
      BY <2>2 DEF TakenFrom
    <3> QED
      BY <3>1 DEF ConnectionsAreReturned
  <2> QED
    BY <2>1, <2>2
<1> QED
  BY <1>2, <1>3, <1>4, <1>5 DEF ConnectionsAreReturned, Serving

LEMMA ConnectionGivenBack ==
  ASSUME ConnectionsAreReturned, NEW r \in Request, held' = {h \in held : h[1] # r},
         ~At(r, "using")', \A v \in Request \ {r} : req'[v] = req[v], UNCHANGED status
  PROVE  ConnectionsAreReturned'
<1>1. \A v \in Request \ {r} : At(v, "using")' <=> At(v, "using")
  BY DEF At
<1>2. held' \subseteq Request \X (1..MaxPool)
  BY DEF ConnectionsAreReturned
<1>3. \A v \in Request : At(v, "using")' => req'[v].pool \in 1..MaxPool /\ status'[req'[v].pool] \in {"open", "closing"}
  BY <1>1 DEF ConnectionsAreReturned, Serving
<1>4. ASSUME NEW v \in Request, NEW x \in 1..MaxPool
      PROVE  <<v, x>> \in held' <=> At(v, "using")' /\ req'[v].pool = x
  BY <1>1 DEF ConnectionsAreReturned
<1>5. ASSUME NEW x \in 1..MaxPool
      PROVE  Cardinality(TakenFrom(x)') <= PoolSize
  <2>1. TakenFrom(x)' \subseteq TakenFrom(x)
    BY DEF TakenFrom
  <2>2. IsFiniteSet(TakenFrom(x)) /\ Cardinality(TakenFrom(x)) \in Nat
    BY TakenIsFinite
  <2>3. IsFiniteSet(TakenFrom(x)') /\ Cardinality(TakenFrom(x)') <= Cardinality(TakenFrom(x))
    BY <2>1, <2>2, FS_Subset
  <2>4. Cardinality(TakenFrom(x)') \in Nat /\ Cardinality(TakenFrom(x)) <= PoolSize
    BY <2>3, FS_CardinalityType DEF ConnectionsAreReturned
  <2> QED
    BY <2>2, <2>3, <2>4
<1> QED
  BY <1>2, <1>3, <1>4, <1>5 DEF ConnectionsAreReturned, Serving

-----------------------------------------------------------------------------
(* The step of one request.                                                *)
LEMMA RequestSet ==
  ASSUME IInv, NEW r \in Request, NEW n, Set(r, n)
  PROVE  req'[r] = n /\ \A v \in Request \ {r} : req'[v] = req[v]
BY DEF Set, IInv, Ledger, LedgerTypes

LEMMA LockRests ==
  ASSUME IInv, PoolsAreMade, NEW r \in Request, NEW n, Set(r, n), ~At(r, "create"), UNCHANGED lock
  PROVE  \A v \in Request : lock' = v => At(v, "create")'
BY RequestSet DEF PoolsAreMade, At

LEMMA StepsAside ==
  ASSUME IInv, ConnectionsAreReturned, NEW r \in Request, ~At(r, "using"), NEW n, Set(r, n),
         n.pc # "using", UNCHANGED held,
         \A v \in Request : At(v, "using") => status'[req[v].pool] \in {"open", "closing"}
  PROVE  ConnectionsAreReturned'
<1>1. req'[r] = n /\ \A v \in Request \ {r} : req'[v] = req[v]
  BY RequestSet
<1>2. \A v \in Request : /\ At(v, "using")' <=> At(v, "using")
                         /\ At(v, "using") => req'[v].pool = req[v].pool
  BY <1>1 DEF At
<1> QED
  BY <1>2, ConnectionsRest

LEMMA PoolsRest ==
  ASSUME IInv, PoolsAreMade, NEW r \in Request, NEW n, Set(r, n),
         n.pc \in {"waiting", "closing"} => n.pool \in Created,
         UNCHANGED <<pool, status>>, faults' <= MaxFault,
         \A v \in Request : lock' = v => At(v, "create")'
  PROVE  PoolsAreMade'
<1>1. req'[r] = n /\ \A v \in Request \ {r} : req'[v] = req[v]
  BY RequestSet
<1>2. Created' = Created
  BY DEF Created
<1>3. \A v \in Request : At(v, "waiting")' \/ At(v, "closing")' => req'[v].pool \in Created
  BY <1>1 DEF PoolsAreMade, At
<1> QED
  BY <1>2, <1>3 DEF PoolsAreMade

(* The step of a request that has no connection and gets none.             *)
LEMMA GoesOnAside ==
  ASSUME IInv, ConnInv, NEW r \in Request, ~At(r, "using"), ~At(r, "create"), NEW n, Set(r, n),
         n.pc # "using", n.pc \in {"waiting", "closing"} => n.pool \in Created,
         UNCHANGED <<pool, status, lock, held>>, faults' <= MaxFault
  PROVE  ConnInv'
<1>1. \A v \in Request : At(v, "using") => status'[req[v].pool] \in {"open", "closing"}
  BY DEF ConnInv, ConnectionsAreReturned, Serving
<1>2. ConnectionsAreReturned'
  BY <1>1, StepsAside DEF ConnInv
<1>3. \A v \in Request : lock' = v => At(v, "create")'
  BY LockRests DEF ConnInv
<1>4. PoolsAreMade'
  BY <1>3, PoolsRest DEF ConnInv
<1> QED
  BY <1>2, <1>4 DEF ConnInv

(* A new pool.                                                             *)
LEMMA PoolInstalled ==
  ASSUME IInv, PoolsAreMade, InstallPool
  PROVE  /\ NextPool \in 1..MaxPool /\ ~Serving(NextPool) /\ status'[NextPool] = "open"
         /\ \A x \in 1..MaxPool : Serving(x) => Serving(x)'
         /\ Created \subseteq Created'
         /\ pool' \in Created' /\ Created' = 1..Cardinality(Created')
<1> DEFINE m == Cardinality(Created)
           p == m + 1
<1>1. NextPool = p /\ p \in 1..MaxPool /\ pool' = p /\ status' = [status EXCEPT ![p] = "open"]
  BY DEF InstallPool, NextPool
<1>2. status \in [1..MaxPool -> {"unused", "open", "closing", "closed"}]
  BY DEF IInv, PoolInv, PoolTypes
<1>3. Created \subseteq 1..MaxPool
  BY DEF Created
<1>4. m \in Nat
  <2>1. IsFiniteSet(1..MaxPool)
    BY FS_Interval
  <2>2. IsFiniteSet(Created)
    BY <1>3, <2>1, FS_Subset
  <2> QED
    BY <2>2, FS_CardinalityType
<1>5. Created = 1..m
  BY DEF PoolsAreMade
<1> HIDE DEF m, p
<1>6. p = m + 1 /\ p \notin Created
  BY <1>4, <1>5 DEF p
<1>7. status[p] = "unused" /\ status'[p] = "open" /\ \A x \in 1..MaxPool : x # p => status'[x] = status[x]
  BY <1>1, <1>2, <1>6 DEF Created
<1>8. Created' = Created \cup {p}
  BY <1>1, <1>7 DEF Created
<1>9. Created' = 1..p
  BY <1>4, <1>5, <1>6, <1>8
<1>10. Cardinality(1..p) = p
  BY <1>4, <1>6, FS_Interval
<1>11. Created' = 1..Cardinality(Created')
  BY <1>9, <1>10
<1> QED
  BY <1>1, <1>7, <1>8, <1>11 DEF Serving

LEMMA InstalledAside ==
  ASSUME IInv, ConnInv, NEW r \in Request, ~At(r, "using"), ~At(r, "create"), NEW n, Set(r, n),
         n.pc \notin {"using", "waiting", "closing"}, InstallPool,
         UNCHANGED <<lock, held>>, faults' <= MaxFault
  PROVE  ConnInv'
<1>1. \A v \in Request : At(v, "using") => status'[req[v].pool] \in {"open", "closing"}
  BY PoolInstalled DEF ConnInv, ConnectionsAreReturned, Serving
<1>2. ConnectionsAreReturned'
  BY <1>1, StepsAside DEF ConnInv
<1>3. \A v \in Request : lock' = v => At(v, "create")'
  BY LockRests DEF ConnInv
<1>4. req'[r] = n /\ \A v \in Request \ {r} : req'[v] = req[v]
  BY RequestSet
<1>5. \A v \in Request : At(v, "waiting")' \/ At(v, "closing")' => req'[v].pool \in Created'
  BY <1>4, PoolInstalled DEF ConnInv, PoolsAreMade, At
<1>6. PoolsAreMade'
  BY <1>3, <1>5, PoolInstalled DEF ConnInv, PoolsAreMade
<1> QED
  BY <1>2, <1>6 DEF ConnInv

-----------------------------------------------------------------------------
LEMMA TakeFromKeeps ==
  ASSUME IInv, ConnInv, NEW r \in Request, At(r, "connect") \/ At(r, "ensure") \/ At(r, "waiting"),
         NEW p \in Created, TakeFrom(r, p), UNCHANGED <<pool, status, lock, faults>>
  PROVE  ConnInv'
<1>1. InProgress(r) /\ req[r].pc \in Connecting /\ ~At(r, "using") /\ ~At(r, "create")
  BY DEF InProgress, At, Connecting
<1>2. req[r] \in Active /\ Fit(req[r])
  BY <1>1, Progress DEF IInv, Ledger, Fits
<1>3. p \in 1..MaxPool /\ faults' <= MaxFault
  BY DEF Created, ConnInv, PoolsAreMade
<1>4. CASE /\ status[p] = "open" /\ Cardinality({h \in held : h[2] = p}) < PoolSize
           /\ held' = held \cup {<<r, p>>}
           /\ Set(r, [req[r] EXCEPT !.pc = "using", !.pool = p])
  <2> DEFINE n == [req[r] EXCEPT !.pc = "using", !.pool = p]
  <2>1. n.pc = "using" /\ n.pool = p
    BY <1>2 DEF Active
  <2>2. Set(r, n)
    BY <1>4
  <2> HIDE DEF n
  <2>3. req'[r] = n /\ \A v \in Request \ {r} : req'[v] = req[v]
    BY <2>2, RequestSet
  <2>4. Serving(p)' /\ \A x \in 1..MaxPool : Serving(x) => Serving(x)'
    BY <1>4 DEF Serving
  <2>5. At(r, "using")' /\ req'[r].pool = p
    BY <2>1, <2>3 DEF At
  <2>6. Cardinality(TakenFrom(p)) < PoolSize /\ held' = held \cup {<<r, p>>}
    BY <1>4 DEF TakenFrom
  <2>7. ConnectionsAreReturned'
    BY <1>1, <1>3, <2>3, <2>4, <2>5, <2>6, ConnectionTaken DEF ConnInv
  <2>8. \A v \in Request : lock' = v => At(v, "create")'
    BY <1>1, <2>2, LockRests DEF ConnInv
  <2>9. PoolsAreMade'
    BY <1>3, <2>1, <2>2, <2>8, PoolsRest DEF ConnInv
  <2> QED
    BY <2>7, <2>9 DEF ConnInv
<1>5. CASE Set(r, [req[r] EXCEPT !.pc = "waiting", !.pool = p]) /\ UNCHANGED held
  <2> DEFINE n == [req[r] EXCEPT !.pc = "waiting", !.pool = p]
  <2>1. n.pc = "waiting" /\ n.pool = p
    BY <1>2 DEF Active
  <2>2. Set(r, n)
    BY <1>5
  <2> HIDE DEF n
  <2> QED
    BY <1>1, <1>3, <1>5, <2>1, <2>2, GoesOnAside
<1>6. CASE Set(r, Raised(req[r])) /\ UNCHANGED held
  <2>1. Raised(req[r]).pc \in Beyond
    BY <1>1, <1>2, ConnectionEnds
  <2> QED
    BY <1>1, <1>3, <1>6, <2>1, GoesOnAside DEF Beyond
<1> QED
  BY <1>4, <1>5, <1>6 DEF TakeFrom

LEMMA Relabelled ==
  ASSUME IInv, NEW r \in Request, InProgress(r), NEW l, Goto(r, l)
  PROVE  \E n : Set(r, n) /\ n.pc = l
<1>1. req[r] \in Active
  BY Progress DEF IInv, Ledger
<1>2. [req[r] EXCEPT !.pc = l].pc = l
  BY <1>1 DEF Active
<1> QED
  BY <1>2 DEF Goto

LEMMA LockKeepsConnections ==
  ASSUME IInv, ConnInv, NEW r \in Request, At(r, "connect") \/ At(r, "ensure"),
         lock' = r, Goto(r, "create"), UNCHANGED <<pool, status, held, faults>>
  PROVE  ConnInv'
<1>1. InProgress(r) /\ ~At(r, "using")
  BY DEF InProgress, At
<1>2. PICK n : Set(r, n) /\ n.pc = "create"
  BY <1>1, Relabelled
<1>3. req'[r] = n
  BY <1>2, RequestSet
<1>4. \A v \in Request : At(v, "using") => status'[req[v].pool] \in {"open", "closing"}
  BY DEF ConnInv, ConnectionsAreReturned, Serving
<1>5. ConnectionsAreReturned'
  BY <1>1, <1>2, <1>4, StepsAside DEF ConnInv
<1>6. \A v \in Request : lock' = v => At(v, "create")'
  BY <1>2, <1>3 DEF At
<1>7. faults' <= MaxFault
  BY DEF ConnInv, PoolsAreMade
<1>8. PoolsAreMade'
  BY <1>2, <1>6, <1>7, PoolsRest DEF ConnInv
<1> QED
  BY <1>5, <1>8 DEF ConnInv

LEMMA AcquireConnects ==
  ASSUME IInv, ConnInv, NEW r \in Request, Acquire(r)
  PROVE  ConnInv'
<1>1. At(r, "connect") /\ InProgress(r) /\ req[r].pc \in Connecting /\ ~At(r, "using") /\ ~At(r, "create")
  BY DEF Acquire, InProgress, At, Connecting
<1>2. req[r] \in Active /\ Fit(req[r])
  BY <1>1, Progress DEF IInv, Ledger, Fits
<1>3. UNCHANGED <<pool, status, faults>> /\ faults' <= MaxFault
  BY DEF Acquire, ConnInv, PoolsAreMade
<1>4. CASE pool # 0 /\ TakeFrom(r, pool) /\ UNCHANGED lock
  <2>1. pool \in Created
    BY <1>4 DEF ConnInv, PoolsAreMade
  <2> QED
    BY <1>1, <1>3, <1>4, <2>1, TakeFromKeeps
<1>5. CASE NoPool(req[r]) # "connect" /\ Set(r, SkipOr(req[r], NoPool(req[r]))) /\ UNCHANGED <<held, lock>>
  <2>1. SkipOr(req[r], NoPool(req[r])).pc \in Beyond
    BY <1>1, <1>2, <1>5, ConnectionEnds
  <2> QED
    BY <1>1, <1>3, <1>5, <2>1, GoesOnAside DEF Beyond
<1>6. CASE Goto(r, "ensure") /\ UNCHANGED <<lock, held>>
  <2>1. PICK n : Set(r, n) /\ n.pc = "ensure"
    BY <1>1, <1>6, Relabelled
  <2> QED
    BY <1>1, <1>3, <1>6, <2>1, GoesOnAside
<1>7. CASE lock' = r /\ Goto(r, "create") /\ UNCHANGED held
  BY <1>1, <1>3, <1>7, LockKeepsConnections
<1> QED
  BY <1>4, <1>5, <1>6, <1>7 DEF Acquire

LEMMA EnsurePoolConnects ==
  ASSUME IInv, ConnInv, NEW r \in Request, EnsurePool(r)
  PROVE  ConnInv'
<1>1. At(r, "ensure") /\ UNCHANGED <<pool, status, faults>>
  BY DEF EnsurePool
<1>2. CASE pool # 0 /\ TakeFrom(r, pool) /\ UNCHANGED lock
  <2>1. pool \in Created
    BY <1>2 DEF ConnInv, PoolsAreMade
  <2> QED
    BY <1>1, <1>2, <2>1, TakeFromKeeps
<1>3. CASE lock' = r /\ Goto(r, "create") /\ UNCHANGED held
  BY <1>1, <1>3, LockKeepsConnections
<1> QED
  BY <1>2, <1>3 DEF EnsurePool

LEMMA CreatePoolConnects ==
  ASSUME IInv, ConnInv, NEW r \in Request, CreatePool(r)
  PROVE  ConnInv'
<1>1. At(r, "create") /\ InProgress(r) /\ req[r].pc \in Connecting /\ ~At(r, "using")
  BY DEF CreatePool, InProgress, At, Connecting
<1>2. req[r] \in Active /\ Fit(req[r])
  BY <1>1, Progress DEF IInv, Ledger, Fits
<1>3. lock' = Nobody /\ \A v \in Request : lock' = v => At(v, "create")'
  BY DEF CreatePool
<1>4. CASE /\ InstallPool
           /\ held' = held \cup {<<r, NextPool>>}
           /\ Set(r, [req[r] EXCEPT !.pc = "using", !.pool = NextPool])
           /\ UNCHANGED faults
  <2> DEFINE p == NextPool
             n == [req[r] EXCEPT !.pc = "using", !.pool = p]
  <2>1. n.pc = "using" /\ n.pool = p /\ Set(r, n)
    BY <1>2, <1>4 DEF Active
  <2> HIDE DEF n
  <2>2. req'[r] = n /\ \A v \in Request \ {r} : req'[v] = req[v]
    BY <2>1, RequestSet
  <2>3. /\ p \in 1..MaxPool /\ ~Serving(p) /\ status'[p] = "open"
        /\ \A x \in 1..MaxPool : Serving(x) => Serving(x)'
        /\ Created \subseteq Created' /\ pool' \in Created' /\ Created' = 1..Cardinality(Created')
    BY <1>4, PoolInstalled DEF ConnInv
  <2>4. held' = held \cup {<<r, p>>}
    BY <1>4
  <2> HIDE DEF p
  <2>5. Cardinality(TakenFrom(p)) < PoolSize
    BY <2>3, IdlePools DEF ConnInv
  <2>6. At(r, "using")' /\ req'[r].pool = p
    BY <2>1, <2>2 DEF At
  <2>7. PICK x \in 1..MaxPool : x = p
    BY <2>3
  <2>8. Serving(x)' /\ held' = held \cup {<<r, x>>} /\ req'[r].pool = x
        /\ Cardinality(TakenFrom(x)) < PoolSize
    BY <2>3, <2>4, <2>5, <2>6, <2>7 DEF Serving
  <2>9. ConnectionsAreReturned'
    BY <1>1, <2>2, <2>3, <2>6, <2>8, ConnectionTaken DEF ConnInv
  <2>10. \A v \in Request : At(v, "waiting")' \/ At(v, "closing")' => req'[v].pool \in Created'
    BY <2>1, <2>2, <2>3 DEF ConnInv, PoolsAreMade, At
  <2>11. PoolsAreMade'
    BY <1>3, <1>4, <2>3, <2>10 DEF ConnInv, PoolsAreMade
  <2> QED
    BY <2>9, <2>11 DEF ConnInv
<1>5. CASE Fault /\ (\E q \in Unready(req[r]) : Set(r, q)) /\ UNCHANGED <<pool, status, held>>
  <2>6. PICK n \in Unready(req[r]) : Set(r, n)
    BY <1>5
  <2>1. n.pc \in Beyond
    BY <1>1, <1>2, ConnectionEnds
  <2>2. faults' <= MaxFault
    BY <1>5 DEF Fault, IInv, PoolInv, PoolTypes
  <2>3. \A v \in Request : At(v, "using") => status'[req[v].pool] \in {"open", "closing"}
    BY <1>5 DEF ConnInv, ConnectionsAreReturned, Serving
  <2>4. ConnectionsAreReturned'
    BY <1>1, <1>5, <2>1, <2>3, <2>6, StepsAside DEF ConnInv, Beyond
  <2>5. PoolsAreMade'
    BY <1>3, <1>5, <2>1, <2>2, <2>6, PoolsRest DEF ConnInv, Beyond
  <2> QED
    BY <2>4, <2>5 DEF ConnInv
<1> QED
  BY <1>4, <1>5 DEF CreatePool

LEMMA WakeConnects ==
  ASSUME IInv, ConnInv, NEW r \in Request, Wake(r)
  PROVE  ConnInv'
<1>1. req[r].pool \in Created /\ At(r, "waiting")
  BY DEF Wake, ConnInv, PoolsAreMade
<1> QED
  BY <1>1, TakeFromKeeps DEF Wake

LEMMA QueryConnects ==
  ASSUME IInv, ConnInv, NEW r \in Request, Query(r)
  PROVE  ConnInv'
<1>1. At(r, "using") /\ InProgress(r) /\ req[r].pc \in Connecting /\ ~At(r, "create")
  BY DEF Query, InProgress, At, Connecting
<1>2. req[r] \in Active /\ Fit(req[r])
  BY <1>1, Progress DEF IInv, Ledger, Fits
<1>3. UNCHANGED <<pool, status, lock>> /\ held' = {h \in held : h[1] # r} /\ faults' <= MaxFault
  BY DEF Query, Fault, ConnInv, PoolsAreMade, IInv, PoolInv, PoolTypes
<1>4. PICK n : Set(r, n) /\ n.pc \in Beyond
  BY <1>1, <1>2, ConnectionEnds DEF Query
<1>5. req'[r] = n /\ \A v \in Request \ {r} : req'[v] = req[v]
  BY <1>4, RequestSet
<1>6. ConnectionsAreReturned'
  BY <1>3, <1>4, <1>5, ConnectionGivenBack DEF ConnInv, At, Beyond
<1>7. \A v \in Request : lock' = v => At(v, "create")'
  BY <1>1, <1>3, <1>4, LockRests DEF ConnInv
<1>8. PoolsAreMade'
  BY <1>3, <1>4, <1>7, PoolsRest DEF ConnInv, Beyond
<1> QED
  BY <1>6, <1>8 DEF ConnInv

(* The handlers, away from any connection.                                 *)
LEMMA HandlerConnects ==
  ASSUME IInv, ConnInv, NEW r \in Request, Handle(r) \/ Push(r) \/ Store(r)
  PROVE  ConnInv'
<1>1. /\ req[r].pc \in {"handle", "push", "store"} /\ ~At(r, "using") /\ ~At(r, "create") /\ InProgress(r)
      /\ UNCHANGED <<pool, status, lock, held>>
  BY DEF Handle, Push, Store, At, InProgress
<1>2. req[r] \in Active /\ Fit(req[r])
  BY <1>1, Progress DEF IInv, Ledger, Fits
<1>3. faults' <= MaxFault
  <2>1. faults \in Nat /\ faults <= MaxFault
    BY DEF IInv, PoolInv, PoolTypes, ConnInv, PoolsAreMade
  <2>2. faults' = faults \/ (faults < MaxFault /\ faults' = faults + 1)
    BY DEF Handle, Push, Store, Fault, IInv, Ledger, LedgerTypes
  <2> QED
    BY <2>1, <2>2
<1>4. ASSUME NEW n, Set(r, n), n.pc \in {"connect", "push", "init", "store", "close", "done"}
      PROVE  ConnInv'
  BY <1>1, <1>3, <1>4, GoesOnAside
<1>5. ASSUME NEW a, Answer(r, a)
      PROVE  ConnInv'
  BY <1>4, <1>5 DEF Answer, Answered
<1>6. ASSUME NEW l \in {"connect", "push", "init", "store", "close"}, Goto(r, l)
      PROVE  ConnInv'
  BY <1>1, <1>4, <1>6, Relabelled
<1>7. ASSUME Work(r), At(r, "handle")
      PROVE  ConnInv'
  <2> DEFINE l == [ask |-> "connect", ingest |-> "push", backfill |-> "init"][req[r].kind]
             n == [req[r] EXCEPT !.began = TRUE, !.beside = Beside(r), !.pc = l]
  <2>1. req[r].kind \in Posts
    BY <1>2, <1>7 DEF Fit, At
  <2>2. l \in {"connect", "push", "init"}
    BY <2>1 DEF Posts
  <2>3. Set(r, n) /\ n.pc = l
    BY <1>2, <1>7 DEF Work, Active
  <2> HIDE DEF n, l
  <2> QED
    BY <1>4, <2>2, <2>3
<1>8. CASE Handle(r)
  BY <1>5, <1>7, <1>8 DEF Handle
<1>9. CASE Store(r)
  BY <1>5, <1>9 DEF Store
<1>10. CASE Push(r)
  <2>1. CASE UNCHANGED req
    <3>1. Set(r, req[r])
      BY <2>1 DEF Set, IInv, Ledger, LedgerTypes
    <3> QED
      BY <1>1, <1>4, <1>10, <3>1 DEF Push, At
  <2>2. CASE Set(r, [req[r] EXCEPT !.pc = "connect", !.use = "finish_run"])
    <3>1. [req[r] EXCEPT !.pc = "connect", !.use = "finish_run"].pc = "connect"
      BY <1>2 DEF Active
    <3> QED
      BY <1>4, <2>2, <3>1
  <2>3. CASE Goto(r, "store") \/ Goto(r, "close")
    BY <1>6, <2>3
  <2>4. CASE Answer(r, "error")
    BY <1>5, <2>4
  <2> QED
    BY <1>10, <2>1, <2>2, <2>3, <2>4 DEF Push
<1> QED
  BY <1>8, <1>9, <1>10

LEMMA InitPoolConnects ==
  ASSUME IInv, ConnInv, NEW r \in Request, InitPool(r)
  PROVE  ConnInv'
<1>1. At(r, "init") /\ InProgress(r) /\ ~At(r, "using") /\ ~At(r, "create") /\ UNCHANGED <<lock, held>>
  BY DEF InitPool, At, InProgress
<1>2. req[r] \in Active
  BY <1>1, Progress DEF IInv, Ledger
<1>3. faults' <= MaxFault
  BY DEF InitPool, Fault, IInv, PoolInv, PoolTypes, ConnInv, PoolsAreMade
<1>4. PICK n : Set(r, n) /\ n.pc \in {"connect", "close", "done"}
  <2>1. [req[r] EXCEPT !.pc = "connect", !.use = "insert_run"].pc = "connect"
    BY <1>2 DEF Active
  <2>2. Answered(req[r], "error").pc = "done"
    BY DEF Answered
  <2> QED
    BY <1>1, <2>1, <2>2, Relabelled DEF InitPool, Answer
<1>5. CASE InstallPool
  BY <1>1, <1>3, <1>4, <1>5, InstalledAside
<1>6. CASE UNCHANGED <<pool, status>>
  BY <1>1, <1>3, <1>4, <1>6, GoesOnAside
<1> QED
  BY <1>5, <1>6 DEF InitPool

(* close_pool waits for the connections of its pool.                       *)
LEMMA ClosePoolConnects ==
  ASSUME IInv, ConnInv, NEW r \in Request, ClosePool(r)
  PROVE  ConnInv'
<1>1. At(r, "close") /\ InProgress(r) /\ ~At(r, "using") /\ ~At(r, "create")
      /\ UNCHANGED <<pool, lock, held, faults>>
  BY DEF ClosePool, At, InProgress
<1>2. faults' <= MaxFault
  BY <1>1 DEF ConnInv, PoolsAreMade
<1>3. CASE /\ pool # 0
           /\ status' = [status EXCEPT ![pool] = IF @ = "open" THEN "closing" ELSE @]
           /\ req' = [req EXCEPT ![r].pc = "closing", ![r].pool = pool]
  <2> DEFINE n == [req[r] EXCEPT !.pc = "closing", !.pool = pool]
  <2>1. req[r] \in Active
    BY <1>1, Progress DEF IInv, Ledger
  <2>2. n.pc = "closing" /\ n.pool = pool
    BY <2>1 DEF Active
  <2>3. Set(r, n)
    BY <1>3 DEF Set, IInv, Ledger, LedgerTypes
  <2> HIDE DEF n
  <2>4. pool \in Created /\ pool \in 1..MaxPool
    BY <1>3 DEF ConnInv, PoolsAreMade, Created
  <2>5. status \in [1..MaxPool -> {"unused", "open", "closing", "closed"}]
    BY DEF IInv, PoolInv, PoolTypes
  <2>6. \A x \in 1..MaxPool : status'[x] = status[x] \/ (status[x] = "open" /\ status'[x] = "closing")
    BY <1>3, <2>5
  <2>7. Created' = Created
    BY <2>6 DEF Created
  <2>8. \A v \in Request : At(v, "using") => status'[req[v].pool] \in {"open", "closing"}
    BY <2>6 DEF ConnInv, ConnectionsAreReturned, Serving
  <2>9. ConnectionsAreReturned'
    BY <1>1, <2>2, <2>3, <2>8, StepsAside DEF ConnInv
  <2>10. \A v \in Request : lock' = v => At(v, "create")'
    BY <1>1, <2>3, LockRests DEF ConnInv
  <2>11. req'[r] = n /\ \A v \in Request \ {r} : req'[v] = req[v]
    BY <2>3, RequestSet
  <2>12. \A v \in Request : At(v, "waiting")' \/ At(v, "closing")' => req'[v].pool \in Created
    BY <2>2, <2>4, <2>11 DEF ConnInv, PoolsAreMade, At
  <2>13. PoolsAreMade'
    BY <1>1, <1>2, <2>7, <2>10, <2>12 DEF ConnInv, PoolsAreMade
  <2> QED
    BY <2>9, <2>13 DEF ConnInv
<1>4. CASE Goto(r, "store") /\ UNCHANGED status
  <2>1. PICK n : Set(r, n) /\ n.pc = "store"
    BY <1>1, <1>4, Relabelled
  <2> QED
    BY <1>1, <1>2, <1>4, <2>1, GoesOnAside
<1> QED
  BY <1>3, <1>4 DEF ClosePool

LEMMA PoolClosedConnects ==
  ASSUME IInv, ConnInv, NEW r \in Request, PoolClosed(r)
  PROVE  ConnInv'
<1> DEFINE p == req[r].pool
<1>1. /\ At(r, "closing") /\ InProgress(r) /\ ~At(r, "using") /\ ~At(r, "create")
      /\ \A h \in held : h[2] # p
      /\ status' = [status EXCEPT ![p] = "closed"] /\ pool' = 0
      /\ UNCHANGED <<lock, held, faults>>
  BY DEF PoolClosed, At, InProgress
<1>2. p \in Created /\ p \in 1..MaxPool
  BY <1>1 DEF ConnInv, PoolsAreMade, Created
<1>3. PICK n : Set(r, n) /\ n.pc = "store"
  BY <1>1, Relabelled DEF PoolClosed
<1>4. req'[r] = n /\ \A v \in Request \ {r} : req'[v] = req[v]
  BY <1>3, RequestSet
<1> HIDE DEF p
<1>5. status \in [1..MaxPool -> {"unused", "open", "closing", "closed"}]
  BY DEF IInv, PoolInv, PoolTypes
<1>6. \A x \in 1..MaxPool : status'[x] = IF x = p THEN "closed" ELSE status[x]
  BY <1>1, <1>5
<1>7. Created' = Created
  BY <1>2, <1>6 DEF Created
<1>8. ASSUME NEW v \in Request, At(v, "using")
      PROVE  status'[req[v].pool] \in {"open", "closing"}
  <2> DEFINE x == req[v].pool
  <2>1. x \in 1..MaxPool /\ status[x] \in {"open", "closing"} /\ <<v, x>> \in held
    BY <1>8 DEF ConnInv, ConnectionsAreReturned, Serving
  <2>2. x # p
    BY <1>1, <2>1
  <2> QED
    BY <1>6, <2>1, <2>2
<1>9. ConnectionsAreReturned'
  BY <1>1, <1>3, <1>8, StepsAside DEF ConnInv
<1>10. \A v \in Request : lock' = v => At(v, "create")'
  BY <1>1, <1>3, LockRests DEF ConnInv
<1>11. \A v \in Request : At(v, "waiting")' \/ At(v, "closing")' => req'[v].pool \in Created
  BY <1>3, <1>4 DEF ConnInv, PoolsAreMade, At
<1>12. PoolsAreMade'
  BY <1>1, <1>7, <1>10, <1>11 DEF ConnInv, PoolsAreMade
<1> QED
  BY <1>9, <1>12 DEF ConnInv

LEMMA ArriveConnects ==
  ASSUME IInv, ConnInv, NEW r \in Request, Arrive(r)
  PROVE  ConnInv'
<1>1. req[r].pc = "idle" /\ UNCHANGED <<pool, status, lock, held, faults>>
  BY DEF Arrive, Idle
<1>2. faults' <= MaxFault
  BY <1>1 DEF ConnInv, PoolsAreMade
<1>3. PICK o \in Offers(r) : \E p \in Plans[o.endpoint] :
        Set(r, NewRequest(o, p)) \/ Set(r, Admitted(NewRequest(o, p)))
  BY DEF Arrive, Set
<1>p. PICK p \in Plans[o.endpoint] : Set(r, NewRequest(o, p)) \/ Set(r, Admitted(NewRequest(o, p)))
  BY <1>3
<1> DEFINE q == NewRequest(o, p)
<1>4. q \in Active /\ q.pc = "connect"
  BY NewRequests
<1> HIDE DEF q
<1>5. Admitted(q).pc \in {"handle", "connect"}
  BY <1>4 DEF Admitted, Active
<1>6. PICK n : Set(r, n) /\ n.pc \in {"handle", "connect"}
  BY <1>p, <1>4, <1>5 DEF q
<1> QED
  BY <1>1, <1>2, <1>6, GoesOnAside DEF At

LEMMA StartUpConnects ==
  ASSUME IInv, ConnInv, StartUp
  PROVE  ConnInv'
<1>1. UNCHANGED <<lock, req, held>>
  BY DEF StartUp
<1>2. faults' <= MaxFault
  BY DEF StartUp, Fault, IInv, PoolInv, PoolTypes, ConnInv, PoolsAreMade
<1>3. /\ pool' \in {0} \cup Created' /\ Created' = 1..Cardinality(Created') /\ Created \subseteq Created'
      /\ \A x \in 1..MaxPool : Serving(x) => Serving(x)'
  <2>1. CASE InstallPool
    BY <2>1, PoolInstalled DEF ConnInv
  <2>2. CASE UNCHANGED <<pool, status>>
    BY <2>2 DEF ConnInv, PoolsAreMade, Created, Serving
  <2> QED
    BY <2>1, <2>2 DEF StartUp
<1>4. ConnectionsAreReturned'
  <2>1. \A v \in Request : /\ At(v, "using")' <=> At(v, "using")
                           /\ At(v, "using") => /\ req'[v].pool = req[v].pool
                                                /\ status'[req[v].pool] \in {"open", "closing"}
    BY <1>1, <1>3 DEF ConnInv, ConnectionsAreReturned, Serving, At
  <2> QED
    BY <1>1, <2>1, ConnectionsRest DEF ConnInv
<1>5. PoolsAreMade'
  BY <1>1, <1>2, <1>3 DEF ConnInv, PoolsAreMade, At
<1> QED
  BY <1>4, <1>5 DEF ConnInv

LEMMA ExitConnects ==
  ASSUME IInv, ConnInv, Exit
  PROVE  ConnInv'
<1>1. /\ pool' = 0 /\ lock' = Nobody /\ held' = {}
      /\ status' = [p \in 1..MaxPool |-> IF p \in Created THEN "closed" ELSE "unused"]
      /\ req' = [r \in Request |-> IF InProgress(r) THEN Answered(req[r], "dropped") ELSE req[r]]
  BY DEF Exit
<1>2. \A r \in Request : req'[r].pc \in {"idle", "done"}
  BY <1>1 DEF InProgress, Answered
<1>3. Created' = Created
  BY <1>1 DEF Created
<1>4. \A p \in 1..MaxPool : Cardinality(TakenFrom(p)') <= PoolSize
  <2>1. \A p : TakenFrom(p)' = {}
    BY <1>1 DEF TakenFrom
  <2> QED
    BY <2>1, FS_EmptySet
<1>5. ConnectionsAreReturned'
  BY <1>1, <1>2, <1>4 DEF ConnectionsAreReturned, At
<1>6. faults' <= MaxFault
  BY DEF Exit, Fault, IInv, PoolInv, PoolTypes
<1>7. PoolsAreMade'
  BY <1>1, <1>2, <1>3, <1>6 DEF ConnInv, PoolsAreMade, At
<1> QED
  BY <1>5, <1>7 DEF ConnInv

LEMMA InitConnects == Init => ConnInv
<1> SUFFICES ASSUME Init PROVE ConnInv
  OBVIOUS
<1>1. \A r \in Request : req[r].pc = "idle"
  BY DEF Init, Idle
<1>2. held = {} /\ pool = 0 /\ lock = Nobody /\ faults = 0
  BY DEF Init
<1>3. Created = {} /\ Cardinality(Created) = 0 /\ {} = 1..0
  <2>1. Created = {}
    BY DEF Init, Created
  <2> QED
    BY <2>1, FS_EmptySet
<1>4. \A p : Cardinality(TakenFrom(p)) = 0
  BY <1>2, FS_EmptySet DEF TakenFrom
<1>5. ConnectionsAreReturned
  BY <1>1, <1>2, <1>4 DEF ConnectionsAreReturned, At
<1>6. PoolsAreMade
  BY <1>1, <1>2, <1>3 DEF PoolsAreMade, At
<1> QED
  BY <1>5, <1>6 DEF ConnInv

LEMMA NextConnects == IInv /\ ConnInv /\ [Next]_vars => ConnInv'
<1> SUFFICES ASSUME IInv, ConnInv, [Next]_vars PROVE ConnInv'
  OBVIOUS
<1>1. ASSUME NEW r \in Request, Advance(r) PROVE ConnInv'
  BY <1>1, AcquireConnects, EnsurePoolConnects, CreatePoolConnects, WakeConnects, QueryConnects,
     HandlerConnects, InitPoolConnects, ClosePoolConnects, PoolClosedConnects DEF Advance
<1>2. CASE UNCHANGED vars
  <2>1. ConnectionsAreReturned'
    <3>1. \A v \in Request : /\ At(v, "using")' <=> At(v, "using")
                             /\ At(v, "using") => /\ req'[v].pool = req[v].pool
                                                  /\ status'[req[v].pool] \in {"open", "closing"}
      BY <1>2 DEF vars, ConnInv, ConnectionsAreReturned, Serving, At
    <3> QED
      BY <1>2, <3>1, ConnectionsRest DEF vars, ConnInv
  <2>2. PoolsAreMade'
    BY <1>2 DEF vars, ConnInv, PoolsAreMade, At, Created
  <2> QED
    BY <2>1, <2>2 DEF ConnInv
<1> QED
  BY <1>1, <1>2, StartUpConnects, ExitConnects, ArriveConnects DEF Next

LEMMA InvariantOfConnections == Spec => []ConnInv
<1>1. Init /\ IInv => ConnInv
  BY InitConnects
<1> QED
  BY <1>1, InvariantOfApi, NextConnects, PTL DEF Spec

(* acquire() of db/pool.py: a request holds a connection exactly while it  *)
(* executes a block, of a pool that close_pool has not finished closing,   *)
(* and no pool gives out more than it has.  No interleaving of requests,   *)
(* failures, backfills that replace pools and restarts leaks one.          *)
THEOREM ConnectionsAreReturnedCorrect == Spec => []ConnectionsAreReturned
<1>1. ConnInv => ConnectionsAreReturned
  BY DEF ConnInv
<1> QED
  BY <1>1, InvariantOfConnections, PTL

(* The types of the API process, and with them that _init_lock is held     *)
(* exactly by the coroutine that creates a pool.                           *)
THEOREM TypeCorrect == Spec => []TypeOK
<1>1. ASSUME IInv, ConnInv
      PROVE  TypeOK
  <2>1. \A r \in Request : req[r].pc \in Labels
    <3>1. \A r \in Request : req[r] \in {Idle} \cup Active \cup Ended
      BY <1>1 DEF IInv, Ledger, LedgerTypes
    <3> QED
      BY <3>1 DEF Idle, Active, Ended, ActiveLabel, Connecting, Labels
  <2>2. \A r \in Request : (lock = r) <=> (req[r].pc = "create")
    BY <1>1 DEF IInv, PoolInv, ConnInv, PoolsAreMade, At
  <2>3. \A r \in Request, p \in 1..MaxPool : <<r, p>> \in held => p \in Created
    BY <1>1 DEF ConnInv, ConnectionsAreReturned, Serving, Created
  <2>4. held \subseteq Request \X Created
    BY <1>1, <2>3 DEF ConnInv, ConnectionsAreReturned
  <2>5. \A r \in Request : (\E p \in Created : <<r, p>> \in held) <=> (req[r].pc = "using")
    <3>1. Created \subseteq 1..MaxPool
      BY DEF Created
    <3> QED
      BY <1>1, <2>3, <3>1 DEF ConnInv, ConnectionsAreReturned, At
  <2>6. /\ up \in BOOLEAN
        /\ status \in [1..MaxPool -> {"unused", "open", "closing", "closed"}]
        /\ lock \in Request \cup {Nobody}
    BY <1>1 DEF IInv, PoolInv, PoolTypes
  <2>7. pool \in {0} \cup Created /\ Created = 1..Cardinality(Created)
    BY <1>1 DEF ConnInv, PoolsAreMade
  <2>8. /\ stored \in [Key -> Request \cup {Nobody}] /\ pushed \in [Request -> 0..Items]
        /\ replaced \in BOOLEAN
    BY <1>1 DEF IInv, Ledger, LedgerTypes
  <2>9. blind \subseteq Request
    BY <1>1 DEF IInv, Ledger, LedgerTypes
  <2>10. faults \in 0..MaxFault
    BY <1>1, ApiAssumption DEF IInv, PoolInv, PoolTypes, ConnInv, PoolsAreMade
  <2> QED
    BY <2>1, <2>2, <2>4, <2>5, <2>6, <2>7, <2>8, <2>9, <2>10 DEF TypeOK
<1> QED
  BY <1>1, InvariantOfApi, InvariantOfConnections, PTL
=============================================================================
