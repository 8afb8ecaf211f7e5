----------------------------------- MODULE Api -----------------------------------
(***************************************************************************)
(* The API process: requests handled as coroutines of one event loop, over *)
(* one Postgres pool kept in a global (db/pool.py), with answers to POSTs  *)
(* remembered in Redis under the client's Idempotency-Key                  *)
(* (api/idempotency.py, api/keys.py, ingest/backfill.py, api/main.py).     *)
(*                                                                         *)
(* An action is the code between two awaits.  What a statement returns,    *)
(* arguments a handler refuses and how an answer is worded are left out;   *)
(* kept is where each handler takes a connection, what it does without a   *)
(* pool, when a statement raises, when there are no rows to answer from    *)
(* and when it fails over rows or arguments that are there.  A behaviour   *)
(* is shorter than the 24 h an answer lives.                               *)
(***************************************************************************)
EXTENDS Naturals, FiniteSets, Sequences

CONSTANTS
  Request,      \* requests, one arrival each
  Offers(_),    \* what a request may be: an endpoint, an API key that is in the
                \* whitelist ("env"), in the table ("db") or unknown ("bad"), and
                \* an idempotency key
  Key,          \* idempotency keys, after the cut to 64 characters
  NoKey,        \* no header, or one of an unusable length: nothing is stored
  PoolSize,     \* max_size of a pool (10 in the code)
  Items,        \* items an ingest run or a backfill pushes
  MaxPool,      \* bound: pools created in a behaviour
  MaxFault,     \* bound: failures of Postgres or Redis, and crashes
  Nobody

ASSUME ApiAssumption ==
  /\ IsFiniteSet(Request) /\ Nobody \notin Request
  /\ NoKey \notin Key
  /\ PoolSize \in Nat \ {0} /\ Items \in Nat /\ MaxPool \in Nat /\ MaxFault \in Nat

VARIABLES
  up,           \* the process serves requests
  pool,         \* the global _pool: a pool's number, or 0 for None
  status,       \* what each pool created so far is
  lock,         \* holder of _init_lock
  req,          \* the state of each request
  held,         \* connections taken: <<request, pool>>
  stored,       \* Redis: the request whose answer is under each key
  pushed,       \* items each request has pushed
  replaced,     \* history: a backfill has called init_pool
  blind,        \* history: requests whose answer was not stored or not found
  faults

vars == <<up, pool, status, lock, req, held, stored, pushed, replaced, blind, faults>>

-----------------------------------------------------------------------------
(***************************************************************************)
(* The endpoints.  A plan is the sequence of connections a handler takes:  *)
(* what it answers without a pool ("connect": acquire() makes one), what a *)
(* failure makes it answer ("skip": it is swallowed; "leave": and the rest *)
(* of the plan with it), and what it answers where the plan ends with this *)
(* connection.  A set of plans stands for the branches on what the         *)
(* statements return.                                                      *)
(***************************************************************************)
IfPool(noPool, onError) == [noPool |-> noPool, onError |-> onError, then |-> "ok"]
Conn(onError) == IfPool("connect", onError)

(* Ends that need no failure: "nodata", the answer a handler also has for  *)
(* want of a pool, here for want of rows; "unusable", an exception over    *)
(* what is there: a jsonb column, which the driver returns as text and     *)
(* the handler takes for a record, or an argument the driver refuses.      *)
Ending(step, answer) == [step EXCEPT !.then = answer]
NoRows(step) == Ending(step, "nodata")
Unusable(onError) == Ending(Conn(onError), "unusable")

Ready == {<<IfPool("unavailable", "unavailable")>>}
Health == {<<Conn("down")>>}
Status == {<<Conn("skip"), IfPool("skip", "skip")>>}

(* A first or last day, which the driver wants as a date and gets as text. *)
SpSentiment == {<<Conn("error")>>, <<Unusable("error")>>}
IntradayIndex == {<<Conn("error")>>, <<Unusable("error")>>}
(* The synthetic default without a row; with one, the drivers.             *)
MoodNow == LET first == IfPool("default", "error") IN {<<NoRows(first)>>, <<first, Conn("error")>>}
(* impact and tone of each row, outside of any try.                        *)
ListClusters == {<<Conn("error")>>, <<Unusable("error")>>}

(* Whitelist and cluster, then tickers for the model, then tickers for the *)
(* rules: each step only when the one before did not settle the bundle.    *)
AssetImpacts(onError) ==
  {<<Conn(onError)>>, <<Conn(onError), Conn("skip")>>,
   <<Conn(onError), Conn("skip"), Conn("skip")>>}

(* The row (404 without one), with its impact and tone; the articles and   *)
(* the asset impacts if they are asked for.                                *)
ClusterById ==
  LET rows == {<<Conn("error")>>, <<Conn("error"), Conn("error")>>}
  IN  {<<Unusable("error")>>} \cup rows \cup {q \o p : q \in rows, p \in AssetImpacts("leave")}

ImpactsByCluster ==
  {<<Unusable("errors")>>} \cup {p \o <<Conn("skip")>> : p \in AssetImpacts("errors")}
LatestOf(first, onError) ==
  {<<NoRows(first)>>, <<first, Unusable(onError)>>}
    \cup {<<first>> \o p : p \in AssetImpacts(onError)}
LatestImpacts == LatestOf(IfPool("default", "errors"), "errors")
(* The sectors and the tickers of the dashboard are read the same way.     *)
ImpactMarkets == LatestOf(Conn("default"), "default")
TopicsIndex == LET rows == IfPool("default", "default") IN {<<rows>>, <<NoRows(rows)>>}
Universes == {<<Conn("errors")>>}
Sectors == {<<Conn("errors")>>}
(* An impact level that is none; an offset beyond the driver's integers.   *)
EventStudy == {<<Conn("errors")>>, <<Unusable("errors")>>}
Constituents == {<<Conn("error")>>, <<Unusable("error")>>}
AdminOps == {<<Conn("errors")>>}
(* Vectors of another length, or an answer the model does not give.        *)
Ask == LET context == IfPool("unavailable", "error")
       IN  {<<context>>, <<Ending(context, "unusable")>>}

Plans == [ready |-> Ready, health |-> Health, status |-> Status,
          sp_sentiment |-> SpSentiment, mood_now |-> MoodNow, intraday |-> IntradayIndex,
          clusters |-> ListClusters, cluster |-> ClusterById,
          impacts |-> ImpactsByCluster, latest |-> LatestImpacts,
          markets |-> ImpactMarkets, topics |-> TopicsIndex,
          universes |-> Universes, constituents |-> Constituents,
          sectors |-> Sectors, event_study |-> EventStudy,
          ops |-> AdminOps, ask |-> Ask, ingest |-> {<<>>}, backfill |-> {<<>>}]

Endpoint == DOMAIN Plans
Open == {"ready", "health", "status"}       \* served without an API key
Posts == {"ask", "ingest", "backfill"}      \* look at the Idempotency-Key

ASSUME OffersAssumption ==
  \A r \in Request : Offers(r) \subseteq [endpoint : Endpoint, credential : {"env", "db", "bad"},
                                         key : Key \cup {NoKey}]

Failures == {"unavailable", "error", "errors", "down", "default"}
Ends == {"ok", "nodata", "unusable"}
Labels == {"idle", "connect", "ensure", "create", "waiting", "using",
           "handle", "init", "push", "close", "closing", "store", "done"}

(* A request; "use" is what its connection is for: the lookup and the time *)
(* stamp of its API key, the head of its plan, a row of a backfill's run.  *)
Idle == [pc |-> "idle"]
NewRequest(o, p) ==
  [pc |-> "connect", use |-> "lookup", bad |-> (o.credential = "bad"), key |-> o.key,
   kind |-> IF o.endpoint \in Posts THEN o.endpoint ELSE "read",
   plan |-> p, pool |-> 0, run |-> FALSE, began |-> FALSE, beside |-> {}]
Answered(q, a) ==
  [pc |-> "done", kind |-> q.kind, key |-> q.key, beside |-> q.beside, answer |-> a]

(* Past validate_api_key. *)
Admitted(q) == [q EXCEPT !.pc = IF q.kind \in Posts THEN "handle" ELSE "connect", !.use = "step"]

InProgress(r) == req[r].pc \notin {"idle", "done"}

Created == {p \in 1..MaxPool : status[p] # "unused"}
NextPool == Cardinality(Created) + 1

TypeOK ==
  /\ up \in BOOLEAN
  /\ pool \in {0} \cup Created
  /\ status \in [1..MaxPool -> {"unused", "open", "closing", "closed"}]
  /\ Created = 1..Cardinality(Created)
  /\ lock \in Request \cup {Nobody}
  /\ \A r \in Request : req[r].pc \in Labels
  /\ \A r \in Request : (lock = r) <=> (req[r].pc = "create")
  /\ held \subseteq Request \X Created
  /\ \A r \in Request : (\E p \in Created : <<r, p>> \in held) <=> (req[r].pc = "using")
  /\ stored \in [Key -> Request \cup {Nobody}]
  /\ pushed \in [Request -> 0..Items]
  /\ replaced \in BOOLEAN
  /\ blind \subseteq Request
  /\ faults \in 0..MaxFault

(* Before the process starts for the first time. *)
Init ==
  /\ up = FALSE
  /\ pool = 0
  /\ status = [p \in 1..MaxPool |-> "unused"]
  /\ lock = Nobody
  /\ req = [r \in Request |-> Idle]
  /\ held = {}
  /\ stored = [k \in Key |-> Nobody]
  /\ pushed = [r \in Request |-> 0]
  /\ replaced = FALSE /\ blind = {} /\ faults = 0
-----------------------------------------------------------------------------
(***************************************************************************)
(* The process.                                                            *)
(***************************************************************************)
Fault == faults < MaxFault /\ faults' = faults + 1

(* create_pool: a new, open pool becomes the global one. *)
InstallPool ==
  /\ NextPool \in 1..MaxPool
  /\ pool' = NextPool
  /\ status' = [status EXCEPT ![NextPool] = "open"]

(* Mutant: the process serves before its pool is there. *)
StartUpWithoutPool ==
  /\ ~up
  /\ up' = TRUE
  /\ UNCHANGED <<pool, status, faults, lock, req, held, stored, pushed, replaced, blind>>

(* lifespan: the pool, and the seeding of its tables, before any request;  *)
(* without Postgres the process starts all the same.                       *)
StartUp ==
  /\ ~up
  /\ up' = TRUE
  /\ \/ InstallPool /\ UNCHANGED faults
     \/ Fault /\ UNCHANGED <<pool, status>>
  /\ UNCHANGED <<lock, req, held, stored, pushed, replaced, blind>>

(* The process ends, by a crash or in order (lifespan closes the pool).    *)
(* Redis keeps the answers; whoever was being served gets none.            *)
Exit ==
  /\ up
  /\ up' = FALSE
  /\ Fault
  /\ pool' = 0 /\ lock' = Nobody /\ held' = {}
  /\ status' = [p \in 1..MaxPool |-> IF p \in Created THEN "closed" ELSE "unused"]
  /\ req' = [r \in Request |-> IF InProgress(r)
                               THEN Answered(req[r], "dropped")
                               ELSE req[r]]
  /\ blind' = blind \cup {r \in Request : InProgress(r)}
  /\ UNCHANGED <<stored, pushed, replaced>>

Arrive(r) ==
  /\ up /\ req[r] = Idle
  /\ \E o \in Offers(r) : \E p \in Plans[o.endpoint] :
       LET q == NewRequest(o, p) IN
       req' = [req EXCEPT ![r] = IF o.endpoint \in Open \/ o.credential = "env"
                                 THEN Admitted(q) ELSE q]
  /\ UNCHANGED <<up, pool, status, lock, held, stored, pushed, replaced, blind, faults>>
-----------------------------------------------------------------------------
(***************************************************************************)
(* Connections (db/pool.py, api/keys.py).                                  *)
(***************************************************************************)
At(r, label) == req[r].pc = label
Set(r, q) == req' = [req EXCEPT ![r] = q]
Goto(r, label) == Set(r, [req[r] EXCEPT !.pc = label])
Answer(r, a) == Set(r, Answered(req[r], a))

(* After a step of the plan: the next one, or the end of the handler.      *)
NextStep(q) ==
  LET end == Head(q.plan).then IN
  IF Len(q.plan) > 1 THEN [q EXCEPT !.pc = "connect", !.plan = Tail(@)]
  ELSE IF q.kind \in Posts /\ end = "ok" THEN [q EXCEPT !.pc = "store"] ELSE Answered(q, end)

SkipOr(q, a) ==
  CASE a = "skip" -> NextStep(q)
    [] a = "leave" -> NextStep([q EXCEPT !.plan = <<Head(@)>>])
    [] OTHER -> Answered(q, a)

(* Where the statements of a block have returned.                          *)
Returned(q) ==
  CASE q.use = "lookup" -> IF q.bad THEN Answered(q, "unauthorized")
                           ELSE [q EXCEPT !.pc = "connect", !.use = "stamp"]
    [] q.use = "stamp" -> Admitted(q)
    [] q.use = "insert_run" -> [q EXCEPT !.pc = "push", !.run = TRUE]
    [] q.use = "finish_run" -> [q EXCEPT !.pc = "close"]
    [] q.use = "step" -> NextStep(q)

(* Where the exception of a connection or a statement is caught.           *)
Raised(q) ==
  CASE q.use = "lookup" -> Answered(q, "unavailable")
    [] q.use = "stamp" -> Admitted(q)
    [] q.use = "insert_run" -> [q EXCEPT !.pc = "push"]
    [] q.use = "finish_run" -> [q EXCEPT !.pc = "close"]
    [] q.use = "step" -> SkipOr(q, Head(q.plan).onError)

(* No pool can be made.  In the lookup of a key, where there is a          *)
(* whitelist, the key is refused instead, be it in the table or not.       *)
Unready(q) == {Raised(q)} \cup (IF q.use = "lookup" THEN {Answered(q, "unauthorized")} ELSE {})

(* asyncpg (external): a free connection, or a place in the queue for one; *)
(* an exception when the pool is closing or closed.                        *)
TakeFrom(r, p) ==
  \/ /\ status[p] = "open" /\ Cardinality({h \in held : h[2] = p}) < PoolSize
     /\ held' = held \cup {<<r, p>>}
     /\ Set(r, [req[r] EXCEPT !.pc = "using", !.pool = p])
  \/ /\ status[p] = "open" /\ Cardinality({h \in held : h[2] = p}) = PoolSize
     /\ Set(r, [req[r] EXCEPT !.pc = "waiting", !.pool = p])
     /\ UNCHANGED held
  \/ status[p] # "open" /\ Set(r, Raised(req[r])) /\ UNCHANGED held

(* What a handler does on its own when it finds no pool.                   *)
NoPool(q) == IF q.use = "step" THEN Head(q.plan).noPool ELSE "connect"

(* acquire(): the global pool; without one, ensure_pool makes it, one      *)
(* coroutine at a time under _init_lock.                                   *)
Acquire(r) ==
  /\ At(r, "connect")
  /\ \/ pool # 0 /\ TakeFrom(r, pool) /\ UNCHANGED lock
     \/ /\ pool = 0 /\ NoPool(req[r]) # "connect"
        /\ Set(r, SkipOr(req[r], NoPool(req[r])))
        /\ UNCHANGED <<held, lock>>
     \/ /\ pool = 0 /\ NoPool(req[r]) = "connect"
        /\ IF lock = Nobody THEN lock' = r /\ Goto(r, "create")
           ELSE Goto(r, "ensure") /\ UNCHANGED lock
        /\ UNCHANGED held
  /\ UNCHANGED <<up, pool, status, stored, pushed, replaced, blind, faults>>

(* Mutant: the pool is not looked at again once the lock is taken. *)
EnsurePoolUnchecked(r) ==
  /\ At(r, "ensure") /\ lock = Nobody
  /\ lock' = r /\ Goto(r, "create")
  /\ UNCHANGED <<up, pool, status, held, stored, pushed, replaced, blind, faults>>

EnsurePool(r) ==
  /\ At(r, "ensure") /\ lock = Nobody
  /\ \/ pool # 0 /\ TakeFrom(r, pool) /\ UNCHANGED lock
     \/ pool = 0 /\ lock' = r /\ Goto(r, "create") /\ UNCHANGED held
  /\ UNCHANGED <<up, pool, status, stored, pushed, replaced, blind, faults>>

CreatePool(r) ==
  /\ At(r, "create")
  /\ lock' = Nobody
  /\ \/ /\ InstallPool
        /\ held' = held \cup {<<r, NextPool>>}
        /\ Set(r, [req[r] EXCEPT !.pc = "using", !.pool = NextPool])
        /\ UNCHANGED faults
     \/ /\ Fault
        /\ \E q \in Unready(req[r]) : Set(r, q)
        /\ UNCHANGED <<pool, status, held>>
  /\ UNCHANGED <<up, stored, pushed, replaced, blind>>

(* A connection came back, or the pool is being closed.                    *)
Wake(r) ==
  /\ At(r, "waiting")
  /\ \/ status[req[r].pool] # "open"
     \/ Cardinality({h \in held : h[2] = req[r].pool}) < PoolSize
  /\ TakeFrom(r, req[r].pool)
  /\ UNCHANGED <<up, pool, status, lock, stored, pushed, replaced, blind, faults>>

(* Mutant: validate_api_key stamps the key inside the block of its lookup. *)
QueryNested(r) ==
  /\ At(r, "using")
  /\ held' = IF req[r].use = "lookup" /\ ~req[r].bad THEN held ELSE {h \in held : h[1] # r}
  /\ Set(r, Returned(req[r]))
  /\ UNCHANGED <<up, pool, status, lock, stored, pushed, replaced, blind, faults>>

(* The statements of one "async with acquire()" block; the connection is   *)
(* given back before the code goes on, however they end.                   *)
Query(r) ==
  /\ At(r, "using")
  /\ held' = {h \in held : h[1] # r}
  /\ \/ Set(r, Returned(req[r])) /\ UNCHANGED faults
     \/ Set(r, Raised(req[r])) /\ Fault
  /\ UNCHANGED <<up, pool, status, lock, stored, pushed, replaced, blind>>
-----------------------------------------------------------------------------
(***************************************************************************)
(* The handlers.                                                           *)
(***************************************************************************)

(* Requests of the same key that have begun their work and not ended it.   *)
Beside(r) == {q \in Request \ {r} : InProgress(q) /\ req[q].began /\ req[q].key = req[r].key}

Work(r) ==
  Set(r, [req[r] EXCEPT !.began = TRUE, !.beside = Beside(r),
            !.pc = [ask |-> "connect", ingest |-> "push", backfill |-> "init"][req[r].kind]])

Hit(r) == req[r].key # NoKey /\ stored[req[r].key] # Nobody

(* Mutant: the key is looked up only for /v1/ask. *)
HandleAskOnly(r) ==
  /\ At(r, "handle")
  /\ IF req[r].kind = "ask" /\ Hit(r) THEN Answer(r, "replay") ELSE Work(r)
  /\ UNCHANGED <<up, pool, status, lock, held, stored, pushed, replaced, blind, faults>>

(* get_cached at the head of the three POST handlers; a failure of Redis   *)
(* counts as a miss.  A query, a registry or a date that is refused ends   *)
(* the request before it has done anything.                                *)
Handle(r) ==
  /\ At(r, "handle")
  /\ \/ Hit(r) /\ Answer(r, "replay") /\ UNCHANGED <<faults, blind>>
     \/ /\ ~Hit(r)
        /\ \/ Work(r)
           \/ Answer(r, "refused")
        /\ UNCHANGED <<faults, blind>>
     \/ req[r].key # NoKey /\ Fault /\ Work(r) /\ blind' = blind \cup {r}
  /\ UNCHANGED <<up, pool, status, lock, held, stored, pushed, replaced>>

(* run_backfill begins with init_pool, which replaces the global pool of   *)
(* whatever process it runs in; an unknown source ends it at once.  The    *)
(* pool, or then the queue or the registry, may not be there.              *)
InitPool(r) ==
  /\ At(r, "init")
  /\ \/ /\ InstallPool
        /\ \/ Set(r, [req[r] EXCEPT !.pc = "connect", !.use = "insert_run"])
           \/ Goto(r, "close")
        /\ UNCHANGED <<faults, blind>>
     \/ /\ Fault /\ Answer(r, "error") /\ blind' = blind \cup {r}
        /\ InstallPool \/ UNCHANGED <<pool, status>>
  /\ replaced' = TRUE
  /\ UNCHANGED <<up, lock, held, stored, pushed>>

(* The items one by one.  A collector that raises ends an ingest run with  *)
(* an error; run_backfill goes on with what it has.                        *)
Push(r) ==
  /\ At(r, "push")
  /\ \/ /\ pushed[r] < Items
        /\ pushed' = [pushed EXCEPT ![r] = @ + 1]
        /\ UNCHANGED <<req, blind, faults>>
     \/ /\ pushed[r] = Items \/ (req[r].kind = "backfill" /\ faults < MaxFault)
        /\ faults' = IF pushed[r] = Items THEN faults ELSE faults + 1
        /\ IF req[r].kind = "ingest" THEN Goto(r, "store")
           ELSE IF req[r].run THEN Set(r, [req[r] EXCEPT !.pc = "connect", !.use = "finish_run"])
           ELSE Goto(r, "close")
        /\ UNCHANGED <<pushed, blind>>
     \/ /\ req[r].kind = "ingest" /\ Fault
        /\ Answer(r, "error") /\ blind' = blind \cup {r}
        /\ UNCHANGED pushed
  /\ UNCHANGED <<up, pool, status, lock, held, stored, replaced>>

(* close_pool closes the pool that is global now, waits for its            *)
(* connections to come back, and only then clears the global.              *)
ClosePool(r) ==
  /\ At(r, "close")
  /\ \/ /\ pool # 0
        /\ status' = [status EXCEPT ![pool] = IF @ = "open" THEN "closing" ELSE @]
        /\ req' = [req EXCEPT ![r].pc = "closing", ![r].pool = pool]
     \/ pool = 0 /\ Goto(r, "store") /\ UNCHANGED status
  /\ UNCHANGED <<up, pool, lock, held, stored, pushed, replaced, blind, faults>>

PoolClosed(r) ==
  /\ At(r, "closing")
  /\ \A h \in held : h[2] # req[r].pool
  /\ status' = [status EXCEPT ![req[r].pool] = "closed"]
  /\ pool' = 0
  /\ Goto(r, "store")
  /\ UNCHANGED <<up, lock, held, stored, pushed, replaced, blind, faults>>

(* Mutant: the answer of a backfill is stored when it starts. *)
StoreEarly(r) ==
  \/ /\ At(r, "push") /\ req[r].key # NoKey /\ stored[req[r].key] # r
     /\ stored' = [stored EXCEPT ![req[r].key] = r]
     /\ UNCHANGED <<up, pool, status, lock, req, held, pushed, replaced, blind, faults>>
  \/ /\ At(r, "store")
     /\ Answer(r, "ok")
     /\ UNCHANGED <<up, pool, status, lock, held, stored, pushed, replaced, blind, faults>>

(* set_cached, whose failure is swallowed, and the answer.                 *)
Store(r) ==
  /\ At(r, "store")
  /\ Answer(r, "ok")
  /\ \/ /\ stored' = IF req[r].key = NoKey THEN stored ELSE [stored EXCEPT ![req[r].key] = r]
        /\ UNCHANGED <<faults, blind>>
     \/ /\ req[r].key # NoKey
        /\ Fault /\ blind' = blind \cup {r} /\ UNCHANGED stored
  /\ UNCHANGED <<up, pool, status, lock, held, pushed, replaced>>
-----------------------------------------------------------------------------
Advance(r) ==
  \/ Acquire(r) \/ EnsurePool(r) \/ CreatePool(r) \/ Wake(r) \/ Query(r)
  \/ Handle(r) \/ InitPool(r) \/ Push(r)
  \/ ClosePool(r) \/ PoolClosed(r) \/ Store(r)

Next == StartUp \/ Exit \/ \E r \in Request : Arrive(r) \/ Advance(r)

Spec == Init /\ [][Next]_vars

(* The event loop runs every coroutine that can run; arrivals, exits and   *)
(* failures need not happen.                                               *)
FairSpec == Spec /\ \A r \in Request : WF_vars(Advance(r))
-----------------------------------------------------------------------------
(* The process has one pool, and it is open whenever a handler can get at  *)
(* it, unless a backfill ran in the process: coroutines that find no pool  *)
(* at the same time make one between them (_init_lock).                    *)
OnePoolUnlessReplaced ==
  ~replaced => /\ Cardinality({p \in Created : status[p] = "open"}) <= 1
               /\ pool # 0 => status[pool] = "open"

(* A client is told that the service is missing or broken, or is given the *)
(* default that stands for an absent pool, only when Postgres or Redis did *)
(* fail, or a backfill took the pool away: no interleaving of requests     *)
(* that share, wait for and create the pool loses one a connection.  What  *)
(* a healthy system answers because of its rows has labels of its own: the *)
(* synthetic default of /v1/mood/now without a row is "nodata", the 500 of *)
(* both cluster endpoints over a jsonb column is "unusable".               *)
OutagesHaveACause ==
  \A r \in Request : At(r, "done") /\ req[r].answer \in Failures \cup {"dropped"}
                       => faults > 0 \/ replaced

(* The answer kept under a key reports work that is complete: a retry that *)
(* is given it can rely on every item being in the queue.                  *)
StoredAnswersAreOfDoneWork ==
  \A k \in Key : stored[k] # Nobody =>
    LET r == stored[k] IN
    /\ At(r, "done")
    /\ req[r].kind = "ingest" => pushed[r] = Items

(* Two requests with one key both do their work only if they overlapped,   *)
(* or the first one's answer was lost: a retry sent after an answer was    *)
(* stored repeats nothing.                                                 *)
Worked(r) == pushed[r] > 0
RepeatsHaveACause ==
  \A r, q \in Request :
    r # q /\ Worked(r) /\ Worked(q) /\ req[r].key = req[q].key /\ req[r].key # NoKey
      => q \in req[r].beside \/ r \in req[q].beside \/ {r, q} \cap blind # {}

(* Every request is answered: neither the lock of the pool, nor a pool of  *)
(* one connection, nor a close that waits for connections blocks it.       *)
EveryRequestIsAnswered == \A r \in Request : InProgress(r) ~> At(r, "done")
=============================================================================
