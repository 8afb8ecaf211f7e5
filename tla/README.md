# Verification of the Sentiment API

TLA+ models of the Sentiment API (`src/sentiment_api`), the TLC configurations that check them on
small instances, and TLAPS proofs of their main properties for every value of the constants.
Paths below are relative to `src/sentiment_api/sentiment_api/` unless they say otherwise.

## 1. The system

Collectors fetch news, a daemon pushes raw items to Redis, workers turn each item into an article,
summaries, an embedding, a *story* (cluster), an event with an expectation and asset impacts in
Postgres, and a FastAPI process serves all that to clients. One Postgres, one Redis, and one process
each of daemon, worker and API in the compose file; the worker is stateless and may be scaled.

| Component | State | Operations | What must hold | Hard because |
|---|---|---|---|---|
| Ingest worker (`ingest/worker.py`) | the job in hand | pop a job; `process_ingest`, `process_summarize`, `process_index` | tables of a story are written in an order readers can rely on; no article is lost silently | every statement commits alone; several workers; crashes; exceptions half-way |
| Repository (`db/repo.py`, schema) | the Postgres tables | one statement per function | keys and references hold | upserts and `ON CONFLICT` decide what a duplicate does |
| Queue (`queue/client.py`) | five Redis lists | RPUSH, prioritised BLPOP | a job is delivered at most once | a popped job is gone |
| Dedup and clustering (`ingest/dedup.py`, `ingest/cluster.py`) | none | ids, nearest story | near articles share a story | ids depend on time; the lookup is stale when it is used |
| Registry (`registry/`) | a YAML file | enabled sources | a polled source is known to the database | daemon and worker read it at different times |
| Daemon, backfill, admin ingest (`ingest/daemon.py`, `ingest/backfill.py`, `api/main.py`) | registry copy, reload flag | poll, reload on SIGHUP | every enabled source is polled | signals, failing sources |
| Circuit breaker (`collectors/circuit_breaker.py`) | failures and last failure per source | success, failure, is_open | a failing source rests, and is tried again | counts survive what the docstring calls a success |
| Collectors, HTTP client (`collectors/`) | robots cache | poll a source, fetch with retries | decisions of robots.txt are fresh, retries bounded, no profile or link lost | time-outs, 429, pages that fail one by one |
| Rate limiter (`api/rate_limit.py`) | request times and open streams per key | admit, refuse, release a slot | limits hold in every sliding window; slots are returned | slots are released by a task, after an authentication that may fail |
| HTTP API, keys (`api/main.py`, `api/keys.py`) | none of its own | reads, three POSTs, a stream | every request is answered, errors have a cause | each handler takes several connections and handles failures in its own way |
| Idempotency (`api/idempotency.py`) | Redis keys | look up, store | a retried POST has one effect | check, then act |
| Connection pool (`db/pool.py`) | one global | init, ensure, close | one open pool | replaced without the lock, closed across an await |
| Index, outcomes (`engines/index.py`, `engines/outcomes.py`) | derived tables | aggregate | outcomes follow expectations | the first query of an index job raises |
| Universe (`universe/`, `db/universe_repo.py`) | membership intervals | refresh, page through constituents | no row dangles, paging misses nobody | one refresh is hundreds of statements, read while it runs |
| Asset targeting (`engines/asset_targeting.py`) | none | whitelist, model or rules | tickers are constituents | reads in several blocks, a model that invents tickers |
| Vector stores (`vector_store/`) | objects in an outside service | upsert, search | what is found has its row | a class created on first use, two stores without a transaction |
| Retrieval, embeddings (`retrieval/`, `llm/embeddings.py`) | SQLite cache, the global embedder | search in two tiers | cached vectors are of their text, by the configured model | threads share a global without a lock; fallbacks |
| Metrics, retention, frontend, CLI | - | single statements, rendering | - | - |

Interactions: daemon, backfill and admin ingest push to `sentiment_api:ingest`; the worker's
`process_ingest` pushes to `:summarize`, `process_summarize` to `:index`. Worker, daemon and API share
Postgres and the registry file; API handlers share the rate limiter, the pool and Redis.

## 2. The modules

| Module | Models | Uses |
|---|---|---|
| `Repo` | the tables and the `db/repo.py` functions that write them, one operator per function | |
| `Pipeline` | `ingest/worker.py`: the main loop and the two handlers over the Redis lists | `Repo` |
| `MCPipeline` | instances of `Pipeline` for TLC | `Pipeline` |
| `PipelineProofs` | theorems about `Pipeline` and their proofs | `Pipeline`, TLAPS |
| `RateLimit` | `api/rate_limit.py`, and the stream endpoint of `api/main.py` that returns a slot | |
| `MCRateLimit`, `RateLimitProofs` | instances of `RateLimit`; theorems about it | `RateLimit` |
| `Feed` | `ingest/daemon.py` with `collectors/circuit_breaker.py`; the collectors as outcomes | |
| `MCFeed`, `FeedProofs` | instances of `Feed`; theorems about it | `Feed` |
| `Fetch` | one poll of `collectors/{rss,gdelt,scrape}.py` through `collectors/http_client.py` | |
| `MCFetch`, `FetchProofs` | instances of `Fetch`; theorems about it | `Fetch` |
| `StoryArchive` | what the pipeline promises its readers: an abstract specification | |
| `ArchiveProofs` | that the pipeline keeps that promise, and what a lone worker keeps | `PipelineProofs`, `StoryArchive` |
| `Api` | the API process: every endpoint of `api/main.py` over `db/pool.py`, `api/keys.py`, `api/idempotency.py` and `ingest/backfill.py` | |
| `MCApi`, `ApiProofs` | instances of `Api`; theorems about it | `Api` |
| `Universe` | `universe/refresh.py` and `db/universe_repo.py`, with clients that page | |
| `Targeting` | `engines/asset_targeting.py` over the memberships of `Universe` | `Universe` |
| `MCUniverse`, `UniverseProofs` | instances of `Targeting`; theorems about both | `Targeting` |
| `VectorStore` | `vector_store/weaviate_client.py` between workers and `/v1/ask` | |
| `Retrieval` | `retrieval/` and `llm/embeddings.py`, shared with `/v1/ask` | `VectorStore` |
| `MCRetrieval`, `RetrievalProofs` | instances of `Retrieval`; theorems about both | `Retrieval` |

Modules are composed where components share state: `Pipeline` with the tables, `Targeting` with the
memberships, `Retrieval` with the embedder and the store that questions use. The groups meet only through
Redis lists, the registry file and rows that are read by one statement; each takes the other side as its
environment (`Poll` and `EnableSource` in `Pipeline`, `Edit` and the outcome of a poll in `Feed`,
`ChangeImpact` in `Targeting`, `WriteCluster` in `VectorStore`).

### Repo and Pipeline

*Data.* A raw item is the record of the three fields its article id is hashed from; an item without a
date is hashed with the current time, so it never gets the same id twice. Bodies, summaries,
embeddings and topics are present or absent. Cosine similarity above the threshold is the relation
`Near`. A cluster id hashes the time of the call: `FreshClusters` are ids nobody has seen. An event id is
hashed from the story, the type and the day: `EventKey` stands for the latter two.

*Control.* `pc[w]` is the name of the repository function or Redis command worker `w` executes next,
`job[w]` holds the payload and the local variables of the handler. There is one action for each statement,
so that another worker, or a crash, can come between any two: connections run in autocommit mode, and no
handler opens a transaction. Where the handler has a `try`, the model has it too: the guarded first half
of `process_summarize` marks the run failed, the second half does not, asset targeting swallows
everything, `process_ingest` goes on without a run row.

*Faults.* `Crash` ends a worker anywhere (its job is gone, BLPOP removed it), `AbortStart` ends it between
two statements of the source sync, `Raise` is any exception that reaches the main loop. `RejectArticle` and
`TakeIndex` are exceptions the code always raises: a source the table does not have, and the query of
`compute_intraday_from_clusters` (`engines/index.py:16`), which has a parameter and is given none.
`RejectVectors` is what the handler does when the vectors of the stories come as text: `np.array` over the
characters raises once there is a story to compare with (`db/repo.py:463`, `ingest/cluster.py:37`). `db/pool.py`
registers no codec of pgvector, so with the driver's default decoding every article after the first story ends
there; a codec, or an external vector store, leads to `ChooseCluster`.
`SkipTargeting` is an exception of asset targeting; with the driver's default decoding (a `jsonb` column
arrives as text) it is what happens to every event of level L2 and above, and the audit's string `as_of` is
no `timestamptz` for the driver either. Decoding belongs to the driver, so the model keeps both outcomes of both.

*Environment.* `Poll` pushes any item of an enabled source any number of times (the daemon does so in
every cycle; backfill and admin ingest push the same items). `EnableSource` edits the registry file.

### RateLimit

`windows[k]` is the list of request times the limiter keeps for a client, `sseCount[k]` its count of
streams; `now` is the clock in ticks. A request is a record of its client, its path (ordinary, research,
stream) and an identity; `pc` is where it is and `at` when it was counted. `CheckLimit` and `IncSse` are
the two branches of the middleware, each atomic under the lock. What happens to a stream afterwards is
the endpoint's: `Authenticate`, `Open` (the generator reaches its first `yield`), `Close` (its `finally`
creates a task), `DecSse` (the task). `GiveUp` is a refused key, or a client that leaves before the
generator has started, whose `finally` then never runs. Each request is made once; a
client that repeats a request makes another one of the set.

### Feed

The daemon is one coroutine: `pc` is its place in the loop, and between any two steps SIGHUP (`Sighup`),
an edit of the registry file (`Edit`, which may leave it invalid), the end of the process (`Kill`; it
restarts with an empty memory) or of Redis (`RedisFails`, `RedisReturns`) may come. A poll ends in one of four outcomes: `quiet` (no items, or a fetch
that failed: the collector swallows it), `raised`, `cut` (an exception after some items), `queued`. It
blocks for up to `MaxFetch` ticks, in which nothing else of the process runs; only the awaits
of Redis and Postgres after it let the heartbeat task in. That task is `nap`, what is left of its sleep of `Beat`
ticks: when it is over and the task gets a turn (`Turn`), it writes the heartbeat, which lives `Ttl` ticks, if
Redis answers; if not, the exception is swallowed, and the next attempt is one sleep later. The pause between two
cycles passes tick by tick. A call to a Redis that is away is taken to fail at once, as a refused connection does.
Ages instead of clock values keep the state finite: `age[s]` saturates
just above `Cooldown`, the only duration it is compared with, `beatAge` and `calm` just above `Ttl`. History
variables serve the properties: `asked` (the file's version at the last SIGHUP), `raisedAt` and `bad` (the failed
polls of a source, by age and by number), `calm` (how long the daemon and Redis have been up together) and `busy`
(what this cycle's fetches have taken).

### Fetch

A poll goes through the collector's pages (one, or one for each query profile of GDELT), each a call of
`fetch_with_retry`: host check, robots.txt (from the cache, or asked for, which takes time), requests with
backoff. `poll` and `call` are the locals of the two; nothing else runs in the process, so what interleaves
is time (`Tick`), the sites, and an exception that ends the generator (`Abandon`): the consumer's, after an item,
or the generator's own over an entry of the page it reads, before any item too (`collectors/gdelt.py:66`). A page is the
sequence of its entries; `Skipped` are the ones the collector has no use for. `said` is a history of what
each robots.txt answered and how long ago. Ages saturate at `Ttl`, the only duration they are compared with.

### StoryArchive

The promise to the readers of the tables, who see neither queues nor workers: articles become complete,
stories gather complete articles and are found by one of their own, events are reported of stories that
can be found, and nothing is taken back. `Pipeline` maps its tables to it (`Archive`, an
`INSTANCE ... WITH`): an article is complete with its row, body, summaries and embedding; the face of a
story is the article whose embedding it carries.

### Api

A handler is a *plan*: the sequence of `async with acquire()` blocks it executes, each with what it answers
when there is no pool, when a statement raises, and when the plan ends with it; the branches on what statements
return make a set of plans. Two ends need no failure of a service. `nodata` is the answer a handler also has for a
failure, given because there are no rows: `/v1/mood/now` answers its synthetic mood as long as
`sentiment_timeseries` is empty (`api/main.py:415`), which it stays while `process_index` raises. `unusable` is a
500 over rows or arguments that are there, as in the cluster endpoints, which call `.get` on `jsonb` the driver
delivers as text (`api/main.py:600`, `:657`). Around the plans are `validate_api_key` (two blocks: lookup, time stamp), the pool (`ensure_pool`
under its lock, `acquire`, the queue of the asyncpg pool, `close_pool`), and the three POST handlers with
the idempotency cache, the pushes of an ingest run, and a backfill, which replaces and closes the global
pool. An action is the code between two awaits. `Exit` ends the process anywhere; `StartUp` starts it with
or without Postgres. `beside`, `blind` and `replaced` are histories.

### Universe and Targeting

A row of any table is a tuple that begins with the table's name. A refresh is six phases of statements;
the rows of a phase come in any order (`WriteRow`), the phases in the code's, and `AbortRefresh` ends it
after any row. Several run side by side: the command line and the script (`Refresher`) and the start of the API
(`Seeder`), whose lifespan ends with the universes (`api/main.py:34`). `SkipIndustries` is a database without the
table of industries, whose absence the seeding swallows (`db/universe_repo.py:171`). Files are read before the first statement, the date before the securities. Clients page by
offset through the listing of their universe between any two statements. `UniverseAssumption` says that
every industry's sector is in the sector file or `unknown`; it holds of the
eleven sectors in `registry/sectors.csv`. It also sets the marker of a client that has no universe yet apart from the universes. The days the code reads in three
places (`universe/refresh.py:92`, `db/universe_repo.py:274`, `current_date` in `db/universe_repo.py:239`) are one:
the containers of the compose file all run in UTC. Were the clock of a refresh ahead of Postgres', a membership
could lie in the future, and `TickersAreConstituents` would not hold around midnight.
The listing numbers a row by its rank (`Rank`): the rows that come no later in the order of the symbols.
`Targeting` adds requests for asset impacts: whitelist and story in one block, the language model with any
answer or none, the rules with the rows of another block (an impact is `Up` where
its direction is up or down, since winners and losers are the same tickers, and `Mixed` where it names none), and `get_latest_asset_impacts` with two reads.

### VectorStore and Retrieval

Workers write a story's row and then its vector; a question embeds itself, searches the store and reads
the rows. Each call makes its own store object, so each creates the class if it does not find it. A search
runs in its own thread: class of the chunks, tier A's vector and hybrid query, tier B's vector, then a
lookup in the SQLite cache for each candidate, or an embedding that is stored. All of them share the global
embedder: `GetEmbedder`, `InitEmbedder` and `LoadEmbedder` are the reads and writes of `_model`, and
`loading` is the half-made local model other threads can see. A vector is the pair of who made it and of
what text.

## 3. What is checked

Bounds are counters in guards: `MaxPush` items pushed, `MaxFault` failures or crashes, `MaxTime` ticks of the
limiter's clock, `MaxEdit` edits of a file, `MaxKill` restarts of the daemon, `MaxPool` pools, `MaxDay`
days, `MaxAbort` refreshes that fail, `MaxImpact` changes of an impact; `PageSize` bounds a page.
`CHECK_DEADLOCK FALSE` where the systems may stop in the model: workers block on BLPOP when the
lists are empty, all requests may be answered, the daemon cannot start while the registry file is
invalid, and the bounds end the behaviours. `Fetch` never stops, and its run looks for deadlocks.

| Run | Instance | Properties |
|---|---|---|
| `pipeline_safety` | 2 workers, 3 items (two pages, one of them also without a date), 3 cluster ids, every pair near, 3 pushes, 1 fault; symmetric in workers and cluster ids; 1.1 million states | the ten invariants below and `ArchiveIsKept` |
| `pipeline_one_worker` | 1 worker, 3 items in a chain of nearness, 3 pushes, 1 fault | `StoriesOpenOnlyWhenNoneIsNear` |
| `pipeline_liveness` | 2 workers, 2 items, 2 pushes, 1 fault, fair workers | `EveryItemSettles` |
| `rate_limit` | one client with 3 ordinary, 1 research and 3 stream requests, limits 2, 1 and 2, and a request of another client; a window of 2 ticks, 4 ticks; symmetric in equal requests | `RateIsBounded`, `RefusalsAreDue`, `SlotsAreCounted`, `StreamsAreBounded` |
| `feed_reload` | 1 source, 2 edits, 1 restart, SIGHUPs at any time, fair loop | `ReloadsAreHonoured`, `RegistryIsFollowed`, `EnabledSourcesArePolled`, types |
| `feed_breaker` | 2 sources, threshold 2, cooldown 4, interval 2, fetches of up to 2 ticks, a heartbeat every 2 ticks that lives 4, Redis away at any time, 1 restart; 1.5 million states | `RetriesArePaced`, `RestsAreDue`, `HeartbeatLapsesForACause` |
| `fetch` | 1 site, 2 profiles, 2 links, pages of up to 3 entries, 3 attempts, backoff up to 2, entries of robots.txt that live 3 ticks, at most 1 link of a scraped page; fair; 0.2 million states | `EveryProfileIsTried`, `LinksComeOnce`, `DecisionsAreFresh`, `EveryPollEnds` |
| `api_process` | a POST, its retry under the same key or any other endpoint with any kind of API key, and one more read; a pool of one connection, one failure or exit; fair; 0.4 million states | `OnePoolUnlessReplaced`, `OutagesHaveACause`, `StoredAnswersAreOfDoneWork`, `RepeatsHaveACause`, `EveryRequestIsAnswered` |
| `universe` | 1 universe, 2 symbols (one listed at first), a refresh beside starts of the API, 2 days, 1 edit, 1 abort, a client with pages of one row, a targeting request with 1 ticker of the rules and an invented one; 3.2 million states | `NoDanglingRow`, `PagingMissesNobody`, `TickersAreConstituents` |
| `retrieval` | 2 searches over 1 text, a question, 2 workers on one story, one failing call, every combination of installed embedders; symmetric in searches and workers; 1.5 million states | `RacesAreAbsorbed`, `HitsHaveRows`, `OpenAIUnlessItFailed`, `LaterSearchesDoNotCollide` |
| `hot_reload`, `mock_vectors` | small instances | one statement of the documentation each, which the code does not satisfy |

*Why the bounds are enough.* Three pushes are enough for a duplicate to race with its original and for two
workers to write one story while a third job waits; one fault can fall at every step of every one of these
behaviours; a second fault only repeats the first on another job, since a lost job leaves nothing behind
but its rows. Four ticks are two windows: a request can be dropped from a window and another be let in
for it. Every limit and threshold is small enough to be passed; the second client shows that one does not
use up the other's. With two sources, polling one lets time pass for the other, which is all that connects
them. Two edits let a reload request come while an earlier one is being honoured. Three requests on one
connection are a holder, a waiter and one that finds no pool; `MaxPool` is never reached by requests that
share pools. Two days with an edit between them are a second interval of a symbol and the first of another,
inserted before and after a reader's offset, while a start of the API writes the same sectors and universes; with pages of one row every row is at an edge. Two searches
over one text miss it together, or one hits the row the other left; two workers insert one story's
vector; one failure shows what a fallback leaves behind. Ttl 3 lets an entry expire during the backoffs of one poll.
A cycle of two fetches of 2 ticks outlasts a heartbeat of 4, and one of them alone does not.
`rate_limit` has one research request with a limit of one, so that only ordinary requests can refuse it; that
research requests bound each other is left to the theorem.

### The pipeline

`SummarizeJobsAreStored` (a job never overtakes the rows it needs),
`NoDanglingReference` (no statement trips over a foreign key except that to `sources`),
`MembersAreComplete` (what the API joins with a member is there), `VectorsAreOfMembers`,
`EventsAreOfSearchableStories`, `SourceCountCoversMembers`, `IndexJobsFollowExpectations`,
`OkRunsAreComplete` (a run that says ok did its work), `StoredArticlesAreAccountedFor` (a stored
article is in a story, on its way, or went down with a job), and the type invariant. `ArchiveIsKept` is the
refinement: every step of every worker, interleaved and interrupted as it may be, is a step of
`StoryArchive` or a stutter of it.

### The API process

Requests that find no pool make one between them, and it is open whenever a handler can get at it
(`OnePoolUnlessReplaced`); a client is told of an outage, by an error, a default in place of data, a refused key or a
dropped request, only if a service failed or a backfill ran in the process (`OutagesHaveACause`). The
exception is real: a backfill over HTTP replaces the pool, leaves the old one open, and closes the new one under
the requests that use it. The property does not speak of answers that need no outage, `nodata` and `unusable`. An answer is stored when the
work is done (`StoredAnswersAreOfDoneWork`), and two requests with one key both do their work only if they
overlapped or the first one's answer was lost (`RepeatsHaveACause`): the cache guards against a retry
after an answer, not against an impatient one. `EveryRequestIsAnswered` holds with one connection because
no handler waits for a second one while it holds a first; it speaks of blocks that end, and thus not of the
stream, whose generator yields inside a block (`api/main.py:1127`).

### The limiter, the daemon, the collectors

However requests are spread over time, no window of a client ever holds more than
the limit (`RateIsBounded`), and none is refused without cause (`RefusalsAreDue`: refusals are not
counted; both kinds share one window, so ordinary requests use up the research limit, and the property says so);
the count is the number of streams that hold a slot (`SlotsAreCounted`), so `max(0, ...)` never hides a
release too many.

Wherever a SIGHUP comes, a file at least that new is read (`ReloadsAreHonoured`; it
rests on the flag being reset *before* the file is read); no more than `Threshold` polls of a source
raise within a cooldown (`RetriesArePaced`), and a source rests only after that many since its last rest or
item (`RestsAreDue`). With the default interval and cooldown, both 300 s, a source has always rested by
the next cycle; the model does not fix their relation. `RetriesArePaced` speaks of polls that raise; fetches that
fail inside a collector never reach the breaker. The heartbeat expires while the daemon and Redis have both been up
for longer than its 90 s only in a cycle whose fetches block the loop for longer than 85 s
(`HeartbeatLapsesForACause`), however many writes failed before; in the run it does expire.

What passes `_check_robots`, or is refused by it, is backed by an answer younger than the time to live
(`DecisionsAreFresh`); a profile that fails does not cost the others (`EveryProfileIsTried`); dedup drops
repeats and nothing else (`LinksComeOnce`); every poll ends (`EveryPollEnds`, where each request does: a time-out of
httpx is one of each read, so a site that sends a byte now and then is outside the assumption).

### Universe and retrieval

No row dangles wherever a refresh stopped (`NoDanglingRow`), offset paging shows everyone
although rows are inserted (`PagingMissesNobody`: it rests on rows only ever being added), and the whitelist, which ignores the first day of a membership, agrees with the listing, which does not
(`TickersAreConstituents`: it rests on the refresh never writing a future day).

Meeting in the creation of a class or the insertion of a vector makes nobody fail (`RacesAreAbsorbed`);
what a search finds has its row (`HitsHaveRows`). With OpenAI configured the fallbacks are for failures only (`OpenAIUnlessItFailed`): OpenAI is set before any local
model is considered, so no order of threads lets another embedder in (every configured model id is taken to contain
`openai`, as the defaults do). The class of the chunks has no second look,
so two first searches can collide, and later ones do not (`LaterSearchesDoNotCollide`).

Hazards without a property, because the code is exposed to them and promises nothing: two workers that each open a
story for near articles, since nothing is reserved between lookup and insert (`StoriesOpenOnlyWhenNoneIsNear` is of
one worker); a robots.txt that is no 200, which refuses the site for an hour; and two first searches that create one
class.

### Fairness

`Pipeline`: every worker's `Start` and `Work` are weakly fair: the loop of `run_worker`
catches every exception and goes on, BLPOP returns when a list has an entry, and the process is
restarted on failure (`docs/RESTART_MATRIX.md`). Nothing is assumed of polls, edits and faults. Because
BLPOP prefers the ingest list, the liveness property needs the pushes to pause; the bound on pushes
provides that, and under a sustained overload of the first list it would not hold.
`Feed`: the daemon as a whole, with the passing of its pause, is weakly fair: its loop catches every exception of a poll and a reload,
sleeps a finite time, and the process is restarted. The two properties assume that the file stays as it
is from some time on, and nothing about SIGHUPs: the periodic re-read is enough.
`Api`: each request's `Advance` is weakly fair, because the event loop runs every coroutine that can run and
statements time out after 60 s (`command_timeout`); arrivals, exits and failures need not happen. Weak fairness is enough for a
waiter: a connection that came back may be taken by another request, but there are finitely many.
`Fetch`: the code's own steps and the clock are weakly fair (requests and robots.txt have time-outs, sleeps
end); no site need ever answer.

### Where the code and its documentation part

Two statements of the documentation are run as properties, and violated:
- `EnabledSourcesAreKnown` (`hot_reload`): sources are synced when a worker starts; items of a source enabled later are lost.
- `OnlyModelsFillTheCache` (`mock_vectors`): `provider.py` promises an exception for a failed embedding; the
  embedder falls back to a pseudo-random vector, and the rerank cache keeps it under the model's name.

Others are part of what the models take the code to do:
- `insert_article` returns the id of an article it did not store (`db/repo.py:77`), so every poll of an old
  article runs the whole chain again and raises `source_count`.
- A run is `ok` although the targeting or its audit failed (`ingest/worker.py:225`).
- A stream whose key is refused, or whose client leaves early, keeps its slot (`api/rate_limit.py:86`).
- Collectors swallow failed fetches (`collectors/rss.py:31`): the circuit breaker never hears of them.
- Fetches block the event loop; a cycle of slow sources outlives the 90 s of a heartbeat (`ingest/daemon.py:94`).
- With the driver's default decoding, an article is lost as soon as there is a story to compare it with
  (`ingest/cluster.py:37`), and the cluster endpoints answer 500 (`api/main.py:600`).
- `/v1/mood/now` gives an invented mood when there is none (`api/main.py:416`).
- Any status of robots.txt but 200 shuts the site for an hour, although the code means to allow it
  when in doubt (`collectors/http_client.py:88`, `:93`).
- No statement ends a membership: the refresh of another day lists a constituent once more, and one that left
  its index stays (`universe/refresh.py:98`).
- Without a pool, a key of the table is refused as unknown when a whitelist is configured (`api/keys.py:43`).

Where no key can be checked, `Unready` answers 401 with a whitelist and 503 without one (`api/keys.py:43`, `:48`).

The type invariants of `RateLimit`, `Fetch`, `Api`, `Targeting` and `Retrieval` are in no configuration:
they say what the variables range over, and each is proved (`TypeCorrect` of the module's proofs). They hold
on the same instances: add `INVARIANT TypeOK` to the configuration to see it.

Each property of a passing run is shown to depend on the code by a mutant of one definition (operators
marked "Mutant" in the modules): a dropped statement, a swapped order, a forgotten push.

## 4. What is proved

`PipelineProofs` proves, for every set of workers, items, clusters and event keys, every `Near`, limit
and bound, that `Spec` implies each of the invariants above. Assumptions: `RepoAssumption` (items are
finitely many and name sources of the registry, `NoItem` is none of them) and `PipelineAssumption`
(finitely many workers, bounds are numbers, markers are fresh).

1. `TypeInv == TypeOK /\ PhaseOK`. Types alone are not inductive: an L3 summary is of a *cluster* only
   because the handler chose one before it came to that label. `PhaseOK` says which locals a label implies.
2. `DbGrows`: no statement of the pipeline deletes a row. What a job established stays established,
   whatever other workers do; this is what makes the interleaving harmless.
3. `Causality == JobsOK /\ Tables`: for each label, what the job at it has already written (the nested
   sets `PastL1`, ..., `PastExpectation`), and the invariants of the tables. Each action adds
   one fact to its own worker and at most one row to one table.
4. `CountsCoverClaims` strengthens `SourceCountCoversMembers` by the workers that have counted their
   article and not yet written its member row: two of them on one story are two members to come.
5. `StoredArticlesAreAccountedFor` follows an article from hand to hand: only `StoreArticle` stores, and
   the worker, the queue or `lost` holds what is stored until it is in a story.

`RateLimitProofs` proves `RateIsBounded`, `SlotsAreCounted`, `StreamsAreBounded` and `RefusalsAreDue` for every
finite set of requests, every window and all limits with `ResearchLimit <= DefaultLimit`
(`RateLimitAssumption`). The key is `WindowsRemember`: a client's window contains the requests that
passed and are still recent, and only requests that passed. Dropping expired times keeps the first half, and
recording only what is let in keeps the second; the bound is then the limit on the window's length.

`ArchiveProofs` goes on from the invariants of the pipeline. `ArchiveIsKept`: the initial tables are an empty
archive, and each of the worker's statements is a step of `StoryArchive` or leaves it as it is. A statement on
one article completes that article at most, because rows are never deleted (`DbGrows`); a member row, a vector
and an event meet the guards of the archive's actions because of `Causality` (an article joins a story with
its summaries and embedding written, an event comes after the vector of its story); everything else, crashes
and failures included, reads as a stutter. `StoriesOpenOnlyWhenNoneIsNear` is true of one worker only, and is
proved of one, with no more stories than the lookup returns (`ClusterLimit`): these are hypotheses of the
theorem, and the limit is the code's. `ChoicesAreNeeded` carries the lookup to the insert: between the two
nobody else writes.

`FeedProofs` proves `ReloadsAreHonoured`, `RetriesArePaced`, `RestsAreDue` and `HeartbeatLapsesForACause` for every finite
set of sources and all durations (`FeedAssumption`; the registry is a file, so its sources are finitely many).
`RequestInv`: nobody has asked for a version the file does not have yet.
`BreakerInv`: the counter is at least the number of recent failures, those are at least as old as
the last one, and it is at most the number since the last rest; a source that rests is tripped.
`BeatInv`: what a heartbeat lacks, since Redis and the daemon are both up, is at most one sleep of its task and the
fetches of the cycle; outside the polls, what is left of the sleep is counted as well. `BusyInv` bounds the fetches
of a cycle by one for each source that is behind, so `HeartbeatHolds` follows: where a sleep and a fetch of every
source fit into its life, the heartbeat never lapses. With `daemon.py`'s figures, 85 s are for all fetches together.

`ApiProofs` is about any finite set of requests with any offers of endpoint, API key and Idempotency-Key
(`OffersAssumption` only says what an offer is), any sizes of pool and number of pools, items and faults.
- `Ledger`: what the label of a request says of its kind, plan and connection (`Fit`); that an answer is stored only
  by whoever did its work, and stays; and that of two requests with one key that are at work, or have been,
  one saw the other when it began, unless an answer was lost (`WorkersSeeEachOther`). The look into the cache
  is one step: whoever finds no answer there finds nobody done, or a lost answer. `RepeatsHaveACause` follows.
- `PoolInv`: the lock is held by whoever is creating a pool, and, in a process in which no backfill has run, only
  while there is none; the global pool is then the open one, and all who wait, wait for it. `OnePoolUnlessReplaced`
  follows: a second coroutine in `ensure_pool` finds the lock taken, and then the pool made.
- `OutagesHaveACause` is inductive with these two: with the pool there, no path of any plan ends in an error
  without a failure, which raises `faults`, except where the plan says so (`nodata`, `unusable`).
- `ConnectionsAreReturned` is stronger than what a run checks. A request holds a connection exactly while it
  executes a block, one only, of a pool that is open or being closed; a pool never gives out more than
  `PoolSize`. Close, exit, failure and a replaced pool all keep it, so no handler can leak a connection.
  (`Api`'s model of a stream ends before its generator, see section 3.)

`UniverseProofs` is about any finite sets of universes and symbols, any sectors, clients and page size
(`UniverseAssumption`, `TargetingAssumption`). `RefreshInv`, of each run of the refresh that is under way: the phases
behind it are written in full (but for industries without a table, to which nothing refers), those rows of the current phase that are no longer to do are written, and rows are never deleted; so each row finds
what it refers to, after an abort as well, since the next refresh starts from the first phase. `ReaderInv`:
a constituent the client has not been shown has a row whose rank is above the cursor. Rows that a refresh inserts
only raise ranks (`Rank` counts a set that grows), and a page shows all ranks up to its new cursor, so nobody is
passed over; that a day later more memberships are in force only adds rows too. `TargetInv`: whatever is on the
whitelist of a request is a constituent of its universes and stays one, as no membership lies in the future.

`RetrievalProofs` is about any number of workers, questions, searches, stories and chunks (`StoreAssumption`).
`RowsComeFirst`: each object of the store has its story's row, and a worker beyond its first statement has
written one. `OpenAIFirst`: while OpenAI is installed and nothing failed, the global embedder is unset or
OpenAI's, and no thread has come to load another; every vector on its way to the cache is thus OpenAI's.
`SeenStays`: the chunk collection is never dropped, so who saw it never creates it.

`FetchProofs` is about any sites, profiles, links, page sizes, limits and times (`FetchAssumption`). `CacheInv` ties
the age of an entry to that of the answer it is of, which is what makes `DecisionsAreFresh` a statement about
the site and not about the cache. `ProfileInv`: the profiles of a poll are asked for or left. `LinkInv`:
what was got is what was seen and what is left of the page, and what was yielded is that, once each, up to
the limit of a scraped page.

Only model-checked: the liveness properties (`EveryItemSettles`, `RegistryIsFollowed`, `EnabledSourcesArePolled`,
`EveryPollEnds`, `EveryRequestIsAnswered`), as liveness under fairness is beyond the prover. The two properties of
the documentation that the code violates are only refuted. Every other property of a run is proved.
No proof needs induction over data: how the rules order tickers (`TickerRows`) does not matter to
`TickersAreConstituents`, because `_filter_to_whitelist` has the last word.

## 5. Not modelled, and the plan

Left out of the pipeline: heartbeats and job counters in Redis, the L0 files, the text of everything, the
malformed payloads the main loop drops, Redis losing its lists, and retention (`db/retention.py` marks
rows with `deleted_at`, which the pipeline never reads). With an external vector store the lookup does not
join the clusters' rows; the model has the join of the default backend.

Left out of the daemon: the rows of the run ledger, the last-cycle record, counters, and that a reload may
change the interval. Left out of the limiter: exempt paths and OPTIONS requests, which change nothing.
Left out of the API: what reads compute and how answers are worded, arguments a handler refuses, the
expiry of stored answers after 24 h, and that a stored answer may be another client's or endpoint's (the key
names neither). Left out of retrieval: scores and ranking; and of the vector stores the Pinecone client (one
call of its service per operation) and pgvector (the table `Repo` models).

Not modelled at all:
- `engines/outcomes.py` and the rest of `engines/index.py`: `process_index` raises in its first query
  (`engines/index.py:16`), so no reachable code computes an index or an outcome;
- summaries, translation, impact scores (outside services and float arithmetic; their results are free choices
  where a module depends on them);
- `db/retention.py` (one statement), metrics, logging, configuration, the CLI, market data, the frontend.

Plan:
1. `Api`: a counting semaphore as the abstract specification of `db/pool.py`, with `ConnectionsAreReturned` as the
   invariant of the refinement.
2. `RateLimit`: an abstract sliding-window limiter without the list of times, and the middleware as its
   implementation.
3. `Universe`: the memberships after a refresh that completed contain those of the files it read.
