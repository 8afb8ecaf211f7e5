-------------------------------- MODULE RateLimit --------------------------------
(***************************************************************************)
(* api/rate_limit.py: a sliding window of request times and a count of     *)
(* open event streams for each client, and the one endpoint that gives a   *)
(* slot back, stream_events of api/main.py.  All state is in the memory of *)
(* one API process.                                                        *)
(*                                                                         *)
(* The coroutines of the process are interleaved where they await.  None   *)
(* awaits while it holds the module's lock, so the body of _check_limit,   *)
(* of _inc_sse and of the task _dec_sse creates are one step each.         *)
(***************************************************************************)
EXTENDS Integers, FiniteSets

CONSTANTS
  Request,        \* requests: records with a client key and a path
  DefaultLimit,   \* DEFAULT_LIMIT, 60 in the code
  ResearchLimit,  \* RESEARCH_LIMIT, 10
  SseLimit,       \* SSE_CONCURRENT_LIMIT, 10
  Window,         \* length of the sliding window, 60 seconds
  MaxTime         \* bound: ticks of the clock in a behaviour

Path == {"default", "research", "stream"}

ASSUME RateLimitAssumption ==
  /\ IsFiniteSet(Request)
  /\ \A r \in Request : r.path \in Path
  /\ DefaultLimit \in Nat /\ ResearchLimit \in Nat /\ SseLimit \in Nat
  /\ ResearchLimit <= DefaultLimit
  /\ Window \in Nat \ {0} /\ MaxTime \in Nat

Key == {r.key : r \in Request}

VARIABLES
  now,       \* time.monotonic()
  pc,        \* what becomes of each request
  at,        \* when a request was counted
  windows,   \* the requests whose times are in _windows[key]
  sseCount   \* _sse_count[key]

vars == <<now, pc, at, windows, sseCount>>

(* A stream holds its slot from the middleware on: while its key is        *)
(* authenticated, while it is open, and until the task that gives the slot *)
(* back has run.  A stream that never starts keeps it.                     *)
Waiting == {"authenticating", "starting"}
Holding == Waiting \cup {"open", "releasing", "kept"}
Live == Waiting \cup {"open", "releasing"}
Over == {"passed", "refused", "released"}

TypeOK ==
  /\ now \in 0..MaxTime
  /\ pc \in [Request -> {"new"} \cup Holding \cup Over]
  /\ at \in [Request -> 0..MaxTime]
  /\ windows \in [Key -> SUBSET Request]
  /\ sseCount \in [Key -> Nat]

Init ==
  /\ now = 0
  /\ pc = [r \in Request |-> "new"]
  /\ at = [r \in Request |-> 0]
  /\ windows = [k \in Key |-> {}]
  /\ sseCount = [k \in Key |-> 0]

Goto(r, l) == pc' = [pc EXCEPT ![r] = l]

Tick ==
  /\ now < MaxTime
  /\ now' = now + 1
  /\ UNCHANGED <<pc, at, windows, sseCount>>

-----------------------------------------------------------------------------
(***************************************************************************)
(* Requests per minute.                                                    *)
(***************************************************************************)
Limit(r) == IF r.path = "research" THEN ResearchLimit ELSE DefaultLimit

(* Mutant: a request is forgotten one tick too early. *)
UnexpiredEarly(k) == {q \in windows[k] : at[q] > now - Window + 1}

(* Mutant: a request exactly a window old still counts. *)
UnexpiredLate(k) == {q \in windows[k] : at[q] >= now - Window}

Unexpired(k) == {q \in windows[k] : at[q] > now - Window}

(* _check_limit drops the expired times, then appends the new one if there *)
(* is room.  A refused request leaves no time behind.                      *)
CheckLimit(r) ==
  LET w == Unexpired(r.key) IN
  /\ pc[r] = "new" /\ r.path # "stream"
  /\ \/ /\ Cardinality(w) >= Limit(r)
        /\ Goto(r, "refused")
        /\ windows' = [windows EXCEPT ![r.key] = w]
        /\ UNCHANGED at
     \/ /\ Cardinality(w) < Limit(r)
        /\ Goto(r, "passed")
        /\ at' = [at EXCEPT ![r] = now]
        /\ windows' = [windows EXCEPT ![r.key] = w \cup {r}]
  /\ UNCHANGED <<now, sseCount>>

-----------------------------------------------------------------------------
(***************************************************************************)
(* Concurrent streams.                                                     *)
(***************************************************************************)
(* Mutant: the count may pass the limit by one. *)
IncSseOffByOne(r) ==
  /\ pc[r] = "new" /\ r.path = "stream"
  /\ \/ /\ sseCount[r.key] > SseLimit
        /\ Goto(r, "refused")
        /\ UNCHANGED sseCount
     \/ /\ sseCount[r.key] <= SseLimit
        /\ Goto(r, "authenticating")
        /\ sseCount' = [sseCount EXCEPT ![r.key] = @ + 1]
  /\ UNCHANGED <<now, at, windows>>

IncSse(r) ==
  /\ pc[r] = "new" /\ r.path = "stream"
  /\ \/ /\ sseCount[r.key] >= SseLimit
        /\ Goto(r, "refused")
        /\ UNCHANGED sseCount
     \/ /\ sseCount[r.key] < SseLimit
        /\ Goto(r, "authenticating")
        /\ sseCount' = [sseCount EXCEPT ![r.key] = @ + 1]
  /\ UNCHANGED <<now, at, windows>>

Advance(r, from, to) ==
  /\ pc[r] = from
  /\ Goto(r, to)
  /\ UNCHANGED <<now, at, windows, sseCount>>

(* stream_events returns its StreamingResponse.                            *)
Authenticate(r) == Advance(r, "authenticating", "starting")

(* validate_api_key refuses the key, or the client goes before the         *)
(* generator has started: its finally clause will not run.                 *)
GiveUp(r) == \E l \in Waiting : Advance(r, l, "kept")

(* The generator runs up to its first yield, inside its try.               *)
Open(r) == Advance(r, "starting", "open")

(* Mutant: the endpoint gives the slot back, and the finally clause too. *)
CloseTwice(r) ==
  /\ pc[r] = "open"
  /\ sseCount' = [sseCount EXCEPT ![r.key] = @ - 1]
  /\ Goto(r, "releasing")
  /\ UNCHANGED <<now, at, windows>>

(* The client disconnects or the server cancels: the finally clause calls  *)
(* _dec_sse, which only creates a task.                                    *)
Close(r) == Advance(r, "open", "releasing")

(* The task: max(0, count - 1) under the lock.                             *)
DecSse(r) ==
  /\ pc[r] = "releasing"
  /\ Goto(r, "released")
  /\ sseCount' = [sseCount EXCEPT ![r.key] = IF @ > 0 THEN @ - 1 ELSE 0]
  /\ UNCHANGED <<now, at, windows>>

-----------------------------------------------------------------------------
Serve(r) ==
  \/ CheckLimit(r) \/ IncSse(r)
  \/ Authenticate(r) \/ GiveUp(r) \/ Open(r) \/ Close(r) \/ DecSse(r)

Next == Tick \/ \E r \in Request : Serve(r)

Spec == Init /\ [][Next]_vars
-----------------------------------------------------------------------------
(***************************************************************************)
(* What the limiter promises.                                              *)
(***************************************************************************)
Passed(k) == {r \in Request : pc[r] = "passed" /\ r.key = k}
Recent(k) == {r \in Passed(k) : at[r] > now - Window}

(* However its requests are spread over time, a client gets at most        *)
(* DefaultLimit of them through in any window, and at most ResearchLimit   *)
(* research requests: dropping expired times never drops one that counts.  *)
RateIsBounded ==
  \A k \in Key :
    /\ Cardinality(Recent(k)) <= DefaultLimit
    /\ Cardinality({r \in Recent(k) : r.path = "research"}) <= ResearchLimit

(* A slot is taken once and given back at most once for every stream, so   *)
(* the count is the number of streams that hold one, and max(0, ...) never *)
(* hides a release too many.                                               *)
Holders(k) == {r \in Request : pc[r] \in Holding /\ r.key = k}
SlotsAreCounted == \A k \in Key : sseCount[k] = Cardinality(Holders(k))

(* No client has more than SseLimit streams, those still starting or       *)
(* closing included.                                                       *)
Streams(k) == {r \in Request : pc[r] \in Live /\ r.key = k}
StreamsAreBounded == \A k \in Key : Cardinality(Streams(k)) <= SseLimit

(* A request is refused only when as many requests of its client as its    *)
(* limit allows, of either kind, did get through in the last window:       *)
(* refusals do not count, and a client that waits for a window is let in.  *)
Refuses(r) == pc[r] = "new" /\ pc'[r] = "refused"
RefusalsAreDue ==
  [][\A r \in Request : Refuses(r) /\ r.path # "stream"
                          => Cardinality(Recent(r.key)) >= Limit(r)]_vars
=============================================================================
