----------------------------------- MODULE Feed -----------------------------------
(***************************************************************************)
(* The daemon: ingest/daemon.py, which polls the enabled sources of the    *)
(* registry in cycles and re-reads the registry when it is asked to by     *)
(* SIGHUP and in every ReloadEvery-th cycle, with the circuit breaker of   *)
(* collectors/circuit_breaker.py and the collectors as its callees.        *)
(*                                                                         *)
(* The daemon is one coroutine and a heartbeat task.  A signal handler may *)
(* run between any two of its statements.  The collectors are synchronous: *)
(* while one fetches, the event loop stands still, and the heartbeat too.  *)
(* Time is counted in ticks; only sleeping and fetching take time.  Redis  *)
(* may go away and come back at any time; a call to it then fails at once. *)
(***************************************************************************)
EXTENDS Integers, FiniteSets

CONSTANTS
  Source,        \* sources that the registry may enable
  Threshold,     \* FAILURE_THRESHOLD, 5 in the code
  Cooldown,      \* COOLDOWN_SEC, 300 seconds
  Interval,      \* what a cycle takes besides fetching: update_interval_sec and a moment
  ReloadEvery,   \* _REGISTRY_RELOAD_INTERVAL, 10 cycles
  MaxFetch,      \* the longest a collector blocks: three attempts and their backoffs
  Beat,          \* _HEARTBEAT_INTERVAL_SEC, 5 seconds
  Ttl,           \* _HEARTBEAT_TTL_SEC, 90 seconds
  MaxEdit,       \* bound: edits of the registry file
  MaxKill        \* bound: how often the process is killed

ASSUME FeedAssumption ==
  /\ IsFiniteSet(Source)
  /\ Threshold \in Nat \ {0} /\ ReloadEvery \in Nat \ {0} /\ Interval \in Nat \ {0}
  /\ Cooldown \in Nat /\ MaxFetch \in Nat
  /\ Beat \in Nat \ {0} /\ Ttl \in Nat
  /\ MaxEdit \in Nat /\ MaxKill \in Nat

VARIABLES
  file,             \* the registry file: its version, enabled sources, and validity
  asked,            \* the version of the file at the last SIGHUP (history)
  kills,            \* how often the process was killed
  pc,               \* where the daemon is
  reloadRequested,  \* reload_requested
  cycle,            \* cycle, modulo ReloadEvery
  sources,          \* the daemon's list of sources
  seen,             \* the version of the file last read
  todo,             \* the sources this cycle has still to poll
  failures,         \* _state[s]["failures"]
  age,              \* ticks since _state[s]["last_failure_at"]
  rest,             \* ticks left of the pause between two cycles
  redis,            \* whether Redis answers
  nap,              \* ticks left of the heartbeat task's sleep
  beatAge,          \* ticks since the heartbeat was written, or Expired
  calm,             \* ticks since Redis was away or the daemon started, or Expired (history)
  busy,             \* ticks this cycle's fetches have taken (history)
  raisedAt,         \* ages of the polls that raised within a Cooldown, since items came (history)
  bad               \* polls that raised since the last rest or item (history)

memory == <<pc, reloadRequested, cycle, sources, seen, todo>>
breaker == <<failures, age>>
clock == <<rest, redis, nap, beatAge, calm, busy>>
history == <<raisedAt, bad>>
vars == <<file, asked, kills, memory, breaker, clock, history>>

Version == 0..MaxEdit

(* More than Cooldown ticks ago, or None.                                  *)
LongAgo == Cooldown + 1
Older(a, d) == IF a + d > Cooldown THEN LongAgo ELSE a + d

(* The key is gone Ttl ticks after it was written.                         *)
Expired == Ttl + 1
Later(a, d) == IF a + d > Ttl THEN Expired ELSE a + d
Left(n, d) == IF n > d THEN n - d ELSE 0

Loading == {"init", "installing"}
Label == Loading \cup {"test", "clear", "read", "begin", "poll", "sleep"}

TypeOK ==
  /\ file \in [version : Version, enabled : SUBSET Source, valid : BOOLEAN]
  /\ asked \in Version /\ seen \in Version /\ kills \in 0..MaxKill
  /\ pc \in Label /\ reloadRequested \in BOOLEAN
  /\ cycle \in 0..(ReloadEvery - 1)
  /\ sources \in SUBSET Source /\ todo \in SUBSET Source
  /\ failures \in [Source -> 0..Threshold]
  /\ age \in [Source -> 0..LongAgo]
  /\ rest \in 0..Interval /\ redis \in BOOLEAN /\ nap \in 0..Beat
  /\ beatAge \in 0..Expired /\ calm \in 0..Expired /\ busy \in Nat
  /\ raisedAt \in [Source -> SUBSET (0..Cooldown)]
  /\ bad \in [Source -> [raised : 0..Threshold,
                       rested : BOOLEAN]]

NoneBad == [raised |-> 0, rested |-> FALSE]

(* What a new process starts with: the breaker is in memory too.  The      *)
(* heartbeat is not, and has aged while no process ran.                    *)
Fresh ==
  /\ pc' = "init" /\ reloadRequested' = FALSE /\ cycle' = 0
  /\ sources' = {} /\ todo' = {} /\ seen' = 0
  /\ failures' = [s \in Source |-> 0] /\ age' = [s \in Source |-> LongAgo]
  /\ rest' = 0 /\ nap' = 0 /\ calm' = 0 /\ busy' = 0
  /\ beatAge' \in beatAge..Expired /\ redis' = redis
  /\ raisedAt' = [s \in Source |-> {}] /\ bad' = [s \in Source |-> NoneBad]

Init ==
  /\ file \in [version : {0}, enabled : SUBSET Source, valid : BOOLEAN]
  /\ asked = 0 /\ kills = 0
  /\ pc = "init" /\ reloadRequested = FALSE /\ cycle = 0
  /\ sources = {} /\ todo = {} /\ seen = 0
  /\ failures = [s \in Source |-> 0] /\ age = [s \in Source |-> LongAgo]
  /\ rest = 0 /\ nap = 0 /\ calm = 0 /\ busy = 0
  /\ beatAge = Expired /\ redis \in BOOLEAN
  /\ raisedAt = [s \in Source |-> {}] /\ bad = [s \in Source |-> NoneBad]

-----------------------------------------------------------------------------
(***************************************************************************)
(* Starting.                                                               *)
(***************************************************************************)
(* load_registry raises on an invalid file: the process ends, and is       *)
(* started again until the file is valid.                                  *)
Load ==
  /\ pc = "init" /\ file.valid
  /\ sources' = file.enabled /\ seen' = file.version
  /\ pc' = "installing"
  /\ UNCHANGED <<file, asked, kills, reloadRequested, cycle, todo, breaker, clock, history>>

(* signal.signal(SIGHUP, _sighup)                                          *)
InstallHandler ==
  /\ pc = "installing"
  /\ pc' = "test"
  /\ UNCHANGED <<file, asked, kills, reloadRequested, cycle, sources, seen, todo,
                 breaker, clock, history>>

-----------------------------------------------------------------------------
(***************************************************************************)
(* Reloading.                                                              *)
(***************************************************************************)
(* Mutant: the flag is cleared after the file was read. *)
ReloadOrderSwapped == [test |-> "read", read |-> "clear", clear |-> "begin"]

(* The flag is cleared before the file is read.                            *)
ReloadOrder == [test |-> "clear", clear |-> "read", read |-> "begin"]

(* Mutant: the registry is read on request only. *)
ReloadDueOnRequest(c) == reloadRequested

ReloadDue(c) == reloadRequested \/ c = 0

(* cycle += 1; if reload_requested or cycle % 10 == 0                      *)
TestReload ==
  LET c == (cycle + 1) % ReloadEvery IN
  /\ pc = "test"
  /\ cycle' = c
  /\ pc' = IF ReloadDue(c) THEN ReloadOrder.test ELSE "begin"
  /\ UNCHANGED <<file, asked, kills, reloadRequested, sources, seen, todo,
                 breaker, clock, history>>

ClearRequest ==
  /\ pc = "clear"
  /\ reloadRequested' = FALSE
  /\ pc' = ReloadOrder.clear
  /\ UNCHANGED <<file, asked, kills, cycle, sources, seen, todo, breaker, clock, history>>

(* An invalid file leaves the list as it is.                               *)
ReadRegistry ==
  /\ pc = "read"
  /\ seen' = file.version
  /\ sources' = IF file.valid THEN file.enabled ELSE sources
  /\ pc' = ReloadOrder.read
  /\ UNCHANGED <<file, asked, kills, reloadRequested, cycle, todo, breaker, clock, history>>

-----------------------------------------------------------------------------
(***************************************************************************)
(* Polling.  "quiet": no items, also when the fetch failed, for the         *)
(* collector swallows that exception; "raised": one reaches poll_source    *)
(* (Redis is away, an entry is malformed) before an item is queued, "cut": *)
(* after; "queued": items, no exception.                                   *)
(***************************************************************************)
Outcome == {"quiet", "raised", "cut", "queued"}
Queues(o) == o \in {"cut", "queued"}

(* for src in sources                                                      *)
BeginPolling ==
  /\ pc = "begin"
  /\ todo' = sources
  /\ pc' = "poll"
  /\ busy' = 0
  /\ UNCHANGED <<file, asked, kills, reloadRequested, cycle, sources, seen,
                 breaker, rest, redis, nap, beatAge, calm, history>>

(* Mutant: one failure more than FAILURE_THRESHOLD trips the breaker. *)
TrippedLate(s) == failures[s] > Threshold

Tripped(s) == failures[s] >= Threshold

(* Mutant: the circuit never closes again. *)
IsOpenForever(s) == Tripped(s)

IsOpen(s) == Tripped(s) /\ age[s] <= Cooldown

Skip(s) ==
  /\ pc = "poll" /\ s \in todo /\ IsOpen(s)
  /\ todo' = todo \ {s}
  /\ bad' = [bad EXCEPT ![s].rested = TRUE]
  /\ UNCHANGED <<file, asked, kills, pc, reloadRequested, cycle, sources, seen,
                 breaker, clock, raisedAt>>

(* Mutant: a source that has rested keeps its failures but one. *)
AfterRestOneLess(s) == IF Tripped(s) THEN failures[s] - 1 ELSE failures[s]

(* is_open forgets the failures of a source that has rested.               *)
AfterRest(s) == IF Tripped(s) THEN 0 ELSE failures[s]

(* record_failure, then record_success if count > 0                        *)
Record(s, o, d) ==
  /\ failures' = [failures EXCEPT ![s] = IF Queues(o) THEN 0
                                         ELSE IF o = "raised" THEN AfterRest(s) + 1
                                         ELSE AfterRest(s)]
  /\ age' = [x \in Source |-> IF x = s /\ Queues(o) THEN LongAgo
                              ELSE IF x = s /\ o = "raised" THEN 0
                              ELSE Older(age[x], d)]

UpTo(n) == IF n > Threshold THEN Threshold ELSE n
Aged(A, d) == {a + d : a \in A} \cap 0..Cooldown

Remember(s, o, d) ==
  /\ raisedAt' = [x \in Source |-> IF x = s /\ Queues(o) THEN {}
                                   ELSE IF x = s /\ o = "raised"
                                     THEN Aged(raisedAt[x], d) \cup {0}
                                   ELSE Aged(raisedAt[x], d)]
  /\ bad' = [bad EXCEPT ![s] =
       LET old == IF @.rested THEN NoneBad ELSE @ IN
       [raised |-> IF Queues(o) THEN 0 ELSE IF o = "raised" THEN UpTo(old.raised + 1)
                   ELSE old.raised,
        rested |-> FALSE]]

(* The heartbeat task sleeps through the last of d ticks, or would wake up *)
(* while the event loop is blocked.                                        *)
NoTurn(d) ==
  /\ beatAge' = Later(beatAge, d)
  /\ nap' = Left(nap, d)

(* It is awake e ticks before their end, writes the heartbeat if Redis     *)
(* answers (an exception is swallowed), and sleeps again for Beat ticks.   *)
Turn(d, e) ==
  /\ nap + e <= d
  /\ beatAge' = IF redis THEN Later(0, e) ELSE Later(beatAge, d)
  /\ nap' = Left(Beat, e)

Calm(d) == calm' = IF redis THEN Later(calm, d) ELSE 0

(* The daemon awaits Redis or Postgres for an item and for the record of a *)
(* failure, which may give the heartbeat task its turn, and not in a fetch.*)
(* No item is queued while Redis is away.                                  *)
Attempt(s, o, d) ==
  /\ pc = "poll" /\ s \in todo /\ ~IsOpen(s)
  /\ Queues(o) => redis
  /\ todo' = todo \ {s}
  /\ Record(s, o, d)
  /\ Remember(s, o, d)
  /\ \/ NoTurn(d)
     \/ o # "quiet" /\ \E e \in 0..d : Turn(d, e)
  /\ Calm(d) /\ busy' = busy + d
  /\ UNCHANGED <<file, asked, kills, pc, reloadRequested, cycle, sources, seen, rest, redis>>

Poll(s) == Skip(s) \/ \E o \in Outcome, d \in 0..MaxFetch : Attempt(s, o, d)

(* Mutant: the pause between two cycles blocks the event loop as well. *)
PauseBlocking(d) == NoTurn(d) /\ Calm(d)

(* While the daemon sleeps, the heartbeat task has its turn when it is due.*)
Pause(d) ==
  /\ IF nap <= d THEN Turn(d, 0) ELSE NoTurn(d)
  /\ Calm(d)

(* _record_cycle, then asyncio.sleep(interval)                             *)
Sleep ==
  /\ pc = "poll" /\ todo = {}
  /\ pc' = "sleep" /\ rest' = Interval
  /\ Pause(0)
  /\ UNCHANGED <<file, asked, kills, reloadRequested, cycle, sources, seen, todo,
                 breaker, redis, busy, history>>

(* One tick of the pause.                                                  *)
Tick ==
  /\ pc = "sleep" /\ rest > 0
  /\ rest' = rest - 1
  /\ pc' = IF rest = 1 THEN "test" ELSE "sleep"
  /\ Pause(1)
  /\ age' = [s \in Source |-> Older(age[s], 1)]
  /\ raisedAt' = [s \in Source |-> Aged(raisedAt[s], 1)]
  /\ UNCHANGED <<file, asked, kills, reloadRequested, cycle, sources, seen, todo,
                 failures, redis, busy, bad>>

-----------------------------------------------------------------------------
(***************************************************************************)
(* The environment: an operator and the machine.                           *)
(***************************************************************************)
Edit ==
  /\ file.version < MaxEdit
  /\ file' \in [version : {file.version + 1}, enabled : SUBSET Source, valid : BOOLEAN]
  /\ UNCHANGED <<asked, kills, memory, breaker, clock, history>>

(* _sighup                                                                 *)
Sighup ==
  /\ pc \notin Loading
  /\ reloadRequested' = TRUE
  /\ asked' = file.version
  /\ UNCHANGED <<file, kills, pc, cycle, sources, seen, todo, breaker, clock, history>>

(* The process ends and is restarted: a crash, a SIGTERM, or a SIGHUP      *)
(* before the handler is installed.                                        *)
Kill ==
  /\ kills < MaxKill
  /\ kills' = kills + 1
  /\ asked' \in {asked} \cup (IF pc \in Loading THEN {file.version} ELSE {})
  /\ Fresh
  /\ UNCHANGED file

(* Redis stops, and may have lost the heartbeat when it is back.           *)
RedisFails ==
  /\ redis
  /\ redis' = FALSE /\ calm' = 0
  /\ beatAge' \in {beatAge, Expired}
  /\ UNCHANGED <<file, asked, kills, memory, breaker, rest, nap, busy, history>>

RedisReturns ==
  /\ ~redis
  /\ redis' = TRUE
  /\ UNCHANGED <<file, asked, kills, memory, breaker, rest, nap, beatAge, calm, busy, history>>

Daemon ==
  \/ Load \/ InstallHandler
  \/ TestReload \/ ClearRequest \/ ReadRegistry
  \/ BeginPolling \/ (\E s \in Source : Poll(s)) \/ Sleep \/ Tick

Next == Daemon \/ Edit \/ Sighup \/ Kill \/ RedisFails \/ RedisReturns

Spec == Init /\ [][Next]_vars

(* The daemon's loop goes on whatever a poll does.                         *)
FairSpec == Spec /\ WF_vars(Daemon)
-----------------------------------------------------------------------------
(***************************************************************************)
(* What the daemon promises.                                               *)
(***************************************************************************)
(* A SIGHUP is never lost: when no request is pending, the daemon has read *)
(* the file at least as it was when the last SIGHUP came, whenever it came.*)
ReloadsAreHonoured ==
  pc \notin {"init", "read"} /\ ~reloadRequested => seen >= asked

(* A source is not polled again and again while it fails: of its polls     *)
(* since it last delivered an item, no more than Threshold raised within   *)
(* one Cooldown.                                                           *)
RetriesArePaced == \A s \in Source : Cardinality(raisedAt[s]) <= Threshold

(* A source rests only after Threshold polls that raised since it last     *)
(* rested or delivered an item: a rest gives it a full set of new attempts.*)
RestsAreDue == \A s \in Source : bad[s].rested => bad[s].raised >= Threshold

(* The heartbeat of a daemon that runs, with a Redis that answers, for more*)
(* than a heartbeat's life expires only in a cycle whose fetches blocked   *)
(* the loop for longer than that life less one interval of the task,       *)
(* however many writes failed and were swallowed before.                   *)
HeartbeatLapsesForACause == beatAge > Ttl /\ calm > Ttl => busy > Ttl - Beat

(* The daemon ends up with the sources of the file, whether or not anybody *)
(* sends it a signal, and whatever invalid contents it met on the way.     *)
RegistryIsFollowed == <>[]file.valid => <>[](sources = file.enabled)

(* However often it fails, an enabled source is tried again and again.     *)
EnabledSourcesArePolled ==
  \A s \in Source :
    <>[](file.valid /\ s \in file.enabled)
      => []<><<\E o \in Outcome, d \in 0..MaxFetch : Attempt(s, o, d)>>_vars
=============================================================================
