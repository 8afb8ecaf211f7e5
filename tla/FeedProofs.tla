--------------------------------- MODULE FeedProofs ---------------------------------
(***************************************************************************)
(* The daemon never loses a reload request, the circuit breaker paces the  *)
(* retries of a source, and the heartbeat lapses only behind fetches, for  *)
(* any sources, thresholds and times.                                      *)
(***************************************************************************)
EXTENDS Feed, FiniteSetTheorems, TLAPS

USE FeedAssumption

(* What a SIGHUP asks for is a version the file has had.                   *)
RequestInv == asked <= file.version /\ ReloadsAreHonoured

(* failures counts the polls behind raisedAt; last_failure_at is the       *)
(* youngest of them; a source that rests has tripped the breaker.          *)
BreakerInv ==
  \A s \in Source :
    /\ Cardinality(raisedAt[s]) <= failures[s]
    /\ \A a \in raisedAt[s] : a >= age[s]
    /\ failures[s] <= bad[s].raised
    /\ bad[s].rested => Tripped(s)

(* The heartbeat task's last turn is as long ago as the part of its sleep  *)
(* that is over, and then as the fetches of the cycle; in that turn it     *)
(* wrote the heartbeat, or else Redis was away.                            *)
Lapse == IF beatAge < calm THEN beatAge ELSE calm

BeatInv ==
  /\ nap > 0 \/ pc # "poll" => Lapse + nap <= Beat
  /\ Lapse <= Beat + busy

(* A cycle fetches from each source once at most.                          *)
BusyInv ==
  /\ pc = "poll" => busy <= Cardinality(Source \ todo) * MaxFetch
  /\ busy <= Cardinality(Source) * MaxFetch

IInv == TypeOK /\ RequestInv /\ BreakerInv /\ BeatInv /\ BusyInv

-----------------------------------------------------------------------------
(* Ages.                                                                   *)
LEMMA OlderType ==
  ASSUME NEW a \in 0..LongAgo, NEW d \in Nat
  PROVE  Older(a, d) \in 0..LongAgo
  BY DEF Older, LongAgo

(* Time makes no poll younger than the last failure.                       *)
LEMMA AgedStaysOlder ==
  ASSUME NEW A \in SUBSET (0..Cooldown), NEW y \in 0..LongAgo, NEW d \in Nat,
         \A a \in A : a >= y
  PROVE  /\ Aged(A, d) \in SUBSET (0..Cooldown)
         /\ \A a \in Aged(A, d) : a >= Older(y, d)
  BY DEF Aged, Older, LongAgo

(* Time adds no poll to those of the last Cooldown.                        *)
LEMMA AgedIsSmaller ==
  ASSUME NEW A \in SUBSET (0..Cooldown), NEW d \in Nat
  PROVE  /\ IsFiniteSet(A) /\ Cardinality(A) \in Nat
         /\ IsFiniteSet(Aged(A, d)) /\ Cardinality(Aged(A, d)) \in Nat
         /\ Cardinality(Aged(A, d)) <= Cardinality(A)
<1>1. IsFiniteSet(A)
  <2>1. IsFiniteSet(0..Cooldown)
    BY FS_Interval
  <2> QED
    BY <2>1, FS_Subset
<1> DEFINE f == [b \in Aged(A, d) |-> b - d]
<1>2. f \in Injection(Aged(A, d), A)
  <2>1. \A b \in Aged(A, d) : b \in Int /\ b - d \in A
    BY DEF Aged
  <2>2. f \in [Aged(A, d) -> A]
    BY <2>1
  <2>3. \A a, b \in DOMAIN f : f[a] = f[b] => a = b
    BY <2>1
  <2> QED
    BY <2>2, <2>3 DEF Injection, IsInjective
<1>3. IsFiniteSet(Aged(A, d)) /\ Cardinality(Aged(A, d)) <= Cardinality(A)
  BY <1>1, <1>2, FS_Injection
<1> QED
  BY <1>1, <1>3, FS_CardinalityType

(* A poll that raises adds one.                                            *)
LEMMA OneMore ==
  ASSUME NEW A \in SUBSET (0..Cooldown)
  PROVE  /\ Cardinality(A \cup {0}) \in Nat
         /\ Cardinality(A \cup {0}) <= Cardinality(A) + 1
<1>1. IsFiniteSet(A)
  <2>1. IsFiniteSet(0..Cooldown)
    BY FS_Interval
  <2> QED
    BY <2>1, FS_Subset
<1>2. /\ IsFiniteSet(A \cup {0})
      /\ Cardinality(A \cup {0}) = IF 0 \in A THEN Cardinality(A) ELSE Cardinality(A) + 1
  BY <1>1, FS_AddElement
<1>3. Cardinality(A) \in Nat /\ Cardinality(A \cup {0}) \in Nat
  BY <1>1, <1>2, FS_CardinalityType
<1> QED
  BY <1>2, <1>3

-----------------------------------------------------------------------------
(* What a process starts with is well typed.                               *)
LEMMA StartTypes ==
  /\ [s \in Source |-> 0] \in [Source -> 0..Threshold]
  /\ [s \in Source |-> LongAgo] \in [Source -> 0..LongAgo]
  /\ [s \in Source |-> {}] \in [Source -> SUBSET (0..Cooldown)]
  /\ [s \in Source |-> NoneBad] \in [Source -> [raised : 0..Threshold, rested : BOOLEAN]]
  /\ 0 \in 0..(ReloadEvery - 1) /\ 0 \in Version
<1>1. NoneBad \in [raised : 0..Threshold, rested : BOOLEAN]
  BY DEF NoneBad
<1>2. LongAgo \in 0..LongAgo
  BY DEF LongAgo
<1>3. 0 \in 0..Threshold /\ 0 \in 0..(ReloadEvery - 1) /\ 0 \in Version
  BY DEF Version
<1>4. [s \in Source |-> NoneBad] \in [Source -> [raised : 0..Threshold, rested : BOOLEAN]]
  BY <1>1
<1> QED
  BY <1>2, <1>3, <1>4

(* The daemon's memory, one action at a time.                              *)
LEMMA TypeOKInit == Init => TypeOK
<1> SUFFICES ASSUME Init PROVE TypeOK
  OBVIOUS
<1>1. file \in [version : Version, enabled : SUBSET Source, valid : BOOLEAN]
  BY StartTypes DEF Init
<1>2. pc \in Label
  BY DEF Init, Label, Loading
<1>3. asked \in Version /\ seen \in Version /\ kills \in 0..MaxKill
  BY DEF Init, Version
<1>4. reloadRequested \in BOOLEAN
      /\ sources \in SUBSET Source /\ todo \in SUBSET Source
  BY DEF Init
<1>6. /\ rest \in 0..Interval /\ redis \in BOOLEAN /\ nap \in 0..Beat
      /\ beatAge \in 0..Expired /\ calm \in 0..Expired /\ busy \in Nat
  BY DEF Init, Expired
<1>5. /\ cycle \in 0..(ReloadEvery - 1)
      /\ failures \in [Source -> 0..Threshold]
      /\ age \in [Source -> 0..LongAgo]
      /\ raisedAt \in [Source -> SUBSET (0..Cooldown)]
      /\ bad \in [Source -> [raised : 0..Threshold,
                             rested : BOOLEAN]]
  BY StartTypes DEF Init
<1> QED
  BY <1>1, <1>2, <1>3, <1>4, <1>5, <1>6 DEF TypeOK

(* The clocks stay in their ranges.                                        *)
LEMMA ClockTypes ==
  /\ \A a \in 0..Expired, d \in Nat : Later(a, d) \in 0..Expired
  /\ \A n \in 0..Beat, d \in Nat : Left(n, d) \in 0..Beat
  BY DEF Later, Left, Expired

LEMMA BeatType ==
  ASSUME TypeOK, NEW d \in Nat, Calm(d),
         NoTurn(d) \/ \E e \in 0..d : Turn(d, e)
  PROVE  beatAge' \in 0..Expired /\ nap' \in 0..Beat /\ calm' \in 0..Expired
<1>1. 0 \in 0..Expired /\ Beat \in 0..Beat
  BY DEF Expired
<1>2. calm' \in 0..Expired
  BY <1>1, ClockTypes DEF TypeOK, Calm
<1>3. CASE NoTurn(d)
  BY <1>2, <1>3, ClockTypes DEF NoTurn, TypeOK
<1>4. ASSUME NEW e \in 0..d, Turn(d, e) PROVE beatAge' \in 0..Expired /\ nap' \in 0..Beat
  BY <1>1, <1>4, ClockTypes DEF Turn, TypeOK
<1> QED
  BY <1>2, <1>3, <1>4

LEMMA RecordType ==
  ASSUME TypeOK, NEW s \in Source, NEW o \in Outcome, NEW d \in 0..MaxFetch,
         ~IsOpen(s), Record(s, o, d), Remember(s, o, d)
  PROVE  /\ failures' \in [Source -> 0..Threshold]
         /\ age' \in [Source -> 0..LongAgo]
         /\ raisedAt' \in [Source -> SUBSET (0..Cooldown)]
         /\ bad' \in [Source -> [raised : 0..Threshold,
                                 rested : BOOLEAN]]
<1>1. failures' \in [Source -> 0..Threshold]
  <2>1. AfterRest(s) \in 0..(Threshold - 1)
    BY DEF TypeOK, AfterRest, Tripped
  <2> QED
    BY <2>1 DEF Record, TypeOK
<1>2. age' \in [Source -> 0..LongAgo]
  <2>1. \A x \in Source : Older(age[x], d) \in 0..LongAgo
    BY OlderType DEF TypeOK
  <2> QED
    BY <2>1 DEF Record, LongAgo
<1>3. raisedAt' \in [Source -> SUBSET (0..Cooldown)]
  <2>1. \A x \in Source : Aged(raisedAt[x], d) \subseteq 0..Cooldown
    BY DEF Aged
  <2> QED
    BY <2>1 DEF Remember
<1>4. bad' \in [Source -> [raised : 0..Threshold,
                           rested : BOOLEAN]]
  <2>1. \A n \in 0..Threshold : UpTo(n) \in 0..Threshold /\ UpTo(n + 1) \in 0..Threshold
    BY DEF UpTo
  <2>2. /\ bad[s].raised \in 0..Threshold
        /\ NoneBad.raised \in 0..Threshold
    BY DEF TypeOK, NoneBad
  <2> DEFINE old == IF bad[s].rested THEN NoneBad ELSE bad[s]
  <2>3. old.raised \in 0..Threshold
    BY <2>2
  <2> HIDE DEF old
  <2>4. bad' = [bad EXCEPT ![s] =
                 [raised |-> IF Queues(o) THEN 0 ELSE IF o = "raised" THEN UpTo(old.raised + 1)
                             ELSE old.raised,
                  rested |-> FALSE]]
    BY DEF Remember, old
  <2> QED
    BY <2>1, <2>3, <2>4 DEF TypeOK
<1> QED
  BY <1>1, <1>2, <1>3, <1>4

LEMMA TypeOKStep == TypeOK /\ [Next]_vars => TypeOK'
<1> SUFFICES ASSUME TypeOK, [Next]_vars PROVE TypeOK'
  OBVIOUS
<1>1. CASE UNCHANGED vars
  BY <1>1 DEF TypeOK, vars, memory, breaker, clock, history
<1>2. CASE Load
  BY <1>2 DEF Load, TypeOK, breaker, clock, history, Label, Loading
<1>3. CASE InstallHandler
  BY <1>3 DEF InstallHandler, TypeOK, breaker, clock, history, Label, Loading
<1>4. CASE TestReload
  <2>1. (cycle + 1) % ReloadEvery \in 0..(ReloadEvery - 1)
    BY DEF TypeOK
  <2> QED
    BY <1>4, <2>1 DEF TestReload, TypeOK, breaker, clock, history, Label, Loading, ReloadOrder
<1>5. CASE ClearRequest
  BY <1>5 DEF ClearRequest, TypeOK, breaker, clock, history, Label, Loading, ReloadOrder
<1>6. CASE ReadRegistry
  BY <1>6 DEF ReadRegistry, TypeOK, breaker, clock, history, Label, Loading, ReloadOrder
<1>7. CASE BeginPolling
  BY <1>7 DEF BeginPolling, TypeOK, breaker, history, Label, Loading
<1>8. ASSUME NEW s \in Source, Skip(s) PROVE TypeOK'
  BY <1>8 DEF Skip, TypeOK, breaker, clock
<1>9. ASSUME NEW s \in Source, NEW o \in Outcome, NEW d \in 0..MaxFetch, Attempt(s, o, d)
      PROVE  TypeOK'
  <2>1. /\ failures' \in [Source -> 0..Threshold]
        /\ age' \in [Source -> 0..LongAgo]
        /\ raisedAt' \in [Source -> SUBSET (0..Cooldown)]
        /\ bad' \in [Source -> [raised : 0..Threshold,
                                rested : BOOLEAN]]
    BY <1>9, RecordType DEF Attempt
  <2>2. /\ beatAge' \in 0..Expired /\ nap' \in 0..Beat /\ calm' \in 0..Expired
        /\ busy' \in Nat /\ rest' \in 0..Interval /\ redis' \in BOOLEAN
    <3>1. d \in Nat
      OBVIOUS
    <3>2. Calm(d) /\ (NoTurn(d) \/ \E e \in 0..d : Turn(d, e))
      BY <1>9 DEF Attempt
    <3>3. busy' = busy + d /\ rest' = rest /\ redis' = redis
      BY <1>9 DEF Attempt
    <3>4. busy' \in Nat /\ rest' \in 0..Interval /\ redis' \in BOOLEAN
      BY <3>3 DEF TypeOK
    <3> QED
      BY <3>1, <3>2, <3>4, BeatType
  <2>3. todo' \in SUBSET Source
    BY <1>9 DEF Attempt, TypeOK
  <2>4. UNCHANGED <<file, asked, kills, pc, reloadRequested, cycle, sources, seen>>
    BY <1>9 DEF Attempt
  <2> QED
    BY <2>1, <2>2, <2>3, <2>4 DEF TypeOK
<1>10. CASE Sleep
  <2>1. beatAge' \in 0..Expired /\ nap' \in 0..Beat /\ calm' \in 0..Expired
    <3>1. Pause(0)
      BY <1>10 DEF Sleep
    <3> QED
      BY <3>1, BeatType DEF Pause
  <2> QED
    BY <1>10, <2>1 DEF Sleep, TypeOK, Label, Loading, breaker, history
<1>14. CASE Tick
  <2>1. beatAge' \in 0..Expired /\ nap' \in 0..Beat /\ calm' \in 0..Expired
    <3>1. Pause(1)
      BY <1>14 DEF Tick
    <3> QED
      BY <3>1, BeatType DEF Pause
  <2>2. age' \in [Source -> 0..LongAgo] /\ raisedAt' \in [Source -> SUBSET (0..Cooldown)]
    <3>1. \A s \in Source : /\ Older(age[s], 1) \in 0..LongAgo
                           /\ Aged(raisedAt[s], 1) \in SUBSET (0..Cooldown)
      BY OlderType DEF TypeOK, Aged
    <3> QED
      BY <1>14, <3>1 DEF Tick
  <2>3. pc' \in Label /\ UNCHANGED <<file, asked, kills, reloadRequested, cycle, sources,
                                     seen, todo, failures, redis, busy, bad>>
    BY <1>14 DEF Tick, Label, Loading
  <2>4. rest' \in 0..Interval
    BY <1>14 DEF Tick, TypeOK
  <2> QED
    BY <2>1, <2>2, <2>3, <2>4 DEF TypeOK
<1>15. CASE RedisFails \/ RedisReturns
  <2>1. Expired \in 0..Expired /\ 0 \in 0..Expired
    BY DEF Expired
  <2>2. /\ UNCHANGED <<file, asked, kills, memory, breaker, rest, nap, busy, history>>
        /\ redis' \in BOOLEAN /\ beatAge' \in {beatAge, Expired} /\ calm' \in {calm, 0}
    BY <1>15 DEF RedisFails, RedisReturns
  <2> QED
    BY <2>1, <2>2 DEF TypeOK, memory, breaker, history
<1>11. CASE Edit
  BY <1>11 DEF Edit, TypeOK, memory, breaker, clock, history, Version
<1>12. CASE Sighup
  BY <1>12 DEF Sighup, TypeOK, breaker, clock, history
<1>13. CASE Kill
  <2>1. asked' \in Version /\ kills' \in 0..MaxKill /\ file' = file
    BY <1>13 DEF Kill, TypeOK
  <2>2. pc' \in Label
    BY <1>13 DEF Kill, Fresh, Label, Loading
  <2>3. Fresh
    BY <1>13 DEF Kill
  <2>4. /\ rest' \in 0..Interval /\ redis' \in BOOLEAN /\ nap' \in 0..Beat
        /\ beatAge' \in 0..Expired /\ calm' \in 0..Expired /\ busy' \in Nat
    BY <2>3 DEF Fresh, TypeOK, Expired
  <2> QED
    BY <2>1, <2>2, <2>3, <2>4, StartTypes DEF Fresh, TypeOK
<1> QED
  BY <1>1, <1>2, <1>3, <1>4, <1>5, <1>6, <1>7, <1>8, <1>9, <1>10, <1>11, <1>12, <1>13, <1>14, <1>15
     DEF Next, Daemon, Poll

-----------------------------------------------------------------------------
(* A version asked for has been read, or will be: its request is pending,  *)
(* or the daemon is about to read the file.                                *)
LEMMA RequestStep == TypeOK /\ RequestInv /\ [Next]_vars => RequestInv'
<1> SUFFICES ASSUME TypeOK, RequestInv, [Next]_vars PROVE RequestInv'
  OBVIOUS
<1> USE DEF RequestInv, ReloadsAreHonoured, TypeOK, Version, Label, Loading
<1>same. ASSUME UNCHANGED <<file, asked, pc, reloadRequested, seen>> PROVE RequestInv'
  BY <1>same
<1>1. CASE UNCHANGED vars
  BY <1>1, <1>same DEF vars, memory
<1>2. CASE Load
  BY <1>2 DEF Load
<1>3. CASE InstallHandler
  BY <1>3 DEF InstallHandler
<1>4. CASE TestReload
  BY <1>4 DEF TestReload, ReloadOrder
<1>5. CASE ClearRequest
  BY <1>5 DEF ClearRequest, ReloadOrder
<1>6. CASE ReadRegistry
  BY <1>6 DEF ReadRegistry, ReloadOrder
<1>7. CASE BeginPolling
  BY <1>7 DEF BeginPolling
<1>8. ASSUME NEW s \in Source, Skip(s) PROVE RequestInv'
  BY <1>8, <1>same DEF Skip
<1>9. ASSUME NEW s \in Source, NEW o \in Outcome, NEW d \in 0..MaxFetch, Attempt(s, o, d)
      PROVE  RequestInv'
  BY <1>9, <1>same DEF Attempt
<1>10. CASE Sleep
  BY <1>10 DEF Sleep
<1>11. CASE Edit
  BY <1>11 DEF Edit, memory
<1>12. CASE Sighup
  BY <1>12 DEF Sighup
<1>13. CASE Kill
  BY <1>13 DEF Kill, Fresh
<1>14. CASE Tick
  BY <1>14 DEF Tick
<1>15. CASE RedisFails \/ RedisReturns
  BY <1>15, <1>same DEF RedisFails, RedisReturns, memory
<1> QED
  BY <1>1, <1>2, <1>3, <1>4, <1>5, <1>6, <1>7, <1>8, <1>9, <1>10, <1>11, <1>12, <1>13,
     <1>14, <1>15 DEF Next, Daemon, Poll

-----------------------------------------------------------------------------
(* What time does to a source that is not polled, or polled quietly.       *)
LEMMA QuietTime ==
  ASSUME TypeOK, BreakerInv, NEW s \in Source, NEW d \in Nat
  PROVE  /\ Cardinality(Aged(raisedAt[s], d)) \in Nat
         /\ Cardinality(Aged(raisedAt[s], d)) <= failures[s]
         /\ \A a \in Aged(raisedAt[s], d) : a >= Older(age[s], d)
         /\ Tripped(s) /\ ~IsOpen(s) => Aged(raisedAt[s], d) = {}
<1>1. raisedAt[s] \in SUBSET (0..Cooldown) /\ age[s] \in 0..LongAgo /\ failures[s] \in Nat
  BY DEF TypeOK
<1>2. Cardinality(raisedAt[s]) <= failures[s] /\ \A a \in raisedAt[s] : a >= age[s]
  BY DEF BreakerInv
<1>3. ASSUME Tripped(s), ~IsOpen(s) PROVE Aged(raisedAt[s], d) = {}
  <2>1. raisedAt[s] = {}
    BY <1>1, <1>2, <1>3 DEF IsOpen, LongAgo
  <2> QED
    BY <2>1 DEF Aged
<1>4. \A a \in Aged(raisedAt[s], d) : a >= Older(age[s], d)
  BY <1>1, <1>2, AgedStaysOlder
<1>5. /\ Cardinality(Aged(raisedAt[s], d)) \in Nat /\ Cardinality(raisedAt[s]) \in Nat
      /\ Cardinality(Aged(raisedAt[s], d)) <= Cardinality(raisedAt[s])
  BY <1>1, AgedIsSmaller
<1> QED
  BY <1>1, <1>2, <1>3, <1>4, <1>5

LEMMA AttemptKeepsBreaker ==
  ASSUME TypeOK, BreakerInv, NEW s \in Source, NEW o \in Outcome, NEW d \in 0..MaxFetch,
         ~IsOpen(s), Record(s, o, d), Remember(s, o, d)
  PROVE  BreakerInv'
<1>0. d \in Nat
  OBVIOUS
<1>1. ASSUME NEW x \in Source, x # s
      PROVE  /\ Cardinality(raisedAt'[x]) <= failures'[x]
             /\ \A a \in raisedAt'[x] : a >= age'[x]
             /\ failures'[x] <= bad'[x].raised
             /\ bad'[x].rested => Tripped(x)'
  <2>1. /\ failures'[x] = failures[x] /\ bad'[x] = bad[x]
        /\ age'[x] = Older(age[x], d) /\ raisedAt'[x] = Aged(raisedAt[x], d)
    BY <1>1 DEF Record, Remember, TypeOK
  <2>2. failures[x] <= bad[x].raised /\ (bad[x].rested => Tripped(x))
    BY DEF BreakerInv
  <2>3. /\ Cardinality(Aged(raisedAt[x], d)) <= failures[x]
        /\ \A a \in Aged(raisedAt[x], d) : a >= Older(age[x], d)
    BY <1>0, QuietTime
  <2>4. bad'[x].rested => Tripped(x)'
    BY <2>1, <2>2 DEF Tripped
  <2> QED
    BY <2>1, <2>2, <2>3, <2>4
<1> DEFINE old == IF bad[s].rested THEN NoneBad ELSE bad[s]
<1>2. old.raised \in 0..Threshold
  BY DEF TypeOK, NoneBad
<1>3. AfterRest(s) <= old.raised /\ AfterRest(s) \in 0..(Threshold - 1)
  BY DEF TypeOK, BreakerInv, NoneBad, AfterRest, Tripped
<1>4. /\ ~bad'[s].rested
      /\ bad'[s].raised = IF Queues(o) THEN 0 ELSE IF o = "raised" THEN UpTo(old.raised + 1)
                          ELSE old.raised
  BY DEF Remember, TypeOK
<1>5. /\ Cardinality(Aged(raisedAt[s], d)) \in Nat
      /\ Cardinality(Aged(raisedAt[s], d)) <= AfterRest(s)
      /\ \A a \in Aged(raisedAt[s], d) : a >= Older(age[s], d)
  <2>1. CASE Tripped(s)
    <3>1. Aged(raisedAt[s], d) = {}
      BY <1>0, <2>1, QuietTime
    <3> QED
      BY <2>1, <3>1, FS_EmptySet DEF AfterRest
  <2>2. CASE ~Tripped(s)
    BY <1>0, <2>2, QuietTime DEF AfterRest
  <2> QED
    BY <2>1, <2>2
<1> HIDE DEF old
<1>6. /\ Cardinality(raisedAt'[s]) <= failures'[s]
      /\ \A a \in raisedAt'[s] : a >= age'[s]
      /\ failures'[s] <= bad'[s].raised
  <2>1. CASE Queues(o)
    <3>1. failures'[s] = 0 /\ raisedAt'[s] = {} /\ bad'[s].raised = 0
      BY <2>1, <1>4 DEF Record, Remember, TypeOK
    <3> QED
      BY <3>1, FS_EmptySet
  <2>2. CASE ~Queues(o) /\ o = "raised"
    <3>1. /\ failures'[s] = AfterRest(s) + 1 /\ age'[s] = 0
          /\ raisedAt'[s] = Aged(raisedAt[s], d) \cup {0}
      BY <2>2 DEF Record, Remember, TypeOK
    <3>2. Aged(raisedAt[s], d) \in SUBSET (0..Cooldown)
      BY DEF Aged
    <3>3. /\ Cardinality(raisedAt'[s]) \in Nat
          /\ Cardinality(raisedAt'[s]) <= Cardinality(Aged(raisedAt[s], d)) + 1
      BY <3>1, <3>2, OneMore
    <3>4. \A a \in raisedAt'[s] : a >= age'[s]
      BY <3>1, <3>2
    <3>5. AfterRest(s) + 1 <= UpTo(old.raised + 1)
      BY <1>2, <1>3 DEF UpTo
    <3> QED
      BY <1>3, <1>4, <1>5, <2>2, <3>1, <3>3, <3>4, <3>5
  <2>3. CASE ~Queues(o) /\ o # "raised"
    <3>1. /\ failures'[s] = AfterRest(s) /\ age'[s] = Older(age[s], d)
          /\ raisedAt'[s] = Aged(raisedAt[s], d)
      BY <2>3 DEF Record, Remember, TypeOK
    <3> QED
      BY <1>3, <1>4, <1>5, <2>3, <3>1
  <2> QED
    BY <2>1, <2>2, <2>3
<1> QED
  BY <1>1, <1>4, <1>6 DEF BreakerInv

LEMMA BreakerStep == TypeOK /\ BreakerInv /\ [Next]_vars => BreakerInv'
<1> SUFFICES ASSUME TypeOK, BreakerInv, [Next]_vars PROVE BreakerInv'
  OBVIOUS
<1>same. ASSUME UNCHANGED <<breaker, history>> PROVE BreakerInv'
  BY <1>same DEF breaker, history, BreakerInv, Tripped
<1>1. CASE UNCHANGED vars
  BY <1>1, <1>same DEF vars
<1>2. CASE Load \/ InstallHandler \/ TestReload \/ ClearRequest \/ ReadRegistry \/ BeginPolling
           \/ Sleep
  BY <1>2, <1>same DEF Load, InstallHandler, TestReload, ClearRequest, ReadRegistry,
                       BeginPolling, Sleep
<1>3. CASE Edit \/ Sighup \/ RedisFails \/ RedisReturns
  BY <1>3, <1>same DEF Edit, Sighup, RedisFails, RedisReturns
<1>4. ASSUME NEW s \in Source, Skip(s) PROVE BreakerInv'
  <2>1. Tripped(s) /\ failures' = failures /\ age' = age /\ raisedAt' = raisedAt
        /\ bad' = [bad EXCEPT ![s].rested = TRUE]
    BY <1>4 DEF Skip, IsOpen, breaker
  <2>2. \A x \in Source : /\ bad'[x].raised = bad[x].raised
                         /\ bad'[x].rested => x = s \/ bad[x].rested
    BY <2>1 DEF TypeOK
  <2> QED
    BY <2>1, <2>2 DEF BreakerInv, Tripped
<1>5. ASSUME NEW s \in Source, NEW o \in Outcome, NEW d \in 0..MaxFetch, Attempt(s, o, d)
      PROVE  BreakerInv'
  BY <1>5, AttemptKeepsBreaker DEF Attempt
<1>6. CASE Tick
  <2>1. \A s \in Source : /\ failures'[s] = failures[s] /\ bad'[s] = bad[s]
                         /\ age'[s] = Older(age[s], 1)
                         /\ raisedAt'[s] = Aged(raisedAt[s], 1)
    BY <1>6 DEF Tick, TypeOK
  <2>2. \A s \in Source : /\ Cardinality(Aged(raisedAt[s], 1)) <= failures[s]
                         /\ \A a \in Aged(raisedAt[s], 1) : a >= Older(age[s], 1)
    BY QuietTime
  <2> QED
    BY <2>1, <2>2 DEF BreakerInv, Tripped
<1>7. CASE Kill
  <2>1. \A s \in Source : /\ failures'[s] = 0 /\ raisedAt'[s] = {}
                         /\ bad'[s].raised = 0 /\ ~bad'[s].rested
    BY <1>7 DEF Kill, Fresh, NoneBad
  <2>2. \A s \in Source : Cardinality(raisedAt'[s]) = 0
    BY <2>1, FS_EmptySet, Zenon
  <2>3. \A s \in Source : \A a \in raisedAt'[s] : a >= age'[s]
    BY <2>1
  <2> QED
    BY <2>1, <2>2, <2>3 DEF BreakerInv
<1> QED
  BY <1>1, <1>2, <1>3, <1>4, <1>5, <1>6, <1>7 DEF Next, Daemon, Poll

-----------------------------------------------------------------------------
(* One fetch more.                                                         *)
LEMMA OneFetchMore ==
  ASSUME NEW T \in SUBSET Source, NEW s \in T
  PROVE  /\ Cardinality(Source \ T) \in Nat
         /\ Cardinality(Source \ (T \ {s})) * MaxFetch
              = Cardinality(Source \ T) * MaxFetch + MaxFetch
<1> DEFINE n == Cardinality(Source \ T)
<1>1. IsFiniteSet(Source \ T)
  BY FS_Subset
<1>2. n \in Nat
  BY <1>1, FS_CardinalityType
<1>3. Source \ (T \ {s}) = (Source \ T) \cup {s} /\ s \notin Source \ T
  OBVIOUS
<1>4. Cardinality(Source \ (T \ {s})) = n + 1
  BY <1>1, <1>3, FS_AddElement
<1> HIDE DEF n
<1>5. (n + 1) * MaxFetch = n * MaxFetch + MaxFetch
  BY <1>2
<1> QED
  BY <1>2, <1>4, <1>5 DEF n

(* A cycle has a fetch for each source at most.                            *)
LEMMA FetchesOfACycle ==
  ASSUME NEW T
  PROVE  /\ 0 <= Cardinality(Source \ T) * MaxFetch
         /\ Cardinality(Source \ T) * MaxFetch <= Cardinality(Source) * MaxFetch
<1> DEFINE n == Cardinality(Source \ T)
           m == Cardinality(Source)
<1>1. n \in Nat /\ m \in Nat /\ n <= m
  <2>1. IsFiniteSet(Source \ T) /\ Cardinality(Source \ T) <= Cardinality(Source)
    BY FS_Subset
  <2> QED
    BY <2>1, FS_CardinalityType
<1> HIDE DEF n, m
<1>2. 0 <= n * MaxFetch /\ n * MaxFetch <= m * MaxFetch
  BY <1>1
<1> QED
  BY <1>2 DEF n, m

LEMMA FetchesInAll == Cardinality(Source) * MaxFetch \in Nat
  BY FS_CardinalityType

(* What d ticks do to the heartbeat, whether or not its task has a turn.   *)
LEMMA TimePasses ==
  ASSUME TypeOK, BeatInv, NEW d \in Nat, Calm(d),
         NoTurn(d) \/ \E e \in 0..d : Turn(d, e)
  PROVE  /\ nap' > 0 => Lapse' + nap' <= Beat
         /\ Lapse' <= Beat + busy + d
<1> USE DEF Lapse, Calm, Later, Left, Expired
<1>1. /\ nap \in 0..Beat /\ beatAge \in 0..Expired /\ calm \in 0..Expired /\ busy \in Nat
      /\ redis \in BOOLEAN
  BY DEF TypeOK
<1>2. (nap > 0 => Lapse + nap <= Beat) /\ Lapse <= Beat + busy
  BY DEF BeatInv
<1>3. CASE NoTurn(d)
  BY <1>1, <1>2, <1>3 DEF NoTurn
<1>4. ASSUME NEW e \in 0..d, Turn(d, e) PROVE /\ nap' > 0 => Lapse' + nap' <= Beat
                                             /\ Lapse' <= Beat + busy + d
  <2>1. CASE redis
    BY <1>1, <1>4, <2>1 DEF Turn
  <2>2. CASE ~redis
    BY <1>1, <1>4, <2>2 DEF Turn
  <2> QED
    BY <2>1, <2>2
<1> QED
  BY <1>3, <1>4

(* In the pause the task is awake as soon as its sleep is over.            *)
LEMMA PauseBeats ==
  ASSUME TypeOK, BeatInv, NEW d \in 0..1, Pause(d), pc # "poll" \/ d = 0
  PROVE  Lapse' + nap' <= Beat /\ Lapse' <= Beat + busy
<1> USE DEF Lapse, Calm, Later, Left, Expired
<1>1. /\ nap \in 0..Beat /\ beatAge \in 0..Expired /\ calm \in 0..Expired /\ busy \in Nat
      /\ redis \in BOOLEAN
  BY DEF TypeOK
<1>2. Calm(d)
  BY DEF Pause
<1>3. CASE nap <= d
  <2>1. Turn(d, 0)
    BY <1>3 DEF Pause
  <2>2. CASE redis
    BY <1>1, <1>2, <2>1, <2>2 DEF Turn
  <2>3. CASE ~redis
    BY <1>1, <1>2, <2>1, <2>3 DEF Turn
  <2> QED
    BY <2>2, <2>3
<1>4. CASE nap > d
  <2>1. NoTurn(d)
    BY <1>1, <1>4 DEF Pause
  <2>2. Lapse + nap <= Beat
    BY <1>1, <1>4 DEF BeatInv
  <2> QED
    BY <1>1, <1>2, <1>4, <2>1, <2>2 DEF NoTurn
<1> QED
  BY <1>1, <1>3, <1>4

LEMMA BeatStep == TypeOK /\ BeatInv /\ [Next]_vars => BeatInv'
<1> SUFFICES ASSUME TypeOK, BeatInv, [Next]_vars PROVE BeatInv'
  OBVIOUS
<1>0. /\ nap \in 0..Beat /\ beatAge \in 0..Expired /\ calm \in 0..Expired /\ busy \in Nat
  BY DEF TypeOK
<1>quiet. ASSUME UNCHANGED <<nap, beatAge, calm, busy>>, pc = "poll" => pc' = "poll"
          PROVE  BeatInv'
  BY <1>quiet DEF BeatInv, Lapse
<1>1. CASE UNCHANGED vars
  BY <1>1, <1>quiet DEF vars, memory, clock
<1>2. CASE Load \/ InstallHandler \/ TestReload \/ ClearRequest \/ ReadRegistry
  <2>1. pc # "poll" /\ UNCHANGED <<nap, beatAge, calm, busy>>
    BY <1>2 DEF Load, InstallHandler, TestReload, ClearRequest, ReadRegistry, clock
  <2> QED
    BY <1>quiet, <2>1
<1>3. CASE BeginPolling
  <2>1. /\ UNCHANGED <<nap, beatAge, calm>> /\ busy' = 0
        /\ Lapse + nap <= Beat
    BY <1>3 DEF BeginPolling, BeatInv
  <2> QED
    BY <1>0, <2>1 DEF BeatInv, Lapse
<1>4. ASSUME NEW s \in Source, Skip(s) PROVE BeatInv'
  BY <1>4, <1>quiet DEF Skip, clock
<1>5. ASSUME NEW s \in Source, NEW o \in Outcome, NEW d \in 0..MaxFetch, Attempt(s, o, d)
      PROVE  BeatInv'
  <2>1. /\ pc' = "poll" /\ busy' = busy + d /\ d \in Nat /\ Calm(d)
        /\ NoTurn(d) \/ \E e \in 0..d : Turn(d, e)
    BY <1>5 DEF Attempt
  <2>2. (nap' > 0 => Lapse' + nap' <= Beat) /\ Lapse' <= Beat + busy + d
    BY <2>1, TimePasses
  <2> QED
    BY <1>0, <2>1, <2>2 DEF BeatInv
<1>6. CASE Sleep \/ Tick
  <2>1. Lapse' + nap' <= Beat /\ Lapse' <= Beat + busy
    <3>1. CASE Sleep
      <4>1. Pause(0)
        BY <3>1 DEF Sleep
      <4> QED
        BY <4>1, PauseBeats
    <3>2. CASE Tick
      <4>1. Pause(1) /\ pc # "poll"
        BY <3>2 DEF Tick
      <4> QED
        BY <4>1, PauseBeats
    <3> QED
      BY <1>6, <3>1, <3>2
  <2>3. busy' = busy
    BY <1>6 DEF Sleep, Tick
  <2> QED
    BY <2>1, <2>3 DEF BeatInv
<1>7. CASE Edit \/ Sighup
  BY <1>7, <1>quiet DEF Edit, Sighup, memory, clock
<1>8. CASE RedisFails
  <2>1. /\ UNCHANGED <<pc, nap, busy>> /\ calm' = 0 /\ beatAge' \in 0..Expired
    BY <1>0, <1>8 DEF RedisFails, memory, Expired
  <2>2. Lapse' = 0
    BY <2>1 DEF Lapse, Expired
  <2> QED
    BY <1>0, <2>1, <2>2 DEF BeatInv
<1>9. CASE RedisReturns
  BY <1>9, <1>quiet DEF RedisReturns, memory
<1>10. CASE Kill
  <2>1. nap' = 0 /\ calm' = 0 /\ busy' = 0 /\ beatAge' \in Nat
    BY <1>0, <1>10 DEF Kill, Fresh, Expired
  <2>2. Lapse' = 0
    BY <2>1 DEF Lapse
  <2> QED
    BY <2>1, <2>2 DEF BeatInv
<1> QED
  BY <1>1, <1>2, <1>3, <1>4, <1>5, <1>6, <1>7, <1>8, <1>9, <1>10 DEF Next, Daemon, Poll

LEMMA BusyStep == TypeOK /\ BusyInv /\ [Next]_vars => BusyInv'
<1> SUFFICES ASSUME TypeOK, BusyInv, [Next]_vars PROVE BusyInv'
  OBVIOUS
<1>quiet. ASSUME busy' = busy, pc' # "poll" PROVE BusyInv'
  BY <1>quiet DEF BusyInv
<1>same. ASSUME UNCHANGED <<pc, todo, busy>> PROVE BusyInv'
  BY <1>same DEF BusyInv
<1>none. ASSUME busy' = 0 PROVE BusyInv'
  BY <1>none, FetchesOfACycle, FetchesInAll DEF BusyInv
<1>1. CASE UNCHANGED vars
  BY <1>1, <1>same DEF vars, memory, clock
<1>2. CASE Load \/ InstallHandler \/ TestReload \/ ClearRequest \/ ReadRegistry
  BY <1>2, <1>quiet DEF Load, InstallHandler, TestReload, ClearRequest, ReadRegistry, clock,
                        ReloadOrder
<1>3. CASE Sleep \/ Tick
  BY <1>3, <1>quiet DEF Sleep, Tick
<1>4. ASSUME NEW s \in Source, Skip(s) \/ \E o \in Outcome, d \in 0..MaxFetch : Attempt(s, o, d)
      PROVE  BusyInv'
  <2>1. /\ todo \in SUBSET Source /\ s \in todo /\ todo' = todo \ {s}
        /\ pc = "poll" /\ busy' \in busy..(busy + MaxFetch) /\ busy \in Nat
    BY <1>4 DEF Skip, Attempt, TypeOK, clock
  <2>2. Cardinality(Source \ todo) \in Nat
        /\ Cardinality(Source \ todo') * MaxFetch = Cardinality(Source \ todo) * MaxFetch + MaxFetch
    BY <2>1, OneFetchMore
  <2>3. Cardinality(Source \ todo') * MaxFetch <= Cardinality(Source) * MaxFetch
    BY FetchesOfACycle
  <2>4. busy <= Cardinality(Source \ todo) * MaxFetch
    BY <2>1 DEF BusyInv
  <2>5. Cardinality(Source \ todo) * MaxFetch \in Nat
    BY <2>2
  <2>6. busy' <= Cardinality(Source \ todo') * MaxFetch
    BY <2>1, <2>2, <2>4, <2>5
  <2> QED
    BY <2>1, <2>2, <2>3, <2>5, <2>6, FetchesInAll DEF BusyInv
<1>5. CASE BeginPolling \/ Kill
  BY <1>5, <1>none DEF BeginPolling, Kill, Fresh
<1>6. CASE Edit \/ Sighup \/ RedisFails \/ RedisReturns
  BY <1>6, <1>same DEF Edit, Sighup, RedisFails, RedisReturns, memory, clock
<1> QED
  BY <1>1, <1>2, <1>3, <1>4, <1>5, <1>6 DEF Next, Daemon, Poll

-----------------------------------------------------------------------------
LEMMA InitOK == Init => IInv
<1> SUFFICES ASSUME Init PROVE IInv
  OBVIOUS
<1>1. RequestInv
  BY DEF Init, RequestInv, ReloadsAreHonoured
<1>2. BreakerInv
  <2>1. \A s \in Source : /\ failures[s] = 0 /\ raisedAt[s] = {}
                         /\ bad[s].raised = 0 /\ ~bad[s].rested
    BY DEF Init, NoneBad
  <2>2. \A s \in Source : Cardinality(raisedAt[s]) = 0
    BY <2>1, FS_EmptySet, Zenon
  <2>3. \A s \in Source : \A a \in raisedAt[s] : a >= age[s]
    BY <2>1
  <2> QED
    BY <2>1, <2>2, <2>3 DEF BreakerInv
<1>3. BeatInv
  BY DEF Init, BeatInv, Lapse, Expired
<1>4. BusyInv
  BY FetchesOfACycle DEF Init, BusyInv
<1> QED
  BY <1>1, <1>2, <1>3, <1>4, TypeOKInit DEF IInv

(* The inductive invariant.                                                *)
LEMMA Invariant == Spec => []IInv
<1>1. IInv /\ [Next]_vars => IInv'
  BY TypeOKStep, RequestStep, BreakerStep, BeatStep, BusyStep DEF IInv
<1> QED
  BY InitOK, <1>1, PTL DEF Spec

(* Every reachable state of the daemon is well typed: in particular the    *)
(* breaker never counts more than Threshold failures.                      *)
THEOREM TypeCorrect == Spec => []TypeOK
<1>1. IInv => TypeOK
  BY DEF IInv
<1> QED
  BY Invariant, <1>1, PTL

(* Wherever a SIGHUP interrupts the daemon, it is not lost.                *)
THEOREM ReloadsAreHonouredCorrect == Spec => []ReloadsAreHonoured
<1>1. IInv => ReloadsAreHonoured
  BY DEF IInv, RequestInv
<1> QED
  BY Invariant, <1>1, PTL

(* No more than Threshold polls of a source raise within a Cooldown.       *)
THEOREM RetriesArePacedCorrect == Spec => []RetriesArePaced
<1>1. ASSUME IInv, NEW s \in Source PROVE Cardinality(raisedAt[s]) <= Threshold
  <2>1. failures[s] \in 0..Threshold /\ raisedAt[s] \in SUBSET (0..Cooldown)
    BY <1>1 DEF IInv, TypeOK
  <2>2. Cardinality(raisedAt[s]) \in Nat
    BY <2>1, AgedIsSmaller
  <2>3. Cardinality(raisedAt[s]) <= failures[s]
    BY <1>1 DEF IInv, BreakerInv
  <2> QED
    BY <2>1, <2>2, <2>3
<1>2. IInv => RetriesArePaced
  BY <1>1 DEF RetriesArePaced
<1> QED
  BY Invariant, <1>2, PTL

(* A source rests only after Threshold polls that raised.                  *)
THEOREM RestsAreDueCorrect == Spec => []RestsAreDue
<1>1. IInv => RestsAreDue
  BY DEF IInv, TypeOK, BreakerInv, RestsAreDue, Tripped
<1> QED
  BY Invariant, <1>1, PTL

(* The heartbeat of a running daemon with Redis up lapses only behind      *)
(* fetches that took longer than its life less one interval.               *)
THEOREM HeartbeatLapsesForACauseCorrect == Spec => []HeartbeatLapsesForACause
<1>1. IInv => HeartbeatLapsesForACause
  BY DEF IInv, TypeOK, BeatInv, Lapse, Expired, HeartbeatLapsesForACause
<1> QED
  BY Invariant, <1>1, PTL

(* If an interval of the task and the fetches of all the sources fit into  *)
(* the life of a heartbeat, it is there whenever the daemon has run and    *)
(* Redis has answered for that long.                                       *)
THEOREM HeartbeatHolds ==
  ASSUME Beat + Cardinality(Source) * MaxFetch <= Ttl
  PROVE  Spec => [](calm > Ttl => beatAge <= Ttl)
<1>1. IInv => (calm > Ttl => beatAge <= Ttl)
  <2> SUFFICES ASSUME IInv, calm > Ttl PROVE beatAge <= Ttl
    OBVIOUS
  <2>1. busy \in Nat /\ busy <= Cardinality(Source) * MaxFetch
    BY DEF IInv, TypeOK, BusyInv
  <2>2. Cardinality(Source) * MaxFetch \in Nat
    BY FetchesInAll
  <2>3. Lapse <= Beat + busy /\ beatAge \in 0..Expired /\ calm \in 0..Expired
    BY DEF IInv, BeatInv, TypeOK
  <2>4. Lapse <= Ttl
    BY <2>1, <2>2, <2>3 DEF Lapse, Expired
  <2> QED
    BY <2>3, <2>4 DEF Lapse, Expired
<1> QED
  BY Invariant, <1>1, PTL
=============================================================================
