----------------------------- MODULE RateLimitProofs -----------------------------
(***************************************************************************)
(* The limiter's bounds, for any set of requests, any limits and any       *)
(* window.                                                                 *)
(***************************************************************************)
EXTENDS RateLimit, FiniteSetTheorems, TLAPS

(* A window holds every request that may still count, and only requests    *)
(* that did get through.                                                   *)
WindowsRemember ==
  \A k \in Key : Recent(k) \subseteq windows[k] /\ windows[k] \subseteq Passed(k)

(* No count passes the limit.                                              *)
CountsAreBounded == \A k \in Key : sseCount[k] <= SseLimit

IInv ==
  /\ TypeOK
  /\ WindowsRemember
  /\ RateIsBounded
  /\ SlotsAreCounted
  /\ CountsAreBounded

USE RateLimitAssumption

-----------------------------------------------------------------------------
(* Sets of requests are finite, and a smaller one has no more members.     *)
LEMMA RequestSets ==
  ASSUME NEW S \in SUBSET Request, NEW T \in SUBSET S
  PROVE  /\ IsFiniteSet(S) /\ Cardinality(S) \in Nat
         /\ IsFiniteSet(T) /\ Cardinality(T) \in Nat
         /\ Cardinality(T) <= Cardinality(S)
<1>1. IsFiniteSet(S)
  BY FS_Subset
<1>2. IsFiniteSet(T) /\ Cardinality(T) <= Cardinality(S)
  BY <1>1, FS_Subset
<1> QED
  BY <1>1, <1>2, FS_CardinalityType

(* A request has one of the clients' keys.                                 *)
LEMMA KeyOfRequest == \A r \in Request : r.key \in Key
  BY DEF Key

-----------------------------------------------------------------------------
(* TypeOK is inductive: this is where max(0, count - 1) is used.           *)
LEMMA TypeOKStep == TypeOK /\ [Next]_vars => TypeOK'
<1> SUFFICES ASSUME TypeOK, [Next]_vars PROVE TypeOK'
  OBVIOUS
<1> USE KeyOfRequest DEF TypeOK, Holding, Waiting, Over
<1>1. CASE UNCHANGED vars
  BY <1>1 DEF vars
<1>2. CASE Tick
  BY <1>2 DEF Tick
<1>3. ASSUME NEW r \in Request, Serve(r) PROVE TypeOK'
  <2>1. CASE CheckLimit(r)
    <3>1. Unexpired(r.key) \subseteq Request
      BY DEF Unexpired
    <3> QED
      BY <2>1, <3>1 DEF CheckLimit, Goto
  <2>2. CASE IncSse(r)
    BY <2>2 DEF IncSse, Goto
  <2>3. CASE Authenticate(r)
    BY <2>3 DEF Authenticate, Advance, Goto
  <2>4. CASE GiveUp(r)
    BY <2>4 DEF GiveUp, Advance, Goto
  <2>5. CASE Open(r)
    BY <2>5 DEF Open, Advance, Goto
  <2>6. CASE Close(r)
    BY <2>6 DEF Close, Advance, Goto
  <2>7. CASE DecSse(r)
    BY <2>7 DEF DecSse, Goto
  <2> QED
    BY <1>3, <2>1, <2>2, <2>3, <2>4, <2>5, <2>6, <2>7 DEF Serve
<1> QED
  BY <1>1, <1>2, <1>3 DEF Next

-----------------------------------------------------------------------------
(* A slot is taken, given back, or moves with its stream.                  *)
LEMMA SlotsStep ==
  ASSUME TypeOK, SlotsAreCounted, CountsAreBounded, [Next]_vars
  PROVE  SlotsAreCounted' /\ CountsAreBounded'
<1> USE DEF Holding, Waiting
<1>same. ASSUME sseCount' = sseCount, \A k \in Key : Holders(k)' = Holders(k)
         PROVE  SlotsAreCounted' /\ CountsAreBounded'
  BY <1>same DEF SlotsAreCounted, CountsAreBounded
<1>1. CASE UNCHANGED vars
  BY <1>1, <1>same DEF vars, Holders
<1>2. CASE Tick
  BY <1>2, <1>same DEF Tick, Holders
<1>3. ASSUME NEW r \in Request, Serve(r)
      PROVE  SlotsAreCounted' /\ CountsAreBounded'
  <2>moves. ASSUME NEW from \in Holding, NEW to \in Holding, Advance(r, from, to)
            PROVE  SlotsAreCounted' /\ CountsAreBounded'
    BY <2>moves, <1>same DEF Advance, Goto, Holders, TypeOK
  <2>1. CASE CheckLimit(r)
    BY <2>1, <1>same DEF CheckLimit, Goto, Holders, TypeOK
  <2>2. CASE IncSse(r)
    <3>1. CASE sseCount[r.key] >= SseLimit
      BY <2>2, <3>1, <1>same, KeyOfRequest DEF IncSse, Goto, Holders, TypeOK
    <3>2. CASE sseCount[r.key] < SseLimit
      <4>1. r.key \in Key /\ sseCount' = [sseCount EXCEPT ![r.key] = @ + 1]
            /\ pc' = [pc EXCEPT ![r] = "authenticating"] /\ pc[r] = "new"
        BY <2>2, <3>2, KeyOfRequest DEF IncSse, Goto, TypeOK
      <4>2. ASSUME NEW k \in Key, k # r.key
            PROVE  sseCount'[k] = sseCount[k] /\ Holders(k)' = Holders(k)
        BY <4>1, <4>2 DEF Holders, TypeOK
      <4>3. Holders(r.key)' = Holders(r.key) \cup {r} /\ r \notin Holders(r.key)
        BY <4>1 DEF Holders, TypeOK
      <4>4. IsFiniteSet(Holders(r.key))
        BY RequestSets DEF Holders
      <4>5. Cardinality(Holders(r.key)') = Cardinality(Holders(r.key)) + 1
        BY <4>3, <4>4, FS_AddElement
      <4>6. sseCount'[r.key] = sseCount[r.key] + 1
        BY <4>1 DEF TypeOK
      <4>7. SlotsAreCounted'
        BY <4>1, <4>2, <4>5, <4>6 DEF SlotsAreCounted
      <4>8. CountsAreBounded'
        BY <3>2, <4>1, <4>2, <4>6 DEF CountsAreBounded, TypeOK
      <4> QED
        BY <4>7, <4>8
    <3> QED
      BY <3>1, <3>2, KeyOfRequest DEF TypeOK
  <2>3. CASE Authenticate(r)
    BY <2>3, <2>moves DEF Authenticate
  <2>4. CASE GiveUp(r)
    BY <2>4, <2>moves DEF GiveUp
  <2>5. CASE Open(r)
    BY <2>5, <2>moves DEF Open
  <2>6. CASE Close(r)
    BY <2>6, <2>moves DEF Close
  <2>7. CASE DecSse(r)
    <3>1. r.key \in Key /\ pc' = [pc EXCEPT ![r] = "released"] /\ pc[r] = "releasing"
      BY <2>7, KeyOfRequest DEF DecSse, Goto
    <3>2. ASSUME NEW k \in Key, k # r.key
          PROVE  sseCount'[k] = sseCount[k] /\ Holders(k)' = Holders(k)
      BY <2>7, <3>1, <3>2 DEF DecSse, Holders, TypeOK
    <3>3. Holders(r.key)' = Holders(r.key) \ {r} /\ r \in Holders(r.key)
      BY <3>1 DEF Holders, TypeOK
    <3>4. IsFiniteSet(Holders(r.key)) /\ Cardinality(Holders(r.key)) \in Nat
      BY RequestSets DEF Holders
    <3>5. Cardinality(Holders(r.key)') = Cardinality(Holders(r.key)) - 1
      <4>1. Cardinality(Holders(r.key) \ {r}) = Cardinality(Holders(r.key)) - 1
        <5>1. IsFiniteSet(Holders(r.key)) /\ r \in Holders(r.key)
          BY <3>3, <3>4
        <5> QED
          BY <5>1, FS_RemoveElement
      <4> QED
        BY <3>3, <4>1
    <3>6. Cardinality(Holders(r.key)) # 0
      BY <3>3, <3>4, FS_EmptySet
    <3>7. sseCount[r.key] = Cardinality(Holders(r.key))
      BY <3>1 DEF SlotsAreCounted
    <3>8. sseCount'[r.key] = sseCount[r.key] - 1
      BY <2>7, <3>1, <3>4, <3>6, <3>7 DEF DecSse, TypeOK
    <3>9. SlotsAreCounted'
      BY <3>1, <3>2, <3>5, <3>7, <3>8 DEF SlotsAreCounted
    <3>10. CountsAreBounded'
      BY <3>1, <3>2, <3>8 DEF CountsAreBounded, TypeOK
    <3> QED
      BY <3>9, <3>10
  <2> QED
    BY <1>3, <2>1, <2>2, <2>3, <2>4, <2>5, <2>6, <2>7 DEF Serve
<1> QED
  BY <1>1, <1>2, <1>3 DEF Next

-----------------------------------------------------------------------------
(* The requests of a client that are recent now.                           *)
Research(k) == {r \in Recent(k) : r.path = "research"}

(* A step that passes no request and moves no time back loses nothing.     *)
LEMMA NothingPassed ==
  ASSUME TypeOK, WindowsRemember, RateIsBounded,
         \A k \in Key : /\ Passed(k)' = Passed(k)
                        /\ Recent(k)' \subseteq Recent(k)
                        /\ Recent(k)' \subseteq windows'[k]
                        /\ windows'[k] \subseteq windows[k]
  PROVE  WindowsRemember' /\ RateIsBounded'
<1>1. WindowsRemember'
  BY DEF WindowsRemember
<1>2. ASSUME NEW k \in Key
      PROVE  /\ Cardinality(Recent(k)') <= DefaultLimit
             /\ Cardinality(Research(k)') <= ResearchLimit
  <2>1. Recent(k) \subseteq Request /\ Research(k) \subseteq Request
    BY DEF Recent, Research, Passed
  <2>2. Recent(k)' \subseteq Recent(k)
    OBVIOUS
  <2>3. Research(k)' \subseteq Research(k)
    BY <2>2 DEF Research
  <2>4. Cardinality(Recent(k)) <= DefaultLimit /\ Cardinality(Research(k)) <= ResearchLimit
    BY DEF RateIsBounded, Research
  <2>5. /\ Cardinality(Recent(k)) \in Nat /\ Cardinality(Recent(k)') \in Nat
        /\ Cardinality(Recent(k)') <= Cardinality(Recent(k))
    BY <2>1, <2>2, RequestSets
  <2>6. /\ Cardinality(Research(k)) \in Nat /\ Cardinality(Research(k)') \in Nat
        /\ Cardinality(Research(k)') <= Cardinality(Research(k))
    BY <2>1, <2>3, RequestSets
  <2> QED
    BY <2>4, <2>5, <2>6
<1>3. RateIsBounded'
  BY <1>2 DEF RateIsBounded, Research
<1> QED
  BY <1>1, <1>3

(* The requests that count are those the window keeps.                     *)
LEMMA UnexpiredIsRecent ==
  ASSUME TypeOK, WindowsRemember, NEW k \in Key
  PROVE  Unexpired(k) = Recent(k)
  BY DEF WindowsRemember, Unexpired, Recent

(* A request that passes finds room for itself.                            *)
LEMMA RequestPassed ==
  ASSUME TypeOK, WindowsRemember, RateIsBounded, NEW r \in Request,
         r.path # "stream", pc[r] = "new",
         Cardinality(Unexpired(r.key)) < Limit(r),
         pc' = [pc EXCEPT ![r] = "passed"],
         at' = [at EXCEPT ![r] = now],
         now' = now,
         windows' = [windows EXCEPT ![r.key] = Unexpired(r.key) \cup {r}]
  PROVE  WindowsRemember' /\ RateIsBounded'
<1>0. r.key \in Key
  BY KeyOfRequest
<1>1. ASSUME NEW k \in Key, k # r.key
      PROVE  /\ Passed(k)' = Passed(k) /\ Recent(k)' = Recent(k)
             /\ windows'[k] = windows[k]
  <2>1. Passed(k)' = Passed(k)
    BY <1>0, <1>1 DEF Passed, TypeOK
  <2>2. \A q \in Passed(k) : at'[q] = at[q]
    BY <1>1 DEF Passed, TypeOK
  <2>3. Recent(k)' = Recent(k)
    BY <2>1, <2>2 DEF Recent
  <2>4. windows'[k] = windows[k]
    BY <1>0, <1>1 DEF TypeOK
  <2> QED
    BY <2>1, <2>3, <2>4
<1>2. Unexpired(r.key) = Recent(r.key)
  BY <1>0, UnexpiredIsRecent
<1>3. r \notin Passed(r.key) /\ Passed(r.key)' = Passed(r.key) \cup {r}
  BY DEF Passed, TypeOK
<1>4. \A q \in Passed(r.key) : at'[q] = at[q]
  BY <1>3 DEF Passed, TypeOK
<1>5. Recent(r.key)' = Recent(r.key) \cup {r}
  <2>1. at'[r] = now /\ at'[r] > now' - Window
    BY DEF TypeOK
  <2> QED
    BY <1>3, <1>4, <2>1 DEF Recent
<1>6. windows'[r.key] = Recent(r.key) \cup {r}
  BY <1>0, <1>2 DEF TypeOK
<1>7. WindowsRemember'
  <2>1. Recent(r.key) \subseteq Passed(r.key)
    BY DEF Recent
  <2>2. windows'[r.key] \subseteq Passed(r.key)'
    BY <1>3, <1>6, <2>1
  <2> QED
    BY <1>0, <1>1, <1>5, <1>6, <2>2 DEF WindowsRemember
<1>8. Recent(r.key) \subseteq Request /\ Research(r.key) \subseteq Recent(r.key)
      /\ r \notin Recent(r.key)
  BY <1>3 DEF Recent, Research, Passed
<1>9. /\ IsFiniteSet(Recent(r.key)) /\ Cardinality(Recent(r.key)) \in Nat
      /\ IsFiniteSet(Research(r.key)) /\ Cardinality(Research(r.key)) \in Nat
      /\ Cardinality(Research(r.key)) <= Cardinality(Recent(r.key))
  BY <1>8, RequestSets
<1>10. Cardinality(Recent(r.key)') = Cardinality(Recent(r.key)) + 1
  <2>1. IsFiniteSet(Recent(r.key)) /\ r \notin Recent(r.key)
    BY <1>8, <1>9
  <2>2. Cardinality(Recent(r.key) \cup {r}) = Cardinality(Recent(r.key)) + 1
    BY <2>1, FS_AddElement
  <2> QED
    BY <1>5, <2>2
<1>11. Cardinality(Recent(r.key)') <= DefaultLimit
  BY <1>2, <1>9, <1>10 DEF Limit
<1>12. Cardinality(Research(r.key)') <= ResearchLimit
  <2>1. CASE r.path = "research"
    <3>1. Research(r.key)' = Research(r.key) \cup {r} /\ r \notin Research(r.key)
      BY <1>5, <1>8, <2>1 DEF Research
    <3>2. Cardinality(Research(r.key)') = Cardinality(Research(r.key)) + 1
      BY <1>9, <3>1, FS_AddElement
    <3> QED
      BY <1>2, <1>9, <2>1, <3>2 DEF Limit
  <2>2. CASE r.path # "research"
    <3>1. Research(r.key)' = Research(r.key)
      BY <1>5, <2>2 DEF Research
    <3> QED
      BY <1>0, <3>1 DEF RateIsBounded, Research
  <2> QED
    BY <2>1, <2>2
<1>13. ASSUME NEW k \in Key
       PROVE  /\ Cardinality(Recent(k)') <= DefaultLimit
              /\ Cardinality(Research(k)') <= ResearchLimit
  <2>1. CASE k = r.key
    BY <2>1, <1>11, <1>12
  <2>2. CASE k # r.key
    <3>1. Recent(k)' = Recent(k) /\ Research(k)' = Research(k)
      BY <1>1, <2>2 DEF Research
    <3> QED
      BY <3>1 DEF RateIsBounded, Research
  <2> QED
    BY <2>1, <2>2
<1>14. RateIsBounded'
  BY <1>13 DEF RateIsBounded, Research
<1> QED
  BY <1>7, <1>14

(* One step of the clock, of a request or of a stream.                     *)
LEMMA WindowsStep ==
  ASSUME TypeOK, WindowsRemember, RateIsBounded, [Next]_vars
  PROVE  WindowsRemember' /\ RateIsBounded'
<1>same. ASSUME now' = now, at' = at, windows' = windows,
                \A k \in Key : Passed(k)' = Passed(k)
         PROVE  WindowsRemember' /\ RateIsBounded'
  <2>1. \A k \in Key : Recent(k)' = Recent(k)
    BY <1>same DEF Recent
  <2> QED
    BY <1>same, <2>1, NothingPassed DEF WindowsRemember
<1>1. CASE UNCHANGED vars
  BY <1>1, <1>same DEF vars, Passed
<1>2. CASE Tick
  <2>1. \A k \in Key : Passed(k)' = Passed(k) /\ Recent(k)' \subseteq Recent(k)
    BY <1>2 DEF Tick, Passed, Recent, TypeOK
  <2>2. windows' = windows
    BY <1>2 DEF Tick
  <2> QED
    BY <2>1, <2>2, NothingPassed DEF WindowsRemember
<1>3. ASSUME NEW r \in Request, Serve(r)
      PROVE  WindowsRemember' /\ RateIsBounded'
  <2>moves. ASSUME NEW from, NEW to, from # "passed", to # "passed", Advance(r, from, to)
            PROVE  WindowsRemember' /\ RateIsBounded'
    <3>1. \A k \in Key : Passed(k)' = Passed(k)
      BY <2>moves DEF Advance, Goto, Passed, TypeOK
    <3> QED
      BY <2>moves, <3>1, <1>same DEF Advance
  <2>1. CASE CheckLimit(r)
    <3>1. CASE Cardinality(Unexpired(r.key)) >= Limit(r) /\ pc'[r] = "refused"
      <4>0. /\ r.key \in Key /\ now' = now /\ at' = at
            /\ windows' = [windows EXCEPT ![r.key] = Unexpired(r.key)]
            /\ pc' = [pc EXCEPT ![r] = "refused"] /\ pc[r] = "new"
        BY <2>1, <3>1, KeyOfRequest DEF CheckLimit, Goto, TypeOK
      <4>1. \A k \in Key : Passed(k)' = Passed(k)
        BY <4>0 DEF Passed, TypeOK
      <4>2. \A k \in Key : Recent(k)' = Recent(k)
        BY <4>0, <4>1 DEF Recent
      <4>3. Unexpired(r.key) = Recent(r.key)
        BY <4>0, UnexpiredIsRecent
      <4>4. \A k \in Key : Recent(k) \subseteq windows'[k] /\ windows'[k] \subseteq windows[k]
        BY <4>0, <4>3 DEF WindowsRemember, TypeOK
      <4> QED
        BY <4>1, <4>2, <4>4, NothingPassed
    <3>2. CASE pc'[r] = "passed"
      <4>1. /\ pc[r] = "new" /\ r.path # "stream" /\ now' = now
            /\ Cardinality(Unexpired(r.key)) < Limit(r)
            /\ pc' = [pc EXCEPT ![r] = "passed"] /\ at' = [at EXCEPT ![r] = now]
            /\ windows' = [windows EXCEPT ![r.key] = Unexpired(r.key) \cup {r}]
        BY <2>1, <3>2 DEF CheckLimit, Goto, TypeOK
      <4> QED
        BY <4>1, RequestPassed
    <3> QED
      BY <2>1, <3>1, <3>2 DEF CheckLimit, Goto, TypeOK
  <2>2. CASE IncSse(r)
    <3>1. now' = now /\ at' = at /\ windows' = windows
      BY <2>2 DEF IncSse
    <3>2. \A k \in Key : Passed(k)' = Passed(k)
      BY <2>2 DEF IncSse, Goto, Passed, TypeOK
    <3> QED
      BY <3>1, <3>2, <1>same
  <2>3. CASE Authenticate(r)
    BY <2>3, <2>moves DEF Authenticate
  <2>4. CASE GiveUp(r)
    BY <2>4, <2>moves DEF GiveUp, Waiting
  <2>5. CASE Open(r)
    BY <2>5, <2>moves DEF Open
  <2>6. CASE Close(r)
    BY <2>6, <2>moves DEF Close
  <2>7. CASE DecSse(r)
    <3>1. now' = now /\ at' = at /\ windows' = windows
      BY <2>7 DEF DecSse
    <3>2. \A k \in Key : Passed(k)' = Passed(k)
      BY <2>7 DEF DecSse, Goto, Passed, TypeOK
    <3> QED
      BY <3>1, <3>2, <1>same
  <2> QED
    BY <1>3, <2>1, <2>2, <2>3, <2>4, <2>5, <2>6, <2>7 DEF Serve
<1> QED
  BY <1>1, <1>2, <1>3 DEF Next

-----------------------------------------------------------------------------
LEMMA InitOK == Init => IInv
<1> SUFFICES ASSUME Init PROVE IInv
  OBVIOUS
<1>1. TypeOK
  BY DEF Init, TypeOK
<1>2. \A k \in Key : Passed(k) = {} /\ Recent(k) = {} /\ Holders(k) = {}
  BY DEF Init, Passed, Recent, Holders, Holding, Waiting
<1>3. WindowsRemember
  BY <1>2 DEF Init, WindowsRemember
<1>4. RateIsBounded
  <2>1. \A k \in Key : {r \in Recent(k) : r.path = "research"} = {}
    BY <1>2
  <2> QED
    BY <1>2, <2>1, FS_EmptySet DEF RateIsBounded
<1>5. SlotsAreCounted /\ CountsAreBounded
  <2>1. \A k \in Key : sseCount[k] = 0
    BY DEF Init
  <2>2. \A k \in Key : Cardinality(Holders(k)) = 0
    BY <1>2, FS_EmptySet
  <2> QED
    BY <2>1, <2>2 DEF SlotsAreCounted, CountsAreBounded
<1> QED
  BY <1>1, <1>3, <1>4, <1>5 DEF IInv

(* The inductive invariant.                                                *)
LEMMA Invariant == Spec => []IInv
<1>1. IInv /\ [Next]_vars => IInv'
  BY TypeOKStep, SlotsStep, WindowsStep DEF IInv
<1> QED
  BY InitOK, <1>1, PTL DEF Spec

(* Whatever the limits and however the requests of a client are spread     *)
(* over time, at most DefaultLimit of them, and at most ResearchLimit      *)
(* research requests, get through in any window.                           *)
THEOREM RateIsBoundedCorrect == Spec => []RateIsBounded
<1>1. IInv => RateIsBounded
  BY DEF IInv
<1> QED
  BY Invariant, <1>1, PTL

(* The types of the limiter's state: among them that a window only holds   *)
(* times that have been, in the order of their requests.                   *)
THEOREM TypeCorrect == Spec => []TypeOK
<1>1. IInv => TypeOK
  BY DEF IInv
<1> QED
  BY Invariant, <1>1, PTL

(* The count of a client is the number of its streams that hold a slot, so *)
(* no slot is given back twice.                                            *)
THEOREM SlotsAreCountedCorrect == Spec => []SlotsAreCounted
<1>1. IInv => SlotsAreCounted
  BY DEF IInv
<1> QED
  BY Invariant, <1>1, PTL

(* No client has more than SseLimit streams.                               *)
THEOREM StreamsAreBoundedCorrect == Spec => []StreamsAreBounded
<1>1. ASSUME IInv, NEW k \in Key PROVE Cardinality(Streams(k)) <= SseLimit
  <2>1. Holders(k) \subseteq Request /\ Streams(k) \subseteq Holders(k)
    BY DEF Holders, Streams, Holding, Live
  <2>2. /\ Cardinality(Holders(k)) \in Nat /\ Cardinality(Streams(k)) \in Nat
        /\ Cardinality(Streams(k)) <= Cardinality(Holders(k))
    BY <2>1, RequestSets
  <2>3. Cardinality(Holders(k)) <= SseLimit
    BY <1>1 DEF IInv, SlotsAreCounted, CountsAreBounded
  <2> QED
    BY <2>2, <2>3
<1>2. IInv => StreamsAreBounded
  BY <1>1 DEF StreamsAreBounded
<1> QED
  BY Invariant, <1>2, PTL

(* A request is refused only after as many requests of its client as its   *)
(* limit allows got through in the window.                                 *)
THEOREM RefusalsAreDueCorrect == Spec => RefusalsAreDue
<1>1. ASSUME IInv, [Next]_vars, NEW r \in Request, Refuses(r), r.path # "stream"
      PROVE  Cardinality(Recent(r.key)) >= Limit(r)
  <2> USE <1>1, KeyOfRequest DEF Refuses, IInv
  <2>1. TypeOK
    OBVIOUS
  <2>2. CheckLimit(r)
    <3>1. \A q \in Request : q # r /\ Serve(q) => pc'[r] = pc[r]
      BY <2>1 DEF TypeOK, Serve, CheckLimit, IncSse, Authenticate, GiveUp, Open, Close,
                  DecSse, Advance, Goto
    <3>2. UNCHANGED vars \/ Tick => pc'[r] = pc[r]
      BY DEF vars, Tick
    <3>3. Serve(r)
      BY <3>1, <3>2 DEF Next
    <3> QED
      BY <2>1, <3>3 DEF TypeOK, Serve, IncSse, Authenticate, GiveUp, Open, Close,
                        DecSse, Advance, Goto, Waiting
  <2>3. Cardinality(Unexpired(r.key)) >= Limit(r)
    BY <2>1, <2>2 DEF CheckLimit, Goto, TypeOK
  <2>4. Unexpired(r.key) = Recent(r.key)
    BY <2>1, UnexpiredIsRecent
  <2> QED
    BY <2>3, <2>4
<1>2. IInv /\ [Next]_vars =>
        [\A r \in Request : Refuses(r) /\ r.path # "stream"
                              => Cardinality(Recent(r.key)) >= Limit(r)]_vars
  BY <1>1
<1> QED
  BY Invariant, <1>2, PTL DEF Spec, RefusalsAreDue
=============================================================================
