--------------------------------- MODULE FetchProofs ---------------------------------
(***************************************************************************)
(* What robots.txt decides is fresh, a poll asks for every profile of its  *)
(* source, and its dedup drops nothing but repeats: for any sites,         *)
(* profiles, links, limits and times.                                      *)
(***************************************************************************)
EXTENDS Fetch, SequenceTheorems, TLAPS

USE FetchAssumption

LEMMA Bounds ==
  /\ Ttl \in Nat \ {0} /\ MaxRetries \in Nat \ {0} /\ MaxBackoff \in Nat \ {0}
  /\ LinkLimit \in Nat \ {0} /\ PageSize \in Nat \ {0}
OBVIOUS

-----------------------------------------------------------------------------
(* What the cache remembers of a site, its robots.txt said no longer ago   *)
(* than the age of the entry.                                              *)
CacheInv ==
  \A s \in Site : cache[s].rules # "none" => said[s][cache[s].rules] <= cache[s].age

(* Profiles are left or have been asked for; a poll ends with none left.   *)
ProfileInv ==
  poll # NoPoll => /\ poll.kind = "gdelt" => poll.tried \cup poll.left = Profile
                   /\ poll.pc = "end" => poll.left = {}

(* What a poll got is what it has seen and what is left of the page.  It   *)
(* yielded, once each, the links it has seen: all of them, or as many as   *)
(* it may; or the page itself, where the page has no link.                 *)
Yielded(q) ==
  /\ IsInjective(q.out)
  /\ q.got = q.seen \cup LinksOf(q.page)
  /\ q.pc # "yield" => q.page = <<>>
  /\ q.kind = "gdelt" => ToSet(q.out) = q.seen
  /\ q.kind = "scrape" =>
       /\ \/ ToSet(q.out) \subseteq q.seen
          \/ Len(q.out) = 1 /\ q.got = {}
       /\ q.seen \subseteq ToSet(q.out) \/ Len(q.out) = LinkLimit
       /\ Len(q.out) <= LinkLimit
       /\ \E p : q.left \subseteq {p}
       /\ q.pc \in {"fetch", "yield"} => q.left = {}
       /\ q.left # {} \/ q.pc = "fetch" => q.out = <<>> /\ q.got = {}

LinkInv == poll # NoPoll /\ poll.kind # "rss" => Yielded(poll)

IInv == TypeOK /\ CacheInv /\ ProfileInv /\ LinkInv

-----------------------------------------------------------------------------
(* Pages and what is yielded of them.                                      *)
LEMMA PagesAreSequences ==
  ASSUME NEW page \in Page
  PROVE  page \in Seq(Link \cup {Skipped})
BY DEF Page

LEMMA RestOfPage ==
  ASSUME NEW page \in Page, page # <<>>
  PROVE  /\ Tail(page) \in Page
         /\ Head(page) \in Link \cup {Skipped}
         /\ LinksOf(page) = ({Head(page)} \cap Link) \cup LinksOf(Tail(page))
<1> DEFINE L == Link \cup {Skipped}
           t == Tail(page)
<1>1. page \in Seq(L)
  BY PagesAreSequences
<1>2. PICK n \in 0..PageSize : page \in [1..n -> L]
  BY DEF Page
<1>3. Len(page) = n /\ n \in Nat
  BY <1>2
<1>4. Head(page) \in L /\ t \in Seq(L) /\ Len(t) = n - 1 /\ \A i \in 1..Len(t) : t[i] = page[i + 1]
  BY <1>1, <1>3, HeadTailProperties
<1>5. n # 0 /\ n - 1 \in 0..PageSize
  BY <1>1, <1>3, EmptySeq, Bounds
<1>6. Head(page) = page[1]
  BY <1>1
<1> HIDE DEF L, t
<1>7. DOMAIN t = 1..(n - 1) /\ t \in [1..(n - 1) -> L]
  BY <1>4
<1>8. t \in Page
  BY <1>5, <1>7 DEF Page, L
<1>9. ToSet(page) = {page[1]} \cup ToSet(t)
  <2>1. DOMAIN page = 1..n
    BY <1>2
  <2>2. \A i \in 1..n : i = 1 \/ (i - 1 \in 1..(n - 1) /\ t[i - 1] = page[i])
    BY <1>3, <1>4, <1>7
  <2>3. \A i \in 1..(n - 1) : i + 1 \in 1..n /\ t[i] = page[i + 1]
    BY <1>3, <1>4, <1>7
  <2>4. 1 \in 1..n
    BY <1>3, <1>5
  <2>5. \A x : x \in ToSet(page) => x \in {page[1]} \cup ToSet(t)
    BY <1>7, <2>1, <2>2 DEF ToSet
  <2>6. \A x : x \in {page[1]} \cup ToSet(t) => x \in ToSet(page)
    BY <1>7, <2>1, <2>3, <2>4 DEF ToSet
  <2> QED
    BY <2>5, <2>6
<1> QED
  BY <1>4, <1>6, <1>8, <1>9 DEF LinksOf, t, L

LEMMA EmptyPage == <<>> \in Page /\ LinksOf(<<>>) = {} /\ ToSet(<<>>) = {} /\ IsInjective(<<>>)
<1>1. <<>> \in [1..0 -> Link \cup {Skipped}] /\ 0 \in 0..PageSize
  BY Bounds
<1> QED
  BY <1>1 DEF Page, LinksOf, ToSet, IsInjective

LEMMA Appending ==
  ASSUME NEW S, NEW s \in Seq(S), NEW x \in S
  PROVE  /\ Append(s, x) \in Seq(S) /\ Len(Append(s, x)) = Len(s) + 1
         /\ ToSet(Append(s, x)) = ToSet(s) \cup {x}
         /\ IsInjective(s) /\ x \notin ToSet(s) => IsInjective(Append(s, x))
<1> DEFINE t == Append(s, x)
           n == Len(s)
<1>1. /\ t \in Seq(S) /\ Len(t) = n + 1 /\ n \in Nat /\ DOMAIN s = 1..n
      /\ \A i \in 1..n : t[i] = s[i]
      /\ t[n + 1] = x
  BY AppendProperties, LenProperties
<1>2. DOMAIN t = 1..(n + 1)
  BY <1>1
<1> HIDE DEF t, n
<1>3. \A i \in 1..(n + 1) : i = n + 1 \/ i \in 1..n
  BY <1>1
<1>4. ToSet(t) = ToSet(s) \cup {x}
  <2>1. \A y : y \in ToSet(t) => y \in ToSet(s) \cup {x}
    BY <1>1, <1>2, <1>3 DEF ToSet
  <2>2. \A i \in 1..n : i \in 1..(n + 1)
    BY <1>1
  <2>3. n + 1 \in 1..(n + 1)
    BY <1>1
  <2>4. \A y : y \in ToSet(s) \cup {x} => y \in ToSet(t)
    BY <1>1, <1>2, <2>2, <2>3 DEF ToSet
  <2> QED
    BY <2>1, <2>4
<1>5. ASSUME IsInjective(s), x \notin ToSet(s)
      PROVE  IsInjective(t)
  BY <1>1, <1>2, <1>3, <1>5 DEF IsInjective, ToSet
<1> QED
  BY <1>1, <1>4, <1>5 DEF t, n

-----------------------------------------------------------------------------
(* Types.                                                                  *)
LEMMA CallTypes ==
  ASSUME call \in Calls
  PROVE  /\ \A label \in {"none", "host", "check", "ask", "send", "sleep", "failed"} :
              Goto(label) => call' \in Calls /\ call'.pc = label
         /\ NoCall \in Calls /\ NoCall.pc = "none"
         /\ [NoCall EXCEPT !.pc = "host"] \in Calls /\ [NoCall EXCEPT !.pc = "host"].pc = "host"
<1>1. /\ call = [pc |-> call.pc, attempt |-> call.attempt, backoff |-> call.backoff, wait |-> call.wait]
      /\ call.attempt \in 0..(MaxRetries - 1) /\ call.backoff \in 1..MaxBackoff
  BY DEF Calls
<1>2. 0 \in 0..(IF MaxBackoff < Ttl THEN Ttl ELSE MaxBackoff)
  BY Bounds
<1>3. 0 \in 0..(MaxRetries - 1) /\ 1 \in 1..MaxBackoff
  BY Bounds
<1>4. ASSUME NEW label \in {"none", "host", "check", "ask", "send", "sleep", "failed"}, Goto(label)
      PROVE  call' \in Calls /\ call'.pc = label
  <2>1. call' = [pc |-> label, attempt |-> call.attempt, backoff |-> call.backoff, wait |-> 0]
    BY <1>1, <1>4 DEF Goto
  <2> QED
    BY <1>1, <1>2, <2>1 DEF Calls
<1> QED
  BY <1>2, <1>3, <1>4 DEF Calls, NoCall

LEMMA StayingTypes ==
  ASSUME TypeOK, UNCHANGED vars
  PROVE  TypeOK'
BY DEF TypeOK, vars

(* The actions of fetch_with_retry and _check_robots that leave the cache  *)
(* and the poll alone.                                                     *)
LEMMA GotoTypes ==
  ASSUME TypeOK, UNCHANGED <<cache, said, poll>>, call.pc # "none",
         NEW label \in {"check", "ask", "send", "failed"}, Goto(label)
  PROVE  TypeOK'
BY CallTypes DEF TypeOK

LEMMA DecideGoes ==
  ASSUME NEW rules, Decide(rules)
  PROVE  \E label \in {"send", "failed"} : Goto(label) /\ (label = "send" <=> rules = "allow")
BY DEF Decide, CanFetch

LEMMA SimpleCallTypes ==
  ASSUME TypeOK,
         UseCache \/ AskSite \/ Unanswered \/ HostRefused \/ HostAccepted \/ SendFails \/ Wake
  PROVE  TypeOK' /\ UNCHANGED <<cache, said, poll>>
<1>1. CASE UseCache
  BY <1>1, DecideGoes, GotoTypes DEF UseCache, Running
<1>2. CASE AskSite
  BY <1>2, GotoTypes DEF AskSite, Running
<1>3. CASE Unanswered
  BY <1>3, GotoTypes DEF Unanswered, Running
<1>4. CASE HostRefused
  BY <1>4, GotoTypes DEF HostRefused, Running
<1>5. CASE HostAccepted
  BY <1>5, GotoTypes DEF HostAccepted, Running
<1>6. CASE SendFails
  BY <1>6, GotoTypes DEF SendFails, Running
<1>7. CASE Wake
  BY <1>7, GotoTypes DEF Wake, Running
<1> QED
  BY <1>1, <1>2, <1>3, <1>4, <1>5, <1>6, <1>7

LEMMA SendAgainTypes ==
  ASSUME TypeOK, SendAgain
  PROVE  TypeOK' /\ UNCHANGED <<cache, said, poll>>
<1>1. call.attempt \in 0..(MaxRetries - 1) /\ call.backoff \in 1..MaxBackoff
  BY DEF TypeOK, Calls
<1>2. call.attempt + 1 \in 0..(MaxRetries - 1)
  BY <1>1, Bounds DEF SendAgain
<1>3. Backoff(call.backoff) \in 1..MaxBackoff
  BY <1>1, Bounds DEF Backoff
<1>4. call.backoff \in 0..(IF MaxBackoff < Ttl THEN Ttl ELSE MaxBackoff)
  BY <1>1, Bounds
<1>5. call' \in Calls
  BY <1>2, <1>3, <1>4 DEF SendAgain, Calls
<1> QED
  BY <1>5 DEF SendAgain, TypeOK, Running

LEMMA AnsweredTypes ==
  ASSUME TypeOK, NEW a \in Rules, Answered(a)
  PROVE  /\ TypeOK'
         /\ UNCHANGED poll
         /\ poll.site \in Site
         /\ cache' = [cache EXCEPT ![poll.site] = [rules |-> a, age |-> cache'[poll.site].age]]
         /\ cache'[poll.site].age \in 0..Ttl
         /\ said' = [said EXCEPT ![poll.site][a] = 0]
<1> DEFINE s == poll.site
           age == IF call.wait < Ttl THEN call.wait ELSE Ttl
           new == [rules |-> a, age |-> age]
<1>1. poll \in Polls /\ s \in Site
  BY DEF Answered, Running, TypeOK, Polls
<1>2. call.wait \in Nat /\ age \in 0..Ttl
  BY Bounds DEF TypeOK, Calls
<1>3. new \in [rules : Rules \cup {"none"}, age : 0..Ttl] /\ new.age = age
  BY <1>2
<1>4. cache' = [cache EXCEPT ![s] = new] /\ said' = [said EXCEPT ![s][a] = 0] /\ UNCHANGED poll
  BY DEF Answered
<1> HIDE DEF new
<1>5. cache' \in [Site -> [rules : Rules \cup {"none"}, age : 0..Ttl]] /\ cache'[s] = new
  BY <1>1, <1>3, <1>4 DEF TypeOK
<1>6. said' \in [Site -> [Rules -> 0..Ttl]]
  BY <1>1, <1>4, Bounds DEF TypeOK
<1>7. call' \in Calls
  BY DecideGoes, CallTypes DEF Answered, TypeOK
<1>8. TypeOK'
  BY <1>4, <1>5, <1>6, <1>7 DEF Answered, TypeOK, Running
<1>9. new = [rules |-> a, age |-> new.age]
  BY <1>3 DEF new
<1> QED
  BY <1>1, <1>2, <1>3, <1>4, <1>5, <1>8, <1>9

(* The steps of the poll.                                                  *)
LEMMA PollFields ==
  ASSUME TypeOK, poll # NoPoll
  PROVE  /\ poll \in Polls
         /\ poll = [pc |-> poll.pc, kind |-> poll.kind, site |-> poll.site, robots |-> poll.robots,
                    left |-> poll.left, tried |-> poll.tried, page |-> poll.page,
                    seen |-> poll.seen, out |-> poll.out, got |-> poll.got]
         /\ poll.pc \in {"next", "fetch", "yield", "end"} /\ poll.kind \in Kind /\ poll.site \in Site
         /\ poll.robots \in BOOLEAN /\ poll.left \in SUBSET Profile /\ poll.tried \in SUBSET Profile
         /\ poll.page \in Page /\ poll.seen \in SUBSET Link
         /\ poll.out \in Seq(Link \cup {PageItself}) /\ poll.got \in SUBSET Link
BY DEF TypeOK, Polls

LEMMA StartPollTypes ==
  ASSUME TypeOK, NEW s \in Site, NEW kind \in Kind, NEW robots \in BOOLEAN, StartPoll(s, kind, robots)
  PROVE  /\ TypeOK'
         /\ UNCHANGED <<cache, said, call>>
         /\ poll' \in Polls /\ poll'.pc = "next" /\ poll'.kind = kind
         /\ kind = "gdelt" => poll'.left = Profile
         /\ \E p : kind # "gdelt" => poll'.left = {p}
         /\ poll'.tried = {} /\ poll'.page = <<>> /\ poll'.seen = {} /\ poll'.out = <<>>
         /\ poll'.got = {}
<1> DEFINE left == IF kind = "gdelt" THEN Profile ELSE {CHOOSE p \in Profile : TRUE}
<1>1. left \in SUBSET Profile
  OBVIOUS
<1>2. kind = "gdelt" => left = Profile
  OBVIOUS
<1>3. \E p : kind # "gdelt" => left = {p}
  OBVIOUS
<1>4. poll' = [pc |-> "next", kind |-> kind, site |-> s, robots |-> robots, left |-> left,
               tried |-> {}, page |-> <<>>, seen |-> {}, out |-> <<>>, got |-> {}]
  BY DEF StartPoll
<1> HIDE DEF left
<1>5. <<>> \in Seq(Link \cup {PageItself})
  OBVIOUS
<1>6. poll' \in Polls
  BY <1>1, <1>4, <1>5, EmptyPage DEF Polls
<1>7. poll'.left = left /\ poll'.pc = "next" /\ poll'.kind = kind /\ poll'.tried = {}
      /\ poll'.page = <<>> /\ poll'.seen = {} /\ poll'.out = <<>> /\ poll'.got = {}
  BY <1>4
<1>8. call.pc = "none" /\ UNCHANGED <<cache, said, call>>
  BY DEF StartPoll, TypeOK
<1>9. TypeOK'
  BY <1>6, <1>8 DEF TypeOK
<1> QED
  BY <1>2, <1>3, <1>6, <1>7, <1>8, <1>9

LEMMA NextPageTypes ==
  ASSUME TypeOK, NEW p \in Profile, NextPage(p)
  PROVE  /\ TypeOK'
         /\ UNCHANGED <<cache, said>>
         /\ poll # NoPoll /\ poll.pc = "next" /\ p \in poll.left
         /\ poll' = [poll EXCEPT !.pc = "fetch", !.left = poll.left \ {p}, !.tried = poll.tried \cup {p}]
         /\ poll' \in Polls
<1>1. /\ poll # NoPoll /\ poll.pc = "next" /\ p \in poll.left
      /\ UNCHANGED <<cache, said>>
      /\ poll' = [poll EXCEPT !.pc = "fetch", !.left = poll.left \ {p}, !.tried = poll.tried \cup {p}]
      /\ call' = [NoCall EXCEPT !.pc = "host"]
  BY DEF NextPage
<1>2. poll' \in Polls
  BY <1>1, PollFields DEF Polls
<1>3. poll'.pc = "fetch" /\ poll' # NoPoll
  BY <1>1, <1>2, PollFields DEF NoPoll
<1>4. call' \in Calls
  BY <1>1, CallTypes DEF TypeOK
<1> QED
  BY <1>1, <1>2, <1>3, <1>4 DEF TypeOK

LEMMA ReceiveTypes ==
  ASSUME TypeOK, NEW page \in Page, Receive(page)
  PROVE  /\ TypeOK'
         /\ UNCHANGED <<cache, said>>
         /\ poll # NoPoll /\ poll.pc = "fetch" /\ poll' \in Polls
         /\ poll' = [poll EXCEPT !.pc = "yield", !.page = page, !.got = poll.got \cup LinksOf(page),
                                 !.out = IF poll.kind = "scrape" /\ LinksOf(page) = {}
                                         THEN <<PageItself>> ELSE poll.out]
<1> DEFINE out == IF poll.kind = "scrape" /\ LinksOf(page) = {} THEN <<PageItself>> ELSE poll.out
<1>1. /\ poll # NoPoll /\ poll.pc = "fetch"
      /\ UNCHANGED <<cache, said>>
      /\ poll' = [poll EXCEPT !.pc = "yield", !.page = page, !.got = poll.got \cup LinksOf(page),
                              !.out = out]
      /\ call' = NoCall
  BY DEF Receive, TypeOK, Running
<1>2. out \in Seq(Link \cup {PageItself})
  <2> DEFINE S == Link \cup {PageItself}
  <2>1. PageItself \in S
    OBVIOUS
  <2> HIDE DEF S
  <2>2. <<PageItself>> \in Seq(S)
    BY <2>1
  <2>3. poll.out \in Seq(S)
    BY <1>1, PollFields DEF S
  <2> QED
    BY <2>2, <2>3 DEF S
<1> HIDE DEF out
<1>3. poll' \in Polls
  BY <1>1, <1>2, PollFields DEF Polls, LinksOf
<1>4. call' \in Calls /\ call'.pc = "none"
  BY <1>1, CallTypes DEF TypeOK
<1>5. TypeOK'
  BY <1>1, <1>3, <1>4 DEF TypeOK
<1> QED
  BY <1>1, <1>3, <1>5 DEF out

(* Only pc changes.                                                        *)
LEMMA TurnTypes ==
  ASSUME TypeOK, FetchFailed \/ EndOfPage \/ EndPoll
  PROVE  /\ TypeOK'
         /\ UNCHANGED <<cache, said>>
         /\ poll # NoPoll /\ poll' \in Polls
         /\ \E label \in {"next", "end"} :
              /\ poll' = [poll EXCEPT !.pc = label]
              /\ label = "next" => poll.pc \in {"fetch", "yield"} /\ (poll.pc = "yield" => poll.page = <<>>)
              /\ label = "end" => poll.pc = "next" /\ poll.left = {}
<1>1. poll # NoPoll /\ UNCHANGED <<cache, said>>
  BY DEF FetchFailed, EndOfPage, EndPoll, TypeOK, Running
<1>2. call' \in Calls /\ call'.pc = "none"
  <2>1. CASE FetchFailed
    BY <2>1, CallTypes DEF FetchFailed, TypeOK
  <2>2. CASE EndOfPage \/ EndPoll
    BY <2>2 DEF EndOfPage, EndPoll, TypeOK
  <2> QED
    BY <2>1, <2>2
<1>3. PICK label \in {"next", "end"} :
        /\ poll' = [poll EXCEPT !.pc = label]
        /\ label = "next" => poll.pc \in {"fetch", "yield"} /\ (poll.pc = "yield" => poll.page = <<>>)
        /\ label = "end" => poll.pc = "next" /\ poll.left = {}
  <2>1. CASE FetchFailed
    BY <2>1 DEF FetchFailed, TypeOK, Running
  <2>2. CASE EndOfPage
    BY <2>2 DEF EndOfPage
  <2>3. CASE EndPoll
    BY <2>3 DEF EndPoll
  <2> QED
    BY <2>1, <2>2, <2>3
<1>4. poll' \in Polls
  BY <1>1, <1>3, PollFields DEF Polls
<1> QED
  BY <1>1, <1>2, <1>3, <1>4 DEF TypeOK

LEMMA EntryTypes ==
  ASSUME TypeOK, Entry
  PROVE  /\ TypeOK'
         /\ UNCHANGED <<cache, said>>
         /\ poll # NoPoll /\ poll.pc = "yield" /\ poll.page # <<>> /\ poll' \in Polls
         /\ poll' = [poll EXCEPT !.page = Tail(poll.page),
                                 !.seen = poll.seen \cup ({Head(poll.page)} \cap Link),
                                 !.out = IF Takes(Head(poll.page)) THEN Append(poll.out, Head(poll.page))
                                         ELSE poll.out]
         /\ Takes(Head(poll.page)) => Head(poll.page) \in Link
<1> DEFINE l == Head(poll.page)
           out == IF Takes(l) THEN Append(poll.out, l) ELSE poll.out
<1>1. poll # NoPoll /\ poll.pc = "yield" /\ poll.page # <<>> /\ UNCHANGED <<cache, said, call>>
  BY DEF Entry
<1>2. poll' = [poll EXCEPT !.page = Tail(poll.page), !.seen = poll.seen \cup ({l} \cap Link), !.out = out]
  BY DEF Entry
<1>3. Takes(l) => l \in Link
  BY <1>1, PollFields DEF Takes, Kind
<1> HIDE DEF l
<1>4. out \in Seq(Link \cup {PageItself})
  BY <1>1, <1>3, PollFields
<1> HIDE DEF out
<1>5. Tail(poll.page) \in Page
  BY <1>1, PollFields, RestOfPage
<1>6. poll' \in Polls
  BY <1>1, <1>2, <1>4, <1>5, PollFields DEF Polls
<1>7. call.pc = "none"
  BY <1>1 DEF TypeOK
<1>8. TypeOK'
  BY <1>1, <1>6, <1>7 DEF TypeOK
<1> QED
  BY <1>1, <1>2, <1>3, <1>6, <1>8 DEF l, out

LEMMA LeavingTypes ==
  ASSUME TypeOK, Leave \/ Abandon
  PROVE  TypeOK' /\ UNCHANGED <<cache, said>> /\ poll' = NoPoll
BY DEF Leave, Abandon, TypeOK

LEMMA RestartTypes ==
  ASSUME TypeOK, Restart
  PROVE  TypeOK' /\ poll' = NoPoll /\ cache' = [s \in Site |-> NoEntry] /\ UNCHANGED said
<1>1. NoEntry \in [rules : Rules \cup {"none"}, age : 0..Ttl]
  BY Bounds DEF NoEntry
<1>2. call' \in Calls /\ call'.pc = "none"
  BY CallTypes DEF Restart, TypeOK
<1> QED
  BY <1>1, <1>2 DEF Restart, TypeOK

LEMMA Ageing ==
  ASSUME NEW age \in 0..Ttl
  PROVE  Older(age) \in 0..Ttl /\ \A b \in 0..Ttl : b <= age => Older(b) <= Older(age)
BY Bounds DEF Older

LEMMA TickTypes ==
  ASSUME TypeOK, Tick
  PROVE  /\ TypeOK'
         /\ UNCHANGED poll
         /\ \A s \in Site : cache'[s].rules = cache[s].rules /\ cache'[s].age = Older(cache[s].age)
         /\ said' = [s \in Site |-> [r \in Rules |-> Older(said[s][r])]]
<1>1. /\ cache' = [s \in Site |-> [cache[s] EXCEPT !.age = Older(cache[s].age)]]
      /\ said' = [s \in Site |-> [r \in Rules |-> Older(said[s][r])]]
      /\ UNCHANGED poll
  BY DEF Tick
<1>2. ASSUME NEW s \in Site
      PROVE  /\ cache'[s] \in [rules : Rules \cup {"none"}, age : 0..Ttl]
             /\ cache'[s].rules = cache[s].rules /\ cache'[s].age = Older(cache[s].age)
  <2>1. cache[s] \in [rules : Rules \cup {"none"}, age : 0..Ttl]
    BY DEF TypeOK
  <2>2. cache'[s] = [cache[s] EXCEPT !.age = Older(cache[s].age)]
    BY <1>1
  <2>3. Older(cache[s].age) \in 0..Ttl
    BY <2>1, Ageing
  <2> QED
    BY <2>1, <2>2, <2>3
<1>3. cache' \in [Site -> [rules : Rules \cup {"none"}, age : 0..Ttl]]
  BY <1>1, <1>2
<1>4. said' \in [Site -> [Rules -> 0..Ttl]]
  <2>1. \A s \in Site : \A r \in Rules : Older(said[s][r]) \in 0..Ttl
    BY Ageing DEF TypeOK
  <2> QED
    BY <1>1, <2>1
<1>5. call' \in Calls /\ call'.pc = call.pc
  <2>1. /\ call = [pc |-> call.pc, attempt |-> call.attempt, backoff |-> call.backoff, wait |-> call.wait]
        /\ call.wait \in 0..(IF MaxBackoff < Ttl THEN Ttl ELSE MaxBackoff) /\ call \in Calls
    BY DEF TypeOK, Calls
  <2>2. CASE call.pc = "sleep" /\ call.wait > 0
    <3>1. call' = [call EXCEPT !.wait = call.wait - 1]
      BY <2>2 DEF Tick
    <3>2. call.wait - 1 \in 0..(IF MaxBackoff < Ttl THEN Ttl ELSE MaxBackoff)
      BY <2>1, <2>2, Bounds
    <3> QED
      BY <2>1, <3>1, <3>2 DEF Calls
  <2>3. CASE call.pc = "ask" /\ call.wait < Ttl
    <3>1. call' = [call EXCEPT !.wait = call.wait + 1]
      BY <2>3 DEF Tick
    <3>2. call.wait + 1 \in 0..(IF MaxBackoff < Ttl THEN Ttl ELSE MaxBackoff)
      BY <2>1, <2>3, Bounds
    <3> QED
      BY <2>1, <3>1, <3>2 DEF Calls
  <2>4. CASE ~ (call.pc = "sleep" /\ call.wait > 0) /\ ~ (call.pc = "ask" /\ call.wait < Ttl)
    BY <2>1, <2>4 DEF Tick
  <2> QED
    BY <2>2, <2>3, <2>4
<1> QED
  BY <1>1, <1>2, <1>3, <1>4, <1>5 DEF TypeOK

-----------------------------------------------------------------------------
(* The cache.                                                              *)
LEMMA CacheKept ==
  ASSUME TypeOK, CacheInv, UNCHANGED <<cache, said>>
  PROVE  CacheInv'
BY DEF CacheInv

LEMMA CacheFilled ==
  ASSUME TypeOK, CacheInv, NEW a \in Rules, Answered(a)
  PROVE  CacheInv'
<1> SUFFICES ASSUME NEW s \in Site, cache'[s].rules # "none"
             PROVE  said'[s][cache'[s].rules] <= cache'[s].age
  BY DEF CacheInv
<1>1. CASE s = poll.site
  <2> DEFINE age == cache'[poll.site].age
             new == [rules |-> a, age |-> age]
  <2>1. cache' = [cache EXCEPT ![s] = new] /\ age \in 0..Ttl
    BY <1>1, AnsweredTypes
  <2>2. new.rules = a
    OBVIOUS
  <2> HIDE DEF age, new
  <2>3. cache'[s] = new
    BY <2>1 DEF TypeOK
  <2>4. said'[s][a] = 0
    <3>1. said' = [said EXCEPT ![s][a] = 0]
      BY <1>1, AnsweredTypes
    <3>2. said \in [Site -> [Rules -> 0..Ttl]]
      BY DEF TypeOK
    <3> QED
      BY <3>1, <3>2
  <2>5. cache'[s].age = age
    BY <1>1 DEF age
  <2> QED
    BY <2>1, <2>2, <2>3, <2>4, <2>5, Bounds
<1>2. CASE s # poll.site
  BY <1>2, AnsweredTypes DEF CacheInv, TypeOK
<1> QED
  BY <1>1, <1>2

LEMMA CacheAges ==
  ASSUME TypeOK, CacheInv, Tick
  PROVE  CacheInv'
<1> SUFFICES ASSUME NEW s \in Site, cache'[s].rules # "none"
             PROVE  said'[s][cache'[s].rules] <= cache'[s].age
  BY DEF CacheInv
<1> DEFINE r == cache[s].rules
<1>1. r \in Rules /\ cache[s].age \in 0..Ttl /\ said[s][r] \in 0..Ttl
  BY TickTypes DEF TypeOK
<1>2. said[s][r] <= cache[s].age
  BY TickTypes DEF CacheInv
<1>3. cache'[s].rules = r /\ cache'[s].age = Older(cache[s].age) /\ said'[s][r] = Older(said[s][r])
  BY <1>1, TickTypes
<1> QED
  BY <1>1, <1>2, <1>3, Ageing

LEMMA CacheForgotten ==
  ASSUME TypeOK, CacheInv, Restart
  PROVE  CacheInv'
BY RestartTypes DEF CacheInv, NoEntry

-----------------------------------------------------------------------------
(* The profiles and the links of a poll.                                   *)
LEMMA PollKept ==
  ASSUME ProfileInv, LinkInv, UNCHANGED poll
  PROVE  ProfileInv' /\ LinkInv'
BY DEF ProfileInv, LinkInv, Yielded, LinksOf

LEMMA PollGone ==
  ASSUME poll' = NoPoll
  PROVE  ProfileInv' /\ LinkInv'
BY DEF ProfileInv, LinkInv

LEMMA PollStarts ==
  ASSUME TypeOK, NEW s \in Site, NEW kind \in Kind, NEW robots \in BOOLEAN, StartPoll(s, kind, robots)
  PROVE  ProfileInv' /\ LinkInv'
<1>1. ProfileInv'
  BY StartPollTypes DEF ProfileInv
<1>2. Yielded(poll')
  <2>1. Len(<<>>) = 0 /\ 0 <= LinkLimit
    BY Bounds
  <2> QED
    BY <2>1, StartPollTypes, EmptyPage DEF Yielded
<1> QED
  BY <1>1, <1>2 DEF LinkInv

LEMMA PollFetches ==
  ASSUME TypeOK, ProfileInv, LinkInv, NEW p \in Profile, NextPage(p)
  PROVE  ProfileInv' /\ LinkInv'
<1>1. /\ poll'.pc = "fetch" /\ poll'.kind = poll.kind /\ poll'.page = poll.page
      /\ poll'.left = poll.left \ {p} /\ poll'.tried = poll.tried \cup {p}
      /\ poll'.seen = poll.seen /\ poll'.out = poll.out /\ poll'.got = poll.got
      /\ poll # NoPoll /\ poll.pc = "next" /\ p \in poll.left
  BY NextPageTypes, PollFields
<1>2. ProfileInv'
  BY <1>1 DEF ProfileInv
<1>3. ASSUME poll.kind # "rss"
      PROVE  Yielded(poll')
  <2>1. Yielded(poll)
    BY <1>1, <1>3 DEF LinkInv
  <2>2. poll.kind = "scrape" => poll'.left = {}
    BY <1>1, <2>1 DEF Yielded
  <2> QED
    BY <1>1, <2>1, <2>2 DEF Yielded
<1> QED
  BY <1>1, <1>2, <1>3 DEF LinkInv

LEMMA PollReceives ==
  ASSUME TypeOK, ProfileInv, LinkInv, NEW page \in Page, Receive(page)
  PROVE  ProfileInv' /\ LinkInv'
<1> DEFINE bare == poll.kind = "scrape" /\ LinksOf(page) = {}
<1>1. /\ poll'.pc = "yield" /\ poll'.kind = poll.kind /\ poll'.page = page
      /\ poll'.left = poll.left /\ poll'.tried = poll.tried
      /\ poll'.seen = poll.seen /\ poll'.out = (IF bare THEN <<PageItself>> ELSE poll.out)
      /\ poll'.got = poll.got \cup LinksOf(page)
      /\ poll # NoPoll /\ poll.pc = "fetch"
  BY ReceiveTypes, PollFields
<1>2. ProfileInv'
  BY <1>1 DEF ProfileInv
<1>3. ASSUME poll.kind # "rss"
      PROVE  Yielded(poll')
  <2>1. Yielded(poll)
    BY <1>1, <1>3 DEF LinkInv
  <2>2. poll'.got = poll'.seen \cup LinksOf(poll'.page)
    BY <1>1, <2>1, EmptyPage DEF Yielded
  <2>3. CASE bare
    <3>1. poll'.out = <<PageItself>> /\ Len(<<PageItself>>) = 1 /\ 1 <= LinkLimit
      BY <1>1, <2>3, Bounds
    <3>2. IsInjective(<<PageItself>>)
      BY DEF IsInjective
    <3>3. poll.seen = {} /\ poll'.got = {} /\ poll.left = {}
      BY <1>1, <2>1, <2>3 DEF Yielded
    <3> QED
      BY <1>1, <2>2, <2>3, <3>1, <3>2, <3>3 DEF Yielded
  <2>4. CASE ~ bare
    <3>1. poll'.out = poll.out
      BY <1>1, <2>4
    <3>2. poll.kind = "scrape" => ToSet(poll.out) = {} /\ poll.seen = {} /\ poll.left = {}
      BY <1>1, <2>1, EmptyPage DEF Yielded
    <3> HIDE DEF bare
    <3> QED
      BY <1>1, <2>1, <2>2, <3>1, <3>2 DEF Yielded
  <2> QED
    BY <2>3, <2>4
<1> QED
  BY <1>1, <1>2, <1>3 DEF LinkInv

LEMMA PollTurns ==
  ASSUME TypeOK, ProfileInv, LinkInv, FetchFailed \/ EndOfPage \/ EndPoll
  PROVE  ProfileInv' /\ LinkInv'
<1>1. /\ poll'.kind = poll.kind /\ poll'.page = poll.page
      /\ poll'.left = poll.left /\ poll'.tried = poll.tried
      /\ poll'.seen = poll.seen /\ poll'.out = poll.out /\ poll'.got = poll.got
      /\ poll # NoPoll /\ poll'.pc \in {"next", "end"}
      /\ poll'.pc = "next" => poll.pc \in {"fetch", "yield"} /\ (poll.pc = "yield" => poll.page = <<>>)
      /\ poll'.pc = "end" => poll.pc = "next" /\ poll.left = {}
  BY TurnTypes, PollFields
<1>2. ProfileInv'
  BY <1>1 DEF ProfileInv
<1>3. ASSUME poll.kind # "rss"
      PROVE  Yielded(poll')
  <2>1. Yielded(poll)
    BY <1>1, <1>3 DEF LinkInv
  <2>2. poll.page = <<>>
    BY <1>1, <2>1 DEF Yielded
  <2>3. poll.kind = "scrape" => poll.left = {}
    BY <1>1, <2>1 DEF Yielded
  <2> QED
    BY <1>1, <2>1, <2>2, <2>3 DEF Yielded
<1> QED
  BY <1>1, <1>2, <1>3 DEF LinkInv

LEMMA PollYields ==
  ASSUME TypeOK, ProfileInv, LinkInv, Entry
  PROVE  ProfileInv' /\ LinkInv'
<1> DEFINE l == Head(poll.page)
           taken == Takes(l)
<1>1. /\ poll'.pc = "yield" /\ poll'.kind = poll.kind /\ poll'.page = Tail(poll.page)
      /\ poll'.left = poll.left /\ poll'.tried = poll.tried
      /\ poll'.seen = poll.seen \cup ({l} \cap Link) /\ poll'.got = poll.got
      /\ poll'.out = (IF taken THEN Append(poll.out, l) ELSE poll.out)
      /\ poll # NoPoll /\ poll.pc = "yield" /\ poll.page # <<>>
      /\ taken => l \in Link
  BY EntryTypes, PollFields
<1>2. ProfileInv'
  BY <1>1 DEF ProfileInv
<1>3. ASSUME poll.kind # "rss"
      PROVE  Yielded(poll')
  <2>1. Yielded(poll)
    BY <1>1, <1>3 DEF LinkInv
  <2>2. poll.kind \in {"gdelt", "scrape"} /\ poll.out \in Seq(Link \cup {PageItself})
    BY <1>1, <1>3, PollFields DEF Kind
  <2>3. LinksOf(poll.page) = ({l} \cap Link) \cup LinksOf(poll'.page)
    BY <1>1, PollFields, RestOfPage
  <2>4. taken <=> l \in Link \ poll.seen /\ (poll.kind = "scrape" => Len(poll.out) < LinkLimit)
    BY <2>2 DEF Takes
  <2> HIDE DEF l, taken
  <2>5. poll'.got = poll'.seen \cup LinksOf(poll'.page)
    BY <1>1, <2>1, <2>3 DEF Yielded
  <2>6. poll.kind = "scrape" => poll.left = {}
    BY <1>1, <2>1 DEF Yielded
  <2>7. CASE taken
    <3>1. l \in poll.got /\ l \in Link \cup {PageItself}
      BY <1>1, <2>1, <2>3, <2>7 DEF Yielded
    <3>2. ToSet(poll.out) \subseteq poll.seen
      BY <2>1, <2>2, <3>1 DEF Yielded
    <3>3. /\ Len(poll'.out) = Len(poll.out) + 1 /\ ToSet(poll'.out) = ToSet(poll.out) \cup {l}
          /\ IsInjective(poll'.out)
      BY <1>1, <2>1, <2>2, <2>4, <2>7, <3>1, <3>2, Appending DEF Yielded
    <3>4. poll'.seen = poll.seen \cup {l}
      BY <1>1, <2>7
    <3>5. Len(poll.out) \in Nat
      BY <2>2
    <3>6. poll.kind = "scrape" => poll.seen \subseteq ToSet(poll.out) /\ Len(poll'.out) <= LinkLimit
      BY <2>1, <2>4, <2>7, <3>3, <3>5, Bounds DEF Yielded
    <3> QED
      BY <1>1, <2>1, <2>2, <2>5, <2>6, <3>2, <3>3, <3>4, <3>6 DEF Yielded
  <2>8. CASE ~ taken
    <3>1. poll'.out = poll.out
      BY <1>1, <2>8
    <3>2. poll.kind = "gdelt" => poll'.seen = poll.seen
      BY <1>1, <2>4, <2>8
    <3>3. poll.kind = "scrape" => poll'.seen = poll.seen \/ Len(poll.out) = LinkLimit
      <4>1. Len(poll.out) \in Nat
        BY <2>2
      <4> QED
        BY <1>1, <2>1, <2>4, <2>8, <4>1, Bounds DEF Yielded
    <3> QED
      BY <1>1, <2>1, <2>2, <2>5, <2>6, <3>1, <3>2, <3>3 DEF Yielded
  <2> QED
    BY <2>7, <2>8
<1> QED
  BY <1>1, <1>2, <1>3 DEF LinkInv

-----------------------------------------------------------------------------
(* Every step.                                                             *)
LEMMA Step ==
  ASSUME IInv, [Next]_vars
  PROVE  IInv'
<1> USE DEF IInv
<1>1. CASE UNCHANGED vars
  BY <1>1, StayingTypes, CacheKept, PollKept DEF vars
<1>2. CASE Robots
  <2>1. CASE UseCache \/ AskSite \/ Unanswered
    BY <2>1, SimpleCallTypes, CacheKept, PollKept
  <2>2. ASSUME NEW a \in Rules, Answered(a)
        PROVE  IInv'
    BY <2>2, AnsweredTypes, CacheFilled, PollKept
  <2> QED
    BY <1>2, <2>1, <2>2 DEF Robots
<1>3. CASE Request
  <2>1. CASE HostRefused \/ HostAccepted \/ SendFails \/ Wake
    BY <2>1, SimpleCallTypes, CacheKept, PollKept
  <2>2. CASE SendAgain
    BY <2>2, SendAgainTypes, CacheKept, PollKept
  <2>3. ASSUME NEW page \in Page, Receive(page)
        PROVE  IInv'
    BY <2>3, ReceiveTypes, CacheKept, PollReceives
  <2> QED
    BY <1>3, <2>1, <2>2, <2>3 DEF Request
<1>4. CASE Collect
  <2>1. CASE FetchFailed \/ EndOfPage \/ EndPoll
    BY <2>1, TurnTypes, CacheKept, PollTurns
  <2>2. CASE Entry
    BY <2>2, EntryTypes, CacheKept, PollYields
  <2>3. CASE Leave
    BY <2>3, LeavingTypes, CacheKept, PollGone
  <2>4. ASSUME NEW p \in Profile, NextPage(p)
        PROVE  IInv'
    BY <2>4, NextPageTypes, CacheKept, PollFetches
  <2> QED
    BY <1>4, <2>1, <2>2, <2>3, <2>4 DEF Collect
<1>5. CASE Abandon
  BY <1>5, LeavingTypes, CacheKept, PollGone
<1>6. CASE Tick
  BY <1>6, TickTypes, CacheAges, PollKept
<1>7. CASE Restart
  BY <1>7, RestartTypes, CacheForgotten, PollGone
<1>8. ASSUME NEW s \in Site, NEW kind \in Kind, NEW robots \in BOOLEAN, StartPoll(s, kind, robots)
      PROVE  IInv'
  BY <1>8, StartPollTypes, CacheKept, PollStarts
<1> QED
  BY <1>1, <1>2, <1>3, <1>4, <1>5, <1>6, <1>7, <1>8 DEF Next

LEMMA InitIInv ==
  ASSUME Init
  PROVE  IInv
<1>1. NoEntry \in [rules : Rules \cup {"none"}, age : 0..Ttl]
  BY Bounds DEF NoEntry
<1>2. cache \in [Site -> [rules : Rules \cup {"none"}, age : 0..Ttl]]
  BY <1>1 DEF Init
<1>3. said \in [Site -> [Rules -> 0..Ttl]]
  BY Bounds DEF Init
<1>4. call \in Calls /\ call.pc = "none"
  <2>1. NoCall \in Calls
    <3>1. 0 \in 0..(IF MaxBackoff < Ttl THEN Ttl ELSE MaxBackoff)
      BY Bounds
    <3>2. 0 \in 0..(MaxRetries - 1) /\ 1 \in 1..MaxBackoff
      BY Bounds
    <3> QED
      BY <3>1, <3>2 DEF Calls, NoCall
  <2> QED
    BY <2>1 DEF Init, NoCall
<1>5. TypeOK
  BY <1>2, <1>3, <1>4 DEF TypeOK, Init
<1>6. CacheInv
  BY DEF Init, CacheInv, NoEntry
<1> QED
  BY <1>5, <1>6 DEF Init, IInv, ProfileInv, LinkInv

LEMMA Invariance == Spec => []IInv
BY InitIInv, Step, PTL DEF Spec

(* The types of the module, and with them that no call retries more often  *)
(* or sleeps longer than it may: fetch_with_retry's attempt and backoff.   *)
THEOREM TypeCorrect == Spec => []TypeOK
<1>1. IInv => TypeOK
  BY DEF IInv
<1> QED
  BY <1>1, Invariance, PTL

(* A poll that ends has asked for every profile of its source, whichever   *)
(* of them failed: the "continue" of gdelt.py.                             *)
THEOREM EveryProfileIsTriedCorrect == Spec => []EveryProfileIsTried
<1>1. IInv => EveryProfileIsTried
  BY DEF IInv, ProfileInv, EveryProfileIsTried
<1> QED
  BY <1>1, Invariance, PTL

(* The dedup of gdelt.py and scrape.py loses no link but above the limit,  *)
(* and repeats none.                                                       *)
THEOREM LinksComeOnceCorrect == Spec => []LinksComeOnce
<1>1. ASSUME IInv
      PROVE  LinksComeOnce
  <2> SUFFICES ASSUME poll # NoPoll, poll.pc = "end", poll.kind # "rss"
               PROVE  /\ IsInjective(poll.out)
                      /\ IF poll.kind = "gdelt" THEN ToSet(poll.out) = poll.got
                         ELSE poll.got \subseteq ToSet(poll.out) \/ Len(poll.out) = LinkLimit
    BY DEF LinksComeOnce
  <2>1. Yielded(poll) /\ poll.kind \in {"gdelt", "scrape"}
    BY <1>1, PollFields DEF IInv, LinkInv, Kind
  <2>2. poll.got = poll.seen
    BY <2>1, EmptyPage DEF Yielded
  <2> QED
    BY <2>1, <2>2 DEF Yielded
<1> QED
  BY <1>1, Invariance, PTL

(* The steps from "check" are UseCache, AskSite and the turns of time.     *)
LEMMA DecisionStep ==
  ASSUME IInv, [Next]_vars, Running("check"), call' # call, call'.pc \in {"send", "failed"}
  PROVE  \/ call'.pc = "send" /\ said[poll.site]["allow"] < Ttl
         \/ call'.pc = "failed" /\ \E r \in Rules \ {"allow"} : said[poll.site][r] < Ttl
<1>1. TypeOK /\ CacheInv /\ call \in Calls
  BY DEF IInv, TypeOK
<1>2. CASE UseCache
  <2> DEFINE s == poll.site
             r == cache[s].rules
  <2>1. s \in Site /\ r # "none" /\ cache[s].age < Ttl
    BY <1>1, <1>2, PollFields DEF UseCache, Hit, Running, TypeOK
  <2>2. r \in Rules /\ said[s][r] \in 0..Ttl /\ cache[s].age \in 0..Ttl
    BY <1>1, <2>1 DEF TypeOK
  <2>3. said[s][r] < Ttl
    BY <1>1, <2>1, <2>2, Bounds DEF CacheInv
  <2>4. PICK label \in {"send", "failed"} : Goto(label) /\ (label = "send" <=> r = "allow")
    BY <1>2, DecideGoes DEF UseCache
  <2>5. call'.pc = label
    BY <1>1, <2>4, CallTypes
  <2> QED
    BY <2>2, <2>3, <2>4, <2>5
<1>3. CASE AskSite
  <2>1. call'.pc = "ask"
    BY <1>1, <1>3, CallTypes DEF AskSite
  <2> QED
    BY <2>1
<1>4. CASE Tick
  BY <1>4 DEF Tick, Running
<1>5. CASE Restart
  BY <1>5 DEF Restart, NoCall
<1>6. CASE Unanswered \/ \E a \in Rules : Answered(a)
  BY <1>6 DEF Unanswered, Answered, Running
<1>7. CASE Request
  BY <1>7 DEF Request, HostRefused, HostAccepted, SendAgain, SendFails, Wake, Receive, Running
<1>8. CASE Collect \/ Abandon
  BY <1>1, <1>8 DEF Collect, FetchFailed, Entry, EndOfPage, EndPoll, Leave, NextPage, Abandon,
                    Running, TypeOK
<1>9. ASSUME NEW s \in Site, NEW kind \in Kind, NEW robots \in BOOLEAN, StartPoll(s, kind, robots)
      PROVE  FALSE
  BY <1>9 DEF StartPoll
<1>10. CASE UNCHANGED vars
  BY <1>10 DEF vars
<1> QED
  BY <1>2, <1>3, <1>4, <1>5, <1>6, <1>7, <1>8, <1>9, <1>10 DEF Next, Robots

(* _check_robots decides from its cache only on what the site said less    *)
(* than Ttl ago, although the age of an entry counts from before the       *)
(* request and the cache outlives the poll.                                *)
THEOREM DecisionsAreFreshCorrect == Spec => DecisionsAreFresh
<1>1. ASSUME IInv, [Next]_vars
      PROVE  [Running("check") /\ call'.pc \in {"send", "failed"} =>
                \/ call'.pc = "send" /\ said[poll.site]["allow"] < Ttl
                \/ call'.pc = "failed" /\ \E r \in Rules \ {"allow"} : said[poll.site][r] < Ttl]_vars
  <2> SUFFICES ASSUME Running("check"), call'.pc \in {"send", "failed"}
               PROVE  \/ call'.pc = "send" /\ said[poll.site]["allow"] < Ttl
                      \/ call'.pc = "failed" /\ \E r \in Rules \ {"allow"} : said[poll.site][r] < Ttl
    OBVIOUS
  <2>1. call' # call
    BY DEF Running
  <2> QED
    BY <1>1, <2>1, DecisionStep
<1> QED
  BY <1>1, Invariance, PTL DEF Spec, DecisionsAreFresh
=============================================================================
