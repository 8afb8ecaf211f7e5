----------------------------------- MODULE Fetch -----------------------------------
(***************************************************************************)
(* A poll of one source: a collector (collectors/rss.py, gdelt.py,         *)
(* scrape.py) fetches its pages through fetch_with_retry of                *)
(* collectors/http_client.py, which asks the site's robots.txt, keeps the  *)
(* answer in a cache of the process, and retries what may be transient.    *)
(*                                                                         *)
(* Everything is synchronous in its process: what interleaves is time, the *)
(* sites, and the consumer of the collector's generator.  Time is counted  *)
(* in backoffs; ages stop at Ttl, where they are all the same.  A page is  *)
(* the sequence of its entries.                                            *)
(***************************************************************************)
EXTENDS Integers, Sequences, SequencesExt

CONSTANTS
  Site,         \* hosts
  Profile,      \* query profiles of a GDELT source
  Link,         \* links of entries
  Ttl,          \* _ROBOTS_CACHE_TTL
  MaxRetries, MaxBackoff,
  LinkLimit,    \* links taken from a scraped page (50 in the code)
  PageSize      \* bound: entries of a page

ASSUME FetchAssumption ==
  /\ Profile # {}
  /\ {Ttl, MaxRetries, MaxBackoff, LinkLimit, PageSize} \subseteq Nat \ {0}

VARIABLES
  cache,        \* _robots_cache: what is remembered of each site
  said,         \* history: ages of the last answers of each robots.txt
  poll,         \* the collector's call in progress
  call          \* the call of fetch_with_retry in progress

vars == <<cache, said, poll, call>>

(* Skipped: an entry without a link or, on a scraped page, a link that     *)
(* leaves the site or does not look like an article.                       *)
Skipped == "skipped"
PageItself == "page"
Page == UNION {[1..n -> Link \cup {Skipped}] : n \in 0..PageSize}

Kind == {"rss", "gdelt", "scrape"}

(* What robots.txt says, or "unparsed": any status but 200. *)
Rules == {"allow", "deny", "unparsed"}
NoEntry == [rules |-> "none", age |-> Ttl]
NoCall == [pc |-> "none", attempt |-> 0, backoff |-> 1, wait |-> 0]
NoPoll == [pc |-> "idle"]

Polls == [pc : {"next", "fetch", "yield", "end"}, kind : Kind, site : Site, robots : BOOLEAN,
          left : SUBSET Profile, tried : SUBSET Profile, page : Page,
          seen : SUBSET Link, out : Seq(Link \cup {PageItself}), got : SUBSET Link]

Calls == [pc : {"none", "host", "check", "ask", "send", "sleep", "failed"},
          attempt : 0..(MaxRetries - 1), backoff : 1..MaxBackoff, wait : 0..(IF MaxBackoff < Ttl THEN Ttl ELSE MaxBackoff)]

(* The types, and that a call never starts a retry it may not make, never  *)
(* sleeps longer than MaxBackoff, and belongs to a poll that waits for it. *)
TypeOK ==
  /\ cache \in [Site -> [rules : Rules \cup {"none"}, age : 0..Ttl]]
  /\ said \in [Site -> [Rules -> 0..Ttl]]
  /\ poll \in Polls \cup {NoPoll}
  /\ call \in Calls
  /\ call.pc # "none" => poll # NoPoll /\ poll.pc = "fetch"

Init ==
  /\ cache = [s \in Site |-> NoEntry]
  /\ said = [s \in Site |-> [r \in Rules |-> Ttl]]
  /\ poll = NoPoll
  /\ call = NoCall

-----------------------------------------------------------------------------
(***************************************************************************)
(* _check_robots.                                                          *)
(***************************************************************************)
Running(label) == call.pc = label
Goto(label) == call' = [call EXCEPT !.pc = label, !.wait = 0]

Older(age) == IF age < Ttl THEN age + 1 ELSE Ttl

(* A parser that has read no rules answers False to every can_fetch. *)
CanFetch(rules) == rules = "allow"

Decide(rules) == Goto(IF CanFetch(rules) THEN "send" ELSE "failed")

Hit(s) == cache[s].rules # "none" /\ cache[s].age < Ttl

(* Mutant: an entry that is used is kept for another hour. *)
UseCacheRenewing ==
  /\ Running("check") /\ Hit(poll.site)
  /\ Decide(cache[poll.site].rules)
  /\ cache' = [cache EXCEPT ![poll.site].age = 0]
  /\ UNCHANGED <<said, poll>>

UseCache ==
  /\ Running("check") /\ Hit(poll.site)
  /\ Decide(cache[poll.site].rules)
  /\ UNCHANGED <<cache, said, poll>>

(* The time of the entry is read before the request is sent. *)
AskSite ==
  /\ Running("check") /\ ~ Hit(poll.site)
  /\ Goto("ask")
  /\ UNCHANGED <<cache, said, poll>>

(* Any other status than 200 leaves the parser as it was made; it is kept  *)
(* all the same.                                                           *)
Answered(answer) ==
  LET s == poll.site IN
  /\ Running("ask")
  /\ cache' = [cache EXCEPT ![s] = [rules |-> answer, age |-> IF call.wait < Ttl THEN call.wait ELSE Ttl]]
  /\ said' = [said EXCEPT ![s][answer] = 0]
  /\ Decide(answer)
  /\ UNCHANGED poll

(* "allow on parse error", which is any exception; nothing is kept. *)
Unanswered ==
  /\ Running("ask")
  /\ Goto("send")
  /\ UNCHANGED <<cache, said, poll>>

-----------------------------------------------------------------------------
(***************************************************************************)
(* fetch_with_retry.                                                       *)
(***************************************************************************)

(* The host is no public one, or has no address. *)
HostRefused ==
  /\ Running("host")
  /\ Goto("failed")
  /\ UNCHANGED <<cache, said, poll>>

HostAccepted ==
  /\ Running("host")
  /\ Goto(IF poll.robots THEN "check" ELSE "send")
  /\ UNCHANGED <<cache, said, poll>>

Backoff(b) == IF 2 * b < MaxBackoff THEN 2 * b ELSE MaxBackoff

(* Mutant: a request that did not get through is no attempt. *)
SendAgainUncounted ==
  /\ Running("send")
  /\ call' = [call EXCEPT !.pc = "sleep", !.wait = call.backoff, !.backoff = Backoff(@)]
  /\ UNCHANGED <<cache, said, poll>>

(* 429, 5xx, or no answer: sleep, and try once more. *)
SendAgain ==
  /\ Running("send")
  /\ call.attempt < MaxRetries - 1
  /\ call' = [pc |-> "sleep", attempt |-> call.attempt + 1, wait |-> call.backoff,
              backoff |-> Backoff(call.backoff)]
  /\ UNCHANGED <<cache, said, poll>>

(* The last attempt, or another status of 4xx, at once. *)
SendFails ==
  /\ Running("send")
  /\ Goto("failed")
  /\ UNCHANGED <<cache, said, poll>>

Wake ==
  /\ Running("sleep") /\ call.wait = 0
  /\ Goto("send")
  /\ UNCHANGED <<cache, said, poll>>

-----------------------------------------------------------------------------
(***************************************************************************)
(* The collectors.                                                         *)
(***************************************************************************)
LinksOf(page) == ToSet(page) \cap Link

(* A feed and a scraped page are one fetch, GDELT is one for each profile. *)
StartPoll(s, kind, robots) ==
  /\ poll = NoPoll
  /\ poll' = [pc |-> "next", kind |-> kind, site |-> s, robots |-> robots,
              left |-> IF kind = "gdelt" THEN Profile ELSE {CHOOSE p \in Profile : TRUE},
              tried |-> {}, page |-> <<>>, seen |-> {}, out |-> <<>>, got |-> {}]
  /\ UNCHANGED <<cache, said, call>>

(* Mutant: each profile of a GDELT source starts with an empty seen_urls. *)
NextPageForgetting(p) ==
  /\ poll # NoPoll /\ poll.pc = "next" /\ p \in poll.left
  /\ poll' = [poll EXCEPT !.pc = "fetch", !.left = @ \ {p}, !.tried = @ \cup {p}, !.seen = {}]
  /\ call' = [NoCall EXCEPT !.pc = "host"]
  /\ UNCHANGED <<cache, said>>

NextPage(p) ==
  /\ poll # NoPoll /\ poll.pc = "next" /\ p \in poll.left
  /\ poll' = [poll EXCEPT !.pc = "fetch", !.left = @ \ {p}, !.tried = @ \cup {p}]
  /\ call' = [NoCall EXCEPT !.pc = "host"]
  /\ UNCHANGED <<cache, said>>

(* A scraped page without links is an item itself. *)
Receive(page) ==
  /\ Running("send")
  /\ poll' = [poll EXCEPT !.pc = "yield", !.page = page, !.got = @ \cup LinksOf(page),
                          !.out = IF poll.kind = "scrape" /\ LinksOf(page) = {}
                                  THEN <<PageItself>> ELSE @]
  /\ call' = NoCall
  /\ UNCHANGED <<cache, said>>

(* Mutant: a profile that fails ends the poll. *)
FetchFailedForAll ==
  /\ Running("failed")
  /\ poll' = [poll EXCEPT !.pc = "end"]
  /\ call' = NoCall
  /\ UNCHANGED <<cache, said>>

(* Every collector logs the exception and goes on with what is left. *)
FetchFailed ==
  /\ Running("failed")
  /\ poll' = [poll EXCEPT !.pc = "next"]
  /\ call' = NoCall
  /\ UNCHANGED <<cache, said>>

Takes(l) ==
  CASE poll.kind = "rss" -> l \in Link
    [] poll.kind = "gdelt" -> l \in Link \ poll.seen
    [] poll.kind = "scrape" -> l \in Link \ poll.seen /\ Len(poll.out) < LinkLimit

(* The consumer asks for the next item. *)
Entry ==
  /\ poll # NoPoll /\ poll.pc = "yield" /\ poll.page # <<>>
  /\ LET l == Head(poll.page) IN
     poll' = [poll EXCEPT !.page = Tail(@), !.seen = @ \cup ({l} \cap Link),
                          !.out = IF Takes(l) THEN Append(@, l) ELSE @]
  /\ UNCHANGED <<cache, said, call>>

EndOfPage ==
  /\ poll # NoPoll /\ poll.pc = "yield" /\ poll.page = <<>>
  /\ poll' = [poll EXCEPT !.pc = "next"]
  /\ UNCHANGED <<cache, said, call>>

EndPoll ==
  /\ poll # NoPoll /\ poll.pc = "next" /\ poll.left = {}
  /\ poll' = [poll EXCEPT !.pc = "end"]
  /\ UNCHANGED <<cache, said, call>>

Leave ==
  /\ poll # NoPoll /\ poll.pc = "end"
  /\ poll' = NoPoll
  /\ UNCHANGED <<cache, said, call>>

(* The poll ends with an exception: the consumer raised on an item, or the *)
(* collector itself on an entry it cannot read (a null where it takes a    *)
(* slice, a link that is no URL).                                          *)
Abandon ==
  /\ poll # NoPoll /\ poll.pc = "yield"
  /\ poll.out # <<>> \/ poll.page # <<>>
  /\ poll' = NoPoll
  /\ UNCHANGED <<cache, said, call>>

-----------------------------------------------------------------------------
Tick ==
  /\ cache' = [s \in Site |-> [cache[s] EXCEPT !.age = Older(@)]]
  /\ said' = [s \in Site |-> [r \in Rules |-> Older(said[s][r])]]
  /\ call' = CASE call.pc = "sleep" /\ call.wait > 0 -> [call EXCEPT !.wait = @ - 1]
               [] call.pc = "ask" /\ call.wait < Ttl -> [call EXCEPT !.wait = @ + 1]
               [] OTHER -> call
  /\ UNCHANGED poll

Restart ==
  /\ cache' = [s \in Site |-> NoEntry]
  /\ poll' = NoPoll
  /\ call' = NoCall
  /\ UNCHANGED said

Robots == UseCache \/ AskSite \/ Unanswered \/ \E a \in Rules : Answered(a)

Request ==
  \/ HostRefused \/ HostAccepted \/ SendAgain \/ SendFails \/ Wake
  \/ \E page \in Page : Receive(page)

Collect ==
  \/ FetchFailed \/ Entry \/ EndOfPage \/ EndPoll \/ Leave
  \/ \E p \in Profile : NextPage(p)

Next ==
  \/ Robots \/ Request \/ Collect \/ Abandon \/ Tick \/ Restart
  \/ \E s \in Site, kind \in Kind, robots \in BOOLEAN : StartPoll(s, kind, robots)

Spec == Init /\ [][Next]_vars

(* Requests time out, sleeps end, and the collectors are ordinary code; a  *)
(* site need never answer and nothing else is promised of it.              *)
FairSpec == Spec /\ WF_vars(Robots \/ Request \/ Collect) /\ WF_vars(Tick)

-----------------------------------------------------------------------------
(***************************************************************************)
(* Properties.                                                             *)
(***************************************************************************)

(* What robots.txt decides, it said less than Ttl before the decision: a   *)
(* fetch gets past _check_robots from the cache only on an answer that     *)
(* allowed it, and is refused only on one that did not, although the cache *)
(* is filled by requests that take their time.                             *)
DecisionsAreFresh ==
  [][Running("check") /\ call'.pc \in {"send", "failed"} =>
       \/ call'.pc = "send" /\ said[poll.site]["allow"] < Ttl
       \/ call'.pc = "failed" /\ \E r \in Rules \ {"allow"} : said[poll.site][r] < Ttl
    ]_vars

(* A poll that no exception ends asks for every profile of its source,      *)
(* although others fail: gdelt.py's "continue".                            *)
EveryProfileIsTried ==
  poll # NoPoll /\ poll.pc = "end" /\ poll.kind = "gdelt" => poll.tried = Profile

(* The dedup of GDELT and of scraped pages drops nothing but repeats: a    *)
(* poll that comes to its end yielded each link of the pages it got once,  *)
(* up to the limit of a scraped page, whatever the order of the entries.   *)
LinksComeOnce ==
  poll # NoPoll /\ poll.pc = "end" /\ poll.kind # "rss" =>
    /\ IsInjective(poll.out)
    /\ IF poll.kind = "gdelt" THEN ToSet(poll.out) = poll.got
       ELSE poll.got \subseteq ToSet(poll.out) \/ Len(poll.out) = LinkLimit

(* A poll does not hold its process for ever, however its sites behave:    *)
(* retries and backoffs are finite for each page.                          *)
EveryPollEnds == poll # NoPoll ~> poll = NoPoll
====
