--------------------------------- MODULE Targeting ---------------------------------
(***************************************************************************)
(* Asset targeting (engines/asset_targeting.py, llm/asset_targeting.py):   *)
(* from a story's impact to the tickers it should move, by a language      *)
(* model where there is one and by rules otherwise, over the memberships   *)
(* that Universe's refresh goes on writing.                                *)
(*                                                                         *)
(* A bundle keeps its tickers, winners or losers; scores, channels and     *)
(* evidence are left out.                                                  *)
(***************************************************************************)
EXTENDS Universe

CONSTANTS
  Story,        \* clusters with a row
  Target,       \* requests and jobs that ask for asset impacts
  LimitTickers, \* limit_tickers
  Invented,     \* tickers a model may answer with that are in no universe
  ImpactAtFirst,\* the impact column of each story at first
  MaxImpact     \* bound: changes of a story's impact

(* L0 stories have a score below 20: they move no ticker.  Scores above 20 *)
(* differ only in the figures of the bundle; their direction makes tickers *)
(* winners (Up) or losers (Down: the same sets), or names none of them.    *)
Impact == {"L0", "Up", "Mixed"}

ASSUME TargetingAssumption ==
  /\ ImpactAtFirst \in [Story -> Impact]
  /\ LimitTickers \in Nat /\ MaxImpact \in Nat
  /\ Invented \cap Symbol = {} /\ Invented \subseteq Nat

VARIABLES
  impact,       \* the impact column of each story
  target,       \* what each request has read and answered
  changes

tvars == <<impact, target, changes>>
vars == <<uvars, tvars>>

Fresh == [pc |-> "start", story |-> "none", universes |-> {}, valid |-> {},
          impact |-> "none", tickers |-> {}]

TInit ==
  /\ impact = ImpactAtFirst
  /\ target = [t \in Target |-> Fresh]
  /\ changes = 0

Init == UInit /\ TInit
-----------------------------------------------------------------------------
(* A new article of the story: the upsert replaces its impact.             *)
ChangeImpact(c, i) ==
  /\ changes < MaxImpact /\ i # impact[c]
  /\ impact' = [impact EXCEPT ![c] = i]
  /\ changes' = changes + 1
  /\ UNCHANGED <<uvars, target>>

At(t, label) == target[t].pc = label
Set(t, q) == target' = [target EXCEPT ![t] = q]

(* _get_valid_symbols: memberships without a last day, whatever the first. *)
ValidSymbols(U) == {m[3] : m \in {r \in rows : r[1] = "member" /\ r[2] \in U}}

(* get_asset_impacts_for_cluster, first block: whitelist and story.  Its   *)
(* score decides whether tickers are looked for at all.                    *)
ReadStory(t, c, U) ==
  [target[t] EXCEPT !.pc = IF impact[c] = "L0" THEN "done" ELSE "model",
     !.story = c, !.universes = U, !.valid = ValidSymbols(U), !.impact = impact[c]]

TargetStory(t, c) ==
  /\ At(t, "start")
  /\ \E U \in SUBSET UniverseId \ {{}} : Set(t, ReadStory(t, c, U))
  /\ UNCHANGED <<uvars, impact, changes>>

(* No row for the cluster that was asked for: the empty bundle.            *)
MissStory(t) ==
  /\ At(t, "start")
  /\ Set(t, [target[t] EXCEPT !.pc = "done"])
  /\ UNCHANGED <<uvars, impact, changes>>

(* A statement raises, or the impact column, which the driver returns as   *)
(* text, is no record: the caller gets an exception and no bundle.         *)
TargetRaises(t) ==
  /\ target[t].pc \in {"start", "chosen"}
  /\ Set(t, [Fresh EXCEPT !.pc = "failed"])
  /\ UNCHANGED <<uvars, impact, changes>>

(* get_latest_asset_impacts: the first of the stories of at least L2 is    *)
(* chosen in one block and read again in the next.                         *)
Qualifying == {c \in Story : impact[c] # "L0"}
ChooseLatest(t) ==
  /\ At(t, "start")
  /\ \/ Qualifying = {} /\ Set(t, [target[t] EXCEPT !.pc = "done"])
     \/ \E c \in Qualifying : Set(t, [target[t] EXCEPT !.pc = "chosen", !.story = c])
  /\ UNCHANGED <<uvars, impact, changes>>

ReadLatest(t) ==
  /\ At(t, "chosen")
  /\ \E U \in SUBSET UniverseId \ {{}} : Set(t, ReadStory(t, target[t].story, U))
  /\ UNCHANGED <<uvars, impact, changes>>

(* The tickers of the universes: a row per membership, in symbol order,    *)
(* up to a limit.                                                          *)
TickerRows(U) ==
  LET found == SetToSortSeq({r \in rows : r[1] = "member" /\ r[2] \in U}, UpTo)
  IN  Slice(found, 0, LimitTickers)

FilterToWhitelist(tickers, valid) == tickers \cap valid

Settle(t, tickers) ==
  Set(t, [Fresh EXCEPT !.pc = "done", !.universes = target[t].universes,
                       !.tickers = FilterToWhitelist(tickers, target[t].valid)])

(* The model is given the tickers and answers with some of them, with      *)
(* others, or not at all.                                                  *)
AskModel(t) ==
  /\ At(t, "model")
  /\ \/ \E T \in SUBSET (Symbol \cup Invented) : Settle(t, T)
     \/ Set(t, [target[t] EXCEPT !.pc = "rules"])
  /\ UNCHANGED <<uvars, impact, changes>>

(* The rules: the first half of the limit, all winners or all losers by    *)
(* the direction read in the first block; no ticker when the query raises. *)
ApplyRules(t) ==
  /\ At(t, "rules")
  /\ LET first == TickerRows(target[t].universes)
         half == {first[i][3] : i \in DOMAIN first \cap 1..(LimitTickers \div 2)}
     IN \E found \in {half, {}} :
          Settle(t, IF target[t].impact = "Up" THEN found ELSE {})
  /\ UNCHANGED <<uvars, impact, changes>>

TNext ==
  \/ \E c \in Story, i \in Impact : ChangeImpact(c, i)
  \/ \E t \in Target :
       \/ \E c \in Story : TargetStory(t, c)
       \/ MissStory(t) \/ TargetRaises(t)
       \/ ChooseLatest(t) \/ ReadLatest(t) \/ AskModel(t) \/ ApplyRules(t)

Next == (UNext /\ UNCHANGED tvars) \/ TNext

Spec == Init /\ [][Next]_vars
-----------------------------------------------------------------------------
TypeOK ==
  /\ UTypeOK
  /\ impact \in [Story -> Impact]
  /\ \A t \in Target : /\ target[t].pc \in {"start", "chosen", "model", "rules", "done", "failed"}
                       /\ target[t].tickers \subseteq Symbol
  /\ changes \in 0..MaxImpact

(* A ticker that targeting names is listed today as a constituent of a     *)
(* universe it was asked for, whatever the model invents and however a     *)
(* refresh interleaves: the whitelist, which does not look at the first    *)
(* day of a membership, and the listing, which does, agree.                *)
TickersAreConstituents ==
  \A t \in Target : At(t, "done") =>
    \A s \in target[t].tickers :
      \E u \in target[t].universes : s \in ConstituentsOf(u)
=============================================================================
