-------------------------------- MODULE StoryArchive --------------------------------
(***************************************************************************)
(* What the ingestion pipeline promises the readers of its tables, who     *)
(* never see its queues and workers: articles enter an archive as a whole, *)
(* stories gather articles of the archive and are found by one of their    *)
(* own, events are reported of stories that can be found, and nothing that *)
(* was published is taken back.  Workers that crash or write to the same   *)
(* story do not show.                                                      *)
(***************************************************************************)
CONSTANTS Article, Story, Day, Nobody

VARIABLES
  archive,      \* articles that are complete: stored, summarized and embedded
  story,        \* the articles of each story
  face,         \* the article a story is found by
  timeline      \* events, <<story, day>>

vars == <<archive, story, face, timeline>>

TypeOK ==
  /\ archive \subseteq Article
  /\ story \in [Story -> SUBSET Article]
  /\ face \in [Story -> Article \cup {Nobody}]
  /\ timeline \subseteq Story \X Day

Init ==
  /\ archive = {}
  /\ story = [s \in Story |-> {}]
  /\ face = [s \in Story |-> Nobody]
  /\ timeline = {}

Complete(a) ==
  /\ archive' = archive \cup {a}
  /\ UNCHANGED <<story, face, timeline>>

Join(s, a) ==
  /\ a \in archive
  /\ story' = [story EXCEPT ![s] = @ \cup {a}]
  /\ UNCHANGED <<archive, face, timeline>>

FindBy(s, a) ==
  /\ a \in story[s]
  /\ face' = [face EXCEPT ![s] = a]
  /\ UNCHANGED <<archive, story, timeline>>

Report(s, d) ==
  /\ face[s] # Nobody
  /\ timeline' = timeline \cup {<<s, d>>}
  /\ UNCHANGED <<archive, story, face>>

Next ==
  \/ \E a \in Article : Complete(a)
  \/ \E s \in Story, a \in Article : Join(s, a) \/ FindBy(s, a)
  \/ \E s \in Story, d \in Day : Report(s, d)

Spec == Init /\ [][Next]_vars
=============================================================================
