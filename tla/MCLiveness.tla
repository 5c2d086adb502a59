----------------------------- MODULE MCLiveness -----------------------------
(* What must happen in the end: in moderation, and in the feed.  One of    *)
(* the two runs, the other stays in its initial state, in which none of    *)
(* its fair actions is enabled.                                            *)
EXTENDS MCEditorialModeration, FeedCache

CONSTANTS k1, k2, ann, ben

VARIABLE focus

AllNooks == [i \in Items |-> "nook"]
AllBens  == [i \in Items |-> ben]

LivenessInit ==
  /\ focus \in {"moderation", "feeds"}
  /\ Init
  /\ FeedCacheInit
  /\ IF focus = "feeds" THEN RowIds(feedRows) = Items
     ELSE RowIds(feedRows) = {} /\ follows = {}

LivenessNext ==
  \/ focus = "moderation" /\ Next /\ UNCHANGED <<focus, cacheVars>>
  \/ focus = "feeds" /\ FeedCacheNext /\ UNCHANGED <<focus, vars>>

LivenessSpec ==
  /\ LivenessInit
  /\ [][LivenessNext]_<<focus, vars, cacheVars>>
  /\ Fairness
  /\ FeedCacheFairness

(* One of the two calls builds a feed, the other changes something; one    *)
(* feed has an entry at a time, a failed read takes the place of a change, *)
(* and nobody hides an item for himself, which no entry is about.          *)
FewFeeds ==
  /\ \E c \in Calls : vcalls[c] = None \/ "key" \notin DOMAIN vcalls[c]
  /\ \E k \in Keys : entries[k] = None
  /\ failures + changes <= MaxChanges
  /\ putAway = {}
=============================================================================
