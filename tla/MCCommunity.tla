---------------------------- MODULE MCCommunity -----------------------------
(* The components in which users meet, each run on its own: nooks, the     *)
(* feed and its entries in Redis, forums, referrals, reports and chat.     *)
(* The component that runs is chosen at the start; the others stay in      *)
(* their initial state.                                                    *)
EXTENDS Nooks, Engagement, Forums, Referrals, Reports, Chat, FeedCache, TLC

CONSTANTS k1, k2, u1, u2, v1, v2, n1, p1, f1, t1, a1, x1, x2, m1, m2, m3

VARIABLE focus

Places == {"nooks", "feed", "forums", "referrals", "reports", "chat", "cache"}

CommunityInit ==
  /\ focus \in Places
  /\ NooksInit /\ FeedInit /\ ForumsInit /\ ReferralsInit /\ ReportsInit /\ ChatInit
  /\ FeedCacheInit
  /\ focus # "chat" => ccalls = [c \in Calls |-> None]
  /\ focus # "cache" => follows = {} /\ RowIds(feedRows) = {}

(* The components other than one stay as they are.                         *)
Rest(place) ==
  /\ UNCHANGED focus
  /\ IF place = "nooks" THEN TRUE ELSE UNCHANGED nookVars
  /\ IF place = "feed" THEN TRUE ELSE UNCHANGED feedVars
  /\ IF place = "forums" THEN TRUE ELSE UNCHANGED forumVars
  /\ IF place = "referrals" THEN TRUE ELSE UNCHANGED referralVars
  /\ IF place = "reports" THEN TRUE ELSE UNCHANGED reportVars
  /\ IF place = "chat" THEN TRUE ELSE UNCHANGED chatVars
  /\ IF place = "cache" THEN TRUE ELSE UNCHANGED cacheVars

CommunityNext ==
  \/ focus = "nooks" /\ NooksNext /\ Rest("nooks")
  \/ focus = "feed" /\ FeedNext /\ Rest("feed")
  \/ focus = "forums" /\ ForumsNext /\ Rest("forums")
  \/ focus = "referrals" /\ ReferralsNext /\ Rest("referrals")
  \/ focus = "reports" /\ ReportsNext /\ Rest("reports")
  \/ focus = "chat" /\ ChatNext /\ Rest("chat")
  \/ focus = "cache" /\ FeedCacheNext /\ Rest("cache")

communityVars == <<focus, nookVars, feedVars, forumVars, referralVars, reportVars, chatVars,
                   cacheVars>>

(* A post and a topic, of one owner.                                       *)
KindOf == [i \in Items |-> IF i = p1 THEN "post" ELSE "topic"]
AllV2s == [i \in Items |-> v2]

CommunitySpec == CommunityInit /\ [][CommunityNext]_communityVars

Symmetry == Permutations({k1, k2}) \cup Permutations({u1, u2}) \cup Permutations({m1, m2, m3})

----------------------------------------------------------------------------
(* What the run leaves out of the states it could visit.  What a property  *)
(* excuses is not followed any further.                                    *)

(* A nook that is locked or closed has no messages; the more rows, the     *)
(* fewer kinds of them at once, and two calls overlap on few.              *)
FewInNooks ==
  LET rows  == Cardinality(RowIds(messages))
      other == Cardinality(hearts) + Cardinality(memberships)
  IN /\ nooksApart
     /\ \A n \in RowIds(nooks) :
          /\ nooks[n].members_count <= 1
          /\ nooks[n].locked \/ nooks[n].phase # "open" => rows = 0
     /\ Cardinality(RowIds(ncalls)) = 2 => rows + other <= 1
     /\ rows = 2 => other <= 1
     /\ rows = 3 => other = 0 /\ \A c \in RowIds(ncalls) : ncalls[c].about # "hearts"

(* An archived post is left alone.                                         *)
FewInFeed ==
  LET rows == Cardinality(RowIds(comments)) + Cardinality(engaged)
      busy == Cardinality(RowIds(fcalls))
  IN /\ postsApart
     /\ rows + busy <= 4
     /\ busy = 2 => rows <= 1
     /\ \A p \in RowIds(posts) : posts[p].is_archived => busy = 0

(* A deleted topic is left alone; calls on one and the same row overlap.   *)
FewInForums ==
  LET rows == Cardinality(RowIds(replies)) + Cardinality(reactions) + Cardinality(forumMembers)
      busy == Cardinality(RowIds(ocalls))
  IN /\ forumsExact
     /\ rows <= 3
     /\ busy = 2 => rows <= 1 /\ \A c \in RowIds(ocalls) : ocalls[c].key # None
     /\ \A t \in RowIds(topics) : topics[t].is_deleted => busy = 0

(* Two updates overlap when both are about the status of the report.       *)
FewReports ==
  /\ eventsKept
  /\ Cardinality(held) <= 2
  /\ Cardinality(timeline) <= 2
  /\ Cardinality(RowIds(rcalls)) = 2 => report.about = None
  /\ \A c \in RowIds(rcalls) :
       rcalls[c].about # Unset \/ rcalls[c].assigned # Unset => RowIds(rcalls) = {c} /\ held = {}

(* Messages are looked at before anything else happens; of two calls one   *)
(* has sent the only message there is, and one user hides at a time.       *)
FewChats ==
  LET rows == Cardinality(RowIds(chat))
      busy == Cardinality(RowIds(ccalls))
  IN /\ sendsApart
     /\ \A m \in RowIds(chat) :
          chat[m].read \/ chat[m].delivered \/ chat[m].gone # {} =>
            clock = 1 /\ rows = 1 /\ busy = 0
     /\ busy = 2 => rows = 1 /\ clock < MaxTime /\ \E c \in RowIds(ccalls) : ccalls[c].message # None
     /\ rows = 2 => \A c \in RowIds(ccalls) : ccalls[c].at \in {"stamp", "touch"}
     /\ \E s \in Sides : HiddenAt(s) = 0

(* One of two calls builds a feed, the other changes something; one feed   *)
(* has an entry at a time, and a failed read takes the place of a change.  *)
FewInCache ==
  /\ clearsApart
  /\ \E c \in Calls : vcalls[c] = None \/ "key" \notin DOMAIN vcalls[c]
  /\ \E k \in Keys : entries[k] = None
  /\ failures + changes <= MaxChanges

Few ==
  /\ FewInNooks /\ FewInFeed /\ FewInForums /\ marksApart /\ FewReports /\ FewChats
  /\ FewInCache
=============================================================================
