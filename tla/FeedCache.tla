----------------------------- MODULE FeedCache ------------------------------
(***************************************************************************)
(* The feed as a user reads it: getAggregatedFeed answers from an entry of *)
(* Redis that it builds when there is none, and takes out what the user    *)
(* has hidden only after that.  Whoever unlists an item writes its row     *)
(* first and, most of them, drops all entries then; a flagged, locked or   *)
(* expired item, a block and a lost follower drop none, and their entries  *)
(* go when they expire.  RedisService does nothing while Redis is out of   *)
(* reach.                                                                  *)
(*                                                                         *)
(* An entry is the set of items it lists.  Left out: the filters and the   *)
(* order that depend on what does not change (scope, company, tags, sort,  *)
(* trending), pages, ranking, likes of the reader, names, and the likes,   *)
(* comments and edits that drop all entries and list or unlist nothing.    *)
(***************************************************************************)
EXTENDS Handlers, Integers, FiniteSets

CONSTANTS
  Users,
  Viewers,      \* the users whose feeds are looked at
  Items,        \* ids of posts, topics and nooks
  TypeOf,       \* [Items -> Types]
  OwnerOf,      \* [Items -> Users]
  MaxItems,     \* bound: rows
  MaxFailures,  \* bound: reads that fail
  MaxChanges    \* bound: what users, moderators and the connection change

VARIABLES
  feedRows,     \* feed_posts, forum_topics, nooks: [Items -> None or a row]
  putAway,      \* user_hidden_content
  blocks,       \* user_blocks
  follows,      \* user_follows
  entries,      \* 'feeds:v2:...': [Keys -> None or a set of items]
  redisUp,      \* connected
  vcalls,       \* [Calls -> None or the handler in progress]
  failures,     \* reads that failed
  changes,      \* changes there were
  unannounced,  \* history: items unlisted by one who drops no entry
  clearsApart   \* history: no clear met a feed being built, or was lost

cacheVars == <<feedRows, putAway, blocks, follows, entries, redisUp, vcalls, failures,
               changes, unannounced, clearsApart>>

tables     == <<feedRows, putAway, blocks, follows>>
cacheMarks == <<failures, changes, unannounced, clearsApart>>

Types   == {"post", "topic", "nook"}
Filters == {"all", "following"}
Keys    == Viewers \X Filters

FeedRow == [is_hidden : BOOLEAN, gone : BOOLEAN, is_locked : BOOLEAN]

(* What a handler remembers: who reads a feed, who drops entries, who      *)
(* blocks.                                                                 *)
ReadingCall ==
  [at : {"following", "fetch", "blocked", "blockers", "store", "hidden", "answer"},
   key : Keys, items : SUBSET Items, authors : SUBSET Users, away : SUBSET Items,
   blind : BOOLEAN]

ClearingCall == [at : {"scan", "delete"}, about : Items, keys : SUBSET Keys]

SeveringCall == [at : {"sever"}, pair : Users \X Users]

FeedCall == ReadingCall \cup ClearingCall \cup SeveringCall

ASSUME FeedCacheAssumption ==
  /\ Viewers \subseteq Users
  /\ TypeOf \in [Items -> Types]
  /\ OwnerOf \in [Items -> Users]
  /\ \A items \in SUBSET Items : items # None
  /\ None \notin FeedRow \cup FeedCall
  /\ {MaxItems, MaxFailures, MaxChanges} \subseteq Nat

NewRow == [is_hidden |-> FALSE, gone |-> FALSE, is_locked |-> FALSE]

FeedCacheInit ==
  /\ \E some \in SUBSET Items :
       /\ Cardinality(some) <= MaxItems
       /\ feedRows = [i \in Items |-> IF i \in some THEN NewRow ELSE None]
  /\ putAway = {} /\ blocks = {}
  /\ follows \in SUBSET {p \in Viewers \X Users : p[1] # p[2]}
  /\ entries = [k \in Keys |-> None]
  /\ redisUp = TRUE
  /\ vcalls = [c \in Calls |-> None]
  /\ failures = 0
  /\ changes = 0
  /\ unannounced = {}
  /\ clearsApart = TRUE

(* What the queries for the feed ask of a row.                             *)
PostListed(row)  == ~row.gone /\ ~row.is_hidden
TopicListed(row) == ~row.is_locked /\ ~row.is_hidden /\ ~row.gone
NookListed(row)  == ~row.gone /\ ~row.is_hidden

OnView(i) ==
  /\ feedRows[i] # None
  /\ TypeOf[i] = "post"  => PostListed(feedRows[i])
  /\ TypeOf[i] = "topic" => TopicListed(feedRows[i])
  /\ TypeOf[i] = "nook"  => NookListed(feedRows[i])

Followed(u) == {v \in Users : <<u, v>> \in follows}

VStarts(c, call) == vcalls[c] = None /\ vcalls' = [vcalls EXCEPT ![c] = call]
VBecomes(c, call) == vcalls' = [vcalls EXCEPT ![c] = call]
VEnds(c)          == vcalls' = [vcalls EXCEPT ![c] = None]

(* The answer to a read: data, or an error nobody looks at.                *)
Answered(ok) ==
  /\ ok \/ failures < MaxFailures
  /\ failures' = IF ok THEN failures ELSE failures + 1
  /\ UNCHANGED <<changes, unannounced, clearsApart>>

Changing == changes < MaxChanges /\ changes' = changes + 1

----------------------------------------------------------------------------
(* getAggregatedFeed                                                       *)

Viewing(at, k, items) ==
  [at |-> at, key |-> k, items |-> items, authors |-> Users \ {k[1]},
   away |-> {i \in Items : <<k[1], i>> \in putAway}, blind |-> FALSE]

OpenFeedHitAnswers(c, k) ==
  /\ VStarts(c, IF redisUp /\ entries[k] # None THEN Viewing("answer", k, entries[k])
                ELSE Viewing(IF k[2] = "following" THEN "following" ELSE "fetch", k, {}))
  /\ UNCHANGED <<tables, entries, redisUp, cacheMarks>>

OpenFeed(c, k) ==
  /\ VStarts(c, IF redisUp /\ entries[k] # None THEN Viewing("hidden", k, entries[k])
                ELSE Viewing(IF k[2] = "following" THEN "following" ELSE "fetch", k, {}))
  /\ UNCHANGED <<tables, entries, redisUp, cacheMarks>>

(* Whoever follows nobody, or cannot be told whom, is answered at once.    *)
ReadFollows(c, ok) ==
  /\ Waits(vcalls[c], "following")
  /\ Answered(ok)
  /\ LET u == vcalls[c].key[1]
     IN IF ok /\ Followed(u) # {}
        THEN VBecomes(c, [vcalls[c] EXCEPT !.at = "fetch", !.authors = Followed(u) \ {u}])
        ELSE VEnds(c)
  /\ UNCHANGED <<tables, entries, redisUp>>

FetchedEvenHidden(call, types) ==
  {i \in Items : /\ TypeOf[i] \in types /\ OwnerOf[i] \in call.authors
                 /\ feedRows[i] # None /\ ~feedRows[i].gone /\ ~feedRows[i].is_locked}

Fetched(call, types) ==
  {i \in Items : TypeOf[i] \in types /\ OwnerOf[i] \in call.authors /\ OnView(i)}

(* getFeedPosts, getForumTopics and getNookMessages run side by side; none *)
(* looks at what another returns, so that one step stands for the three.   *)
(* A kind whose query fails is left out.                                   *)
FetchItems(c, types) ==
  /\ Waits(vcalls[c], "fetch")
  /\ Answered(types = Types)
  /\ VBecomes(c, [vcalls[c] EXCEPT !.at = "blocked", !.items = Fetched(vcalls[c], types)])
  /\ UNCHANGED <<tables, entries, redisUp>>

(* getBlockedUserIds: whom the user has blocked, then who blocked him.     *)
DropBlocked(c, at, next, ids, ok) ==
  /\ Waits(vcalls[c], at)
  /\ Answered(ok)
  /\ VBecomes(c, [vcalls[c] EXCEPT
                    !.at = next,
                    !.items = IF ok THEN {i \in @ : OwnerOf[i] \notin ids} ELSE @])
  /\ UNCHANGED <<tables, entries, redisUp>>

BlockedBy(u) == {v \in Users : <<u, v>> \in blocks}
Blockers(u)  == {v \in Users : <<v, u>> \in blocks}

ReadBlocked(c, ok)  == /\ vcalls[c] # None
                       /\ DropBlocked(c, "blocked", "blockers", BlockedBy(vcalls[c].key[1]), ok)
ReadBlockers(c, ok) == /\ vcalls[c] # None
                       /\ DropBlocked(c, "blockers", "store", Blockers(vcalls[c].key[1]), ok)

StoreFeed(c) ==
  /\ Waits(vcalls[c], "store")
  /\ entries' = IF redisUp THEN [entries EXCEPT ![vcalls[c].key] = vcalls[c].items] ELSE entries
  /\ VBecomes(c, [vcalls[c] EXCEPT !.at = "hidden"])
  /\ UNCHANGED <<tables, redisUp, cacheMarks>>

(* getHiddenContentIds, side by side too: of a kind for which it fails     *)
(* nothing is taken out.                                                   *)
DropHidden(c, types) ==
  /\ Waits(vcalls[c], "hidden")
  /\ Answered(types = Types)
  /\ LET u == vcalls[c].key[1]
     IN VBecomes(c, [vcalls[c] EXCEPT
                       !.at = "answer",
                       !.items = {i \in @ : TypeOf[i] \notin types \/ <<u, i>> \notin putAway},
                       !.blind = types # Types])
  /\ UNCHANGED <<tables, entries, redisUp>>

AnswerFeed(c) ==
  /\ Waits(vcalls[c], "answer")
  /\ VEnds(c)
  /\ UNCHANGED <<tables, entries, redisUp, cacheMarks>>

----------------------------------------------------------------------------
(* Who lists and unlists items, and drops the entries then                 *)

Builds(c, i) ==
  /\ vcalls[c] # None
  /\ vcalls[c].at \in {"fetch", "blocked", "blockers", "store"}
  /\ i \in vcalls[c].items

(* The row is written, the entries are to be dropped.                      *)
WriteThenClear(c, i, row) ==
  /\ Changing
  /\ VStarts(c, [at |-> "scan", about |-> i, keys |-> {}])
  /\ feedRows' = [feedRows EXCEPT ![i] = row]
  /\ clearsApart' = (clearsApart /\ \A d \in Calls : ~Builds(d, i))
  /\ UNCHANGED <<putAway, blocks, follows, entries, redisUp, failures, unannounced>>

Quietly(i, row) ==
  /\ Changing
  /\ feedRows' = [feedRows EXCEPT ![i] = row]
  /\ UNCHANGED <<putAway, blocks, follows, entries, redisUp, vcalls, failures, clearsApart>>

(* Only a new post drops the entries; a new topic or nook does not.        *)
PostItem(c, i) ==
  /\ feedRows[i] = None
  /\ Cardinality(RowIds(feedRows)) < MaxItems
  /\ IF TypeOf[i] = "post" THEN WriteThenClear(c, i, NewRow)
     ELSE Quietly(i, NewRow) /\ UNCHANGED unannounced

(* The worker, a moderator, an administrator.                              *)
HideItem(c, i) ==
  /\ feedRows[i] # None
  /\ WriteThenClear(c, i, [feedRows[i] EXCEPT !.is_hidden = TRUE])

RestoreItem(c, i) ==
  /\ feedRows[i] # None
  /\ WriteThenClear(c, i, [feedRows[i] EXCEPT !.is_hidden = FALSE])

RemoveItemNoClear(c, i) ==
  /\ feedRows[i] # None
  /\ ~feedRows[i].gone
  /\ Quietly(i, [feedRows[i] EXCEPT !.gone = TRUE]) /\ UNCHANGED unannounced

(* The author deletes his post or topic, or closes his nook.               *)
RemoveItem(c, i) ==
  /\ feedRows[i] # None
  /\ ~feedRows[i].gone
  /\ WriteThenClear(c, i, [feedRows[i] EXCEPT !.gone = TRUE])

(* delPattern looks the keys up, and then deletes them.                    *)
ScanKeys(c) ==
  /\ Waits(vcalls[c], "scan")
  /\ IF redisUp
     THEN /\ VBecomes(c, [vcalls[c] EXCEPT !.at = "delete", !.keys = RowIds(entries)])
          /\ UNCHANGED clearsApart
     ELSE VEnds(c) /\ clearsApart' = FALSE
  /\ UNCHANGED <<tables, entries, redisUp, failures, changes, unannounced>>

DeleteKeys(c) ==
  /\ Waits(vcalls[c], "delete")
  /\ IF redisUp
     THEN /\ entries' = [k \in Keys |-> IF k \in vcalls[c].keys THEN None ELSE entries[k]]
          /\ UNCHANGED clearsApart
     ELSE UNCHANGED entries /\ clearsApart' = FALSE
  /\ VEnds(c)
  /\ UNCHANGED <<tables, redisUp, failures, changes, unannounced>>

----------------------------------------------------------------------------
(* Who unlists an item, or changes what a user reads, and drops no entry   *)

(* autoHideContent, when enough users have flagged.                        *)
FlagHideItem(i) ==
  /\ feedRows[i] # None
  /\ Quietly(i, [feedRows[i] EXCEPT !.is_hidden = TRUE])
  /\ unannounced' = unannounced \cup {i}

LockTopic(i, is_locked) ==
  /\ feedRows[i] # None
  /\ TypeOf[i] = "topic"
  /\ Quietly(i, [feedRows[i] EXCEPT !.is_locked = is_locked])
  /\ unannounced' = unannounced \cup {i}

(* An administrator edits a nook.                                          *)
UpdateNook(i, is_hidden) ==
  /\ feedRows[i] # None
  /\ TypeOf[i] = "nook"
  /\ Quietly(i, [feedRows[i] EXCEPT !.is_hidden = is_hidden])
  /\ unannounced' = unannounced \cup {i}

(* The time of a nook is over.                                             *)
NookExpires(i) ==
  /\ feedRows[i] # None
  /\ TypeOf[i] = "nook"
  /\ Quietly(i, [feedRows[i] EXCEPT !.gone = TRUE])
  /\ unannounced' = unannounced \cup {i}

HideContent(u, i) ==
  /\ feedRows[i] # None
  /\ Changing
  /\ putAway' = putAway \cup {<<u, i>>}
  /\ UNCHANGED <<feedRows, blocks, follows, entries, redisUp, vcalls, failures, unannounced,
                 clearsApart>>

(* A block ends what follows there are, in a statement of its own.         *)
BlockUser(c, u, v) ==
  /\ Changing
  /\ u # v
  /\ <<u, v>> \notin blocks
  /\ VStarts(c, [at |-> "sever", pair |-> <<u, v>>])
  /\ blocks' = blocks \cup {<<u, v>>}
  /\ UNCHANGED <<feedRows, putAway, follows, entries, redisUp, failures, unannounced,
                 clearsApart>>

SeverFollows(c) ==
  /\ Waits(vcalls[c], "sever")
  /\ LET p == vcalls[c].pair IN follows' = follows \ {p, <<p[2], p[1]>>}
  /\ VEnds(c)
  /\ UNCHANGED <<feedRows, putAway, blocks, entries, redisUp, cacheMarks>>

UnblockUser(u, v) ==
  /\ Changing
  /\ <<u, v>> \in blocks
  /\ blocks' = blocks \ {<<u, v>>}
  /\ UNCHANGED <<feedRows, putAway, follows, entries, redisUp, vcalls, failures, unannounced,
                 clearsApart>>

(* Nobody looks at the blocks here.                                        *)
FollowUser(u, v) ==
  /\ Changing
  /\ u # v
  /\ follows' = follows \cup {<<u, v>>}
  /\ UNCHANGED <<feedRows, putAway, blocks, entries, redisUp, vcalls, failures, unannounced,
                 clearsApart>>

UnfollowUser(u, v) ==
  /\ Changing
  /\ follows' = follows \ {<<u, v>>}
  /\ UNCHANGED <<feedRows, putAway, blocks, entries, redisUp, vcalls, failures, unannounced,
                 clearsApart>>

----------------------------------------------------------------------------
(* Redis, and processes that die                                           *)

ExpireEntry(k) ==
  /\ entries[k] # None
  /\ entries' = [entries EXCEPT ![k] = None]
  /\ UNCHANGED <<tables, redisUp, vcalls, cacheMarks>>

RedisConnection(up) ==
  /\ Changing
  /\ redisUp # up
  /\ redisUp' = up
  /\ UNCHANGED <<tables, entries, vcalls, failures, unannounced,
                 clearsApart>>

FeedCacheAbort(c) ==
  /\ vcalls[c] # None
  /\ VEnds(c)
  /\ clearsApart' = (clearsApart /\ vcalls[c].at \notin {"scan", "delete"})
  /\ UNCHANGED <<tables, entries, redisUp, failures, changes, unannounced>>

ViewerStep(c) ==
  \/ \E ok \in BOOLEAN : ReadFollows(c, ok) \/ ReadBlocked(c, ok) \/ ReadBlockers(c, ok)
  \/ \E types \in SUBSET Types : FetchItems(c, types) \/ DropHidden(c, types)
  \/ StoreFeed(c)
  \/ AnswerFeed(c)

WriterStep(c) == ScanKeys(c) \/ DeleteKeys(c) \/ SeverFollows(c)

FeedCacheStarts(c) ==
  \/ \E k \in Keys : OpenFeed(c, k)
  \/ \E i \in Items : PostItem(c, i) \/ HideItem(c, i) \/ RestoreItem(c, i) \/ RemoveItem(c, i)
  \/ \E u, v \in Users : BlockUser(c, u, v)

OneStatement ==
  \/ \E i \in Items : \/ FlagHideItem(i) \/ NookExpires(i)
                      \/ \E b \in BOOLEAN : LockTopic(i, b) \/ UpdateNook(i, b)
                      \/ \E u \in Viewers : HideContent(u, i)
  \/ \E u \in Viewers, v \in Users : FollowUser(u, v) \/ UnfollowUser(u, v)
  \/ \E u, v \in Users : UnblockUser(u, v)

FeedCacheNext ==
  \/ \E c \in Calls : ViewerStep(c) \/ WriterStep(c) \/ FeedCacheAbort(c) \/ FeedCacheStarts(c)
  \/ OneStatement
  \/ \E k \in Keys : ExpireEntry(k)
  \/ \E up \in BOOLEAN : RedisConnection(up)

FeedCacheSpec == FeedCacheInit /\ [][FeedCacheNext]_cacheVars

(* A call goes on until it ends, and Redis lets entries expire.            *)
FeedCacheFairness ==
  /\ \A c \in Calls : WF_cacheVars(ViewerStep(c))
  /\ \A k \in Keys : WF_cacheVars(ExpireEntry(k))

----------------------------------------------------------------------------
(* An answer given leaves out what the user had hidden when he asked: the  *)
(* entry may be as old as it likes, unless a read of what he hides failed. *)
HidesTakeEffect ==
  \A c \in RowIds(vcalls) :
    vcalls[c].at = "answer" /\ ~vcalls[c].blind => vcalls[c].items \cap vcalls[c].away = {}

(* What a moderator has hidden or its author removed is in no entry, once  *)
(* the one who did so has dropped the entries, and is in none that is      *)
(* stored later: unless a feed was being built from it at that moment (it  *)
(* is stored afterwards), Redis was out of reach, or it was flagged away,  *)
(* locked or expired before, which drops nothing.                          *)
ClearedFeedsAreFresh ==
  clearsApart =>
    \A k \in RowIds(entries) : \A i \in entries[k] \ unannounced :
      \/ OnView(i)
      \/ \E c \in RowIds(vcalls) :
           \/ vcalls[c].at = "scan" /\ vcalls[c].about = i
           \/ vcalls[c].at = "delete" /\ vcalls[c].about = i /\ k \in vcalls[c].keys

(* What user u is to find in his feed.                                     *)
Belongs(k, i) ==
  LET u == k[1]
      v == OwnerOf[i]
  IN /\ OnView(i)
     /\ u # v
     /\ <<u, v>> \notin blocks /\ <<v, u>> \notin blocks
     /\ k[2] = "following" => <<u, v>> \in follows

Kept(k, i) ==
  \/ entries[k] # None /\ i \in entries[k]
  \/ \E c \in RowIds(vcalls) : /\ vcalls[c].at \in {"store", "hidden", "answer"}
                              /\ vcalls[c].key = k /\ i \in vcalls[c].items

(* What is hidden, removed, flagged away, locked, expired, blocked or      *)
(* followed no more, and stays so, leaves every feed for good in the end,  *)
(* whatever feeds were being built then and whether or not anybody drops   *)
(* an entry, as long as reads do not fail for ever.                        *)
FeedsCatchUp == \A k \in Keys, i \in Items : <>[]~Belongs(k, i) => <>[]~Kept(k, i)
=============================================================================
