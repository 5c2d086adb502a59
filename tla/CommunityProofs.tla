-------------------------- MODULE CommunityProofs ---------------------------
(***************************************************************************)
(* What holds of feeds and their posts, of reports, of chats, of referral  *)
(* posts and of forums for any users, items and handlers, whatever the     *)
(* bounds.                                                                 *)
(***************************************************************************)
EXTENDS FeedCache, Reports, Chat, Referrals, Forums, Engagement, FiniteSetTheorems, TLAPS

----------------------------------------------------------------------------
(* Feeds.  What a handler puts together of what is on view stays on view,  *)
(* or somebody who unlists it sees the handler and says so in clearsApart. *)

CacheTypeInv ==
  /\ feedRows \in [Items -> FeedRow \cup {None}]
  /\ putAway \subseteq Viewers \X Items
  /\ blocks \subseteq Users \X Users
  /\ follows \subseteq Users \X Users
  /\ entries \in [Keys -> (SUBSET Items) \cup {None}]
  /\ redisUp \in BOOLEAN
  /\ vcalls \in [Calls -> FeedCall \cup {None}]
  /\ failures \in 0..MaxFailures
  /\ changes \in 0..MaxChanges
  /\ unannounced \subseteq Items
  /\ clearsApart \in BOOLEAN

(* What the user had hidden when he asked is still hidden, and is not in   *)
(* an answer made with all that is known of it.                            *)
LeavesOut(call) ==
  call \in ReadingCall =>
    /\ \A i \in call.away : <<call.key[1], i>> \in putAway
    /\ call.at = "answer" /\ ~call.blind => call.items \cap call.away = {}

(* What is being put together is on view.                                  *)
BuiltOnView(call) ==
  clearsApart /\ call \in ReadingCall /\ call.at \in {"blocked", "blockers", "store"} =>
    \A i \in call.items \ unannounced : OnView(i)

(* A handler is about to drop the entry of key k, because of item i.       *)
Drops(call, k, i) ==
  /\ call \in ClearingCall
  /\ call.about = i
  /\ call.at = "delete" => k \in call.keys

Dropped(k, i) == \E c \in Calls : Drops(vcalls[c], k, i)

StoredOnView ==
  clearsApart =>
    \A k \in RowIds(entries) : \A i \in entries[k] \ unannounced : OnView(i) \/ Dropped(k, i)

CacheInv ==
  /\ CacheTypeInv
  /\ \A c \in Calls : LeavesOut(vcalls[c]) /\ BuiltOnView(vcalls[c])
  /\ StoredOnView

(* The field at tells what a handler is for.                               *)
LEMMA CallKinds ==
  ASSUME NEW call \in FeedCall \cup {None}, call # None
  PROVE  /\ call.at \in {"following", "fetch", "blocked", "blockers", "store", "hidden", "answer"}
              => call \in ReadingCall
         /\ call.at \in {"scan", "delete"} => call \in ClearingCall
         /\ call.at = "sever" => call \in SeveringCall
BY DEF FeedCall, ReadingCall, ClearingCall, SeveringCall

LEMMA KindsApart ==
  /\ \A call \in ClearingCall : call \notin ReadingCall /\ call \notin SeveringCall
  /\ \A call \in ReadingCall : call \notin SeveringCall
  /\ None \notin ReadingCall \cup ClearingCall \cup SeveringCall
<1>1. \A call \in ClearingCall : call.at \in {"scan", "delete"}
  BY DEF ClearingCall
<1>2. \A call \in SeveringCall : call.at = "sever"
  BY DEF SeveringCall
<1>3. \A call \in ReadingCall : call.at \notin {"scan", "delete", "sever"}
  BY DEF ReadingCall
<1> QED
  BY <1>1, <1>2, <1>3, FeedCacheAssumption DEF FeedCall

LEMMA CacheInitOK == FeedCacheInit => CacheInv
<1> SUFFICES ASSUME FeedCacheInit PROVE CacheInv
  OBVIOUS
<1>1. CacheTypeInv
  <2>1. feedRows \in [Items -> FeedRow \cup {None}]
    BY DEF FeedCacheInit, FeedRow, NewRow
  <2>2. follows \subseteq Users \X Users
    BY FeedCacheAssumption DEF FeedCacheInit
  <2>3. clearsApart \in BOOLEAN /\ redisUp \in BOOLEAN
    BY Zenon DEF FeedCacheInit
  <2>4. failures \in 0..MaxFailures /\ changes \in 0..MaxChanges
    BY FeedCacheAssumption DEF FeedCacheInit
  <2>5. putAway = {} /\ blocks = {} /\ unannounced = {}
    BY DEF FeedCacheInit
  <2>6. entries \in [Keys -> (SUBSET Items) \cup {None}] /\ vcalls \in [Calls -> FeedCall \cup {None}]
    BY DEF FeedCacheInit
  <2> QED
    BY <2>1, <2>2, <2>3, <2>4, <2>5, <2>6 DEF CacheTypeInv
<1> QED
  BY <1>1, KindsApart DEF FeedCacheInit, CacheInv, LeavesOut, BuiltOnView, StoredOnView, RowIds

LEMMA SameView ==
  ASSUME UNCHANGED feedRows, NEW i
  PROVE  OnView(i)' <=> OnView(i)
BY DEF OnView, PostListed, TopicListed, NookListed

(* A handler that is not to drop anything takes a step of its own.         *)
LEMMA ReadingStep ==
  ASSUME CacheInv, NEW c \in Calls, NEW call \in FeedCall \cup {None},
         vcalls[c] \notin ClearingCall,
         vcalls' = [vcalls EXCEPT ![c] = call],
         LeavesOut(call), BuiltOnView(call),
         UNCHANGED <<feedRows, putAway, entries, redisUp, unannounced, clearsApart>>,
         blocks' \subseteq Users \X Users, follows' \subseteq Users \X Users,
         failures' \in 0..MaxFailures, changes' \in 0..MaxChanges
  PROVE  CacheInv'
<1>1. ASSUME NEW d \in Calls PROVE LeavesOut(vcalls[d])' /\ BuiltOnView(vcalls[d])'
  <2>1. vcalls'[d] = call \/ vcalls'[d] = vcalls[d]
    BY DEF CacheInv, CacheTypeInv
  <2>2. CASE vcalls'[d] = call
    BY <2>2, SameView DEF LeavesOut, BuiltOnView
  <2>3. CASE vcalls'[d] = vcalls[d]
    BY <2>3, SameView DEF CacheInv, LeavesOut, BuiltOnView
  <2> QED
    BY <2>1, <2>2, <2>3
<1>2. ASSUME NEW k, NEW i, Dropped(k, i) PROVE Dropped(k, i)'
  BY <1>2 DEF Dropped, Drops, CacheInv, CacheTypeInv
<1>3. StoredOnView'
  BY <1>2, SameView DEF StoredOnView, CacheInv
<1>4. CacheTypeInv'
  BY DEF CacheInv, CacheTypeInv
<1> QED
  BY <1>1, <1>3, <1>4 DEF CacheInv

LEMMA NoCall == LeavesOut(None) /\ BuiltOnView(None)
BY KindsApart DEF LeavesOut, BuiltOnView

LEMMA CountsBounded ==
  ASSUME CacheInv, NEW ok \in BOOLEAN, Answered(ok)
  PROVE  failures' \in 0..MaxFailures /\ changes' \in 0..MaxChanges
BY FeedCacheAssumption DEF Answered, CacheInv, CacheTypeInv

----------------------------------------------------------------------------

LEMMA OpenFeedOK ==
  ASSUME CacheInv, NEW c \in Calls, NEW k \in Keys, OpenFeed(c, k)
  PROVE  CacheInv'
<1>1. ASSUME NEW at \in {"hidden", "following", "fetch"}, NEW items \in SUBSET Items,
             vcalls' = [vcalls EXCEPT ![c] = Viewing(at, k, items)]
      PROVE  CacheInv'
  <2> DEFINE call == Viewing(at, k, items)
  <2>1. call \in ReadingCall
    BY DEF Viewing, ReadingCall
  <2>2. LeavesOut(call) /\ BuiltOnView(call)
    BY DEF Viewing, LeavesOut, BuiltOnView
  <2>3. vcalls[c] \notin ClearingCall
    BY KindsApart DEF OpenFeed, VStarts
  <2>4. vcalls' = [vcalls EXCEPT ![c] = call] /\ call \in FeedCall
    BY <1>1, <2>1 DEF FeedCall
  <2> HIDE DEF call
  <2> QED
    BY <2>2, <2>3, <2>4, ReadingStep
       DEF OpenFeed, tables, cacheMarks, CacheInv, CacheTypeInv
<1>2. CASE redisUp /\ entries[k] # None
  <2>1. entries[k] \in SUBSET Items
    BY <1>2 DEF CacheInv, CacheTypeInv
  <2>2. vcalls' = [vcalls EXCEPT ![c] = Viewing("hidden", k, entries[k])]
    BY <1>2 DEF OpenFeed, VStarts
  <2> QED
    BY <1>1, <2>1, <2>2
<1>3. CASE ~(redisUp /\ entries[k] # None)
  <2> DEFINE at == IF k[2] = "following" THEN "following" ELSE "fetch"
  <2>1. vcalls' = [vcalls EXCEPT ![c] = Viewing(at, k, {})]
    BY <1>3 DEF OpenFeed, VStarts
  <2>2. at \in {"hidden", "following", "fetch"} /\ {} \in SUBSET Items
    OBVIOUS
  <2> HIDE DEF at
  <2> QED
    BY <1>1, <2>1, <2>2
<1> QED
  BY <1>2, <1>3

(* A handler that reads goes on or ends.                                   *)
LEMMA AnsweredStep ==
  ASSUME CacheInv, NEW c \in Calls, NEW call \in ReadingCall \cup {None},
         NEW ok \in BOOLEAN, Answered(ok),
         vcalls[c] \in ReadingCall,
         vcalls' = [vcalls EXCEPT ![c] = call],
         LeavesOut(call), BuiltOnView(call),
         UNCHANGED <<tables, entries, redisUp>>
  PROVE  CacheInv'
<1>1. call \in FeedCall \cup {None}
  BY DEF FeedCall
<1>2. failures' \in 0..MaxFailures /\ changes' \in 0..MaxChanges
  BY CountsBounded
<1>3. UNCHANGED <<unannounced, clearsApart>>
  BY DEF Answered
<1> QED
  BY <1>1, <1>2, <1>3, KindsApart, ReadingStep DEF tables, CacheInv, CacheTypeInv

LEMMA ReadFollowsOK ==
  ASSUME CacheInv, NEW c \in Calls, NEW ok \in BOOLEAN, ReadFollows(c, ok)
  PROVE  CacheInv'
<1>1. vcalls[c] \in ReadingCall /\ LeavesOut(vcalls[c])
  BY CallKinds DEF ReadFollows, Waits, CacheInv, CacheTypeInv
<1> DEFINE u == vcalls[c].key[1]
           call == [vcalls[c] EXCEPT !.at = "fetch", !.authors = Followed(u) \ {u}]
<1>2. call \in ReadingCall
  BY <1>1 DEF ReadingCall, Followed
<1>3. LeavesOut(call) /\ BuiltOnView(call)
  BY <1>1 DEF ReadingCall, LeavesOut, BuiltOnView
<1>4. vcalls' = [vcalls EXCEPT ![c] = call] \/ vcalls' = [vcalls EXCEPT ![c] = None]
  BY DEF ReadFollows, VBecomes, VEnds
<1> HIDE DEF call
<1> QED
  BY <1>1, <1>2, <1>3, <1>4, NoCall, AnsweredStep DEF ReadFollows

LEMMA FetchItemsOK ==
  ASSUME CacheInv, NEW c \in Calls, NEW types \in SUBSET Types, FetchItems(c, types)
  PROVE  CacheInv'
<1>1. vcalls[c] \in ReadingCall /\ LeavesOut(vcalls[c])
  BY CallKinds DEF FetchItems, Waits, CacheInv, CacheTypeInv
<1> DEFINE call == [vcalls[c] EXCEPT !.at = "blocked", !.items = Fetched(vcalls[c], types)]
<1>2. call \in ReadingCall
  BY <1>1 DEF ReadingCall, Fetched
<1>3. LeavesOut(call) /\ BuiltOnView(call)
  BY <1>1 DEF ReadingCall, LeavesOut, BuiltOnView, Fetched
<1>4. vcalls' = [vcalls EXCEPT ![c] = call]
  BY DEF FetchItems, VBecomes
<1> HIDE DEF call
<1> QED
  BY <1>1, <1>2, <1>3, <1>4, AnsweredStep DEF FetchItems

LEMMA DropBlockedOK ==
  ASSUME CacheInv, NEW c \in Calls, NEW ok \in BOOLEAN,
         NEW at \in {"blocked", "blockers"}, NEW next \in {"blockers", "store"}, NEW ids,
         DropBlocked(c, at, next, ids, ok)
  PROVE  CacheInv'
<1>1. vcalls[c] \in ReadingCall /\ LeavesOut(vcalls[c]) /\ BuiltOnView(vcalls[c])
  BY CallKinds DEF DropBlocked, Waits, CacheInv, CacheTypeInv
<1> DEFINE call == [vcalls[c] EXCEPT
                      !.at = next,
                      !.items = IF ok THEN {i \in @ : OwnerOf[i] \notin ids} ELSE @]
<1>2. call \in ReadingCall
  BY <1>1 DEF ReadingCall
<1>3. LeavesOut(call) /\ BuiltOnView(call)
  BY <1>1 DEF ReadingCall, LeavesOut, BuiltOnView, DropBlocked, Waits
<1>4. vcalls' = [vcalls EXCEPT ![c] = call]
  BY DEF DropBlocked, VBecomes
<1> HIDE DEF call
<1> QED
  BY <1>1, <1>2, <1>3, <1>4, AnsweredStep DEF DropBlocked

LEMMA DropHiddenOK ==
  ASSUME CacheInv, NEW c \in Calls, NEW types \in SUBSET Types, DropHidden(c, types)
  PROVE  CacheInv'
<1>1. vcalls[c] \in ReadingCall /\ LeavesOut(vcalls[c])
  BY CallKinds DEF DropHidden, Waits, CacheInv, CacheTypeInv
<1> DEFINE u == vcalls[c].key[1]
           left == {i \in vcalls[c].items : TypeOf[i] \notin types \/ <<u, i>> \notin putAway}
           call == [vcalls[c] EXCEPT !.at = "answer", !.items = left, !.blind = types # Types]
<1>2. call \in ReadingCall
  BY <1>1 DEF ReadingCall
<1>3. types = Types => left \cap vcalls[c].away = {}
  <2> SUFFICES ASSUME types = Types, NEW i \in left, i \in vcalls[c].away PROVE FALSE
    OBVIOUS
  <2>1. <<u, i>> \in putAway /\ TypeOf[i] \in Types
    BY <1>1, FeedCacheAssumption DEF LeavesOut, ReadingCall
  <2> QED
    BY <2>1
<1>4. LeavesOut(call) /\ BuiltOnView(call)
  BY <1>1, <1>3 DEF ReadingCall, LeavesOut, BuiltOnView
<1>5. vcalls' = [vcalls EXCEPT ![c] = call]
  BY DEF DropHidden, VBecomes
<1> HIDE DEF call
<1> QED
  BY <1>1, <1>2, <1>4, <1>5, AnsweredStep DEF DropHidden

LEMMA StoreFeedOK ==
  ASSUME CacheInv, NEW c \in Calls, StoreFeed(c)
  PROVE  CacheInv'
<1>1. vcalls[c] \in ReadingCall /\ LeavesOut(vcalls[c]) /\ BuiltOnView(vcalls[c])
  BY CallKinds DEF StoreFeed, Waits, CacheInv, CacheTypeInv
<1> DEFINE call == [vcalls[c] EXCEPT !.at = "hidden"]
<1>2. call \in ReadingCall /\ LeavesOut(call) /\ BuiltOnView(call)
  BY <1>1 DEF ReadingCall, LeavesOut, BuiltOnView
<1>3. vcalls' = [vcalls EXCEPT ![c] = call] /\ UNCHANGED <<tables, redisUp, cacheMarks>>
  BY DEF StoreFeed, VBecomes
<1> HIDE DEF call
<1>4. CacheTypeInv'
  <2>1. entries' \in [Keys -> (SUBSET Items) \cup {None}]
    BY <1>1 DEF StoreFeed, ReadingCall, CacheInv, CacheTypeInv
  <2> QED
    BY <1>2, <1>3, <2>1 DEF tables, cacheMarks, FeedCall, CacheInv, CacheTypeInv
<1>5. ASSUME NEW d \in Calls PROVE LeavesOut(vcalls[d])' /\ BuiltOnView(vcalls[d])'
  <2>1. CASE d = c
    BY <1>2, <1>3, <2>1, SameView
       DEF tables, cacheMarks, CacheInv, CacheTypeInv, LeavesOut, BuiltOnView
  <2>2. CASE d # c
    BY <1>3, <2>2, SameView
       DEF tables, cacheMarks, CacheInv, CacheTypeInv, LeavesOut, BuiltOnView
  <2> QED
    BY <2>1, <2>2
<1>6. ASSUME NEW k, NEW i, Dropped(k, i) PROVE Dropped(k, i)'
  BY <1>1, <1>3, <1>6, KindsApart DEF Dropped, Drops, CacheInv, CacheTypeInv
<1>7. StoredOnView'
  <2> SUFFICES ASSUME clearsApart, NEW k \in RowIds(entries)', NEW i \in entries'[k] \ unannounced
               PROVE  OnView(i)' \/ Dropped(k, i)'
    BY <1>3 DEF StoredOnView, cacheMarks
  <2>1. OnView(i)' <=> OnView(i)
    BY <1>3, SameView DEF tables
  <2>2. CASE k \in RowIds(entries) /\ entries'[k] = entries[k]
    BY <1>6, <2>1, <2>2 DEF CacheInv, StoredOnView
  <2>3. CASE entries'[k] = vcalls[c].items
    BY <1>1, <2>1, <2>3 DEF StoreFeed, Waits, BuiltOnView
  <2> QED
    BY <2>2, <2>3 DEF StoreFeed, RowIds, CacheInv, CacheTypeInv
<1> QED
  BY <1>4, <1>5, <1>7 DEF CacheInv

LEMMA AnswerFeedOK ==
  ASSUME CacheInv, NEW c \in Calls, AnswerFeed(c)
  PROVE  CacheInv'
<1>1. vcalls[c] \in ReadingCall
  BY CallKinds DEF AnswerFeed, Waits, CacheInv, CacheTypeInv
<1> QED
  BY <1>1, KindsApart, NoCall, ReadingStep
     DEF AnswerFeed, VEnds, tables, cacheMarks, CacheInv, CacheTypeInv

LEMMA SeverFollowsOK ==
  ASSUME CacheInv, NEW c \in Calls, SeverFollows(c)
  PROVE  CacheInv'
<1>1. vcalls[c] \in SeveringCall
  BY CallKinds DEF SeverFollows, Waits, CacheInv, CacheTypeInv
<1>2. follows' \subseteq follows
  BY DEF SeverFollows
<1> QED
  BY <1>1, <1>2, KindsApart, NoCall, ReadingStep
     DEF SeverFollows, VEnds, cacheMarks, CacheInv, CacheTypeInv

LEMMA BlockUserOK ==
  ASSUME CacheInv, NEW c \in Calls, NEW u \in Users, NEW v \in Users, BlockUser(c, u, v)
  PROVE  CacheInv'
<1> DEFINE call == [at |-> "sever", pair |-> <<u, v>>]
<1>1. call \in SeveringCall
  BY DEF SeveringCall
<1>2. call \in FeedCall /\ LeavesOut(call) /\ BuiltOnView(call)
  BY <1>1, KindsApart DEF FeedCall, LeavesOut, BuiltOnView
<1>3. vcalls' = [vcalls EXCEPT ![c] = call] /\ vcalls[c] = None
  BY DEF BlockUser, VStarts
<1>4. changes' \in 0..MaxChanges
  BY FeedCacheAssumption DEF BlockUser, Changing, CacheInv, CacheTypeInv
<1>5. blocks' \subseteq Users \X Users
  BY DEF BlockUser, CacheInv, CacheTypeInv
<1> HIDE DEF call
<1> QED
  BY <1>2, <1>3, <1>4, <1>5, KindsApart, ReadingStep DEF BlockUser, CacheInv, CacheTypeInv

----------------------------------------------------------------------------

(* A row is written and all entries are to be dropped for it: whoever puts *)
(* the item into a feed at that moment has ended what clearsApart says.    *)
LEMMA WriteThenClearOK ==
  ASSUME CacheInv, NEW c \in Calls, NEW i \in Items, NEW row \in FeedRow,
         WriteThenClear(c, i, row)
  PROVE  CacheInv'
<1> DEFINE call == [at |-> "scan", about |-> i, keys |-> {}]
<1>1. call \in ClearingCall
  BY DEF ClearingCall
<1>2. vcalls[c] = None /\ vcalls' = [vcalls EXCEPT ![c] = call]
  BY DEF WriteThenClear, VStarts
<1>3. vcalls'[c] = call /\ \A d \in Calls \ {c} : vcalls'[d] = vcalls[d]
  BY <1>2 DEF CacheInv, CacheTypeInv
<1> HIDE DEF call
<1>5. CacheTypeInv'
  <2>1. changes' \in 0..MaxChanges
    BY FeedCacheAssumption DEF WriteThenClear, Changing, CacheInv, CacheTypeInv
  <2>2. clearsApart' \in BOOLEAN
    BY DEF WriteThenClear, CacheInv, CacheTypeInv
  <2> QED
    BY <1>1, <1>2, <2>1, <2>2 DEF WriteThenClear, FeedCall, CacheInv, CacheTypeInv
<1>6. ASSUME NEW j \in Items \ {i}, OnView(j) PROVE OnView(j)'
  BY <1>6 DEF WriteThenClear, OnView, PostListed, TopicListed, NookListed, CacheInv, CacheTypeInv
<1>7. ASSUME NEW d \in Calls PROVE LeavesOut(vcalls[d])' /\ BuiltOnView(vcalls[d])'
  <2>1. CASE d = c
    BY <1>1, <1>3, <2>1, KindsApart DEF LeavesOut, BuiltOnView
  <2>2. CASE d # c
    <3>1. vcalls'[d] = vcalls[d] /\ UNCHANGED <<putAway, unannounced>>
      BY <1>3, <2>2 DEF WriteThenClear
    <3>2. LeavesOut(vcalls[d]) /\ BuiltOnView(vcalls[d])
      BY DEF CacheInv
    <3>3. LeavesOut(vcalls[d])'
      BY <3>1, <3>2 DEF LeavesOut
    <3>4. BuiltOnView(vcalls[d])'
      <4> SUFFICES ASSUME clearsApart', vcalls[d] \in ReadingCall,
                          vcalls[d].at \in {"blocked", "blockers", "store"},
                          NEW j \in vcalls[d].items \ unannounced
                   PROVE  OnView(j)'
        BY <3>1 DEF BuiltOnView
      <4>1. clearsApart /\ ~Builds(d, i)
        BY DEF WriteThenClear
      <4>2. j # i
        BY <4>1, KindsApart DEF Builds
      <4>3. j \in Items
        BY DEF ReadingCall
      <4> QED
        BY <1>6, <3>2, <4>1, <4>2, <4>3 DEF BuiltOnView
    <3> QED
      BY <3>3, <3>4
  <2> QED
    BY <2>1, <2>2
<1>8. ASSUME NEW k, NEW j, Dropped(k, j) PROVE Dropped(k, j)'
  BY <1>2, <1>3, <1>8, KindsApart DEF Dropped, Drops
<1>9. StoredOnView'
  <2> SUFFICES ASSUME clearsApart', NEW k \in RowIds(entries), NEW j \in entries[k] \ unannounced
               PROVE  OnView(j)' \/ Dropped(k, j)'
    BY DEF WriteThenClear, StoredOnView, RowIds
  <2>1. CASE j = i
    BY <1>1, <1>3, <2>1 DEF Dropped, Drops, call
  <2>2. CASE j # i
    <3>1. j \in Items
      BY DEF RowIds, CacheInv, CacheTypeInv
    <3>2. clearsApart
      BY DEF WriteThenClear
    <3> QED
      BY <1>6, <1>8, <2>2, <3>1, <3>2 DEF CacheInv, StoredOnView
  <2> QED
    BY <2>1, <2>2
<1> QED
  BY <1>5, <1>7, <1>9 DEF CacheInv

(* A row is written and nothing is dropped: the item was not there before, *)
(* or is set aside.                                                        *)
LEMMA QuietlyOK ==
  ASSUME CacheInv, NEW i \in Items, NEW row \in FeedRow, Quietly(i, row),
         \/ unannounced' = unannounced \cup {i}
         \/ UNCHANGED unannounced /\ feedRows[i] = None
  PROVE  CacheInv'
<1>1. CacheTypeInv'
  <2>1. changes' \in 0..MaxChanges
    BY FeedCacheAssumption DEF Quietly, Changing, CacheInv, CacheTypeInv
  <2> QED
    BY <2>1 DEF Quietly, CacheInv, CacheTypeInv
<1>2. ASSUME NEW j \in Items, OnView(j), j \notin unannounced' PROVE OnView(j)'
  <2>1. j # i
    BY <1>2 DEF OnView
  <2> QED
    BY <1>2, <2>1
       DEF Quietly, OnView, PostListed, TopicListed, NookListed, CacheInv, CacheTypeInv
<1>3. unannounced \subseteq unannounced'
  OBVIOUS
<1>4. UNCHANGED <<putAway, entries, vcalls, clearsApart>>
  BY DEF Quietly
<1>5. ASSUME NEW d \in Calls PROVE LeavesOut(vcalls[d])' /\ BuiltOnView(vcalls[d])'
  <2>1. LeavesOut(vcalls[d]) /\ BuiltOnView(vcalls[d])
    BY DEF CacheInv
  <2>2. LeavesOut(vcalls[d])'
    BY <1>4, <2>1 DEF LeavesOut
  <2>3. BuiltOnView(vcalls[d])'
    BY <1>2, <1>3, <1>4, <2>1 DEF BuiltOnView, ReadingCall
  <2> QED
    BY <2>2, <2>3
<1>6. StoredOnView'
  <2> SUFFICES ASSUME clearsApart, NEW k \in RowIds(entries), NEW j \in entries[k] \ unannounced'
               PROVE  OnView(j)' \/ Dropped(k, j)'
    BY <1>4 DEF StoredOnView, RowIds
  <2>1. j \in Items
    BY DEF RowIds, CacheInv, CacheTypeInv
  <2>2. OnView(j) \/ Dropped(k, j)
    BY <1>3 DEF CacheInv, StoredOnView
  <2>3. Dropped(k, j) => Dropped(k, j)'
    BY <1>4 DEF Dropped, Drops
  <2> QED
    BY <1>2, <2>1, <2>2, <2>3
<1> QED
  BY <1>1, <1>5, <1>6 DEF CacheInv

LEMMA RowTypes ==
  ASSUME CacheInv, NEW i \in Items, feedRows[i] # None, NEW b \in BOOLEAN
  PROVE  /\ [feedRows[i] EXCEPT !.is_hidden = b] \in FeedRow
         /\ [feedRows[i] EXCEPT !.gone = b] \in FeedRow
         /\ [feedRows[i] EXCEPT !.is_locked = b] \in FeedRow
BY DEF FeedRow, CacheInv, CacheTypeInv

LEMMA RowWritesOK ==
  ASSUME CacheInv, NEW c \in Calls, NEW i \in Items,
         PostItem(c, i) \/ HideItem(c, i) \/ RestoreItem(c, i) \/ RemoveItem(c, i)
  PROVE  CacheInv'
<1>1. CASE PostItem(c, i)
  <2>1. NewRow \in FeedRow
    BY DEF NewRow, FeedRow
  <2> QED
    BY <1>1, <2>1, WriteThenClearOK, QuietlyOK DEF PostItem
<1>2. CASE HideItem(c, i) \/ RestoreItem(c, i) \/ RemoveItem(c, i)
  BY <1>2, RowTypes, WriteThenClearOK DEF HideItem, RestoreItem, RemoveItem
<1> QED
  BY <1>1, <1>2

LEMMA QuietWritesOK ==
  ASSUME CacheInv, NEW i \in Items,
         \/ FlagHideItem(i) \/ NookExpires(i)
         \/ \E b \in BOOLEAN : LockTopic(i, b) \/ UpdateNook(i, b)
  PROVE  CacheInv'
BY RowTypes, QuietlyOK DEF FlagHideItem, NookExpires, LockTopic, UpdateNook

(* Whoever drops entries: every key that has an entry when the keys are    *)
(* looked up is among those deleted.                                       *)
LEMMA ScanKeysOK ==
  ASSUME CacheInv, NEW c \in Calls, ScanKeys(c)
  PROVE  CacheInv'
<1>1. vcalls[c] \in ClearingCall
  BY CallKinds DEF ScanKeys, Waits, CacheInv, CacheTypeInv
<1>2. UNCHANGED <<feedRows, putAway, blocks, follows, entries, redisUp, failures, changes, unannounced>>
  BY DEF ScanKeys, tables
<1>3. ASSUME NEW call \in ClearingCall \cup {None}, vcalls' = [vcalls EXCEPT ![c] = call],
             clearsApart' \in BOOLEAN, clearsApart' => clearsApart
      PROVE  /\ CacheTypeInv'
             /\ \A d \in Calls : LeavesOut(vcalls[d])' /\ BuiltOnView(vcalls[d])'
  <2>1. CacheTypeInv'
    BY <1>2, <1>3 DEF FeedCall, CacheInv, CacheTypeInv
  <2>2. ASSUME NEW d \in Calls PROVE LeavesOut(vcalls[d])' /\ BuiltOnView(vcalls[d])'
    <3>1. vcalls'[d] \notin ReadingCall \/ vcalls'[d] = vcalls[d]
      BY <1>3, KindsApart DEF CacheInv, CacheTypeInv
    <3> QED
      BY <1>2, <1>3, <3>1, SameView DEF LeavesOut, BuiltOnView, CacheInv
  <2> QED
    BY <2>1, <2>2
<1>4. CASE redisUp
  <2> DEFINE call == [vcalls[c] EXCEPT !.at = "delete", !.keys = RowIds(entries)]
  <2>1. call \in ClearingCall /\ call.about = vcalls[c].about /\ call.keys = RowIds(entries)
    BY <1>1 DEF ClearingCall, RowIds, CacheInv, CacheTypeInv
  <2>2. vcalls' = [vcalls EXCEPT ![c] = call] /\ UNCHANGED clearsApart
    BY <1>4 DEF ScanKeys, VBecomes
  <2> HIDE DEF call
  <2>3. ASSUME NEW k \in RowIds(entries), NEW i, Dropped(k, i) PROVE Dropped(k, i)'
    <3>1. PICK d \in Calls : Drops(vcalls[d], k, i)
      BY <2>3 DEF Dropped
    <3>2. Drops(vcalls'[d], k, i)
      BY <2>1, <2>2, <3>1 DEF Drops, CacheInv, CacheTypeInv
    <3> QED
      BY <3>2 DEF Dropped, Drops
  <2>4. StoredOnView'
    BY <1>2, <2>2, <2>3, SameView DEF StoredOnView, RowIds, CacheInv
  <2> QED
    BY <1>3, <2>1, <2>2, <2>4 DEF CacheInv, CacheTypeInv
<1>5. CASE ~redisUp
  BY <1>3, <1>5 DEF ScanKeys, VEnds, StoredOnView, CacheInv
<1> QED
  BY <1>4, <1>5 DEF CacheInv, CacheTypeInv

LEMMA DeleteKeysOK ==
  ASSUME CacheInv, NEW c \in Calls, DeleteKeys(c)
  PROVE  CacheInv'
<1>1. vcalls[c] \in ClearingCall /\ vcalls[c].at = "delete"
  BY CallKinds DEF DeleteKeys, Waits, CacheInv, CacheTypeInv
<1>2. UNCHANGED <<feedRows, putAway, blocks, follows, redisUp, failures, changes, unannounced>>
      /\ vcalls' = [vcalls EXCEPT ![c] = None]
      /\ clearsApart' \in BOOLEAN /\ (clearsApart' => clearsApart)
  BY DEF DeleteKeys, VEnds, tables, CacheInv, CacheTypeInv
<1>3. CacheTypeInv'
  <2>1. entries' \in [Keys -> (SUBSET Items) \cup {None}]
    BY DEF DeleteKeys, CacheInv, CacheTypeInv
  <2> QED
    BY <1>2, <2>1 DEF CacheInv, CacheTypeInv
<1>4. ASSUME NEW d \in Calls PROVE LeavesOut(vcalls[d])' /\ BuiltOnView(vcalls[d])'
  <2>1. vcalls'[d] \notin ReadingCall \/ vcalls'[d] = vcalls[d]
    BY <1>2, KindsApart DEF CacheInv, CacheTypeInv
  <2> QED
    BY <1>2, <2>1, SameView DEF LeavesOut, BuiltOnView, CacheInv
<1>5. StoredOnView'
  <2> SUFFICES ASSUME clearsApart', NEW k \in RowIds(entries)', NEW i \in entries'[k] \ unannounced
               PROVE  OnView(i)' \/ Dropped(k, i)'
    BY <1>2 DEF StoredOnView
  <2>1. k \in RowIds(entries) /\ entries'[k] = entries[k] /\ k \notin vcalls[c].keys
    BY DEF DeleteKeys, RowIds, CacheInv, CacheTypeInv
  <2>2. OnView(i) \/ Dropped(k, i)
    BY <1>2, <2>1 DEF CacheInv, StoredOnView
  <2>3. ASSUME Dropped(k, i) PROVE Dropped(k, i)'
    <3>1. PICK d \in Calls : Drops(vcalls[d], k, i)
      BY <2>3 DEF Dropped
    <3>2. d # c
      BY <1>1, <2>1, <3>1 DEF Drops
    <3>3. vcalls'[d] = vcalls[d]
      BY <1>2, <3>2 DEF CacheInv, CacheTypeInv
    <3> QED
      BY <3>1, <3>3 DEF Dropped, Drops
  <2> QED
    BY <1>2, <2>2, <2>3, SameView
<1> QED
  BY <1>3, <1>4, <1>5 DEF CacheInv

LEMMA FeedCacheAbortOK ==
  ASSUME CacheInv, NEW c \in Calls, FeedCacheAbort(c)
  PROVE  CacheInv'
<1>1. CASE vcalls[c] \notin ClearingCall
  <2>1. vcalls[c].at \notin {"scan", "delete"}
    BY <1>1, CallKinds DEF FeedCacheAbort, CacheInv, CacheTypeInv
  <2> QED
    BY <1>1, <2>1, NoCall, ReadingStep
       DEF FeedCacheAbort, VEnds, tables, CacheInv, CacheTypeInv
<1>2. CASE vcalls[c] \in ClearingCall
  <2>1. clearsApart' = FALSE
    BY <1>2 DEF FeedCacheAbort, ClearingCall
  <2>2. UNCHANGED <<feedRows, putAway, blocks, follows, entries, redisUp, failures, changes, unannounced>>
        /\ vcalls' = [vcalls EXCEPT ![c] = None]
    BY DEF FeedCacheAbort, VEnds, tables
  <2>3. CacheTypeInv'
    BY <2>1, <2>2 DEF CacheInv, CacheTypeInv
  <2>4. ASSUME NEW d \in Calls PROVE LeavesOut(vcalls[d])'
    <3>1. vcalls'[d] \notin ReadingCall \/ vcalls'[d] = vcalls[d]
      BY <2>2, KindsApart DEF CacheInv, CacheTypeInv
    <3> QED
      BY <2>2, <3>1 DEF LeavesOut, CacheInv
  <2> QED
    BY <2>1, <2>3, <2>4 DEF BuiltOnView, StoredOnView, CacheInv
<1> QED
  BY <1>1, <1>2

(* Steps that move no row of an item and no handler.                       *)
LEMMA OtherStepsOK ==
  ASSUME CacheInv,
         \/ \E u \in Viewers, i \in Items : HideContent(u, i)
         \/ \E u \in Viewers, v \in Users : FollowUser(u, v) \/ UnfollowUser(u, v)
         \/ \E u, v \in Users : UnblockUser(u, v)
         \/ \E k \in Keys : ExpireEntry(k)
         \/ \E up \in BOOLEAN : RedisConnection(up)
         \/ UNCHANGED cacheVars
  PROVE  CacheInv'
<1>1. UNCHANGED <<feedRows, vcalls, failures, unannounced, clearsApart>> /\ putAway \subseteq putAway'
  BY DEF HideContent, FollowUser, UnfollowUser, UnblockUser, ExpireEntry, RedisConnection, tables,
     cacheMarks, cacheVars
<1>2. /\ entries' \in [Keys -> (SUBSET Items) \cup {None}]
      /\ \A k \in RowIds(entries)' : k \in RowIds(entries) /\ entries'[k] = entries[k]
  BY DEF HideContent, FollowUser, UnfollowUser, UnblockUser, ExpireEntry, RedisConnection,
     cacheVars, RowIds, CacheInv, CacheTypeInv
<1>3. CacheTypeInv'
  <2>1. Changing \/ UNCHANGED changes
    BY DEF HideContent, FollowUser, UnfollowUser, UnblockUser, ExpireEntry, RedisConnection,
           cacheMarks, cacheVars
  <2>2. changes' \in 0..MaxChanges
    BY <2>1, FeedCacheAssumption DEF Changing, CacheInv, CacheTypeInv
  <2>3. putAway' \subseteq Viewers \X Items
    <3>1. \/ \E u \in Viewers, i \in Items : putAway' = putAway \cup {<<u, i>>}
          \/ UNCHANGED putAway
      BY DEF HideContent, FollowUser, UnfollowUser, UnblockUser, ExpireEntry, RedisConnection,
             tables, cacheVars
    <3> QED
      BY <3>1 DEF CacheInv, CacheTypeInv
  <2>4. blocks' \subseteq Users \X Users
    BY DEF HideContent, FollowUser, UnfollowUser, UnblockUser, ExpireEntry, RedisConnection,
           tables, cacheVars, CacheInv, CacheTypeInv
  <2>5. \/ \E u \in Viewers, v \in Users : follows' \subseteq follows \cup {<<u, v>>}
        \/ UNCHANGED follows
    BY DEF HideContent, FollowUser, UnfollowUser, UnblockUser, ExpireEntry, RedisConnection,
           tables, cacheVars
  <2>6. follows' \subseteq Users \X Users
    BY <2>5, FeedCacheAssumption DEF CacheInv, CacheTypeInv
  <2>7. redisUp' \in BOOLEAN
    BY DEF HideContent, FollowUser, UnfollowUser, UnblockUser, ExpireEntry, RedisConnection,
           cacheVars, CacheInv, CacheTypeInv
  <2> QED
    BY <1>1, <1>2, <2>2, <2>3, <2>4, <2>6, <2>7 DEF CacheInv, CacheTypeInv
<1>4. ASSUME NEW d \in Calls PROVE LeavesOut(vcalls[d])' /\ BuiltOnView(vcalls[d])'
  <2>1. LeavesOut(vcalls[d])'
    BY <1>1 DEF LeavesOut, CacheInv
  <2>2. BuiltOnView(vcalls[d])'
    BY <1>1, SameView DEF BuiltOnView, CacheInv
  <2> QED
    BY <2>1, <2>2
<1>5. ASSUME NEW k, NEW i, Dropped(k, i) PROVE Dropped(k, i)'
  BY <1>1, <1>5 DEF Dropped, Drops
<1>6. StoredOnView'
  BY <1>1, <1>2, <1>5, SameView DEF StoredOnView, CacheInv
<1> QED
  BY <1>3, <1>4, <1>6 DEF CacheInv

LEMMA CacheStepOK == CacheInv /\ [FeedCacheNext]_cacheVars => CacheInv'
<1> SUFFICES ASSUME CacheInv, [FeedCacheNext]_cacheVars PROVE CacheInv'
  OBVIOUS
<1>1. ASSUME NEW c \in Calls, ViewerStep(c) PROVE CacheInv'
  <2>1. ASSUME NEW ok \in BOOLEAN, ReadBlocked(c, ok) \/ ReadBlockers(c, ok) PROVE CacheInv'
    BY <2>1, DropBlockedOK DEF ReadBlocked, ReadBlockers
  <2> QED
    BY <1>1, <2>1, ReadFollowsOK, FetchItemsOK, DropHiddenOK, StoreFeedOK, AnswerFeedOK
       DEF ViewerStep
<1>2. ASSUME NEW c \in Calls, WriterStep(c) PROVE CacheInv'
  BY <1>2, ScanKeysOK, DeleteKeysOK, SeverFollowsOK DEF WriterStep
<1>3. ASSUME NEW c \in Calls, FeedCacheStarts(c) PROVE CacheInv'
  BY <1>3, OpenFeedOK, BlockUserOK, RowWritesOK DEF FeedCacheStarts
<1>4. CASE OneStatement
  <2>1. ASSUME NEW i \in Items,
               FlagHideItem(i) \/ NookExpires(i) \/ \E b \in BOOLEAN : LockTopic(i, b) \/ UpdateNook(i, b)
        PROVE  CacheInv'
    BY <2>1, QuietWritesOK
  <2> QED
    BY <1>4, <2>1, OtherStepsOK DEF OneStatement
<1> QED
  BY <1>1, <1>2, <1>3, <1>4, FeedCacheAbortOK, OtherStepsOK DEF FeedCacheNext

(* An answer leaves out what its reader had hidden when he asked, however  *)
(* old the entry it is made of: getAggregatedFeed takes out what is hidden *)
(* after it has taken the entry from Redis.                                *)
THEOREM HiddenLeavesFeeds == FeedCacheSpec => []HidesTakeEffect
<1>1. CacheInv => HidesTakeEffect
  BY CallKinds DEF CacheInv, CacheTypeInv, LeavesOut, HidesTakeEffect, RowIds
<1> QED
  BY <1>1, CacheInitOK, CacheStepOK, PTL DEF FeedCacheSpec

(* No entry lists what is off view, once whoever took it off has dropped   *)
(* the entries: delPattern deletes every entry there was when it looked,   *)
(* and what is stored later was put together of what was on view still.    *)
THEOREM ClearedFeedsStayFresh == FeedCacheSpec => []ClearedFeedsAreFresh
<1>1. CacheInv => ClearedFeedsAreFresh
  <2> SUFFICES ASSUME CacheInv, clearsApart, NEW k \in RowIds(entries),
                      NEW i \in entries[k] \ unannounced, ~OnView(i)
               PROVE  \E c \in RowIds(vcalls) :
                        \/ vcalls[c].at = "scan" /\ vcalls[c].about = i
                        \/ vcalls[c].at = "delete" /\ vcalls[c].about = i /\ k \in vcalls[c].keys
    BY DEF ClearedFeedsAreFresh
  <2>1. PICK c \in Calls : Drops(vcalls[c], k, i)
    BY DEF CacheInv, StoredOnView, Dropped
  <2>2. c \in RowIds(vcalls)
    BY <2>1, KindsApart DEF Drops, RowIds, CacheInv, CacheTypeInv
  <2> QED
    BY <2>1, <2>2 DEF Drops, ClearingCall
<1> QED
  BY <1>1, CacheInitOK, CacheStepOK, PTL DEF FeedCacheSpec
----------------------------------------------------------------------------
(* Reports.  While no event is lost, a status the report was moved to is   *)
(* in the timeline, or an update that found another status there has yet   *)
(* to write it: an update that finds the status it sets finds it because   *)
(* an earlier update set it.                                               *)

ReportsTypeInv ==
  /\ report \in Report \cup {None}
  /\ told \subseteq Statuses
  /\ rcalls \in [Calls -> ReportCall \cup {None}]
  /\ held \subseteq Statuses
  /\ eventsKept \in BOOLEAN

WasHeld(status) == status \in held \cup {"submitted"}

(* What a handler past its write has yet to do.                            *)
ToSign == {"statusEvent", "aboutEvent", "assignedEvent"}
ToTell == ToSign \cup {"tell"}

HasToLog(k, status) ==
  k # None /\ k.at = "statusEvent" /\ k.status = status /\ k.seen.status # status

HasToTell(k, status) == k # None /\ k.at \in ToTell /\ k.status = status

HasToSign(k) == k # None /\ k.at \in ToSign /\ k.assigned \notin {Unset, None}

InTimeline(status) ==
  <<"status", status>> \in timeline \/ \E c \in Calls : HasToLog(rcalls[c], status)

IsTold(status) == status \in told \/ \E c \in Calls : HasToTell(rcalls[c], status)

IsSigned ==
  \/ \E admin \in Admins : <<"assigned", admin>> \in timeline
  \/ \E c \in Calls : HasToSign(rcalls[c])

ReportsInv ==
  /\ ReportsTypeInv
  /\ report # None => WasHeld(report.status)
  /\ \A c \in Calls : rcalls[c] # None => report # None /\ WasHeld(rcalls[c].seen.status)
  /\ eventsKept =>
       /\ \A status \in held \ {"submitted"} : InTimeline(status)
       /\ \A status \in held : IsTold(status)
       /\ report # None /\ report.assigned # None => IsSigned

(* A handler takes a step: nothing is taken out of the timeline, and what  *)
(* it had to do it has done or still has to, or an event was lost.         *)
LEMMA ReportCallStep ==
  ASSUME ReportsInv, NEW c \in Calls, NEW k \in ReportCall \cup {None},
         rcalls' = [rcalls EXCEPT ![c] = k],
         report' \in Report, WasHeld(report.status)',
         told \subseteq told', told' \subseteq Statuses, held \subseteq held', held' \subseteq Statuses,
         timeline \subseteq timeline', eventsKept' \in BOOLEAN, eventsKept' => eventsKept,
         k # None => WasHeld(k.seen.status)',
         eventsKept' =>
           /\ \A status \in Statuses : HasToLog(rcalls[c], status) =>
                <<"status", status>> \in timeline' \/ HasToLog(k, status)
           /\ \A status \in held' \ held : status # "submitted" => HasToLog(k, status)
           /\ \A status \in Statuses : HasToTell(rcalls[c], status) =>
                status \in told' \/ HasToTell(k, status)
           /\ \A status \in held' \ held : HasToTell(k, status)
           /\ HasToSign(rcalls[c]) =>
                (\E admin \in Admins : <<"assigned", admin>> \in timeline') \/ HasToSign(k)
           /\ report'.assigned # None => (report # None /\ report.assigned # None) \/ HasToSign(k)
  PROVE  ReportsInv'
<1>1. /\ rcalls' \in [Calls -> ReportCall \cup {None}]
      /\ rcalls'[c] = k /\ \A d \in Calls \ {c} : rcalls'[d] = rcalls[d]
  BY DEF ReportsInv, ReportsTypeInv
<1>2. ReportsTypeInv'
  BY <1>1 DEF ReportsInv, ReportsTypeInv
<1>3. report' # None
  BY ReportsAssumption
<1>4. ASSUME NEW d \in Calls, rcalls'[d] # None
      PROVE  WasHeld(rcalls[d].seen.status)'
  BY <1>1, <1>4 DEF ReportsInv, WasHeld
<1>5. ASSUME eventsKept', NEW status \in held' \ {"submitted"}
      PROVE  InTimeline(status)'
  <2>1. CASE status \in held' \ held
    BY <1>1, <1>5, <2>1 DEF InTimeline, HasToLog
  <2>2. CASE status \in held
    <3>1. InTimeline(status) /\ status \in Statuses
      BY <1>5, <2>2 DEF ReportsInv
    <3>2. CASE <<"status", status>> \in timeline
      BY <3>2 DEF InTimeline
    <3>3. ASSUME NEW d \in Calls, HasToLog(rcalls[d], status) PROVE InTimeline(status)'
      <4>1. CASE d = c
        BY <1>1, <1>5, <3>1, <3>3, <4>1 DEF InTimeline, HasToLog
      <4>2. CASE d # c
        BY <1>1, <3>3, <4>2 DEF InTimeline, HasToLog
      <4> QED
        BY <4>1, <4>2
    <3> QED
      BY <3>1, <3>2, <3>3 DEF InTimeline
  <2> QED
    BY <1>5, <2>1, <2>2
<1>6. ASSUME eventsKept', NEW status \in held'
      PROVE  IsTold(status)'
  <2>1. CASE status \in held' \ held
    BY <1>1, <1>6, <2>1 DEF IsTold, HasToTell
  <2>2. CASE status \in held
    <3>1. IsTold(status) /\ status \in Statuses
      BY <1>6, <2>2 DEF ReportsInv
    <3>2. CASE status \in told
      BY <3>2 DEF IsTold
    <3>3. ASSUME NEW d \in Calls, HasToTell(rcalls[d], status) PROVE IsTold(status)'
      <4>1. CASE d = c
        BY <1>1, <1>6, <3>1, <3>3, <4>1 DEF IsTold, HasToTell
      <4>2. CASE d # c
        BY <1>1, <3>3, <4>2 DEF IsTold, HasToTell
      <4> QED
        BY <4>1, <4>2
    <3> QED
      BY <3>1, <3>2, <3>3 DEF IsTold
  <2> QED
    BY <1>6, <2>1, <2>2
<1>7. ASSUME eventsKept', report'.assigned # None
      PROVE  IsSigned'
  <2>1. CASE HasToSign(k)
    BY <1>1, <2>1 DEF IsSigned, HasToSign
  <2>2. CASE report # None /\ report.assigned # None
    <3>1. IsSigned
      BY <1>7, <2>2 DEF ReportsInv
    <3>2. CASE \E admin \in Admins : <<"assigned", admin>> \in timeline
      BY <3>2 DEF IsSigned
    <3>3. ASSUME NEW d \in Calls, HasToSign(rcalls[d]) PROVE IsSigned'
      <4>1. CASE d = c
        BY <1>1, <1>7, <3>3, <4>1 DEF IsSigned, HasToSign
      <4>2. CASE d # c
        BY <1>1, <3>3, <4>2 DEF IsSigned, HasToSign
      <4> QED
        BY <4>1, <4>2
    <3> QED
      BY <3>1, <3>2, <3>3 DEF IsSigned
  <2> QED
    BY <1>7, <2>1, <2>2
<1> QED
  BY <1>2, <1>3, <1>4, <1>5, <1>6, <1>7 DEF ReportsInv

LEMMA ReportsInitOK == ReportsInit => ReportsInv
<1> SUFFICES ASSUME ReportsInit PROVE ReportsInv
  OBVIOUS
<1>1. eventsKept \in BOOLEAN
  BY Zenon DEF ReportsInit
<1> QED
  BY <1>1 DEF ReportsInit, ReportsInv, ReportsTypeInv

LEMMA CreateReportOK ==
  ASSUME ReportsInv, NEW about \in Accused \cup {None}, CreateReport(about)
  PROVE  ReportsInv'
<1>1. /\ report' \in Report /\ report'.status = "submitted" /\ report'.assigned = None
      /\ UNCHANGED <<timeline, told, rcalls, held, eventsKept>>
  BY DEF CreateReport, Report, Statuses
<1>2. \A c \in Calls : rcalls[c] = None
  BY DEF CreateReport, ReportsInv
<1> QED
  BY <1>1, <1>2
     DEF ReportsInv, ReportsTypeInv, WasHeld, InTimeline, IsTold, IsSigned

(* updateReport and assignToSelf begin.                                    *)
LEMMA ReportStartsOK ==
  ASSUME ReportsInv, NEW c \in Calls, NEW admin \in Admins,
         NEW status \in Statuses \cup {Unset}, NEW about \in Accused \cup {None, Unset},
         NEW assigned \in Admins \cup {None, Unset},
         UpdateReport(c, admin, status, about, assigned) \/ AssignToSelf(c, admin)
  PROVE  ReportsInv'
<1>1. /\ rcalls[c] = None /\ report \in Report /\ report # None /\ WasHeld(report.status)
      /\ told \subseteq Statuses /\ held \subseteq Statuses /\ eventsKept \in BOOLEAN
  BY DEF UpdateReport, AssignToSelf, ReportsInv, ReportsTypeInv
<1>2. PICK seen \in Report : seen = report
  BY <1>1
<1>3. CASE UpdateReport(c, admin, status, about, assigned)
  <2> DEFINE k == [at |-> "write", admin |-> admin, status |-> status, about |-> about,
                   assigned |-> assigned, seen |-> seen]
  <2>1. k \in ReportCall /\ k.seen = seen /\ k.at = "write"
    BY DEF ReportCall
  <2>2. /\ rcalls' = [rcalls EXCEPT ![c] = k]
        /\ UNCHANGED <<report, timeline, told, held, eventsKept>>
    BY <1>2, <1>3 DEF UpdateReport
  <2> HIDE DEF k
  <2>3. WasHeld(report.status)' /\ WasHeld(k.seen.status)'
    BY <1>1, <1>2, <2>1, <2>2 DEF WasHeld
  <2>4. /\ \A s : ~HasToLog(rcalls[c], s) /\ ~HasToTell(rcalls[c], s)
        /\ ~HasToSign(rcalls[c])
    BY <1>1 DEF HasToLog, HasToTell, HasToSign
  <2> QED
    BY <1>1, <2>1, <2>2, <2>3, <2>4, ReportCallStep
<1>4. CASE AssignToSelf(c, admin)
  <2> DEFINE k == [at |-> "assignedEvent", admin |-> admin, status |-> Unset, about |-> Unset,
                   assigned |-> admin, seen |-> seen]
  <2>1. k \in ReportCall /\ k.seen = seen /\ k.at = "assignedEvent" /\ k.assigned = admin
    BY DEF ReportCall
  <2>2. /\ rcalls' = [rcalls EXCEPT ![c] = k]
        /\ report' = [report EXCEPT !.assigned = admin]
        /\ UNCHANGED <<timeline, told, held, eventsKept>>
    BY <1>2, <1>4 DEF AssignToSelf
  <2>3. report' \in Report /\ report'.status = report.status /\ report'.assigned = admin
    BY <1>1, <2>2 DEF Report
  <2> HIDE DEF k
  <2>4. WasHeld(report.status)' /\ WasHeld(k.seen.status)'
    BY <1>1, <1>2, <2>1, <2>2, <2>3 DEF WasHeld
  <2>5. /\ \A s : ~HasToLog(rcalls[c], s) /\ ~HasToTell(rcalls[c], s)
        /\ ~HasToSign(rcalls[c])
    BY <1>1 DEF HasToLog, HasToTell, HasToSign
  <2>6. report'.assigned # None => HasToSign(k)
    BY <2>1, <2>3, ReportsAssumption DEF HasToSign, ToSign
  <2> QED
    BY <1>1, <2>1, <2>2, <2>3, <2>4, <2>5, <2>6, ReportCallStep
<1> QED
  BY <1>3, <1>4

(* updateReport writes the row.                                            *)
LEMMA WriteReportOK ==
  ASSUME ReportsInv, NEW c \in Calls, WriteReport(c)
  PROVE  ReportsInv'
<1>1. PICK b \in ReportCall : b = rcalls[c]
  BY DEF WriteReport, Waits, ReportsInv, ReportsTypeInv
<1>2. /\ b # None /\ b.at = "write" /\ report \in Report /\ WasHeld(report.status)
      /\ WasHeld(b.seen.status)
      /\ told \subseteq Statuses /\ held \subseteq Statuses /\ eventsKept \in BOOLEAN
  BY <1>1 DEF WriteReport, Waits, ReportsInv, ReportsTypeInv
<1> DEFINE k == [b EXCEPT !.at = "statusEvent"]
<1>3. /\ k \in ReportCall /\ k.at = "statusEvent" /\ k.status = b.status
      /\ k.assigned = b.assigned /\ k.seen = b.seen /\ k # None
  <2>1. k \in ReportCall
    BY DEF ReportCall
  <2> QED
    BY <2>1, ReportsAssumption DEF ReportCall
<1>4. /\ rcalls' = [rcalls EXCEPT ![c] = k]
      /\ UNCHANGED <<timeline, told, eventsKept>>
      /\ held' = IF b.status = Unset THEN held ELSE held \cup {b.status}
  BY <1>1 DEF WriteReport
<1> HIDE DEF k
<1>5. /\ report' \in Report
      /\ report'.status = IfSet(b.status, report.status)
      /\ report'.assigned = IfSet(b.assigned, report.assigned)
  <2>1. report' = [status     |-> IfSet(b.status, report.status),
                   assigned   |-> IfSet(b.assigned, report.assigned),
                   about      |-> IfSet(b.about, report.about),
                   resolvedBy |-> IF b.status = "resolved" THEN b.admin ELSE report.resolvedBy]
    BY <1>1 DEF WriteReport
  <2>2. /\ IfSet(b.status, report.status) \in Statuses
        /\ IfSet(b.assigned, report.assigned) \in Admins \cup {None}
        /\ IfSet(b.about, report.about) \in Accused \cup {None}
        /\ (IF b.status = "resolved" THEN b.admin ELSE report.resolvedBy) \in Admins \cup {None}
    BY <1>2 DEF IfSet, Report, ReportCall
  <2> QED
    BY <2>1, <2>2 DEF Report
<1>6. held \subseteq held' /\ held' \subseteq Statuses
  BY <1>2, <1>4 DEF ReportCall
<1>7. WasHeld(report.status)' /\ WasHeld(k.seen.status)'
  BY <1>2, <1>3, <1>4, <1>5, <1>6 DEF WasHeld, IfSet
<1>8. /\ \A s : ~HasToLog(rcalls[c], s) /\ ~HasToTell(rcalls[c], s)
      /\ ~HasToSign(rcalls[c])
  BY <1>1, <1>2 DEF HasToLog, HasToTell, HasToSign, ToTell, ToSign
<1>9. \A s \in held' \ held : HasToTell(k, s) /\ (s # "submitted" => HasToLog(k, s))
  BY <1>2, <1>3, <1>4 DEF HasToTell, HasToLog, ToTell, ToSign, WasHeld
<1>10. report'.assigned # None => (report # None /\ report.assigned # None) \/ HasToSign(k)
  BY <1>2, <1>3, <1>5, ReportsAssumption DEF IfSet, HasToSign, ToSign
<1> QED
  BY <1>2, <1>3, <1>4, <1>5, <1>6, <1>7, <1>8, <1>9, <1>10, ReportCallStep

(* A handler that leaves the report alone and goes on or ends.             *)
LEMMA FollowUpStep ==
  ASSUME ReportsInv, NEW c \in Calls, rcalls[c] # None, NEW k \in ReportCall \cup {None},
         rcalls' = [rcalls EXCEPT ![c] = k], UNCHANGED <<report, held>>,
         k # None => k.seen = rcalls[c].seen,
         told \subseteq told', told' \subseteq Statuses,
         timeline \subseteq timeline', eventsKept' \in BOOLEAN, eventsKept' => eventsKept,
         eventsKept' =>
           /\ \A status \in Statuses : HasToLog(rcalls[c], status) =>
                <<"status", status>> \in timeline' \/ HasToLog(k, status)
           /\ \A status \in Statuses : HasToTell(rcalls[c], status) =>
                status \in told' \/ HasToTell(k, status)
           /\ HasToSign(rcalls[c]) =>
                (\E admin \in Admins : <<"assigned", admin>> \in timeline') \/ HasToSign(k)
  PROVE  ReportsInv'
<1>1. report \in Report /\ report # None
  BY DEF ReportsInv, ReportsTypeInv
<1>2. WasHeld(report.status)' /\ (k # None => WasHeld(k.seen.status)')
  BY <1>1 DEF ReportsInv, WasHeld
<1>3. held \subseteq Statuses
  BY DEF ReportsInv, ReportsTypeInv
<1>4. report' \in Report /\ held \subseteq held' /\ held' \subseteq Statuses /\ held' \ held = {}
  BY <1>1, <1>3
<1> QED
  BY <1>1, <1>2, <1>4, ReportCallStep

(* An event that is wanted is in the timeline, or the loss is remembered.  *)
LEMMA LogsOK ==
  ASSUME ReportsInv, NEW wanted \in BOOLEAN, NEW event, LogsWhen(wanted, event)
  PROVE  /\ timeline \subseteq timeline' /\ eventsKept' \in BOOLEAN
         /\ eventsKept' => eventsKept /\ (wanted => event \in timeline')
<1>1. eventsKept \in BOOLEAN
  BY DEF ReportsInv, ReportsTypeInv
<1>2. CASE UNCHANGED <<timeline, eventsKept>> /\ ~wanted
  BY <1>1, <1>2
<1>3. CASE timeline' = timeline \cup {event} /\ UNCHANGED eventsKept
  BY <1>1, <1>3
<1>4. CASE UNCHANGED timeline /\ eventsKept' = FALSE
  <2>1. ~eventsKept'
    BY <1>4, Zenon
  <2>2. eventsKept' \in BOOLEAN /\ timeline \subseteq timeline'
    BY <1>4
  <2> QED
    BY <2>1, <2>2, Zenon
<1> QED
  BY <1>2, <1>3, <1>4, Zenon DEF LogsWhen, Logs

LEMMA EventsOK ==
  ASSUME ReportsInv, NEW c \in Calls, StatusEvent(c) \/ AboutEvent(c) \/ AssignedEvent(c)
  PROVE  ReportsInv'
<1>1. PICK b \in ReportCall : b = rcalls[c] /\ b # None
  BY DEF StatusEvent, AboutEvent, AssignedEvent, Waits, ReportsInv, ReportsTypeInv
<1>2. told \subseteq told' /\ told' \subseteq Statuses /\ UNCHANGED <<report, held, told>>
  BY DEF StatusEvent, AboutEvent, AssignedEvent, ReportsInv, ReportsTypeInv
<1>3. ASSUME NEW at \in {"aboutEvent", "assignedEvent", "tell"},
             rcalls' = [rcalls EXCEPT ![c].at = at]
      PROVE  LET k == [b EXCEPT !.at = at]
             IN /\ k \in ReportCall /\ rcalls' = [rcalls EXCEPT ![c] = k] /\ k # None
                /\ k.at = at /\ k.status = b.status /\ k.assigned = b.assigned /\ k.seen = b.seen
  <2> DEFINE k == [b EXCEPT !.at = at]
  <2>1. k \in ReportCall /\ k.at = at /\ k.status = b.status /\ k.assigned = b.assigned
        /\ k.seen = b.seen
    BY DEF ReportCall
  <2>2. rcalls' = [rcalls EXCEPT ![c] = k]
    BY <1>1, <1>3
  <2> QED
    BY <2>1, <2>2, ReportsAssumption
<1>4. CASE StatusEvent(c)
  <2> DEFINE k == [b EXCEPT !.at = "aboutEvent"]
             wanted == b.status # Unset /\ b.status # b.seen.status
  <2>1. /\ k \in ReportCall /\ rcalls' = [rcalls EXCEPT ![c] = k] /\ k # None /\ b.at = "statusEvent"
        /\ k.at = "aboutEvent" /\ k.status = b.status /\ k.assigned = b.assigned /\ k.seen = b.seen
    BY <1>1, <1>3, <1>4 DEF StatusEvent, Waits
  <2>2. LogsWhen(wanted, <<"status", b.status>>)
    BY <1>1, <1>4 DEF StatusEvent
  <2>3. /\ timeline \subseteq timeline' /\ eventsKept' \in BOOLEAN
        /\ eventsKept' => eventsKept /\ (wanted => <<"status", b.status>> \in timeline')
    <3> HIDE DEF wanted
    <3>1. wanted \in BOOLEAN
      BY DEF wanted
    <3> QED
      BY <2>2, <3>1, LogsOK
  <2> HIDE DEF k
  <2>4. eventsKept' => \A s \in Statuses : HasToLog(rcalls[c], s) => <<"status", s>> \in timeline'
    BY <1>1, <2>3 DEF HasToLog, Statuses, Unset
  <2>5. /\ \A s \in Statuses : HasToTell(rcalls[c], s) => HasToTell(k, s)
        /\ HasToSign(rcalls[c]) => HasToSign(k)
    BY <1>1, <2>1 DEF HasToTell, HasToSign, ToTell, ToSign
  <2> QED
    BY <1>1, <1>2, <2>1, <2>3, <2>4, <2>5, FollowUpStep
<1>5. CASE AboutEvent(c)
  <2> DEFINE k == [b EXCEPT !.at = "assignedEvent"]
             wanted == b.about # Unset /\ b.about # b.seen.about
             event == <<"about", IF b.about = None THEN "removed" ELSE "updated">>
  <2>1. /\ k \in ReportCall /\ rcalls' = [rcalls EXCEPT ![c] = k] /\ k # None /\ b.at = "aboutEvent"
        /\ k.at = "assignedEvent" /\ k.status = b.status /\ k.assigned = b.assigned /\ k.seen = b.seen
    BY <1>1, <1>3, <1>5 DEF AboutEvent, Waits
  <2>2. LogsWhen(wanted, event)
    BY <1>1, <1>5 DEF AboutEvent
  <2>3. /\ timeline \subseteq timeline' /\ eventsKept' \in BOOLEAN
        /\ eventsKept' => eventsKept
    <3> HIDE DEF wanted, event
    <3>1. wanted \in BOOLEAN
      BY DEF wanted
    <3> QED
      BY <2>2, <3>1, LogsOK
  <2> HIDE DEF k
  <2>4. /\ \A s \in Statuses : ~HasToLog(rcalls[c], s)
        /\ \A s \in Statuses : HasToTell(rcalls[c], s) => HasToTell(k, s)
        /\ HasToSign(rcalls[c]) => HasToSign(k)
    BY <1>1, <2>1 DEF HasToLog, HasToTell, HasToSign, ToTell, ToSign
  <2> QED
    BY <1>1, <1>2, <2>1, <2>3, <2>4, FollowUpStep
<1>6. CASE AssignedEvent(c)
  <2> DEFINE k == [b EXCEPT !.at = "tell"]
             wanted == b.assigned \notin {Unset, None}
  <2>1. /\ k \in ReportCall /\ rcalls' = [rcalls EXCEPT ![c] = k] /\ k # None
        /\ b.at = "assignedEvent" /\ b.admin \in Admins
        /\ k.at = "tell" /\ k.status = b.status /\ k.assigned = b.assigned /\ k.seen = b.seen
    BY <1>1, <1>3, <1>6 DEF AssignedEvent, Waits, ReportCall
  <2>2. LogsWhen(wanted, <<"assigned", b.admin>>)
    BY <1>1, <1>6 DEF AssignedEvent
  <2>3. /\ timeline \subseteq timeline' /\ eventsKept' \in BOOLEAN
        /\ eventsKept' => eventsKept /\ (wanted => <<"assigned", b.admin>> \in timeline')
    <3> HIDE DEF wanted
    <3>1. wanted \in BOOLEAN
      BY DEF wanted
    <3> QED
      BY <2>2, <3>1, LogsOK
  <2> HIDE DEF k
  <2>4. /\ \A s \in Statuses : ~HasToLog(rcalls[c], s)
        /\ \A s \in Statuses : HasToTell(rcalls[c], s) => HasToTell(k, s)
    BY <1>1, <2>1 DEF HasToLog, HasToTell, ToTell, ToSign
  <2>5. eventsKept' /\ HasToSign(rcalls[c]) => \E admin \in Admins : <<"assigned", admin>> \in timeline'
    BY <1>1, <2>1, <2>3 DEF HasToSign
  <2> QED
    BY <1>1, <1>2, <2>1, <2>3, <2>4, <2>5, FollowUpStep
<1> QED
  BY <1>4, <1>5, <1>6

LEMMA TellReporterOK ==
  ASSUME ReportsInv, NEW c \in Calls, TellReporter(c) \/ ReportAbort(c)
  PROVE  ReportsInv'
<1>1. PICK b \in ReportCall : b = rcalls[c] /\ b # None
  BY DEF TellReporter, ReportAbort, Waits, ReportsInv, ReportsTypeInv
<1>2. rcalls' = [rcalls EXCEPT ![c] = None] /\ UNCHANGED <<report, timeline, held>>
  BY DEF TellReporter, ReportAbort, REnds
<1>3. eventsKept \in BOOLEAN /\ told \subseteq Statuses
  BY DEF ReportsInv, ReportsTypeInv
<1>4. CASE eventsKept' = FALSE /\ UNCHANGED told
  <2>1. ~eventsKept'
    BY <1>4, Zenon
  <2>2. eventsKept' \in BOOLEAN
    BY <1>4
  <2> QED
    BY <1>1, <1>2, <1>3, <1>4, <2>1, <2>2, FollowUpStep
<1>5. CASE /\ b.at = "tell" /\ eventsKept' = eventsKept
           /\ told' = IF b.status = Unset THEN told ELSE told \cup {b.status}
  <2>1. /\ told \subseteq told' /\ told' \subseteq Statuses
        /\ \A s \in Statuses : HasToTell(rcalls[c], s) => s \in told'
        /\ \A s \in Statuses : ~HasToLog(rcalls[c], s)
        /\ ~HasToSign(rcalls[c])
    BY <1>1, <1>3, <1>5
       DEF HasToLog, HasToTell, HasToSign, ToTell, ToSign, ReportCall, Statuses, Unset
  <2>2. eventsKept' \in BOOLEAN /\ (eventsKept' => eventsKept)
    BY <1>3, <1>5, Zenon
  <2> QED
    BY <1>1, <1>2, <2>1, <2>2, FollowUpStep
<1>6. \/ eventsKept' = FALSE /\ UNCHANGED told
      \/ /\ b.at = "tell" /\ eventsKept' = eventsKept
         /\ told' = IF b.status = Unset THEN told ELSE told \cup {b.status}
  BY <1>1 DEF TellReporter, ReportAbort, Waits
<1> QED
  BY <1>4, <1>5, <1>6, Zenon

(* However updates of several administrators overlap, each deciding by a   *)
(* row it read before the writes of the others, a report that nobody is at *)
(* work on has every status it was moved to in its timeline and told to    *)
(* the reporter, and an assigned one says so, unless an insert was lost    *)
(* (updateReport and assignToSelf in admin-reports.service.ts).            *)
THEOREM TimelineIsComplete == ReportsSpec => []TimelineNamesEveryStatus
<1>1. ReportsInv /\ [ReportsNext]_reportVars => ReportsInv'
  <2> SUFFICES ASSUME ReportsInv, [ReportsNext]_reportVars PROVE ReportsInv'
    OBVIOUS
  <2>1. ASSUME NEW c \in Calls, ReportStep(c) PROVE ReportsInv'
    <3>1. ASSUME NEW admin \in Admins, AssignToSelf(c, admin) PROVE ReportsInv'
      BY <3>1, ReportStartsOK
    <3> QED
      BY <2>1, <3>1, ReportStartsOK, WriteReportOK, EventsOK, TellReporterOK DEF ReportStep
  <2>2. CASE ReportsNext
    BY <2>1, <2>2, CreateReportOK DEF ReportsNext
  <2>3. CASE UNCHANGED reportVars
    BY <2>3 DEF reportVars, ReportsInv, ReportsTypeInv, WasHeld, InTimeline, IsTold, IsSigned
  <2> QED
    BY <2>2, <2>3
<1>2. ReportsInv => TimelineNamesEveryStatus
  <2> SUFFICES ASSUME ReportsInv, eventsKept, RowIds(rcalls) = {}
               PROVE  /\ held \subseteq told
                      /\ \A status \in held \ {"submitted"} : <<"status", status>> \in timeline
                      /\ report # None /\ report.assigned # None =>
                           \E admin \in Admins : <<"assigned", admin>> \in timeline
    BY DEF TimelineNamesEveryStatus
  <2>1. \A c \in Calls : rcalls[c] = None
    BY DEF RowIds, ReportsInv, ReportsTypeInv
  <2> QED
    BY <2>1 DEF ReportsInv, InTimeline, IsTold, IsSigned, HasToLog, HasToTell, HasToSign
<1> QED
  BY <1>1, <1>2, ReportsInitOK, PTL DEF ReportsSpec

----------------------------------------------------------------------------
(* Chats.  While no two messages are sent at once, last_message_at is not  *)
(* older than any message that was sent, for its time is taken after the   *)
(* message was inserted and after the last update of it.                   *)

ChatTypeInv ==
  /\ clock \in Nat
  /\ deletedAt \in [Sides -> Nat] /\ clearedAt \in [Sides -> Nat]
  /\ lastAt \in Nat
  /\ chat \in [ChatMessages -> ChatRow \cup {None}]
  /\ ccalls \in [Calls -> ChatCall \cup {None}]
  /\ posted \subseteq ChatMessages \cup {None}
  /\ sendsApart \in BOOLEAN

Sends(k) == k # None /\ k.at \in {"insert", "stamp", "touch"}

(* A message was inserted, not after time.                                 *)
InsertedBy(m, time) == m \in ChatMessages /\ chat[m] # None /\ chat[m].created <= time

SenderOK(k) ==
  k # None =>
    /\ k.at = "stamp" => InsertedBy(k.message, clock)
    /\ k.at = "touch" => InsertedBy(k.message, k.time) /\ lastAt <= k.time /\ k.time <= clock

OneSender == \A c, d \in Calls : Sends(ccalls[c]) /\ Sends(ccalls[d]) => c = d

ChatInv ==
  /\ ChatTypeInv
  /\ sendsApart =>
       /\ OneSender
       /\ lastAt <= clock
       /\ \A c \in Calls : SenderOK(ccalls[c])
       /\ \A m \in posted : InsertedBy(m, lastAt)

(* Rows of messages stay, and so does the time of their creation.          *)
RowsStay ==
  \A m \in ChatMessages : chat[m] # None => chat'[m] # None /\ chat'[m].created = chat[m].created

LEMMA ChatInitOK == ChatInit => ChatInv
<1> SUFFICES ASSUME ChatInit PROVE ChatInv
  OBVIOUS
<1>1. PICK first \in BOOLEAN, c \in Calls :
        ccalls = [d \in Calls |-> IF first /\ d = c
                  THEN [at |-> "insertFirst", side |-> "user1", time |-> 1, message |-> None]
                  ELSE None]
  BY DEF ChatInit
<1> DEFINE k == [at |-> "insertFirst", side |-> "user1", time |-> 1, message |-> None]
<1>2. k \in ChatCall /\ k.at = "insertFirst"
  BY DEF ChatCall, Sides
<1> HIDE DEF k
<1>3. \A d \in Calls : ccalls[d] \in {k, None}
  BY <1>1 DEF k
<1>4. ccalls \in [Calls -> ChatCall \cup {None}]
  BY <1>1, <1>2 DEF k
<1>5. sendsApart \in BOOLEAN
  BY Zenon DEF ChatInit
<1>6. ChatTypeInv
  BY <1>4, <1>5 DEF ChatInit, ChatTypeInv
<1>7. \A d \in Calls : ~Sends(ccalls[d]) /\ SenderOK(ccalls[d])
  BY <1>2, <1>3 DEF Sends, SenderOK
<1> QED
  BY <1>6, <1>7 DEF ChatInv, ChatInit, OneSender

(* What one user does without a send leaves the messages and their times.  *)
LEMMA AsideStep ==
  ASSUME ChatInv, ChatTypeInv', RowsStay, clock <= clock',
         UNCHANGED <<lastAt, posted, sendsApart>>,
         \A c \in Calls : ccalls'[c] = ccalls[c] \/ ~Sends(ccalls'[c])
  PROVE  ChatInv'
<1> SUFFICES ASSUME sendsApart
             PROVE  /\ OneSender' /\ lastAt' <= clock'
                    /\ \A c \in Calls : SenderOK(ccalls[c])'
                    /\ \A m \in posted : InsertedBy(m, lastAt)'
  BY DEF ChatInv
<1>1. clock \in Nat /\ clock' \in Nat /\ lastAt \in Nat /\ lastAt <= clock
  BY DEF ChatInv, ChatTypeInv
<1>2. ASSUME NEW m, NEW time \in Nat, NEW later \in Nat, time <= later, InsertedBy(m, time)
      PROVE  m \in ChatMessages /\ chat'[m] # None /\ chat'[m].created <= later
  <2>1. chat[m].created \in Nat
    BY <1>2 DEF InsertedBy, ChatInv, ChatTypeInv, ChatRow
  <2> QED
    BY <1>2, <2>1 DEF InsertedBy, RowsStay
<1>3. OneSender'
  BY DEF ChatInv, OneSender, Sends
<1>4. ASSUME NEW c \in Calls PROVE SenderOK(ccalls[c])'
  <2>1. CASE ~Sends(ccalls'[c])
    BY <2>1 DEF Sends, SenderOK
  <2>2. CASE Sends(ccalls[c]) /\ ccalls'[c] = ccalls[c]
    <3>1. ccalls[c].time \in Nat /\ SenderOK(ccalls[c])
      BY <2>2 DEF Sends, ChatInv, ChatTypeInv, ChatCall
    <3> QED
      BY <1>1, <1>2, <2>2, <3>1 DEF SenderOK, InsertedBy
  <2> QED
    BY <2>1, <2>2
<1>5. ASSUME NEW m \in posted' PROVE InsertedBy(m, lastAt)'
  BY <1>1, <1>2 DEF ChatInv, InsertedBy
<1> QED
  BY <1>1, <1>3, <1>4, <1>5

LEMMA ChatStartsOK ==
  ASSUME ChatInv, NEW c \in Calls, NEW s \in Sides,
         SendMessage(c, s) \/ HideConversation(c, s) \/ ReopenConversation(c, s)
  PROVE  ChatInv'
<1>1. clock \in Nat
  BY DEF ChatInv, ChatTypeInv
<1>2. ASSUME NEW at \in {"insert", "delete", "clear", "reopen"}, CCalls(c, at, s)
      PROVE  /\ ccalls[c] = None /\ ccalls' \in [Calls -> ChatCall \cup {None}]
             /\ ccalls'[c] \in ChatCall /\ ccalls'[c].at = at
             /\ \A d \in Calls \ {c} : ccalls'[d] = ccalls[d]
  <2> DEFINE k == [at |-> at, side |-> s, time |-> clock, message |-> None]
  <2>1. k \in ChatCall /\ k.at = at
    BY <1>1 DEF ChatCall
  <2>2. ccalls' = [ccalls EXCEPT ![c] = k] /\ ccalls[c] = None
    BY <1>2 DEF CCalls
  <2> HIDE DEF k
  <2> QED
    BY <2>1, <2>2 DEF ChatInv, ChatTypeInv
<1>3. CASE HideConversation(c, s) \/ ReopenConversation(c, s)
  <2>1. PICK at \in {"delete", "clear", "reopen"} : CCalls(c, at, s)
    BY <1>3 DEF HideConversation, ReopenConversation
  <2>2. UNCHANGED <<clock, hiding, lastAt, chat, posted, sendsApart>>
    BY <1>3 DEF HideConversation, ReopenConversation
  <2>3. ChatTypeInv'
    BY <1>2, <2>1, <2>2 DEF ChatInv, ChatTypeInv, hiding
  <2>4. RowsStay /\ clock <= clock'
    BY <1>1, <2>2 DEF RowsStay
  <2>5. \A d \in Calls : ccalls'[d] = ccalls[d] \/ ~Sends(ccalls'[d])
    BY <1>2, <2>1 DEF Sends
  <2> QED
    BY <2>2, <2>3, <2>4, <2>5, AsideStep
<1>4. CASE SendMessage(c, s)
  <2>1. CCalls(c, "insert", s) /\ UNCHANGED <<clock, hiding, lastAt, chat, posted>>
    BY <1>4 DEF SendMessage
  <2>2. sendsApart' \in BOOLEAN
    BY <1>4, Zenon DEF SendMessage, ChatInv, ChatTypeInv
  <2>3. ChatTypeInv'
    BY <1>2, <2>1, <2>2 DEF ChatInv, ChatTypeInv, hiding
  <2>4. ASSUME sendsApart'
        PROVE  OneSender' /\ sendsApart
    <3>1. sendsApart /\ \A d \in RowIds(ccalls) : ccalls[d].at \notin {"insert", "stamp", "touch"}
      BY <1>4, <2>4 DEF SendMessage
    <3>2. \A d \in Calls : ~Sends(ccalls[d])
      BY <3>1 DEF Sends, RowIds, ChatInv, ChatTypeInv
    <3> QED
      BY <1>2, <2>1, <3>1, <3>2 DEF OneSender
  <2>5. ASSUME sendsApart', NEW d \in Calls PROVE SenderOK(ccalls[d])'
    BY <1>2, <2>1, <2>4, <2>5 DEF ChatInv, SenderOK, InsertedBy
  <2>6. sendsApart' => lastAt' <= clock' /\ \A m \in posted' : InsertedBy(m, lastAt)'
    BY <2>1, <2>4 DEF ChatInv, InsertedBy
  <2> QED
    BY <2>3, <2>4, <2>5, <2>6 DEF ChatInv
<1> QED
  BY <1>3, <1>4

(* The row of a new message.                                               *)
LEMMA InsertsOK ==
  ASSUME ChatInv, NEW c \in Calls, ccalls[c] # None, NEW m \in FreeIds(chat), InsertsChat(c, m)
  PROVE  /\ chat' \in [ChatMessages -> ChatRow \cup {None}]
         /\ RowsStay /\ m \in ChatMessages
         /\ chat'[m] # None /\ chat'[m].created = clock
<1> DEFINE r == [sender |-> ccalls[c].side, created |-> clock, delivered |-> FALSE, read |-> FALSE,
                 gone |-> {}]
<1>1. m \in ChatMessages /\ chat[m] = None
  BY DEF FreeIds, RowIds, ChatInv, ChatTypeInv
<1>2. r \in ChatRow /\ r.created = clock
  BY DEF ChatRow, ChatCall, ChatInv, ChatTypeInv
<1>3. chat' = [chat EXCEPT ![m] = r]
  BY DEF InsertsChat
<1> HIDE DEF r
<1> QED
  BY <1>1, <1>2, <1>3, ChatAssumption DEF RowsStay, ChatInv, ChatTypeInv

(* The steps of sendMessage.                                               *)
LEMMA SendsOK ==
  ASSUME ChatInv, NEW c \in Calls, InsertChat(c) \/ Stamp(c) \/ TouchConversation(c)
  PROVE  ChatInv'
<1>1. PICK b \in ChatCall : b = ccalls[c] /\ b # None /\ Sends(b)
  BY DEF InsertChat, Stamp, TouchConversation, Waits, Sends, ChatInv, ChatTypeInv
<1>2. clock \in Nat /\ lastAt \in Nat /\ sendsApart \in BOOLEAN /\ b.time \in Nat
  BY DEF ChatInv, ChatTypeInv, ChatCall
<1>3. UNCHANGED <<clock, hiding>>
  BY DEF InsertChat, Stamp, TouchConversation
<1>4. sendsApart => \A d \in Calls \ {c} : ~Sends(ccalls[d])
  BY <1>1 DEF ChatInv, OneSender
<1>5. CASE InsertChat(c)
  <2>1. PICK m \in FreeIds(chat) :
          /\ InsertsChat(c, m)
          /\ ccalls' = [ccalls EXCEPT ![c].at = "stamp", ![c].message = m]
    BY <1>5 DEF InsertChat
  <2>2. /\ chat' \in [ChatMessages -> ChatRow \cup {None}] /\ RowsStay
        /\ m \in ChatMessages /\ chat'[m] # None /\ chat'[m].created = clock
    BY <1>1, <2>1, InsertsOK
  <2>3. /\ ccalls'[c] = [b EXCEPT !.at = "stamp", !.message = m]
        /\ \A d \in Calls \ {c} : ccalls'[d] = ccalls[d]
    BY <1>1, <2>1 DEF ChatInv, ChatTypeInv
  <2>4. ccalls'[c] \in ChatCall /\ ccalls'[c].at = "stamp" /\ ccalls'[c].message = m
    BY <2>2, <2>3 DEF ChatCall
  <2>5. UNCHANGED <<lastAt, posted, sendsApart>>
    BY <1>5 DEF InsertChat
  <2>6. ChatTypeInv'
    <3>1. ccalls' \in [Calls -> ChatCall \cup {None}]
      BY <2>1, <2>3, <2>4 DEF ChatInv, ChatTypeInv
    <3> QED
      BY <1>3, <2>2, <2>5, <3>1 DEF ChatInv, ChatTypeInv, hiding
  <2>7. ASSUME sendsApart
        PROVE  /\ OneSender' /\ lastAt' <= clock' /\ \A d \in Calls : SenderOK(ccalls[d])'
               /\ \A n \in posted' : InsertedBy(n, lastAt)'
    <3>1. OneSender'
      BY <1>4, <2>3, <2>7 DEF OneSender
    <3>2. ASSUME NEW d \in Calls PROVE SenderOK(ccalls[d])'
      <4>1. CASE d = c
        BY <1>2, <1>3, <2>2, <2>4, <4>1 DEF SenderOK, InsertedBy
      <4>2. CASE d # c
        BY <1>4, <2>3, <2>7, <4>2 DEF SenderOK, Sends
      <4> QED
        BY <4>1, <4>2
    <3>3. ASSUME NEW n \in posted' PROVE InsertedBy(n, lastAt)'
      BY <2>2, <2>5, <2>7 DEF ChatInv, InsertedBy, RowsStay
    <3>4. lastAt' <= clock'
      BY <1>3, <2>5, <2>7 DEF ChatInv
    <3> QED
      BY <3>1, <3>2, <3>3, <3>4
  <2> QED
    BY <2>5, <2>6, <2>7 DEF ChatInv
<1>6. CASE Stamp(c)
  <2>1. /\ ccalls'[c] = [b EXCEPT !.at = "touch", !.time = clock]
        /\ \A d \in Calls \ {c} : ccalls'[d] = ccalls[d]
        /\ b.at = "stamp"
    BY <1>1, <1>6 DEF Stamp, Waits, ChatInv, ChatTypeInv
  <2>2. ccalls'[c] \in ChatCall /\ ccalls'[c].at = "touch" /\ ccalls'[c].message = b.message
        /\ ccalls'[c].time = clock
    BY <1>2, <2>1 DEF ChatCall
  <2>3. UNCHANGED <<lastAt, chat, posted, sendsApart>>
    BY <1>6 DEF Stamp
  <2>4. ChatTypeInv'
    <3>1. ccalls' \in [Calls -> ChatCall \cup {None}]
      BY <1>6, <2>1, <2>2 DEF Stamp, ChatInv, ChatTypeInv
    <3> QED
      BY <1>3, <2>3, <3>1 DEF ChatInv, ChatTypeInv, hiding
  <2>5. ASSUME sendsApart
        PROVE  /\ OneSender' /\ lastAt' <= clock' /\ \A d \in Calls : SenderOK(ccalls[d])'
               /\ \A n \in posted' : InsertedBy(n, lastAt)'
    <3>1. OneSender'
      BY <1>4, <2>1, <2>5 DEF OneSender
    <3>2. InsertedBy(b.message, clock) /\ lastAt <= clock
      BY <1>1, <2>1, <2>5 DEF ChatInv, SenderOK
    <3>3. ASSUME NEW d \in Calls PROVE SenderOK(ccalls[d])'
      <4>1. CASE d = c
        BY <1>2, <1>3, <2>2, <2>3, <3>2, <4>1 DEF SenderOK, InsertedBy
      <4>2. CASE d # c
        BY <1>4, <2>1, <2>5, <4>2 DEF SenderOK, Sends
      <4> QED
        BY <4>1, <4>2
    <3>4. \A n \in posted' : InsertedBy(n, lastAt)'
      BY <2>3, <2>5 DEF ChatInv, InsertedBy
    <3> QED
      BY <1>3, <2>3, <3>1, <3>2, <3>3, <3>4
  <2> QED
    BY <2>3, <2>4, <2>5 DEF ChatInv
<1>7. CASE TouchConversation(c)
  <2>1. /\ ccalls'[c] = None /\ \A d \in Calls \ {c} : ccalls'[d] = ccalls[d]
        /\ ccalls' \in [Calls -> ChatCall \cup {None}] /\ b.at = "touch"
    BY <1>1, <1>7 DEF TouchConversation, CEnds, Waits, ChatInv, ChatTypeInv
  <2>2. UNCHANGED chat /\ posted' = posted \cup {b.message}
    BY <1>1, <1>7 DEF TouchConversation
  <2>6. posted' \subseteq ChatMessages \cup {None}
    BY <2>2 DEF ChatInv, ChatTypeInv, ChatCall
  <2>3. ASSUME sendsApart
        PROVE  InsertedBy(b.message, b.time) /\ lastAt <= b.time /\ b.time <= clock
    BY <1>1, <2>1, <2>3 DEF ChatInv, SenderOK
  <2>4. CASE lastAt' = b.time /\ sendsApart' = sendsApart
    <3>1. ASSUME sendsApart
          PROVE  /\ OneSender' /\ lastAt' <= clock' /\ \A d \in Calls : SenderOK(ccalls[d])'
                 /\ \A n \in posted' : InsertedBy(n, lastAt)'
      <4>1. OneSender' /\ \A d \in Calls : SenderOK(ccalls[d])'
        BY <1>4, <2>1, <3>1 DEF OneSender, Sends, SenderOK
      <4>2. ASSUME NEW n \in posted PROVE InsertedBy(n, b.time)
        <5>1. InsertedBy(n, lastAt)
          BY <3>1 DEF ChatInv
        <5>2. chat[n].created \in Nat
          BY <5>1 DEF InsertedBy, ChatInv, ChatTypeInv, ChatRow
        <5> QED
          BY <1>2, <2>3, <3>1, <5>1, <5>2 DEF InsertedBy
      <4>3. \A n \in posted' : InsertedBy(n, lastAt)'
        BY <2>2, <2>3, <2>4, <3>1, <4>2 DEF InsertedBy
      <4> QED
        BY <1>3, <2>3, <2>4, <3>1, <4>1, <4>3
    <3>2. ChatTypeInv'
      BY <1>2, <1>3, <2>1, <2>2, <2>4, <2>6 DEF ChatInv, ChatTypeInv, hiding
    <3> QED
      BY <2>4, <3>1, <3>2 DEF ChatInv
  <2>5. CASE ~sendsApart' /\ sendsApart' \in BOOLEAN /\ lastAt' = lastAt
    <3>1. ChatTypeInv'
      BY <1>2, <1>3, <2>1, <2>2, <2>5, <2>6 DEF ChatInv, ChatTypeInv, hiding
    <3> QED
      BY <2>5, <3>1 DEF ChatInv
  <2>7. \/ lastAt' = b.time /\ sendsApart' = sendsApart
        \/ ~sendsApart' /\ sendsApart' \in BOOLEAN /\ lastAt' = lastAt
    BY <1>1, <1>7, Zenon DEF TouchConversation
  <2> QED
    BY <2>4, <2>5, <2>7
<1> QED
  BY <1>5, <1>6, <1>7

(* What ends a call, or is no call, and sends nothing.                      *)
LEMMA AsidesOK ==
  ASSUME ChatInv,
         \/ \E c \in Calls : InsertFirst(c) \/ WriteDeleted(c) \/ WriteCleared(c)
                             \/ WriteReopened(c) \/ ChatAbort(c)
         \/ \E s \in Sides : MarkAsRead(s) \/ FetchMessages(s)
                             \/ \E m \in ChatMessages : DeleteChatMessage(s, m)
         \/ TimePasses
  PROVE  ChatInv'
<1>1. /\ clock \in Nat
      /\ chat \in [ChatMessages -> ChatRow \cup {None}]
      /\ \A c \in Calls : ccalls[c] # None => ccalls[c].side \in Sides /\ ccalls[c].time \in Nat
  BY DEF ChatInv, ChatTypeInv, ChatCall
<1>2. ASSUME NEW c \in Calls, CEnds(c)
      PROVE  /\ ccalls' \in [Calls -> ChatCall \cup {None}]
             /\ \A d \in Calls : ccalls'[d] = ccalls[d] \/ ~Sends(ccalls'[d])
  BY <1>2 DEF CEnds, ChatInv, ChatTypeInv, Sends
<1>3. ASSUME NEW c \in Calls, InsertFirst(c) PROVE ChatInv'
  <2>1. ccalls[c] # None /\ CEnds(c) /\ UNCHANGED <<clock, hiding, lastAt, posted, sendsApart>>
    BY <1>3 DEF InsertFirst, Waits
  <2>2. PICK m \in FreeIds(chat) : InsertsChat(c, m)
    BY <1>3 DEF InsertFirst
  <2>3. chat' \in [ChatMessages -> ChatRow \cup {None}] /\ RowsStay
    BY <2>1, <2>2, InsertsOK
  <2>4. ChatTypeInv'
    BY <1>2, <2>1, <2>3 DEF ChatInv, ChatTypeInv, hiding
  <2> QED
    BY <1>1, <1>2, <2>1, <2>3, <2>4, AsideStep
<1>4. ASSUME NEW c \in Calls,
             WriteDeleted(c) \/ WriteCleared(c) \/ WriteReopened(c) \/ ChatAbort(c)
      PROVE  ChatInv'
  <2>1. ccalls[c] # None /\ CEnds(c) /\ UNCHANGED <<clock, lastAt, chat, posted, sendsApart>>
    BY <1>4 DEF WriteDeleted, WriteCleared, WriteReopened, ChatAbort, Waits
  <2>2. deletedAt' \in [Sides -> Nat] /\ clearedAt' \in [Sides -> Nat]
    BY <1>1, <1>4, <2>1
    DEF WriteDeleted, WriteCleared, WriteReopened, ChatAbort, ChatInv, ChatTypeInv, hiding
  <2>3. ChatTypeInv' /\ RowsStay
    BY <1>2, <2>1, <2>2 DEF ChatInv, ChatTypeInv, RowsStay
  <2> QED
    BY <1>1, <1>2, <2>1, <2>3, AsideStep
<1>5. ASSUME NEW s \in Sides,
             MarkAsRead(s) \/ FetchMessages(s) \/ \E m \in ChatMessages : DeleteChatMessage(s, m)
      PROVE  ChatInv'
  <2>1. UNCHANGED <<clock, hiding, lastAt, ccalls, posted, sendsApart>>
    BY <1>5 DEF MarkAsRead, FetchMessages, DeleteChatMessage
  <2>2. ASSUME NEW r \in ChatRow,
               NEW x \in {[r EXCEPT !.read = TRUE], [r EXCEPT !.delivered = TRUE],
                          [r EXCEPT !.gone = @ \cup {s}]}
        PROVE  x \in ChatRow /\ x.created = r.created
    BY <2>2 DEF ChatRow
  <2>3. ASSUME NEW m \in ChatMessages
        PROVE  \/ chat'[m] = chat[m]
               \/ chat[m] # None /\ chat'[m] = [chat[m] EXCEPT !.read = TRUE]
               \/ chat[m] # None /\ chat'[m] = [chat[m] EXCEPT !.delivered = TRUE]
               \/ chat[m] # None /\ chat'[m] = [chat[m] EXCEPT !.gone = @ \cup {s}]
    BY <1>1, <1>5 DEF MarkAsRead, FetchMessages, Shown, DeleteChatMessage
  <2>4. ASSUME NEW m \in ChatMessages
        PROVE  /\ chat'[m] \in ChatRow \cup {None}
               /\ chat[m] # None => chat'[m] # None /\ chat'[m].created = chat[m].created
    <3>1. CASE chat'[m] = chat[m]
      BY <1>1, <3>1
    <3>2. CASE chat[m] # None /\ chat'[m] # chat[m]
      <4>1. chat[m] \in ChatRow
        BY <1>1, <3>2
      <4>2. chat'[m] \in ChatRow /\ chat'[m].created = chat[m].created
        BY <2>2, <2>3, <3>2, <4>1
      <4> QED
        BY <4>2, ChatAssumption
    <3> QED
      BY <2>3, <3>1, <3>2
  <2>5. chat' = [m \in ChatMessages |-> chat'[m]]
    BY <1>1, <1>5 DEF MarkAsRead, FetchMessages, DeleteChatMessage
  <2>6. ChatTypeInv' /\ RowsStay
    BY <2>1, <2>4, <2>5 DEF ChatInv, ChatTypeInv, RowsStay, hiding
  <2> QED
    BY <1>1, <2>1, <2>6, AsideStep
<1>6. ASSUME TimePasses PROVE ChatInv'
  <2>1. clock' = clock + 1 /\ UNCHANGED <<hiding, lastAt, chat, ccalls, posted, sendsApart>>
    BY <1>6 DEF TimePasses
  <2>2. ChatTypeInv' /\ RowsStay
    BY <1>1, <2>1 DEF ChatInv, ChatTypeInv, RowsStay, hiding
  <2> QED
    BY <1>1, <2>1, <2>2, AsideStep
<1> QED
  BY <1>3, <1>4, <1>5, <1>6

LEMMA ChatStepOK == ChatInv /\ [ChatNext]_chatVars => ChatInv'
<1> SUFFICES ASSUME ChatInv, [ChatNext]_chatVars PROVE ChatInv'
  OBVIOUS
<1>1. CASE ChatNext
  BY <1>1, ChatStartsOK, SendsOK, AsidesOK DEF ChatNext, ChatStep
<1>2. CASE UNCHANGED chatVars
  BY <1>2 DEF chatVars, hiding, ChatInv, ChatTypeInv, OneSender, SenderOK, InsertedBy
<1> QED
  BY <1>1, <1>2

LEMMA ChatInvHolds == ChatSpec => []ChatInv
BY ChatInitOK, ChatStepOK, PTL DEF ChatSpec

(* A message that was sent, and that a user would be shown, is in a        *)
(* conversation that is listed for him: last_message_at is not older than  *)
(* the message, and the message is newer than what hides the conversation. *)
THEOREM SentMessageIsListed == ChatSpec => []NewMessageIsListed
<1>1. ChatInv => NewMessageIsListed
  <2> SUFFICES ASSUME ChatInv, sendsApart, NEW m \in posted, NEW s \in Sides,
                      Shown(m, s), chat[m].created > clearedAt[s], HiddenAt(s) # 0
               PROVE  lastAt > HiddenAt(s)
    BY DEF NewMessageIsListed, Listed
  <2>1. InsertedBy(m, lastAt)
    BY DEF ChatInv
  <2>2. chat[m] \in ChatRow
    BY <2>1 DEF InsertedBy, ChatInv, ChatTypeInv
  <2>3. chat[m].created \in Nat /\ lastAt \in Nat /\ deletedAt[s] \in Nat /\ clearedAt[s] \in Nat
    BY <2>2 DEF ChatRow, ChatInv, ChatTypeInv
  <2>4. chat[m].created > HiddenAt(s)
    BY <2>3 DEF Shown, HiddenAt
  <2>5. HiddenAt(s) \in Nat
    BY <2>3 DEF HiddenAt
  <2> QED
    BY <2>1, <2>3, <2>4, <2>5 DEF InsertedBy
<1> QED
  BY <1>1, ChatInvHolds, PTL

----------------------------------------------------------------------------
(* Referral posts.  A like, bookmark or comment being counted is a row of  *)
(* its user, who has no other handler, so what is still to be counted is   *)
(* never more than the rows, and rows still to be uncounted are gone.      *)

MarksTypeInv ==
  /\ referral \in ReferralRow \cup {None}
  /\ marks \in [Marks -> SUBSET Fans]
  /\ remarks \in [CommentsMade -> Fans \cup {None}]
  /\ pcalls \in [Calls -> ReferralCall \cup {None}]
  /\ marksApart \in BOOLEAN

(* What a handler is about fits the statement it waits for.                *)
AboutInv ==
  \A c \in Calls : pcalls[c] # None =>
    /\ pcalls[c].at \in {"insertMark", "deleteMark"} => pcalls[c].kind \in Marks
    /\ pcalls[c].at \in {"insertRemark", "deleteRemark"} => pcalls[c].kind = "comments"
    /\ pcalls[c].at = "deleteRemark" => pcalls[c].id \in CommentsMade

OneEach ==
  \A c, d \in Calls :
    pcalls[c] # None /\ pcalls[d] # None /\ pcalls[c].user = pcalls[d].user => c = d

(* What is counted is there, and a comment to be deleted is its author's.  *)
RowIsThere(c) ==
  pcalls[c] # None =>
    /\ pcalls[c].at = "count" /\ pcalls[c].kind \in Marks =>
         pcalls[c].user \in marks[pcalls[c].kind]
    /\ pcalls[c].at = "count" /\ pcalls[c].kind = "comments" =>
         \E i \in CommentsMade : remarks[i] = pcalls[c].user
    /\ pcalls[c].at = "deleteRemark" => remarks[pcalls[c].id] = pcalls[c].user

RowSet(kind) == IF kind = "comments" THEN RowIds(remarks) ELSE marks[kind]
Ahead(at, kind) == {c \in Calls : Waits(pcalls[c], at) /\ pcalls[c].kind = kind}

Tallies(kind) ==
  referral.counts[kind] + Cardinality(Ahead("count", kind))
    <= Cardinality(RowSet(kind)) + Cardinality(Ahead("uncount", kind))

MarksInv ==
  /\ MarksTypeInv
  /\ AboutInv
  /\ marksApart /\ referral # None =>
       /\ OneEach
       /\ \A c \in Calls : RowIsThere(c)
       /\ \A kind \in ReferralCounters : Tallies(kind)

LEMMA AheadFinite ==
  ASSUME NEW at, NEW kind
  PROVE  /\ IsFiniteSet(Ahead(at, kind)) /\ IsFiniteSet(Ahead(at, kind)')
         /\ Cardinality(Ahead(at, kind)) \in Nat /\ Cardinality(Ahead(at, kind)') \in Nat
<1>1. Ahead(at, kind) \in SUBSET Calls /\ Ahead(at, kind)' \in SUBSET Calls
  BY DEF Ahead
<1>2. IsFiniteSet(Ahead(at, kind)) /\ IsFiniteSet(Ahead(at, kind)')
  BY <1>1, ReferralsAssumption, FS_Subset
<1> QED
  BY <1>2, FS_CardinalityType

LEMMA RowSetFinite ==
  ASSUME MarksTypeInv, NEW kind \in ReferralCounters
  PROVE  IsFiniteSet(RowSet(kind)) /\ Cardinality(RowSet(kind)) \in Nat
<1>1. RowSet(kind) \in SUBSET CommentsMade \/ RowSet(kind) \in SUBSET Fans
  BY DEF RowSet, RowIds, MarksTypeInv, ReferralCounters, Marks
<1>2. IsFiniteSet(RowSet(kind))
  BY <1>1, ReferralsAssumption, FS_Subset
<1> QED
  BY <1>2, FS_CardinalityType

(* What is to be counted is at most what there is.                         *)
LEMMA AheadHaveRows ==
  ASSUME MarksTypeInv, OneEach, \A c \in Calls : RowIsThere(c), NEW kind \in ReferralCounters
  PROVE  Cardinality(Ahead("count", kind)) <= Cardinality(RowSet(kind))
<1> DEFINE A == Ahead("count", kind)
<1>1. CASE kind \in Marks
  <2> DEFINE f == [c \in A |-> pcalls[c].user]
  <2>1. RowSet(kind) = marks[kind]
    BY <1>1 DEF RowSet, Marks
  <2>2. \A c \in A : pcalls[c].user \in marks[kind]
    BY <1>1 DEF Ahead, Waits, RowIsThere
  <2>3. \A c, d \in A : pcalls[c].user = pcalls[d].user => c = d
    BY DEF Ahead, Waits, OneEach
  <2>4. f \in Injection(A, RowSet(kind))
    BY <2>1, <2>2, <2>3 DEF Injection, IsInjective
  <2> QED
    BY <2>4, RowSetFinite, FS_Injection
<1>2. CASE kind = "comments"
  <2> DEFINE f == [c \in A |-> CHOOSE i \in CommentsMade : remarks[i] = pcalls[c].user]
  <2>1. RowSet(kind) = RowIds(remarks)
    BY <1>2 DEF RowSet
  <2>2. ASSUME NEW c \in A
        PROVE  /\ f[c] \in CommentsMade /\ remarks[f[c]] = pcalls[c].user
               /\ pcalls[c].user # None /\ c \in Calls
    <3>1. /\ c \in Calls /\ pcalls[c] # None
          /\ \E i \in CommentsMade : remarks[i] = pcalls[c].user
      BY <1>2, <2>2 DEF Ahead, Waits, RowIsThere
    <3>2. pcalls[c].user \in Fans
      BY <3>1 DEF MarksTypeInv, ReferralCall
    <3> QED
      BY <3>1, <3>2, ReferralsAssumption
  <2>3. \A c \in A : f[c] \in RowIds(remarks)
    BY <2>2 DEF RowIds, MarksTypeInv
  <2>4. \A c, d \in A : f[c] = f[d] => c = d
    <3> SUFFICES ASSUME NEW c \in A, NEW d \in A, f[c] = f[d] PROVE c = d
      OBVIOUS
    <3> HIDE DEF f
    <3>1. pcalls[c].user = pcalls[d].user
      BY <2>2
    <3>2. pcalls[c] # None /\ pcalls[d] # None
      BY DEF Ahead, Waits
    <3> QED
      BY <2>2, <3>1, <3>2 DEF OneEach
  <2>5. f \in [A -> RowIds(remarks)]
    BY <2>3
  <2>6. f \in Injection(A, RowSet(kind))
    <3>1. \A c, d \in DOMAIN f : f[c] = f[d] => c = d
      BY <2>4
    <3> HIDE DEF f, A
    <3> QED BY <2>1, <2>5, <3>1 DEF Injection, IsInjective
  <2> HIDE DEF f
  <2> QED
    BY <2>6, RowSetFinite, FS_Injection
<1> QED
  BY <1>1, <1>2 DEF ReferralCounters

(* A handler that ends or goes on leaves each user with one.               *)
LEMMA OneEachStep ==
  ASSUME MarksTypeInv, OneEach, NEW c \in Calls, NEW k, pcalls' = [pcalls EXCEPT ![c] = k],
         k = None \/ (pcalls[c] # None /\ k.user = pcalls[c].user)
  PROVE  OneEach'
<1>1. pcalls'[c] = k /\ \A d \in Calls : d # c => pcalls'[d] = pcalls[d]
  BY DEF MarksTypeInv
<1> QED
  BY <1>1 DEF OneEach

(* A handler writes rows of its own user only, so the others keep theirs.  *)
LEMMA OthersKeepRows ==
  ASSUME MarksInv, OneEach, NEW c \in Calls, pcalls[c] # None,
         NEW k, pcalls' = [pcalls EXCEPT ![c] = k],
         \A kind \in Marks : marks[kind] \ {pcalls[c].user} \subseteq marks'[kind],
         \A i \in CommentsMade :
           remarks[i] \in Fans \ {pcalls[c].user} => remarks'[i] = remarks[i],
         NEW d \in Calls, d # c, RowIsThere(d)
  PROVE  RowIsThere(d)'
<1>1. pcalls'[d] = pcalls[d]
  BY DEF MarksInv, MarksTypeInv
<1>2. CASE pcalls[d] # None
  <2>1. pcalls[d].user \in Fans \ {pcalls[c].user}
    BY <1>2 DEF OneEach, MarksInv, MarksTypeInv, ReferralCall
  <2>2. pcalls[d].at = "deleteRemark" => pcalls[d].id \in CommentsMade
    BY <1>2 DEF MarksInv, AboutInv
  <2> QED
    BY <1>1, <2>1, <2>2 DEF RowIsThere
<1> QED
  BY <1>1, <1>2 DEF RowIsThere

(* A new handler has nothing ahead yet; it is its user's only one, or      *)
(* marksApart says so.                                                     *)
LEMMA StartsOK ==
  ASSUME MarksInv, NEW c \in Calls, NEW user \in Fans, NEW kind \in ReferralCounters,
         NEW id \in CommentsMade \cup {None},
         NEW at \in {"insertMark", "deleteMark", "insertRemark", "deleteRemark"},
         at \in {"insertMark", "deleteMark"} => kind \in Marks,
         at \in {"insertRemark", "deleteRemark"} => kind = "comments",
         at = "deleteRemark" => id \in CommentsMade /\ remarks[id] = user,
         PStarts(c, at, user, kind, id)
  PROVE  MarksInv'
<1>1. PICK k \in ReferralCall : k = [at |-> at, user |-> user, kind |-> kind, id |-> id]
  BY DEF ReferralCall
<1>2. k.at = at /\ k.user = user /\ k.kind = kind /\ k.id = id /\ k # None
  BY <1>1, ReferralsAssumption
<1>3. /\ pcalls' = [pcalls EXCEPT ![c] = k]
      /\ pcalls[c] = None
      /\ marksApart' = (marksApart /\ \A d \in RowIds(pcalls) : pcalls[d].user # user)
      /\ UNCHANGED <<referral, marks, remarks>>
  BY <1>1 DEF PStarts
<1>4. pcalls'[c] = k /\ \A d \in Calls : d # c => pcalls'[d] = pcalls[d]
  BY <1>3 DEF MarksInv, MarksTypeInv
<1>5. MarksTypeInv'
  <2>1. pcalls' \in [Calls -> ReferralCall \cup {None}]
    BY <1>3 DEF MarksInv, MarksTypeInv
  <2>2. marksApart' \in BOOLEAN
    BY <1>3 DEF MarksInv, MarksTypeInv
  <2> QED
    BY <1>3, <2>1, <2>2 DEF MarksInv, MarksTypeInv
<1>6. AboutInv'
  BY <1>2, <1>4 DEF MarksInv, AboutInv
<1>7. ASSUME marksApart', referral' # None
      PROVE  /\ OneEach'
             /\ \A d \in Calls : RowIsThere(d)'
             /\ \A o \in ReferralCounters : Tallies(o)'
  <2>1. marksApart /\ referral # None /\ \A d \in RowIds(pcalls) : pcalls[d].user # user
    BY <1>3, <1>7 DEF MarksInv, MarksTypeInv
  <2>2. OneEach /\ (\A d \in Calls : RowIsThere(d)) /\ \A o \in ReferralCounters : Tallies(o)
    BY <2>1 DEF MarksInv
  <2>3. \A d \in Calls : pcalls[d] # None => pcalls[d].user # user
    BY <2>1 DEF RowIds, MarksInv, MarksTypeInv
  <2>4. OneEach'
    BY <1>2, <1>4, <2>2, <2>3 DEF OneEach
  <2>5. RowIsThere(c)'
    BY <1>2, <1>3, <1>4 DEF RowIsThere
  <2>6. \A d \in Calls : d # c => RowIsThere(d)'
    BY <1>3, <1>4, <2>2 DEF RowIsThere
  <2>7. ASSUME NEW o \in ReferralCounters PROVE Tallies(o)'
    <3>1. Ahead("count", o)' = Ahead("count", o) /\ Ahead("uncount", o)' = Ahead("uncount", o)
      BY <1>2, <1>3, <1>4 DEF Ahead, Waits
    <3>2. RowSet(o)' = RowSet(o)
      BY <1>3 DEF RowSet, RowIds
    <3> QED
      BY <1>3, <2>2, <3>1, <3>2 DEF Tallies
  <2> QED
    BY <2>4, <2>5, <2>6, <2>7
<1> QED
  BY <1>5, <1>6, <1>7 DEF MarksInv

(* A handler that ends with nothing ahead has changed nothing.             *)
LEMMA RefusedOK ==
  ASSUME MarksInv, NEW c \in Calls, pcalls[c] # None,
         pcalls[c].at \notin {"count", "uncount"},
         pcalls' = [pcalls EXCEPT ![c] = None],
         UNCHANGED <<referral, marks, remarks, marksApart>>
  PROVE  MarksInv'
<1>1. pcalls'[c] = None /\ \A d \in Calls : d # c => pcalls'[d] = pcalls[d]
  BY DEF MarksInv, MarksTypeInv
<1>2. MarksTypeInv' /\ AboutInv'
  BY <1>1 DEF MarksInv, MarksTypeInv, AboutInv
<1>3. ASSUME marksApart', referral' # None
      PROVE  /\ OneEach'
             /\ \A d \in Calls : RowIsThere(d)'
             /\ \A o \in ReferralCounters : Tallies(o)'
  <2>1. OneEach /\ (\A d \in Calls : RowIsThere(d)) /\ \A o \in ReferralCounters : Tallies(o)
    BY <1>3 DEF MarksInv
  <2>2. OneEach' /\ \A d \in Calls : RowIsThere(d)'
    BY <1>1, <2>1 DEF OneEach, RowIsThere
  <2>3. ASSUME NEW o \in ReferralCounters PROVE Tallies(o)'
    <3>1. Ahead("count", o)' = Ahead("count", o) /\ Ahead("uncount", o)' = Ahead("uncount", o)
      BY <1>1 DEF Ahead, Waits
    <3>2. RowSet(o)' = RowSet(o)
      BY DEF RowSet, RowIds
    <3> QED
      BY <2>1, <3>1, <3>2 DEF Tallies
  <2> QED
    BY <2>2, <2>3
<1> QED
  BY <1>2, <1>3 DEF MarksInv

(* A handler writes its row and has its count, or takes its row away and   *)
(* has its uncount, ahead of it.                                           *)
LEMMA WritesOK ==
  ASSUME MarksInv, MarksTypeInv', NEW c \in Calls, pcalls[c] # None,
         pcalls[c].at \notin {"count", "uncount"},
         NEW stage \in {"count", "uncount"}, NEW row,
         pcalls' = [pcalls EXCEPT ![c].at = stage],
         UNCHANGED <<referral, marksApart>>,
         NEW own, own = pcalls[c].kind,
         stage = "count" => row \notin RowSet(own) /\ RowSet(own)' = RowSet(own) \cup {row},
         stage = "uncount" => RowSet(own)' = RowSet(own) \ {row},
         \A o \in ReferralCounters \ {own} : RowSet(o)' = RowSet(o),
         marksApart /\ referral # None =>
           /\ RowIsThere(c)'
           /\ \A kind \in Marks : marks[kind] \ {pcalls[c].user} \subseteq marks'[kind]
           /\ \A i \in CommentsMade :
                remarks[i] \in Fans \ {pcalls[c].user} => remarks'[i] = remarks[i]
  PROVE  MarksInv'
<1>1. pcalls[c] \in ReferralCall /\ pcalls[c].kind \in ReferralCounters
  BY DEF MarksInv, MarksTypeInv, ReferralCall
<1>2. PICK k \in ReferralCall : k = [pcalls[c] EXCEPT !.at = stage]
  BY <1>1 DEF ReferralCall
<1>3. /\ k # None /\ k.at = stage /\ k.user = pcalls[c].user
      /\ k.kind = pcalls[c].kind /\ k.id = pcalls[c].id
  BY <1>1, <1>2, ReferralsAssumption DEF ReferralCall
<1>4. pcalls' = [pcalls EXCEPT ![c] = k]
  BY <1>2
<1>5. pcalls'[c] = k /\ \A d \in Calls : d # c => pcalls'[d] = pcalls[d]
  BY <1>4 DEF MarksInv, MarksTypeInv
<1>6. AboutInv'
  BY <1>3, <1>5 DEF MarksInv, AboutInv
<1>7. ASSUME marksApart', referral' # None
      PROVE  /\ OneEach'
             /\ \A d \in Calls : RowIsThere(d)'
             /\ \A o \in ReferralCounters : Tallies(o)'
  <2>1. /\ marksApart /\ referral # None
        /\ OneEach /\ (\A d \in Calls : RowIsThere(d)) /\ \A o \in ReferralCounters : Tallies(o)
    BY <1>7 DEF MarksInv
  <2>2. OneEach'
    BY <1>3, <1>4, <2>1, OneEachStep DEF MarksInv
  <2>3. \A d \in Calls : RowIsThere(d)'
    BY <1>4, <2>1, OthersKeepRows
  <2>4. ASSUME NEW o \in ReferralCounters PROVE Tallies(o)'
    <3> DEFINE A == Ahead("count", o)
               U == Ahead("uncount", o)
    <3>1. Tallies(o)
      BY <2>1
    <3>2. c \notin A /\ c \notin U
      BY DEF Ahead, Waits
    <3>3. /\ stage = "count" /\ k.kind = o => A' = A \cup {c}
          /\ ~(stage = "count" /\ k.kind = o) => A' = A \ {c}
          /\ stage = "uncount" /\ k.kind = o => U' = U \cup {c}
          /\ ~(stage = "uncount" /\ k.kind = o) => U' = U \ {c}
      <4> QED
        BY <1>3, <1>5 DEF Ahead, Waits
    <3>4. referral' = referral
      OBVIOUS
    <3>5. /\ IsFiniteSet(A) /\ IsFiniteSet(U) /\ IsFiniteSet(RowSet(o))
          /\ Cardinality(A) \in Nat /\ Cardinality(U) \in Nat /\ Cardinality(RowSet(o)) \in Nat
      BY AheadFinite, RowSetFinite DEF MarksInv
    <3>6. referral.counts[o] \in Nat
      BY <2>1 DEF MarksInv, MarksTypeInv, ReferralRow
    <3>7. CASE k.kind # o
      <4>1. A' = A /\ U' = U
        BY <3>2, <3>3, <3>7
      <4>2. RowSet(o)' = RowSet(o)
        BY <1>3, <3>7
      <4> QED
        BY <3>1, <3>4, <4>1, <4>2 DEF Tallies
    <3>8. CASE k.kind = o /\ stage = "count"
      <4>1. A' = A \cup {c} /\ U' = U
        BY <3>2, <3>3, <3>8
      <4>2. RowSet(o)' = RowSet(o) \cup {row} /\ row \notin RowSet(o)
        BY <1>3, <3>8
      <4>3. Cardinality(A') = Cardinality(A) + 1
        BY <3>2, <3>5, <4>1, FS_AddElement
      <4>4. Cardinality(RowSet(o)') = Cardinality(RowSet(o)) + 1
        BY <3>5, <4>2, FS_AddElement
      <4> QED
        BY <3>1, <3>4, <3>5, <3>6, <4>1, <4>3, <4>4 DEF Tallies
    <3>9. CASE k.kind = o /\ stage = "uncount"
      <4>1. A' = A /\ U' = U \cup {c}
        BY <3>2, <3>3, <3>9
      <4>2. RowSet(o)' = RowSet(o) \ {row}
        BY <1>3, <3>9
      <4>3. Cardinality(U') = Cardinality(U) + 1
        BY <3>2, <3>5, <4>1, FS_AddElement
      <4>4. \/ Cardinality(RowSet(o)') = Cardinality(RowSet(o))
            \/ Cardinality(RowSet(o)') = Cardinality(RowSet(o)) - 1
        <5> HIDE DEF A, U
        <5>1. Cardinality(RowSet(o) \ {row}) =
                IF row \in RowSet(o) THEN Cardinality(RowSet(o)) - 1
                ELSE Cardinality(RowSet(o))
          BY <3>5, FS_RemoveElement
        <5> QED
          BY <4>2, <5>1
      <4> QED
        BY <3>1, <3>4, <3>5, <3>6, <4>1, <4>3, <4>4 DEF Tallies
    <3> QED
      BY <3>7, <3>8, <3>9
  <2> QED
    BY <2>2, <2>3, <2>4
<1> QED
  BY <1>6, <1>7 DEF MarksInv


LEMMA MarksInitOK == ReferralsInit => MarksInv
<1> SUFFICES ASSUME ReferralsInit PROVE MarksInv
  OBVIOUS
<1>1. referral.counts \in [ReferralCounters -> Nat] /\ referral \in ReferralRow
  BY DEF ReferralsInit, ReferralRow
<1>2. MarksTypeInv
  BY <1>1 DEF ReferralsInit, MarksTypeInv
<1>3. AboutInv /\ OneEach /\ \A c \in Calls : RowIsThere(c)
  BY DEF ReferralsInit, AboutInv, OneEach, RowIsThere
<1>4. ASSUME NEW kind \in ReferralCounters PROVE Tallies(kind)
  <2>1. Ahead("count", kind) = {} /\ Ahead("uncount", kind) = {}
    BY DEF ReferralsInit, Ahead, Waits
  <2>2. RowSet(kind) = {}
    BY DEF ReferralsInit, RowSet, RowIds, ReferralCounters
  <2>3. referral.counts[kind] = 0
    BY DEF ReferralsInit
  <2> QED
    BY <2>1, <2>2, <2>3, FS_EmptySet DEF Tallies
<1> QED
  BY <1>2, <1>3, <1>4 DEF MarksInv

LEMMA MarkStartsOK ==
  ASSUME MarksInv, NEW c \in Calls,
         \/ \E user \in Fans : \/ CreateRemark(c, user)
                               \/ \E kind \in Marks : Mark(c, user, kind) \/ Unmark(c, user, kind)
         \/ \E i \in CommentsMade : DeleteRemark(c, i)
  PROVE  MarksInv'
<1> USE DEF ReferralCounters
<1>1. ASSUME NEW user \in Fans, CreateRemark(c, user)
      PROVE  MarksInv'
  BY <1>1, StartsOK DEF CreateRemark
<1>2. ASSUME NEW user \in Fans, NEW kind \in Marks, Mark(c, user, kind)
      PROVE  MarksInv'
  BY <1>2, StartsOK DEF Mark
<1>3. ASSUME NEW user \in Fans, NEW kind \in Marks, Unmark(c, user, kind)
      PROVE  MarksInv'
  BY <1>3, StartsOK DEF Unmark
<1>4. ASSUME NEW i \in CommentsMade, DeleteRemark(c, i)
      PROVE  MarksInv'
  <2>1. PICK user \in Fans : user = remarks[i]
    BY <1>4 DEF DeleteRemark, MarksInv, MarksTypeInv
  <2>2. PStarts(c, "deleteRemark", user, "comments", i)
    BY <1>4, <2>1 DEF DeleteRemark
  <2> QED
    BY <2>1, <2>2, StartsOK
<1> QED
  BY <1>1, <1>2, <1>3, <1>4

LEMMA InsertMarkOK ==
  ASSUME MarksInv, NEW c \in Calls, InsertMark(c)
  PROVE  MarksInv'
<1>1. /\ pcalls[c] # None /\ pcalls[c].at = "insertMark"
      /\ pcalls[c].kind \in Marks /\ pcalls[c].user \in Fans
  BY DEF InsertMark, Waits, MarksInv, MarksTypeInv, AboutInv, ReferralCall
<1>2. PICK user \in Fans, kind \in Marks : user = pcalls[c].user /\ kind = pcalls[c].kind
  BY <1>1
<1>3. CASE PEnds(c) /\ UNCHANGED marks
  BY <1>1, <1>3, RefusedOK DEF InsertMark, PEnds
<1>4. CASE /\ user \notin marks[kind]
           /\ marks' = [marks EXCEPT ![kind] = @ \cup {user}]
           /\ PGoes(c, "count")
  <2>1. /\ pcalls' = [pcalls EXCEPT ![c].at = "count"]
        /\ UNCHANGED <<referral, remarks, marksApart>>
    BY <1>4 DEF InsertMark, PGoes
  <2>2. /\ marks'[kind] = marks[kind] \cup {user}
        /\ \A o \in Marks : o # kind => marks'[o] = marks[o]
        /\ marks' \in [Marks -> SUBSET Fans]
    BY <1>4 DEF MarksInv, MarksTypeInv
  <2>3. /\ pcalls' \in [Calls -> ReferralCall \cup {None}]
        /\ pcalls'[c].user = user /\ pcalls'[c].kind = kind /\ pcalls'[c].at = "count"
    BY <1>1, <1>2, <2>1 DEF MarksInv, MarksTypeInv, ReferralCall
  <2>4. MarksTypeInv'
    BY <2>1, <2>2, <2>3 DEF MarksInv, MarksTypeInv
  <2>5. RowIsThere(c)'
    BY <2>2, <2>3 DEF RowIsThere, Marks
  <2>6. /\ user \notin RowSet(kind) /\ RowSet(kind)' = RowSet(kind) \cup {user}
        /\ \A o \in ReferralCounters \ {kind} : RowSet(o)' = RowSet(o)
    BY <1>4, <2>1, <2>2 DEF RowSet, RowIds, ReferralCounters, Marks
  <2>7. /\ \A o \in Marks : marks[o] \ {pcalls[c].user} \subseteq marks'[o]
        /\ \A i \in CommentsMade :
             remarks[i] \in Fans \ {pcalls[c].user} => remarks'[i] = remarks[i]
    BY <2>1, <2>2
  <2> QED
    BY <1>1, <1>2, <2>1, <2>4, <2>5, <2>6, <2>7, WritesOK
<1> QED
  BY <1>2, <1>3, <1>4 DEF InsertMark

LEMMA DeleteMarkOK ==
  ASSUME MarksInv, NEW c \in Calls, DeleteMark(c)
  PROVE  MarksInv'
<1>1. /\ pcalls[c] # None /\ pcalls[c].at = "deleteMark"
      /\ pcalls[c].kind \in Marks /\ pcalls[c].user \in Fans
  BY DEF DeleteMark, Waits, MarksInv, MarksTypeInv, AboutInv, ReferralCall
<1>2. PICK user \in Fans, kind \in Marks : user = pcalls[c].user /\ kind = pcalls[c].kind
  BY <1>1
<1>3. /\ pcalls' = [pcalls EXCEPT ![c].at = "uncount"]
      /\ marks' = [marks EXCEPT ![kind] = @ \ {user}]
      /\ UNCHANGED <<referral, remarks, marksApart>>
  BY <1>2 DEF DeleteMark, PGoes
<1>4. /\ marks'[kind] = marks[kind] \ {user}
      /\ \A o \in Marks : o # kind => marks'[o] = marks[o]
      /\ marks' \in [Marks -> SUBSET Fans]
  BY <1>3 DEF MarksInv, MarksTypeInv
<1>5. pcalls' \in [Calls -> ReferralCall \cup {None}] /\ pcalls'[c].at = "uncount"
  BY <1>1, <1>3 DEF MarksInv, MarksTypeInv, ReferralCall
<1>6. MarksTypeInv'
  BY <1>3, <1>4, <1>5 DEF MarksInv, MarksTypeInv
<1>7. RowIsThere(c)'
  BY <1>5 DEF RowIsThere
<1>8. /\ RowSet(kind)' = RowSet(kind) \ {user}
      /\ \A o \in ReferralCounters \ {kind} : RowSet(o)' = RowSet(o)
  BY <1>3, <1>4 DEF RowSet, RowIds, ReferralCounters, Marks
<1>9. /\ \A o \in Marks : marks[o] \ {pcalls[c].user} \subseteq marks'[o]
      /\ \A i \in CommentsMade :
           remarks[i] \in Fans \ {pcalls[c].user} => remarks'[i] = remarks[i]
  BY <1>2, <1>3, <1>4
<1> QED
  BY <1>1, <1>2, <1>3, <1>6, <1>7, <1>8, <1>9, WritesOK

LEMMA InsertRemarkOK ==
  ASSUME MarksInv, NEW c \in Calls, InsertRemark(c)
  PROVE  MarksInv'
<1>1. /\ pcalls[c] # None /\ pcalls[c].at = "insertRemark"
      /\ pcalls[c].kind = "comments" /\ pcalls[c].user \in Fans
  BY DEF InsertRemark, Waits, MarksInv, MarksTypeInv, AboutInv, ReferralCall
<1>2. PICK user \in Fans : user = pcalls[c].user
  BY <1>1
<1>3. CASE PEnds(c) /\ UNCHANGED remarks
  BY <1>1, <1>3, RefusedOK DEF InsertRemark, PEnds
<1>4. ASSUME NEW i \in FreeIds(remarks),
             remarks' = [remarks EXCEPT ![i] = user], PGoes(c, "count")
      PROVE  MarksInv'
  <2>1. /\ pcalls' = [pcalls EXCEPT ![c].at = "count"]
        /\ UNCHANGED <<referral, marks, marksApart>>
    BY <1>4 DEF InsertRemark, PGoes
  <2>2. i \in CommentsMade /\ remarks[i] = None
    BY <1>4 DEF FreeIds, RowIds, MarksInv, MarksTypeInv
  <2>3. /\ remarks'[i] = user
        /\ \A j \in CommentsMade : j # i => remarks'[j] = remarks[j]
        /\ remarks' \in [CommentsMade -> Fans \cup {None}]
    BY <1>4, <2>2 DEF MarksInv, MarksTypeInv
  <2>4. /\ pcalls' \in [Calls -> ReferralCall \cup {None}]
        /\ pcalls'[c].user = user /\ pcalls'[c].kind = "comments" /\ pcalls'[c].at = "count"
    BY <1>1, <1>2, <2>1 DEF MarksInv, MarksTypeInv, ReferralCall
  <2>5. MarksTypeInv'
    BY <2>1, <2>3, <2>4 DEF MarksInv, MarksTypeInv
  <2>6. RowIsThere(c)'
    BY <2>2, <2>3, <2>4 DEF RowIsThere, Marks
  <2>7. i \notin RowSet("comments") /\ RowSet("comments")' = RowSet("comments") \cup {i}
    BY <2>2, <2>3, ReferralsAssumption DEF RowSet, RowIds, MarksInv, MarksTypeInv
  <2>8. \A o \in ReferralCounters \ {"comments"} : RowSet(o)' = RowSet(o)
    BY <2>1 DEF RowSet, ReferralCounters
  <2>9. /\ \A o \in Marks : marks[o] \ {pcalls[c].user} \subseteq marks'[o]
        /\ \A j \in CommentsMade :
             remarks[j] \in Fans \ {pcalls[c].user} => remarks'[j] = remarks[j]
    BY <2>1, <2>2, <2>3, ReferralsAssumption
  <2> QED
    BY <1>1, <2>1, <2>5, <2>6, <2>7, <2>8, <2>9, WritesOK
<1> QED
  BY <1>2, <1>3, <1>4 DEF InsertRemark

LEMMA RemoveRemarkOK ==
  ASSUME MarksInv, NEW c \in Calls, RemoveRemark(c)
  PROVE  MarksInv'
<1>1. /\ pcalls[c] # None /\ pcalls[c].at = "deleteRemark"
      /\ pcalls[c].kind = "comments" /\ pcalls[c].user \in Fans
      /\ pcalls[c].id \in CommentsMade
  BY DEF RemoveRemark, Waits, MarksInv, MarksTypeInv, AboutInv, ReferralCall
<1>2. PICK i \in CommentsMade : i = pcalls[c].id
  BY <1>1
<1>3. /\ pcalls' = [pcalls EXCEPT ![c].at = "uncount"]
      /\ remarks' = [remarks EXCEPT ![i] = None]
      /\ UNCHANGED <<referral, marks, marksApart>>
  BY <1>2 DEF RemoveRemark, PGoes
<1>4. /\ remarks'[i] = None
      /\ \A j \in CommentsMade : j # i => remarks'[j] = remarks[j]
      /\ remarks' \in [CommentsMade -> Fans \cup {None}]
  BY <1>3 DEF MarksInv, MarksTypeInv
<1>5. pcalls' \in [Calls -> ReferralCall \cup {None}] /\ pcalls'[c].at = "uncount"
  BY <1>1, <1>3 DEF MarksInv, MarksTypeInv, ReferralCall
<1>6. MarksTypeInv'
  BY <1>3, <1>4, <1>5 DEF MarksInv, MarksTypeInv
<1>7. RowIsThere(c)'
  BY <1>5 DEF RowIsThere
<1>8. /\ RowSet("comments")' = RowSet("comments") \ {i}
      /\ \A o \in ReferralCounters \ {"comments"} : RowSet(o)' = RowSet(o)
  BY <1>3, <1>4 DEF RowSet, RowIds, ReferralCounters, MarksInv, MarksTypeInv
<1>9. marksApart /\ referral # None =>
        /\ \A o \in Marks : marks[o] \ {pcalls[c].user} \subseteq marks'[o]
        /\ \A j \in CommentsMade :
             remarks[j] \in Fans \ {pcalls[c].user} => remarks'[j] = remarks[j]
  <2> SUFFICES ASSUME marksApart, referral # None
               PROVE  /\ \A o \in Marks : marks[o] \ {pcalls[c].user} \subseteq marks'[o]
                      /\ \A j \in CommentsMade :
                           remarks[j] \in Fans \ {pcalls[c].user} => remarks'[j] = remarks[j]
    OBVIOUS
  <2>1. remarks[i] = pcalls[c].user
    BY <1>1, <1>2 DEF MarksInv, RowIsThere
  <2> QED
    BY <1>3, <1>4, <2>1
<1> QED
  BY <1>1, <1>3, <1>6, <1>7, <1>8, <1>9, WritesOK

(* What is left once marksApart says nothing any more.                     *)
LEMMA LostOK ==
  ASSUME MarksInv, NEW c \in Calls, pcalls' = [pcalls EXCEPT ![c] = None],
         ~marksApart', marksApart' \in BOOLEAN, UNCHANGED <<referral, marks, remarks>>
  PROVE  MarksInv'
<1>1. pcalls'[c] = None /\ \A d \in Calls : d # c => pcalls'[d] = pcalls[d]
  BY DEF MarksInv, MarksTypeInv
<1>2. MarksTypeInv' /\ AboutInv'
  BY <1>1 DEF MarksInv, MarksTypeInv, AboutInv
<1> QED
  BY <1>2 DEF MarksInv

LEMMA CountsOK ==
  ASSUME MarksInv, NEW c \in Calls, CountMark(c) \/ UncountMark(c)
  PROVE  MarksInv'
<1>1. pcalls[c] \in ReferralCall /\ pcalls[c] # None /\ pcalls[c].kind \in ReferralCounters
  BY DEF CountMark, UncountMark, Waits, MarksInv, MarksTypeInv, ReferralCall
<1>2. PICK kind \in ReferralCounters : kind = pcalls[c].kind
  BY <1>1
<1>3. PICK by \in {1, -1} : /\ Counts(c, by)
                            /\ by = 1 => pcalls[c].at = "count"
                            /\ by = -1 => pcalls[c].at = "uncount"
  BY DEF CountMark, UncountMark, Waits
<1>4. pcalls' = [pcalls EXCEPT ![c] = None] /\ UNCHANGED <<marks, remarks>>
  BY <1>3 DEF Counts
<1>5. CASE UNCHANGED referral /\ marksApart' = FALSE
  <2>1. ~marksApart' /\ marksApart' \in BOOLEAN
    BY <1>5
  <2> QED
    BY <1>4, <1>5, <2>1, LostOK
<1>6. CASE referral = None /\ UNCHANGED <<referral, marksApart>>
  <2>1. MarksTypeInv' /\ AboutInv'
    BY <1>4, <1>6 DEF MarksInv, MarksTypeInv, AboutInv
  <2> QED
    BY <1>6, <2>1 DEF MarksInv
<1>7. CASE /\ referral # None
           /\ referral' = [referral EXCEPT !.counts[kind] =
                             IF @ + by < 0 THEN 0 ELSE @ + by]
           /\ UNCHANGED marksApart
  <2>1. referral \in ReferralRow /\ referral.counts[kind] \in Nat
    BY <1>7 DEF MarksInv, MarksTypeInv, ReferralRow
  <2>2. PICK n \in Nat : n = IF referral.counts[kind] + by < 0 THEN 0
                             ELSE referral.counts[kind] + by
    BY <2>1
  <2>3. referral' = [referral EXCEPT !.counts[kind] = n]
    BY <1>7, <2>1, <2>2 DEF ReferralRow
  <2>4. /\ referral' \in ReferralRow
        /\ referral'.counts[kind] = n
        /\ \A o \in ReferralCounters : o # kind => referral'.counts[o] = referral.counts[o]
    BY <2>1, <2>3 DEF ReferralRow
  <2>5. pcalls'[c] = None /\ \A d \in Calls : d # c => pcalls'[d] = pcalls[d]
    BY <1>4 DEF MarksInv, MarksTypeInv
  <2>6. MarksTypeInv' /\ AboutInv'
    BY <1>4, <1>7, <2>4, <2>5 DEF MarksInv, MarksTypeInv, AboutInv
  <2>7. ASSUME marksApart', referral' # None
        PROVE  /\ OneEach'
               /\ \A d \in Calls : RowIsThere(d)'
               /\ \A o \in ReferralCounters : Tallies(o)'
    <3>1. OneEach /\ (\A d \in Calls : RowIsThere(d)) /\ \A o \in ReferralCounters : Tallies(o)
      BY <1>7, <2>7 DEF MarksInv
    <3>2. OneEach' /\ \A d \in Calls : RowIsThere(d)'
      BY <1>4, <2>5, <3>1 DEF OneEach, RowIsThere
    <3>3. ASSUME NEW o \in ReferralCounters PROVE Tallies(o)'
      <4> DEFINE A == Ahead("count", o)
                 U == Ahead("uncount", o)
      <4>1. RowSet(o)' = RowSet(o)
        BY <1>4 DEF RowSet, RowIds
      <4>2. /\ IsFiniteSet(A) /\ IsFiniteSet(U)
            /\ Cardinality(A) \in Nat /\ Cardinality(U) \in Nat
            /\ Cardinality(RowSet(o)) \in Nat
        BY AheadFinite, RowSetFinite DEF MarksInv
      <4>3. Tallies(o) /\ Cardinality(A) <= Cardinality(RowSet(o))
        BY <3>1, AheadHaveRows DEF MarksInv
      <4>4. CASE o # kind
        <5>1. A' = A /\ U' = U
          BY <1>2, <2>5, <4>4 DEF Ahead, Waits
        <5> QED
          BY <2>4, <4>1, <4>3, <4>4, <5>1 DEF Tallies
      <4>5. CASE o = kind /\ by = 1
        <5>1. A' = A \ {c} /\ c \in A /\ U' = U
          BY <1>1, <1>2, <1>3, <2>5, <4>5 DEF Ahead, Waits
        <5>2. Cardinality(A') = Cardinality(A) - 1
          BY <4>2, <5>1, FS_RemoveElement
        <5>3. n = referral.counts[o] + 1
          BY <2>1, <2>2, <4>5
        <5> QED
          BY <2>1, <2>4, <4>1, <4>2, <4>3, <4>5, <5>1, <5>2, <5>3 DEF Tallies
      <4>6. CASE o = kind /\ by = -1
        <5>1. A' = A /\ U' = U \ {c} /\ c \in U
          BY <1>1, <1>2, <1>3, <2>5, <4>6 DEF Ahead, Waits
        <5>2. Cardinality(U') = Cardinality(U) - 1
          BY <4>2, <5>1, FS_RemoveElement
        <5>3. Cardinality(U) # 0
          BY <4>2, <5>1, FS_EmptySet
        <5>4. n = IF referral.counts[o] = 0 THEN 0 ELSE referral.counts[o] - 1
          BY <2>1, <2>2, <4>6
        <5> QED
          BY <2>1, <2>4, <4>1, <4>2, <4>3, <4>6, <5>1, <5>2, <5>3, <5>4 DEF Tallies
      <4> QED
        BY <4>4, <4>5, <4>6
    <3> QED
      BY <3>2, <3>3
  <2> QED
    BY <2>6, <2>7 DEF MarksInv
<1> QED
  BY <1>2, <1>3, <1>5, <1>6, <1>7 DEF Counts

LEMMA PostStepsOK ==
  ASSUME MarksInv,
         DeleteReferral \/ (\E status \in {"open", "closed"} : UpdateReferral(status))
  PROVE  MarksInv'
<1>1. CASE DeleteReferral
  <2>1. MarksTypeInv' /\ AboutInv'
    BY <1>1 DEF DeleteReferral, MarksInv, MarksTypeInv, AboutInv
  <2> QED
    BY <1>1, <2>1 DEF DeleteReferral, MarksInv
<1>2. ASSUME NEW status \in {"open", "closed"}, UpdateReferral(status)
      PROVE  MarksInv'
  <2>1. /\ referral # None
        /\ referral' = [referral EXCEPT !.status = status]
        /\ UNCHANGED <<marks, remarks, pcalls, marksApart>>
    BY <1>2 DEF UpdateReferral
  <2>2. referral' \in ReferralRow /\ referral'.counts = referral.counts
    BY <2>1 DEF MarksInv, MarksTypeInv, ReferralRow
  <2>3. MarksTypeInv' /\ AboutInv'
    BY <2>1, <2>2 DEF MarksInv, MarksTypeInv, AboutInv
  <2>4. marksApart' =>
          /\ OneEach'
          /\ \A d \in Calls : RowIsThere(d)'
          /\ \A o \in ReferralCounters : Tallies(o)'
    BY <2>1, <2>2 DEF MarksInv, OneEach, RowIsThere, Tallies, RowSet, RowIds, Ahead, Waits
  <2> QED
    BY <2>3, <2>4 DEF MarksInv
<1> QED
  BY <1>1, <1>2

LEMMA MarksNext == MarksInv /\ [ReferralsNext]_referralVars => MarksInv'
<1> SUFFICES ASSUME MarksInv, [ReferralsNext]_referralVars PROVE MarksInv'
  OBVIOUS
<1>1. CASE UNCHANGED referralVars
  BY <1>1 DEF referralVars, MarksInv, MarksTypeInv, AboutInv, OneEach, RowIsThere, Tallies,
              RowSet, RowIds, Ahead, Waits
<1>2. ASSUME NEW c \in Calls, ReferralAbort(c) PROVE MarksInv'
  <2>1. ~marksApart' /\ marksApart' \in BOOLEAN
    BY <1>2 DEF ReferralAbort
  <2> QED
    BY <1>2, <2>1, LostOK DEF ReferralAbort
<1> QED
  BY <1>1, <1>2, PostStepsOK, MarkStartsOK, InsertMarkOK, DeleteMarkOK, InsertRemarkOK,
     RemoveRemarkOK, CountsOK DEF ReferralsNext, ReferralStep

(* For any users, comments and overlapping handlers, once the handlers     *)
(* have ended no count of a referral post is ahead of its rows, as long as *)
(* no user had two handlers at once and no count was lost.                 *)
THEOREM CountsKeepBehind == ReferralsSpec => []ReferralCountsNeverLead
<1>1. MarksInv => ReferralCountsNeverLead
  <2> SUFFICES ASSUME MarksInv, marksApart, RowIds(pcalls) = {}, referral # None,
                      NEW kind \in ReferralCounters
               PROVE  referral.counts[kind] <= RowsOf(kind)
    BY DEF ReferralCountsNeverLead
  <2>1. Ahead("count", kind) = {} /\ Ahead("uncount", kind) = {}
    BY DEF Ahead, Waits, RowIds, MarksInv, MarksTypeInv
  <2>2. Tallies(kind) /\ referral.counts[kind] \in Nat
    BY DEF MarksInv, MarksTypeInv, ReferralRow
  <2>3. RowsOf(kind) = Cardinality(RowSet(kind)) /\ RowsOf(kind) \in Nat
    <3>1. RowsOf(kind) = Cardinality(RowSet(kind))
      BY DEF RowsOf, RowSet
    <3> QED
      BY <3>1, RowSetFinite DEF MarksInv
  <2> QED
    BY <2>1, <2>2, <2>3, FS_EmptySet DEF Tallies
<1> QED
  BY <1>1, MarksInitOK, MarksNext, PTL DEF ReferralsSpec


----------------------------------------------------------------------------
(* Forums.  Between the write of a row and the count of it a handler owes  *)
(* its counter what it is about to add.  A counter and what is owed to it  *)
(* make the number of its rows, however many handlers are on their way;    *)
(* and a value read before is still the counter's unless the handler met   *)
(* another one of it.                                                      *)

ForumTypeInv ==
  /\ forums \in [ForumIds -> ForumRow \cup {None}]
  /\ forumMembers \subseteq ForumIds \X Authors
  /\ topics \in [TopicIds -> TopicRow \cup {None}]
  /\ reactions \subseteq TopicIds \X Authors
  /\ replies \in [ReplyIds -> ReplyRow \cup {None}]
  /\ tally \in [Counters -> Nat]
  /\ ocalls \in [Calls -> ForumCall \cup {None}]
  /\ forumsExact \in BOOLEAN

(* Every row hangs from one that exists, and what does not exist has no    *)
(* counter.                                                                *)
ForumRowsOK ==
  /\ \A m \in forumMembers : forums[m[1]] # None
  /\ \A t \in TopicIds : topics[t] # None => forums[topics[t].forum] # None
  /\ \A r \in reactions : topics[r[1]] # None
  /\ \A r \in ReplyIds : replies[r] # None => topics[replies[r].topic] # None
  /\ \A k \in Counters : ~HasRow(k) => tally[k] = 0

(* What a removal has taken, or is about to take, from a counter.          *)
Taken(call) == IF call.key[1] = "comments" THEN call.holds ELSE {call.user}

DeltaOK(call) ==
  call.at \in Owing => call.delta = 1 \/ call.delta = -Cardinality(Taken(call))

ForumCallOK(call) ==
  /\ DeltaOK(call)
  /\ call.at \in Clearing <=> call.key = None
  /\ call.at \in Clearing => call.on \in TopicIds
  /\ call.at = "addMember" => call.key[1] = "members" /\ call.delta = 1
  /\ call.at = "removeMember" => call.key[1] = "members" /\ call.delta = -1
  /\ call.at = "addTopic" => call.key[1] = "topics" /\ call.delta = 1
  /\ call.at = "upsert" => call.key[1] = "reactions" /\ call.delta = 1
  /\ call.at = "removeReaction" => call.key[1] = "reactions" /\ call.delta = -1
  /\ call.at = "readFirst" => call.key[1] = "reactions"
  /\ call.at = "addReply" =>
       call.key[1] = "comments" /\ call.delta = 1 /\ call.on \in ReplyIds \cup {None}
  /\ call.at = "collect" => call.key[1] = "comments" /\ call.on \in ReplyIds
  /\ call.at = "softDelete" => call.key[1] = "comments" /\ call.delta = -Cardinality(call.holds)
  /\ call.at \in {"feedRead", "feedWrite"} => call.key[1] = "comments"

MetOK ==
  \A c \in Calls : \A d \in Calls \ {c} :
    ocalls[c] # None /\ ocalls[d] # None /\ ocalls[c].key # None
      /\ ocalls[c].key = ocalls[d].key => ocalls[c].stale

HasRead(call) ==
  \/ call.at \in {"addMember", "addTopic", "addReply", "write"}
  \/ call.at = "count" /\ ~(call.delta < 0 /\ call.key[1] = "members")

ReadOK(call) ==
  call # None /\ HasRead(call) /\ ~call.stale =>
    \A k \in Counters : k = call.key /\ HasRow(k) => call.read = tally[k]

Pays(call, k) == call # None /\ call.key = k /\ call.at \in Owing
Net(call, k)  == IF Pays(call, k) THEN call.delta ELSE 0

Adders(calls, k) == {c \in Calls : Pays(calls[c], k) /\ calls[c].delta = 1}
Takers(calls, k) ==
  {p \in Calls \X (ReplyIds \cup Authors) :
     Pays(calls[p[1]], k) /\ calls[p[1]].delta # 1 /\ p[2] \in Taken(calls[p[1]])}

Owed(calls, k) == Cardinality(Adders(calls, k)) - Cardinality(Takers(calls, k))

BeingCleared(t) ==
  \E c \in Calls : ocalls[c] # None /\ ocalls[c].at \in Clearing /\ ocalls[c].on = t

(* No handler is taking away, uncounted, what the counter is about.        *)
Standing(k) ==
  /\ HasRow(k)
  /\ k[1] \in {"reactions", "comments"} => ~topics[k[2]].is_deleted /\ ~BeingCleared(k[2])

Balanced(k) == tally[k] + Owed(ocalls, k) = Cardinality(CountedRows(k))

ForumInv ==
  /\ ForumTypeInv
  /\ ForumRowsOK
  /\ \A c \in Calls : ocalls[c] # None => ForumCallOK(ocalls[c])
  /\ MetOK
  /\ forumsExact =>
       /\ \A c \in Calls : ReadOK(ocalls[c])
       /\ \A k \in Counters : Standing(k) => Balanced(k)

LEMMA CounterKinds ==
  ASSUME NEW k \in Counters
  PROVE  /\ k[1] \in {"members", "topics"} => k = <<k[1], k[2]>> /\ k[2] \in ForumIds
         /\ k[1] \in {"reactions", "comments"} => k = <<k[1], k[2]>> /\ k[2] \in TopicIds
         /\ k[1] \in {"members", "topics", "reactions", "comments"}
         /\ k # None
BY ForumsAssumption DEF Counters

LEMMA OwedFinite ==
  ASSUME NEW calls \in [Calls -> ForumCall \cup {None}], NEW k
  PROVE  /\ IsFiniteSet(Adders(calls, k))
         /\ IsFiniteSet(Takers(calls, k))
         /\ Owed(calls, k) \in Int
<1>1. IsFiniteSet(Calls) /\ IsFiniteSet(ReplyIds \cup Authors)
  BY ForumsAssumption, FS_Union
<1>2. IsFiniteSet(Calls \X (ReplyIds \cup Authors))
  BY <1>1, FS_Product
<1>3. IsFiniteSet(Adders(calls, k)) /\ IsFiniteSet(Takers(calls, k))
  BY <1>1, <1>2, FS_Subset DEF Adders, Takers
<1> QED
  BY <1>3, FS_CardinalityType DEF Owed

(* What is owed is what one handler owes and what the others do.           *)
LEMMA OwedParts ==
  ASSUME NEW calls \in [Calls -> ForumCall \cup {None}], NEW c \in Calls, NEW k \in Counters,
         calls[c] # None => DeltaOK(calls[c])
  PROVE  /\ Owed(calls, k) = Owed([calls EXCEPT ![c] = None], k) + Net(calls[c], k)
         /\ Net(calls[c], k) \in Int
<1> DEFINE rest == [calls EXCEPT ![c] = None]
           X == ReplyIds \cup Authors
<1>1. rest \in [Calls -> ForumCall \cup {None}]
  OBVIOUS
<1>2. /\ IsFiniteSet(Adders(calls, k)) /\ IsFiniteSet(Takers(calls, k))
      /\ IsFiniteSet(Adders(rest, k)) /\ IsFiniteSet(Takers(rest, k))
      /\ Cardinality(Adders(rest, k)) \in Nat /\ Cardinality(Takers(rest, k)) \in Nat
  BY <1>1, OwedFinite, FS_CardinalityType
<1>3. CASE ~Pays(calls[c], k)
  <2>1. Adders(rest, k) = Adders(calls, k)
    BY <1>3 DEF Adders, Pays
  <2>2. Takers(rest, k) = Takers(calls, k)
    BY <1>3 DEF Takers, Pays
  <2> QED
    BY <1>2, <1>3, <2>1, <2>2 DEF Owed, Net
<1>4. CASE Pays(calls[c], k) /\ calls[c].delta = 1
  <2>1. Adders(calls, k) = Adders(rest, k) \cup {c} /\ c \notin Adders(rest, k)
    BY <1>4 DEF Adders, Pays
  <2>2. Takers(rest, k) = Takers(calls, k)
    BY <1>4 DEF Takers, Pays
  <2>3. Cardinality(Adders(calls, k)) = Cardinality(Adders(rest, k)) + 1
    BY <1>2, <2>1, FS_AddElement
  <2> QED
    BY <1>2, <1>4, <2>2, <2>3 DEF Owed, Net
<1>5. CASE Pays(calls[c], k) /\ calls[c].delta # 1
  <2> DEFINE gone == {c} \X Taken(calls[c])
  <2>0. calls[c] \in ForumCall
    BY <1>5 DEF Pays
  <2>1. Adders(rest, k) = Adders(calls, k)
    BY <1>5 DEF Adders, Pays
  <2>2. Taken(calls[c]) \subseteq X
    BY <2>0 DEF Taken, ForumCall
  <2>3. Takers(calls, k) = Takers(rest, k) \cup gone /\ Takers(rest, k) \cap gone = {}
    BY <1>5, <2>2 DEF Takers, Pays
  <2>4. IsFiniteSet(Taken(calls[c]))
    BY <2>2, ForumsAssumption, FS_Union, FS_Subset
  <2>5. IsFiniteSet(gone) /\ Cardinality(gone) = Cardinality(Taken(calls[c]))
    <3>1. IsFiniteSet({c}) /\ Cardinality({c}) = 1
      BY FS_Singleton
    <3>2. IsFiniteSet(gone) /\ Cardinality(gone) = 1 * Cardinality(Taken(calls[c]))
      BY <2>4, <3>1, FS_Product
    <3> QED
      BY <2>4, <3>2, FS_CardinalityType
  <2>6. Cardinality(Takers(calls, k)) = Cardinality(Takers(rest, k)) + Cardinality(gone)
    <3> HIDE DEF gone, rest
    <3>1. Cardinality(Takers(rest, k) \cup gone) =
            Cardinality(Takers(rest, k)) + Cardinality(gone) - Cardinality(Takers(rest, k) \cap gone)
      BY <1>2, <2>5, FS_Union
    <3>2. Cardinality(gone) \in Nat
      BY <2>5, FS_CardinalityType
    <3>3. Cardinality(Takers(rest, k) \cap gone) = 0
      BY <2>3, FS_EmptySet
    <3>4. Cardinality(Takers(rest, k) \cup gone) = Cardinality(Takers(rest, k)) + Cardinality(gone)
      BY <1>2, <3>1, <3>2, <3>3
    <3> QED
      BY <2>3, <3>4
  <2>7. calls[c].delta = -Cardinality(Taken(calls[c]))
    BY <1>5, <2>0 DEF DeltaOK, Pays
  <2>8. Cardinality(Taken(calls[c])) \in Nat
    BY <2>4, FS_CardinalityType
  <2> HIDE DEF gone, rest
  <2> QED
    BY <1>2, <1>5, <2>1, <2>5, <2>6, <2>7, <2>8 DEF Owed, Net, rest
<1> QED
  BY <1>3, <1>4, <1>5

(* Nobody but handlers of a counter owes it anything.                      *)
LEMMA NothingOwed ==
  ASSUME NEW calls \in [Calls -> ForumCall \cup {None}], NEW k,
         \A c \in Calls : calls[c] # None => calls[c].key # k
  PROVE  Owed(calls, k) = 0
<1>1. Adders(calls, k) = {} /\ Takers(calls, k) = {}
  BY DEF Adders, Takers, Pays
<1> QED
  BY <1>1, FS_EmptySet DEF Owed

SameDebt(a, b) ==
  /\ a = None <=> b = None
  /\ a # None => b.key = a.key /\ b.at = a.at /\ b.delta = a.delta /\ b.holds = a.holds
                 /\ b.user = a.user

LEMMA OwedSame ==
  ASSUME NEW calls \in [Calls -> ForumCall \cup {None}], NEW next \in [Calls -> ForumCall \cup {None}],
         NEW k, \A d \in Calls : SameDebt(calls[d], next[d])
  PROVE  Owed(next, k) = Owed(calls, k)
<1>1. Adders(calls, k) = Adders(next, k)
  BY DEF Adders, Pays, SameDebt
<1>2. Takers(calls, k) = Takers(next, k)
  BY DEF Takers, Pays, SameDebt, Taken
<1> QED
  BY <1>1, <1>2 DEF Owed

(* What one handler does changes what is owed by what it owes.             *)
LEMMA OwedChanges ==
  ASSUME NEW calls \in [Calls -> ForumCall \cup {None}], NEW c \in Calls, NEW k \in Counters,
         NEW next \in [Calls -> ForumCall \cup {None}],
         calls[c] # None => DeltaOK(calls[c]), next[c] # None => DeltaOK(next[c]),
         \A d \in Calls \ {c} : SameDebt(calls[d], next[d])
  PROVE  /\ Owed(next, k) = Owed(calls, k) - Net(calls[c], k) + Net(next[c], k)
         /\ Owed(calls, k) \in Int /\ Net(calls[c], k) \in Int /\ Net(next[c], k) \in Int
<1>1. Owed([calls EXCEPT ![c] = None], k) = Owed([next EXCEPT ![c] = None], k)
  <2> DEFINE f == [calls EXCEPT ![c] = None]
             g == [next EXCEPT ![c] = None]
  <2>1. f \in [Calls -> ForumCall \cup {None}] /\ g \in [Calls -> ForumCall \cup {None}]
    OBVIOUS
  <2>2. \A d \in Calls : SameDebt(f[d], g[d])
    BY DEF SameDebt
  <2> HIDE DEF f, g
  <2>3. Owed(f, k) = Owed(g, k)
    BY <2>1, <2>2, OwedSame
  <2> QED
    BY <2>3 DEF f, g
<1>2. /\ Owed(calls, k) = Owed([calls EXCEPT ![c] = None], k) + Net(calls[c], k)
      /\ Owed(next, k) = Owed([next EXCEPT ![c] = None], k) + Net(next[c], k)
      /\ Net(calls[c], k) \in Int /\ Net(next[c], k) \in Int
  BY OwedParts
<1>3. Owed(calls, k) \in Int /\ Owed([calls EXCEPT ![c] = None], k) \in Int
  <2>1. [calls EXCEPT ![c] = None] \in [Calls -> ForumCall \cup {None}]
    OBVIOUS
  <2> QED
    BY <2>1, OwedFinite
<1> QED
  BY <1>1, <1>2, <1>3

----------------------------------------------------------------------------

LEMMA CallGoesOn ==
  ASSUME ForumInv, NEW c \in Calls, ocalls[c] # None, NEW b \in ForumCall \cup {None},
         ocalls' = [ocalls EXCEPT ![c] = b],
         b # None => ForumCallOK(b) /\ b.key = ocalls[c].key /\ (ocalls[c].stale => b.stale)
  PROVE  /\ ocalls' \in [Calls -> ForumCall \cup {None}]
         /\ \A d \in Calls : ocalls'[d] # None => ForumCallOK(ocalls'[d])
         /\ MetOK'
         /\ \A k \in Counters :
              /\ Owed(ocalls', k) = Owed(ocalls, k) - Net(ocalls[c], k) + Net(b, k)
              /\ Owed(ocalls, k) \in Int /\ Net(ocalls[c], k) \in Int /\ Net(b, k) \in Int
<1>1. ocalls' \in [Calls -> ForumCall \cup {None}]
  BY DEF ForumInv, ForumTypeInv
<1>2. \A d \in Calls : ocalls'[d] # None => ForumCallOK(ocalls'[d])
  BY DEF ForumInv, ForumTypeInv
<1>3. MetOK'
  BY DEF ForumInv, ForumTypeInv, MetOK
<1>4. ASSUME NEW k \in Counters
      PROVE  /\ Owed(ocalls', k) = Owed(ocalls, k) - Net(ocalls[c], k) + Net(b, k)
             /\ Owed(ocalls, k) \in Int /\ Net(ocalls[c], k) \in Int /\ Net(b, k) \in Int
  <2>1. \A d \in Calls \ {c} : SameDebt(ocalls[d], ocalls'[d])
    BY DEF SameDebt, ForumInv, ForumTypeInv
  <2>2. ocalls \in [Calls -> ForumCall \cup {None}] /\ ocalls'[c] = b
    BY DEF ForumInv, ForumTypeInv
  <2>3. /\ ocalls[c] # None => DeltaOK(ocalls[c])
        /\ ocalls'[c] # None => DeltaOK(ocalls'[c])
    BY <1>2 DEF ForumInv, ForumCallOK
  <2>4. PICK f \in [Calls -> ForumCall \cup {None}] : f = ocalls
    BY <2>2
  <2>5. PICK g \in [Calls -> ForumCall \cup {None}] : g = ocalls'
    BY <1>1
  <2>6. \A d \in Calls \ {c} : SameDebt(f[d], g[d])
    BY <2>1, <2>4, <2>5
  <2>7. f[c] # None => DeltaOK(f[c])
    BY <2>3, <2>4
  <2>8. g[c] # None => DeltaOK(g[c])
    BY <2>3, <2>5
  <2>9. /\ Owed(g, k) = Owed(f, k) - Net(f[c], k) + Net(g[c], k)
        /\ Owed(f, k) \in Int /\ Net(f[c], k) \in Int /\ Net(g[c], k) \in Int
    BY <2>6, <2>7, <2>8, OwedChanges
  <2> QED
    BY <2>2, <2>4, <2>5, <2>9
<1> QED
  BY <1>1, <1>2, <1>3, <1>4

(* The counter that a handler is about: what the handler does to its rows  *)
(* and to the counter is made up for by what it owes afterwards.           *)
LEMMA ExactGoesOn ==
  ASSUME ForumInv, NEW c \in Calls, ocalls[c] # None, NEW b \in ForumCall \cup {None},
         ocalls' = [ocalls EXCEPT ![c] = b],
         b # None => ForumCallOK(b) /\ b.key = ocalls[c].key /\ (ocalls[c].stale => b.stale),
         forumsExact, ReadOK(b)',
         \A k \in Counters : \/ HasRow(k)' => HasRow(k)
                             \/ \A d \in Calls : ocalls[d] # None => ocalls[d].key # k,
         \A k \in Counters : k # ocalls[c].key /\ HasRow(k)' /\ HasRow(k) => tally'[k] = tally[k],
         \A k \in Counters :
           Standing(k)' =>
             \/ /\ Standing(k)
                /\ tally' \in [Counters -> Nat]
                /\ Cardinality(CountedRows(k)) \in Nat
                /\ Cardinality(CountedRows(k))' = Cardinality(CountedRows(k))
                     + (tally'[k] - tally[k]) + Net(b, k) - Net(ocalls[c], k)
             \/ /\ \A d \in Calls : ocalls[d] # None => ocalls[d].key # k
                /\ tally'[k] = 0
                /\ Cardinality(CountedRows(k))' = 0
  PROVE  /\ \A d \in Calls : ReadOK(ocalls[d])'
         /\ \A k \in Counters : Standing(k)' => Balanced(k)'
<1>1. /\ ocalls' \in [Calls -> ForumCall \cup {None}]
      /\ \A k \in Counters :
           /\ Owed(ocalls', k) = Owed(ocalls, k) - Net(ocalls[c], k) + Net(b, k)
           /\ Owed(ocalls, k) \in Int /\ Net(ocalls[c], k) \in Int /\ Net(b, k) \in Int
  BY CallGoesOn
<1>2. ASSUME NEW d \in Calls
      PROVE  ReadOK(ocalls[d])'
  <2>1. ocalls \in [Calls -> ForumCall \cup {None}]
    BY DEF ForumInv, ForumTypeInv
  <2>2. CASE d = c
    BY <2>1, <2>2 DEF ReadOK
  <2>3. CASE d # c
    <3>1. ocalls'[d] = ocalls[d]
      BY <2>1, <2>3
    <3> SUFFICES ASSUME ocalls[d] # None, HasRead(ocalls[d]), ~ocalls[d].stale, 
                        NEW k \in Counters, k = ocalls[d].key, HasRow(k)'
                 PROVE  ocalls[d].read = tally'[k]
      BY <3>1 DEF ReadOK
    <3>2. k # ocalls[c].key
      BY <2>3, CounterKinds DEF ForumInv, MetOK
    <3>3. HasRow(k)
      OBVIOUS
    <3>4. ocalls[d].read = tally[k]
      BY <3>3 DEF ForumInv, ReadOK
    <3> QED
      BY <3>2, <3>3, <3>4
  <2> QED
    BY <2>2, <2>3
<1>3. ASSUME NEW k \in Counters, Standing(k)'
      PROVE  Balanced(k)'
  <2>1. tally \in [Counters -> Nat]
    BY DEF ForumInv, ForumTypeInv
  <2>2. CASE /\ \A d \in Calls : ocalls[d] # None => ocalls[d].key # k
             /\ tally'[k] = 0
             /\ Cardinality(CountedRows(k))' = 0
    <3>1. \A d \in Calls : ocalls'[d] # None => ocalls'[d].key # k
      BY <2>2 DEF ForumInv, ForumTypeInv
    <3>2. Owed(ocalls', k) = 0
      BY <1>1, <3>1, NothingOwed
    <3> QED
      BY <2>2, <3>2 DEF Balanced
  <2>3. CASE /\ Standing(k)
             /\ tally' \in [Counters -> Nat]
             /\ Cardinality(CountedRows(k)) \in Nat
             /\ Cardinality(CountedRows(k))' = Cardinality(CountedRows(k))
                  + (tally'[k] - tally[k]) + Net(b, k) - Net(ocalls[c], k)
    <3>1. tally[k] + Owed(ocalls, k) = Cardinality(CountedRows(k))
      BY <2>3 DEF ForumInv, Balanced
    <3>2. /\ tally'[k] \in Int /\ tally[k] \in Int /\ Cardinality(CountedRows(k)) \in Int
          /\ Owed(ocalls, k) \in Int /\ Net(ocalls[c], k) \in Int /\ Net(b, k) \in Int
      BY <1>1, <2>1, <2>3
    <3>3. tally'[k] + Owed(ocalls', k) = Cardinality(CountedRows(k))'
      <4>1. Owed(ocalls', k) = Owed(ocalls, k) - Net(ocalls[c], k) + Net(b, k)
        BY <1>1
      <4>2. Cardinality(CountedRows(k))' = Cardinality(CountedRows(k))
                  + (tally'[k] - tally[k]) + Net(b, k) - Net(ocalls[c], k)
        BY <2>3
      <4> QED
        BY <3>1, <3>2, <4>1, <4>2
    <3> QED
      BY <3>3 DEF Balanced
  <2> QED
    BY <1>3, <2>2, <2>3
<1> QED
  BY <1>2, <1>3

(* A handler that begins owes nothing yet.                                 *)
LEMMA CallBegins ==
  ASSUME ForumInv, NEW c \in Calls, NEW call \in ForumCall, OStarts(c, call),
         ForumCallOK(call), ReadOK(call), ~call.stale, call.at \notin Owing,
         UNCHANGED <<forums, forumMembers, topics, reactions, replies, tally>>
  PROVE  ForumInv'
<1> DEFINE R == Rivals(c, call.key)
<1>1. ocalls \in [Calls -> ForumCall \cup {None}]
  BY DEF ForumInv, ForumTypeInv
<1>2. ocalls[c] = None /\ forumsExact' = forumsExact
      /\ ocalls' = [d \in Calls |-> IF d = c THEN [call EXCEPT !.stale = R # {}]
                                   ELSE IF d \in R THEN [ocalls[d] EXCEPT !.stale = TRUE] ELSE ocalls[d]]
  BY DEF OStarts
<1>3. \A d \in R : d \in Calls /\ d # c /\ ocalls[d] # None /\ ocalls[d].key = call.key
                    /\ call.key # None
  BY <1>1 DEF Rivals, RowIds
<1>4. ocalls'[c] = [call EXCEPT !.stale = R # {}]
  BY <1>2
<1>5. \A d \in Calls \ {c} :
        /\ d \in R => ocalls'[d] = [ocalls[d] EXCEPT !.stale = TRUE]
        /\ d \notin R => ocalls'[d] = ocalls[d]
  BY <1>2
<1> HIDE DEF R
<1>6. ocalls'[c] \in ForumCall /\ ocalls'[c] # None
      /\ \E r \in BOOLEAN : r = (R # {}) /\ ocalls'[c] = [call EXCEPT !.stale = r]
  <2>1. PICK r \in BOOLEAN : r = (R # {})
    OBVIOUS
  <2>2. ocalls'[c] = [call EXCEPT !.stale = r]
    BY <1>4, <2>1
  <2>3. [call EXCEPT !.stale = r] \in ForumCall
    BY DEF ForumCall
  <2> QED
    BY <2>1, <2>2, <2>3, ForumsAssumption
<1>7. \A d \in R : [ocalls[d] EXCEPT !.stale = TRUE] \in ForumCall
  <2> SUFFICES ASSUME NEW d \in R PROVE [ocalls[d] EXCEPT !.stale = TRUE] \in ForumCall
    OBVIOUS
  <2>1. PICK k \in ForumCall : k = ocalls[d]
    BY <1>1, <1>3
  <2>2. [k EXCEPT !.stale = TRUE] \in ForumCall
    BY DEF ForumCall
  <2> QED
    BY <2>1, <2>2
<1>8. ocalls' \in [Calls -> ForumCall \cup {None}]
  <2>1. \A d \in Calls : ocalls'[d] \in ForumCall \cup {None}
    <3> SUFFICES ASSUME NEW d \in Calls PROVE ocalls'[d] \in ForumCall \cup {None}
      OBVIOUS
    <3>1. CASE d = c
      BY <1>6, <3>1
    <3>2. CASE d # c /\ d \in R
      BY <1>5, <1>7, <3>2
    <3>3. CASE d # c /\ d \notin R
      BY <1>1, <1>5, <3>3
    <3> QED
      BY <3>1, <3>2, <3>3
  <2>2. ocalls' = [d \in Calls |-> ocalls'[d]]
    BY <1>2
  <2> QED
    BY <2>1, <2>2
<1>9. PICK r \in BOOLEAN : r = (R # {}) /\ ocalls'[c] = [call EXCEPT !.stale = r]
  BY <1>6
<1>10. ASSUME NEW d \in Calls \ {c}, ocalls[d] # None
       PROVE  \E e \in ForumCall, s \in BOOLEAN :
                /\ e = ocalls[d] /\ ocalls'[d] = [e EXCEPT !.stale = s] /\ ocalls'[d] # None
                /\ (ocalls[d].stale => s) /\ (d \in R => s)
  <2>1. PICK e \in ForumCall : e = ocalls[d]
    BY <1>1, <1>10
  <2>2. CASE d \in R
    BY <1>5, <1>7, <2>1, <2>2, ForumsAssumption
  <2>3. CASE d \notin R
    <3>1. ocalls'[d] = [e EXCEPT !.stale = e.stale]
      BY <1>5, <2>1, <2>3 DEF ForumCall
    <3>2. e.stale \in BOOLEAN
      BY DEF ForumCall
    <3> QED
      BY <1>5, <1>10, <2>1, <2>3, <3>1, <3>2
  <2> QED
    BY <2>2, <2>3
<1>11. \A d \in Calls \ {c} : ocalls[d] = None => ocalls'[d] = None
  BY <1>3, <1>5
<1>12. \A k : Owed(ocalls', k) = Owed(ocalls, k)
  <2> SUFFICES ASSUME NEW k PROVE Owed(ocalls', k) = Owed(ocalls, k)
    OBVIOUS
  <2> DEFINE g == [ocalls' EXCEPT ![c] = None]
  <2>1. \A d \in Calls : SameDebt(ocalls[d], g[d])
    <3> SUFFICES ASSUME NEW d \in Calls PROVE SameDebt(ocalls[d], g[d])
      OBVIOUS
    <3>1. CASE d = c
      BY <1>2, <1>8, <3>1 DEF SameDebt
    <3>2. CASE d # c /\ ocalls[d] = None
      BY <1>8, <1>11, <3>2 DEF SameDebt
    <3>3. CASE d # c /\ ocalls[d] # None
      <4>1. PICK e \in ForumCall, s \in BOOLEAN :
              e = ocalls[d] /\ ocalls'[d] = [e EXCEPT !.stale = s] /\ ocalls'[d] # None
        BY <1>10, <3>3
      <4>2. LET f == [e EXCEPT !.stale = s]
            IN f.key = e.key /\ f.at = e.at /\ f.delta = e.delta /\ f.holds = e.holds /\ f.user = e.user
        BY DEF ForumCall
      <4> QED
        BY <1>8, <3>3, <4>1, <4>2 DEF SameDebt
    <3> QED
      BY <3>1, <3>2, <3>3
  <2>2. g \in [Calls -> ForumCall \cup {None}]
    BY <1>8
  <2>3. Owed(g, k) = Owed(ocalls, k)
    <3> HIDE DEF g
    <3> QED
      BY <1>1, <2>1, <2>2, OwedSame
  <2>4. Adders(g, k) = Adders(ocalls', k) /\ Takers(g, k) = Takers(ocalls', k)
    <3>1. ~Pays(ocalls'[c], k) /\ ~Pays(g[c], k)
      BY <1>8, <1>9 DEF Pays, ForumCall
    <3>2. \A d \in Calls \ {c} : g[d] = ocalls'[d]
      BY <1>8
    <3> HIDE DEF g
    <3> QED
      BY <3>1, <3>2 DEF Adders, Takers
  <2> QED
    BY <2>3, <2>4 DEF Owed
<1>13. ASSUME NEW d \in Calls, ocalls'[d] # None
       PROVE  ForumCallOK(ocalls'[d])
  <2>1. ASSUME NEW e \in ForumCall, NEW s \in BOOLEAN, ForumCallOK(e)
        PROVE  ForumCallOK([e EXCEPT !.stale = s])
    BY <2>1 DEF ForumCallOK, DeltaOK, Taken, ForumCall
  <2>2. CASE d = c
    BY <1>9, <2>1, <2>2
  <2>3. CASE d # c
    <3>1. PICK e \in ForumCall, s \in BOOLEAN : e = ocalls[d] /\ ocalls'[d] = [e EXCEPT !.stale = s]
      BY <1>10, <1>11, <1>13, <2>3
    <3>2. ForumCallOK(e)
      BY <1>11, <1>13, <2>3, <3>1 DEF ForumInv
    <3> QED
      BY <2>1, <3>1, <3>2
  <2> QED
    BY <2>2, <2>3
<1>14. MetOK'
  <2> SUFFICES ASSUME NEW d \in Calls, NEW e \in Calls \ {d}, ocalls'[d] # None, ocalls'[e] # None,
                      ocalls'[d].key # None, ocalls'[d].key = ocalls'[e].key
               PROVE  ocalls'[d].stale
    BY DEF MetOK
  <2>1. ocalls'[c].key = call.key /\ ocalls'[c].stale = r
    BY <1>9 DEF ForumCall
  <2>2. \A x \in Calls \ {c} : ocalls'[x] # None =>
           ocalls[x] # None /\ ocalls'[x].key = ocalls[x].key
             /\ (ocalls[x].stale \/ x \in R => ocalls'[x].stale)
    <3> SUFFICES ASSUME NEW x \in Calls \ {c}, ocalls'[x] # None
                 PROVE  ocalls[x] # None /\ ocalls'[x].key = ocalls[x].key
                         /\ (ocalls[x].stale \/ x \in R => ocalls'[x].stale)
      OBVIOUS
    <3>1. PICK y \in ForumCall, s \in BOOLEAN :
            y = ocalls[x] /\ ocalls'[x] = [y EXCEPT !.stale = s] /\ (ocalls[x].stale => s) /\ (x \in R => s)
      BY <1>10, <1>11
    <3>2. [y EXCEPT !.stale = s].key = y.key /\ [y EXCEPT !.stale = s].stale = s
      BY DEF ForumCall
    <3> QED
      BY <1>11, <3>1, <3>2
  <2>3. \A x \in Calls \ {c} : ocalls[x] # None /\ ocalls[x].key = call.key /\ call.key # None => x \in R
    BY DEF R, Rivals, RowIds, ForumInv, ForumTypeInv
  <2>4. CASE d = c
    BY <1>9, <2>1, <2>2, <2>3, <2>4
  <2>5. CASE e = c
    BY <2>1, <2>2, <2>3, <2>5
  <2>6. CASE d # c /\ e # c
    BY <2>2, <2>6 DEF ForumInv, MetOK
  <2> QED
    BY <2>4, <2>5, <2>6
<1>15. ASSUME forumsExact, NEW d \in Calls
       PROVE  ReadOK(ocalls[d])'
  <2>1. ASSUME NEW e \in ForumCall, NEW s \in BOOLEAN, e.stale => s, ReadOK(e), ocalls'[d] = [e EXCEPT !.stale = s]
        PROVE  ReadOK(ocalls[d])'
    <3>1. LET f == [e EXCEPT !.stale = s]
          IN f.key = e.key /\ f.at = e.at /\ f.delta = e.delta /\ f.read = e.read /\ f.stale = s
      BY DEF ForumCall
    <3>2. e # None
      BY ForumsAssumption
    <3> QED
      BY <2>1, <3>1, <3>2 DEF ReadOK, HasRead, HasRow
  <2>2. CASE d = c
    BY <1>9, <2>1, <2>2
  <2>3. CASE d # c /\ ocalls[d] # None
    <3>1. PICK e \in ForumCall, s \in BOOLEAN :
            e = ocalls[d] /\ ocalls'[d] = [e EXCEPT !.stale = s] /\ (ocalls[d].stale => s)
      BY <1>10, <2>3
    <3>2. ReadOK(e)
      BY <1>15, <3>1 DEF ForumInv
    <3> QED
      BY <2>1, <3>1, <3>2
  <2>4. CASE d # c /\ ocalls[d] = None
    BY <1>11, <2>4 DEF ReadOK
  <2> QED
    BY <2>2, <2>3, <2>4
<1>16. ASSUME forumsExact, NEW k \in Counters, Standing(k)'
       PROVE  Balanced(k)'
  <2>1. Standing(k)
    <3>1. BeingCleared(k[2]) => BeingCleared(k[2])'
      <4> SUFFICES ASSUME NEW d \in Calls, ocalls[d] # None, ocalls[d].at \in Clearing,
                          ocalls[d].on = k[2]
                   PROVE  ocalls'[d] # None /\ ocalls'[d].at \in Clearing /\ ocalls'[d].on = k[2]
        BY DEF BeingCleared
      <4>0. d \in Calls \ {c}
        BY <1>2
      <4>1. PICK e \in ForumCall, s \in BOOLEAN :
              e = ocalls[d] /\ ocalls'[d] = [e EXCEPT !.stale = s] /\ ocalls'[d] # None
        BY <1>10, <4>0
      <4>2. [e EXCEPT !.stale = s].at = e.at /\ [e EXCEPT !.stale = s].on = e.on
        BY DEF ForumCall
      <4> QED
        BY <4>1, <4>2
    <3> QED
      BY <1>16, <3>1 DEF Standing, HasRow
  <2>2. tally[k] + Owed(ocalls, k) = Cardinality(CountedRows(k))
    BY <1>16, <2>1 DEF ForumInv, Balanced
  <2> QED
    BY <1>12, <2>2 DEF Balanced, CountedRows, RowIds, LiveReplies
<1>17. ForumRowsOK'
  BY DEF ForumInv, ForumRowsOK, HasRow
<1>18. ForumTypeInv'
  BY <1>2, <1>8 DEF ForumInv, ForumTypeInv
<1> QED
  BY <1>2, <1>13, <1>14, <1>15, <1>16, <1>17, <1>18 DEF ForumInv

----------------------------------------------------------------------------
(* Forums: the steps of a handler.                                         *)

LEMMA StillCleared ==
  ASSUME ForumTypeInv, NEW c \in Calls, NEW b, ocalls[c] # None, ocalls' = [ocalls EXCEPT ![c] = b],
         ocalls[c].at \in Clearing => b # None /\ b.at \in Clearing /\ b.on = ocalls[c].on
  PROVE  \A t : BeingCleared(t) => BeingCleared(t)'
<1> SUFFICES ASSUME NEW t, NEW d \in Calls, ocalls[d] # None, ocalls[d].at \in Clearing,
                    ocalls[d].on = t
             PROVE  ocalls'[d] # None /\ ocalls'[d].at \in Clearing /\ ocalls'[d].on = t
  BY DEF BeingCleared
<1> QED
  BY DEF ForumTypeInv

LEMMA RowsFinite ==
  ASSUME ForumTypeInv, NEW k \in Counters
  PROVE  IsFiniteSet(CountedRows(k)) /\ Cardinality(CountedRows(k)) \in Nat
<1>1. IsFiniteSet(ForumIds \X Authors) /\ IsFiniteSet(TopicIds \X Authors)
  BY ForumsAssumption, FS_Product
<1>2. IsFiniteSet(forumMembers) /\ IsFiniteSet(reactions)
  BY <1>1, FS_Subset DEF ForumTypeInv
<1>3. IsFiniteSet(TopicIds) /\ IsFiniteSet(ReplyIds)
  BY ForumsAssumption
<1>4. \/ CountedRows(k) \subseteq forumMembers
      \/ CountedRows(k) \subseteq reactions
      \/ CountedRows(k) \subseteq TopicIds
      \/ CountedRows(k) \subseteq ReplyIds
  BY DEF CountedRows, LiveReplies, RowIds, ForumTypeInv
<1>5. IsFiniteSet(CountedRows(k))
  BY <1>2, <1>3, <1>4, FS_Subset
<1> QED
  BY <1>5, FS_CardinalityType

(* A step that neither writes rows nor counts.                             *)
LEMMA CallOnly ==
  ASSUME ForumInv, NEW c \in Calls, ocalls[c] # None, NEW b \in ForumCall \cup {None},
         ocalls' = [ocalls EXCEPT ![c] = b],
         b # None => ForumCallOK(b) /\ b.key = ocalls[c].key /\ (ocalls[c].stale => b.stale),
         UNCHANGED <<forums, forumMembers, topics, reactions, replies, tally>>,
         forumsExact' \in BOOLEAN, forumsExact' => forumsExact,
         forumsExact' =>
           /\ ReadOK(b)
           /\ ocalls[c].at \in Clearing => b # None /\ b.at \in Clearing /\ b.on = ocalls[c].on
           /\ \A k \in Counters : Net(b, k) = Net(ocalls[c], k)
  PROVE  ForumInv'
<1>1. /\ ocalls' \in [Calls -> ForumCall \cup {None}]
      /\ \A d \in Calls : ocalls'[d] # None => ForumCallOK(ocalls'[d])
      /\ MetOK'
      /\ \A k \in Counters : Net(b, k) \in Int
  BY CallGoesOn
<1>2. ForumTypeInv'
  BY <1>1 DEF ForumInv, ForumTypeInv
<1>3. ForumRowsOK'
  BY DEF ForumInv, ForumRowsOK, HasRow
<1>4. ASSUME forumsExact'
      PROVE  /\ \A d \in Calls : ReadOK(ocalls[d])'
             /\ \A k \in Counters : Standing(k)' => Balanced(k)'
  <2>1. ReadOK(b)'
    BY <1>4 DEF ReadOK, HasRow
  <2>2. \A k \in Counters : HasRow(k)' => HasRow(k)
    BY DEF HasRow
  <2>3. tally' \in [Counters -> Nat] /\ tally' = tally
    BY <1>2 DEF ForumTypeInv
  <2>4. \A t : BeingCleared(t) => BeingCleared(t)'
    BY <1>4, StillCleared DEF ForumInv
  <2>5. ASSUME NEW k \in Counters, Standing(k)'
        PROVE  /\ Standing(k)
               /\ Cardinality(CountedRows(k)) \in Nat
               /\ Cardinality(CountedRows(k))' = Cardinality(CountedRows(k))
                    + (tally'[k] - tally[k]) + Net(b, k) - Net(ocalls[c], k)
    <3>1. Standing(k)
      BY <2>4, <2>5 DEF Standing, HasRow
    <3>2. CountedRows(k)' = CountedRows(k)
      BY DEF CountedRows, RowIds, LiveReplies
    <3>3. Cardinality(CountedRows(k)) \in Nat
      BY RowsFinite DEF ForumInv
    <3>4. Net(b, k) = Net(ocalls[c], k) /\ Net(b, k) \in Int /\ tally'[k] = tally[k] /\ tally[k] \in Nat
      BY <1>1, <1>4, <2>3
    <3> QED
      BY <3>1, <3>2, <3>3, <3>4
  <2> QED
    BY <1>4, <2>1, <2>2, <2>3, <2>5, ExactGoesOn
<1> QED
  BY <1>1, <1>2, <1>3, <1>4 DEF ForumInv

LEMMA ForumAborts ==
  ASSUME ForumInv, NEW c \in Calls, ForumAbort(c)
  PROVE  ForumInv'
BY CallOnly DEF ForumAbort, OEnds

LEMMA FailsOrReads ==
  ASSUME ForumInv, NEW c \in Calls, FunctionFails(c) \/ ReadCounter(c)
  PROVE  ForumInv'
<1>1. PICK k \in ForumCall : k = ocalls[c]
  BY DEF FunctionFails, ReadCounter, Waits, ForumInv, ForumTypeInv
<1>2. ocalls[c] # None /\ ForumCallOK(k)
  BY <1>1, ForumsAssumption DEF ForumInv
<1>3. k.key \in Counters /\ k.at \in Owing
  BY <1>1, <1>2 DEF FunctionFails, ReadCounter, Waits, ForumCallOK, Owing, Clearing, ForumCall
<1>4. CASE FunctionFails(c)
  <2>1. PICK at \in {"reread", "write"} :
          /\ ocalls' = [ocalls EXCEPT ![c].at = at]
          /\ at = IF k.delta < 0 /\ k.key[1] = "members" THEN "reread" ELSE "write"
    BY <1>1, <1>4 DEF FunctionFails, OGoes
  <2> DEFINE b == [k EXCEPT !.at = at]
  <2>2. ocalls' = [ocalls EXCEPT ![c] = b] /\ k.at = "count"
    BY <1>1, <1>4, <2>1 DEF FunctionFails, Waits
  <2>3. b \in ForumCall /\ b.key = k.key /\ b.stale = k.stale /\ b.at = at /\ b.delta = k.delta
        /\ b.read = k.read /\ b.user = k.user /\ b.holds = k.holds
    BY DEF ForumCall, Owing
  <2>4. ForumCallOK(b)
    BY <1>2, <1>3, <2>1, <2>2, <2>3 DEF ForumCallOK, DeltaOK, Taken, Owing, Clearing
  <2>5. \A i \in Counters : Net(b, i) = Net(k, i)
    BY <1>3, <2>3, ForumsAssumption DEF Net, Pays, Owing
  <2>6. forumsExact => ReadOK(b)
    <3>1. forumsExact => ReadOK(k)
      BY <1>1 DEF ForumInv
    <3> QED
      BY <2>1, <2>2, <2>3, <3>1, ForumsAssumption DEF ReadOK, HasRead
  <2>7. forumsExact' = forumsExact /\ forumsExact \in BOOLEAN
        /\ UNCHANGED <<forums, forumMembers, topics, reactions, replies, tally>>
    BY <1>4 DEF FunctionFails, ForumInv, ForumTypeInv
  <2>8. k.at \notin Clearing
    BY <2>2 DEF Clearing
  <2> HIDE DEF b
  <2> QED
    BY <1>1, <1>2, <2>2, <2>3, <2>4, <2>5, <2>6, <2>7, <2>8, CallOnly
<1>5. CASE ReadCounter(c)
  <2>1. PICK at \in {"count", "write"}, n \in Nat :
          /\ ocalls' = [ocalls EXCEPT ![c].read = n, ![c].at = at]
          /\ n = tally[k.key]
          /\ k.at = "reread" => at = "write"
          /\ k.at = "readFirst" => at = "count"
    BY <1>1, <1>3, <1>5 DEF ReadCounter, ForumInv, ForumTypeInv, Waits
  <2> DEFINE b == [k EXCEPT !.read = n, !.at = at]
  <2>2. ocalls' = [ocalls EXCEPT ![c] = b] /\ k.at \in {"reread", "readFirst"}
    BY <1>1, <1>5, <2>1 DEF ReadCounter, Waits
  <2>3. b \in ForumCall /\ b.key = k.key /\ b.stale = k.stale /\ b.at = at /\ b.delta = k.delta
        /\ b.read = n /\ b.user = k.user /\ b.holds = k.holds
    BY DEF ForumCall, Owing
  <2>4. ForumCallOK(b)
    BY <1>2, <1>3, <2>1, <2>2, <2>3 DEF ForumCallOK, DeltaOK, Taken, Owing, Clearing
  <2>5. \A i \in Counters : Net(b, i) = Net(k, i)
    BY <1>3, <2>3, ForumsAssumption DEF Net, Pays, Owing
  <2>6. ReadOK(b)
    BY <2>1, <2>3 DEF ReadOK
  <2>7. forumsExact' = forumsExact /\ forumsExact \in BOOLEAN
        /\ UNCHANGED <<forums, forumMembers, topics, reactions, replies, tally>>
    BY <1>5 DEF ReadCounter, ForumInv, ForumTypeInv
  <2>8. k.at \notin Clearing
    BY <2>2 DEF Clearing
  <2> HIDE DEF b
  <2> QED
    BY <1>1, <1>2, <2>2, <2>3, <2>4, <2>5, <2>6, <2>7, <2>8, CallOnly
<1> QED
  BY <1>4, <1>5

LEMMA MissCounterOK ==
  ASSUME ForumInv, NEW c \in Calls, MissCounter(c)
  PROVE  ForumInv'
<1>1. PICK k \in ForumCall : k = ocalls[c]
  BY DEF MissCounter, Waits, ForumInv, ForumTypeInv
<1>2. ocalls[c] # None /\ ForumCallOK(k)
  BY <1>1, ForumsAssumption DEF ForumInv
<1>3. k.key \in Counters /\ k.at \in {"reread", "readFirst"}
  BY <1>1, <1>2 DEF MissCounter, Waits, ForumCallOK, Clearing, ForumCall
<1>4. PICK at \in {"count", "write"} :
        /\ ocalls' = [ocalls EXCEPT ![c].read = 0, ![c].stale = TRUE, ![c].at = at]
        /\ k.at = "readFirst" => at = "count"
  BY <1>1, <1>3 DEF MissCounter
<1> DEFINE b == [k EXCEPT !.read = 0, !.stale = TRUE, !.at = at]
<1>5. ocalls' = [ocalls EXCEPT ![c] = b]
  BY <1>1, <1>4
<1>6. b \in ForumCall /\ b.key = k.key /\ b.stale /\ b.at = at /\ b.delta = k.delta
      /\ b.user = k.user /\ b.holds = k.holds
  BY DEF ForumCall, Owing
<1> HIDE DEF b
<1>7. ForumCallOK(b)
  BY <1>2, <1>3, <1>4, <1>6 DEF ForumCallOK, DeltaOK, Taken, Owing, Clearing
<1>8. \A i \in Counters : Net(b, i) = Net(k, i)
  BY <1>3, <1>6, ForumsAssumption DEF Net, Pays, Owing
<1>9. ReadOK(b) /\ k.at \notin Clearing
  BY <1>3, <1>6 DEF ReadOK, Clearing
<1>10. forumsExact' = forumsExact /\ forumsExact \in BOOLEAN
       /\ UNCHANGED <<forums, forumMembers, topics, reactions, replies, tally>>
  BY DEF MissCounter, ForumInv, ForumTypeInv
<1> QED
  BY <1>1, <1>2, <1>5, <1>6, <1>7, <1>8, <1>9, <1>10, CallOnly

LEMMA ForumCounts ==
  ASSUME ForumInv, NEW c \in Calls, CountByFunction(c) \/ WriteCounter(c)
  PROVE  ForumInv'
<1>1. PICK k \in ForumCall : k = ocalls[c]
  BY DEF CountByFunction, WriteCounter, Waits, ForumInv, ForumTypeInv
<1>2. ocalls[c] # None /\ ForumCallOK(k) /\ k.at \in {"count", "write"}
  BY <1>1, ForumsAssumption DEF ForumInv, CountByFunction, WriteCounter, Waits
<1>3. k.key \in Counters /\ k.at \in Owing /\ k.at \notin Clearing /\ k.delta \in Int /\ k.read \in Nat
  BY <1>1, <1>2 DEF ForumCallOK, Owing, Clearing, ForumCall
<1>4. PICK o \in Counters : o = k.key
  BY <1>3
<1>5. tally \in [Counters -> Nat]
  BY DEF ForumInv, ForumTypeInv
<1>6. PICK v \in Int :
        /\ v = IF k.at = "count" THEN tally[o] + k.delta ELSE k.read + k.delta
        /\ Stored(o, v)
        /\ forumsExact' => forumsExact /\ v >= 0 /\ (k.at = "write" => ~k.stale)
        /\ forumsExact' \in BOOLEAN
  <2>1. CASE CountByFunction(c)
    <3>1. tally[o] + k.delta \in Int /\ k.at = "count"
      BY <1>1, <1>3, <1>5, <2>1 DEF CountByFunction, Waits
    <3> QED
      BY <1>1, <1>4, <2>1, <3>1 DEF CountByFunction, ForumInv, ForumTypeInv
  <2>2. CASE WriteCounter(c)
    <3>1. k.read + k.delta \in Int /\ k.at = "write"
      BY <1>1, <1>3, <2>2 DEF WriteCounter, Waits
    <3>2. k.stale \in BOOLEAN
      BY DEF ForumCall
    <3> QED
      BY <1>1, <1>4, <2>2, <3>1, <3>2 DEF WriteCounter, ForumInv, ForumTypeInv
  <2> QED
    BY <2>1, <2>2
<1>7. /\ ocalls' = [ocalls EXCEPT ![c] = None]
      /\ UNCHANGED <<forums, forumMembers, topics, reactions, replies>>
  BY DEF CountByFunction, WriteCounter, OEnds
<1>8. /\ tally' \in [Counters -> Nat]
      /\ \A i \in Counters : i # o => tally'[i] = tally[i]
      /\ ~HasRow(o) => tally'[o] = tally[o]
      /\ HasRow(o) /\ v >= 0 => tally'[o] = v
  BY <1>5, <1>6 DEF Stored
<1>9. /\ ocalls' \in [Calls -> ForumCall \cup {None}]
      /\ \A d \in Calls : ocalls'[d] # None => ForumCallOK(ocalls'[d])
      /\ MetOK'
  BY <1>2, <1>7, CallGoesOn
<1>10. ForumTypeInv'
  BY <1>6, <1>7, <1>8, <1>9 DEF ForumInv, ForumTypeInv
<1>11. ForumRowsOK'
  BY <1>7, <1>8 DEF ForumInv, ForumRowsOK, HasRow
<1>12. ASSUME forumsExact'
       PROVE  /\ \A d \in Calls : ReadOK(ocalls[d])'
              /\ \A i \in Counters : Standing(i)' => Balanced(i)'
  <2>1. forumsExact /\ v >= 0
    BY <1>6, <1>12
  <2>2. ReadOK(None)'
    BY DEF ReadOK
  <2>3. \A i \in Counters : HasRow(i)' => HasRow(i)
    BY <1>7 DEF HasRow
  <2>4. HasRow(o) => v = tally[o] + k.delta
    <3>1. CASE k.at = "count"
      BY <1>6, <3>1
    <3>2. CASE k.at = "write"
      <4>1. ReadOK(k)
        BY <1>1, <2>1 DEF ForumInv
      <4>2. HasRow(o) => k.read = tally[o]
        BY <1>1, <1>2, <1>4, <1>6, <1>12, <3>2, <4>1 DEF ReadOK, HasRead
      <4> QED
        BY <1>6, <3>2, <4>2
    <3> QED
      BY <1>2, <3>1, <3>2
  <2>5. \A t : BeingCleared(t) => BeingCleared(t)'
    BY <1>1, <1>2, <1>3, <1>7, StillCleared DEF ForumInv
  <2>6. ASSUME NEW i \in Counters, Standing(i)'
        PROVE  /\ Standing(i)
               /\ Cardinality(CountedRows(i)) \in Nat
               /\ Cardinality(CountedRows(i))' = Cardinality(CountedRows(i))
                    + (tally'[i] - tally[i]) + Net(None, i) - Net(ocalls[c], i)
    <3>1. Standing(i)
      BY <1>7, <2>5, <2>6 DEF Standing, HasRow
    <3>2. CountedRows(i)' = CountedRows(i)
      BY <1>7 DEF CountedRows, RowIds, LiveReplies
    <3>3. Cardinality(CountedRows(i)) \in Nat
      BY RowsFinite DEF ForumInv
    <3>4. Net(None, i) = 0
      BY DEF Net, Pays
    <3>5. CASE i = o
      <4>1. Net(ocalls[c], i) = k.delta
        BY <1>1, <1>2, <1>3, <1>4, <3>5 DEF Net, Pays
      <4>2. tally'[i] = tally[i] + k.delta
        BY <1>8, <2>1, <2>4, <3>1, <3>5 DEF Standing
      <4> QED
        BY <1>3, <1>5, <3>1, <3>2, <3>3, <3>4, <4>1, <4>2
    <3>6. CASE i # o
      <4>1. Net(ocalls[c], i) = 0
        BY <1>1, <1>4, <3>6 DEF Net, Pays
      <4> QED
        BY <1>5, <1>8, <3>1, <3>2, <3>3, <3>4, <3>6, <4>1
    <3> QED
      BY <3>5, <3>6
  <2>7. \A i \in Counters : i # ocalls[c].key => tally'[i] = tally[i]
    BY <1>1, <1>4, <1>8
  <2> QED
    BY <1>2, <1>7, <1>8, <2>1, <2>2, <2>3, <2>6, <2>7, ExactGoesOn
<1> QED
  BY <1>9, <1>10, <1>11, <1>12 DEF ForumInv

(* A handler writes one row more, or removes what it then owes.            *)
LEMMA RowsChange ==
  ASSUME ForumInv, NEW c \in Calls, NEW k \in ForumCall, k = ocalls[c], k # None,
         k.key \in Counters, k.at \notin Owing,
         NEW b \in ForumCall, ocalls' = [ocalls EXCEPT ![c] = b], b # None,
         ForumCallOK(b), b.key = k.key, b.stale = k.stale, b.at \in Owing,
         ForumTypeInv', ForumRowsOK', UNCHANGED <<forums, tally>>,
         forumsExact' => forumsExact,
         forumsExact' => ReadOK(b)',
         \A t \in TopicIds :
           \/ topics'[t] = topics[t]
           \/ /\ topics[t] = None /\ topics'[t] # None
              /\ \A d \in Calls : ocalls[d] # None => \A i \in Counters : i[2] = t => ocalls[d].key # i
              /\ forumsExact' => CountedRows(<<"reactions", t>>)' = {}
              /\ forumsExact' => CountedRows(<<"comments", t>>)' = {},
         forumsExact' =>
           \A i \in Counters : i # k.key /\ HasRow(i) => CountedRows(i)' = CountedRows(i),
         forumsExact' /\ Standing(k.key) =>
           Cardinality(CountedRows(k.key))' = Cardinality(CountedRows(k.key)) + b.delta
  PROVE  ForumInv'
<1> PICK o \in Counters : o = k.key
  OBVIOUS
<1>1. /\ ocalls' \in [Calls -> ForumCall \cup {None}]
      /\ \A d \in Calls : ocalls'[d] # None => ForumCallOK(ocalls'[d])
      /\ MetOK'
  BY CallGoesOn
<1>2. tally' \in [Counters -> Nat] /\ tally' = tally
  BY DEF ForumTypeInv
<1>3. ASSUME forumsExact'
      PROVE  /\ \A d \in Calls : ReadOK(ocalls[d])'
             /\ \A i \in Counters : Standing(i)' => Balanced(i)'
  <2>1. \A i \in Counters : \/ HasRow(i)' => HasRow(i)
                            \/ \A d \in Calls : ocalls[d] # None => ocalls[d].key # i
    <3> SUFFICES ASSUME NEW i \in Counters, HasRow(i)', ~HasRow(i)
                 PROVE  \A d \in Calls : ocalls[d] # None => ocalls[d].key # i
      OBVIOUS
    <3>1. i = <<i[1], i[2]>> /\ i[2] \in TopicIds /\ topics[i[2]] = None /\ topics'[i[2]] # None
      BY CounterKinds DEF HasRow
    <3> QED
      BY <3>1
  <2>2. \A t : BeingCleared(t) => BeingCleared(t)'
    <3>1. k.at \notin Clearing
      BY CounterKinds DEF ForumInv, ForumCallOK
    <3> QED
      BY <3>1, StillCleared DEF ForumInv
  <2>3. ASSUME NEW i \in Counters, Standing(i)', ~HasRow(i)
        PROVE  /\ \A d \in Calls : ocalls[d] # None => ocalls[d].key # i
               /\ tally'[i] = 0
               /\ Cardinality(CountedRows(i))' = 0
    <3>1. HasRow(i)'
      BY <2>3 DEF Standing
    <3>2. i = <<i[1], i[2]>> /\ i[2] \in TopicIds /\ topics[i[2]] = None /\ topics'[i[2]] # None
          /\ i[1] \in {"reactions", "comments"}
      BY <2>3, <3>1, CounterKinds DEF HasRow
    <3>3. \A d \in Calls : ocalls[d] # None => ocalls[d].key # i
      BY <3>2
    <3>4. CountedRows(i)' = {}
      BY <1>3, <3>2
    <3>5. tally'[i] = 0
      BY <1>2, <2>3 DEF ForumInv, ForumRowsOK
    <3>6. Cardinality(CountedRows(i))' = 0
      BY <3>4, FS_EmptySet
    <3> QED
      BY <3>3, <3>5, <3>6
  <2>4. ASSUME NEW i \in Counters, Standing(i)', HasRow(i)
        PROVE  /\ Standing(i)
               /\ Cardinality(CountedRows(i)) \in Nat
               /\ Cardinality(CountedRows(i))' = Cardinality(CountedRows(i))
                    + (tally'[i] - tally[i]) + Net(b, i) - Net(ocalls[c], i)
    <3>1. Standing(i)
      <4>1. CASE i[1] \in {"members", "topics"}
        BY <2>4, <4>1 DEF Standing
      <4>2. CASE i[1] \in {"reactions", "comments"}
        <5>1. i[2] \in TopicIds /\ topics[i[2]] # None
          BY <2>4, <4>2, CounterKinds DEF HasRow
        <5>2. topics'[i[2]] = topics[i[2]]
          BY <5>1
        <5> QED
          BY <2>2, <2>4, <5>2 DEF Standing
      <4> QED
        BY <4>1, <4>2, CounterKinds
    <3>2. Cardinality(CountedRows(i)) \in Nat
      BY RowsFinite DEF ForumInv
    <3>3. Net(ocalls[c], i) = 0 /\ b.delta \in Int /\ k.delta \in Int
      BY DEF Net, Pays, ForumCall
    <3>4. CASE i = o
      <4>1. Net(b, i) = b.delta
        BY <3>4 DEF Net, Pays
      <4>2. Cardinality(CountedRows(i))' = Cardinality(CountedRows(i)) + b.delta
        BY <1>3, <3>1, <3>4
      <4> QED
        BY <1>2, <3>1, <3>2, <3>3, <4>1, <4>2
    <3>5. CASE i # o
      <4>1. Net(b, i) = 0
        BY <3>5 DEF Net, Pays
      <4>2. CountedRows(i)' = CountedRows(i)
        BY <1>3, <2>4, <3>5
      <4> QED
        BY <1>2, <3>1, <3>2, <3>3, <4>1, <4>2
    <3> QED
      BY <3>4, <3>5
  <2>5. ReadOK(b)' /\ forumsExact
    BY <1>3
  <2> QED
    BY <1>2, <2>1, <2>3, <2>4, <2>5, ExactGoesOn
<1> QED
  BY <1>1, <1>3 DEF ForumInv

(* A handler that goes on with the same counter and the same delta.        *)
LEMMA NextStage ==
  ASSUME NEW k \in ForumCall, NEW at \in Owing \cup {"softDelete"}, NEW b, b = [k EXCEPT !.at = at]
  PROVE  /\ b \in ForumCall /\ b # None /\ b.at = at
         /\ b.key = k.key /\ b.stale = k.stale /\ b.delta = k.delta /\ b.read = k.read
         /\ b.user = k.user /\ b.holds = k.holds /\ b.on = k.on
<1>1. b \in ForumCall /\ b.at = at /\ b.key = k.key /\ b.stale = k.stale /\ b.delta = k.delta
      /\ b.read = k.read /\ b.user = k.user /\ b.holds = k.holds /\ b.on = k.on
  BY DEF ForumCall
<1> QED
  BY <1>1, ForumsAssumption

LEMMA Singly ==
  ASSUME NEW k \in ForumCall, k.key # None, k.key[1] # "comments"
  PROVE  Cardinality(Taken(k)) = 1
<1>1. Taken(k) = {k.user}
  BY DEF Taken
<1> QED
  BY <1>1, FS_Singleton

LEMMA MemberSteps ==
  ASSUME ForumInv, NEW c \in Calls, AddMember(c) \/ RemoveForumMember(c)
  PROVE  ForumInv'
<1>1. PICK k \in ForumCall : k = ocalls[c] /\ k # None
  BY ForumsAssumption DEF AddMember, RemoveForumMember, Waits, ForumInv, ForumTypeInv
<1>2. ForumCallOK(k)
  BY <1>1 DEF ForumInv
<1>3. k.at \in {"addMember", "removeMember"} /\ k.key[1] = "members" /\ k.key \in Counters
  BY <1>1, <1>2 DEF AddMember, RemoveForumMember, Waits, ForumCallOK, Clearing, ForumCall
<1>4. PICK f \in ForumIds : k.key = <<"members", f>>
  BY <1>3, CounterKinds
<1>5. PICK u \in Authors : u = k.user
  BY DEF ForumCall
<1> DEFINE row == <<f, u>>
           b == [k EXCEPT !.at = "count"]
<1>6. b \in ForumCall /\ b # None /\ b.at = "count"
      /\ b.key = k.key /\ b.stale = k.stale /\ b.delta = k.delta /\ b.read = k.read
      /\ b.user = k.user /\ b.holds = k.holds /\ b.on = k.on
  BY NextStage DEF Owing
<1>7. k.at \notin Owing /\ k.at \notin Clearing /\ b.at \in Owing
  BY <1>3, <1>6 DEF Owing, Clearing
<1>8. ForumCallOK(b)
  <2> HIDE DEF b
  <2>0. Cardinality(Taken(b)) = 1
    BY <1>3, <1>6, CounterKinds, Singly
  <2>1. b.delta = 1 \/ b.delta = -Cardinality(Taken(b))
    BY <1>2, <1>3, <1>6, <2>0 DEF ForumCallOK
  <2> QED
    BY <1>2, <1>3, <1>6, <1>7, <2>1, CounterKinds DEF ForumCallOK, DeltaOK, Clearing
<1>9. CASE AddMember(c) /\ (row \in forumMembers \/ forums[f] = None)
  <2>1. ocalls' = [ocalls EXCEPT ![c] = None]
        /\ UNCHANGED <<forums, forumMembers, topics, reactions, replies, tally, forumsExact>>
    BY <1>1, <1>4, <1>5, <1>9 DEF AddMember, OEnds
  <2>2. \A i \in Counters : Net(None, i) = Net(k, i)
    BY <1>7 DEF Net, Pays
  <2>3. ReadOK(None) /\ forumsExact \in BOOLEAN
    BY DEF ReadOK, ForumInv, ForumTypeInv
  <2> QED
    BY <1>1, <1>7, <2>1, <2>2, <2>3, CallOnly
<1>10. CASE AddMember(c) /\ row \notin forumMembers /\ forums[f] # None
  <2>1. /\ ocalls' = [ocalls EXCEPT ![c] = b] /\ forumMembers' = forumMembers \cup {row}
        /\ UNCHANGED <<forums, topics, reactions, replies, tally, forumsExact>>
        /\ k.at = "addMember"
    BY <1>1, <1>4, <1>5, <1>10 DEF AddMember, OGoes, Waits
  <2>2. k.delta = 1
    BY <1>2, <2>1 DEF ForumCallOK
  <2>3. ForumTypeInv'
    <3>1. ocalls' \in [Calls -> ForumCall \cup {None}]
      BY <1>6, <2>1 DEF ForumInv, ForumTypeInv
    <3> HIDE DEF b
    <3> QED
      BY <2>1, <3>1 DEF ForumInv, ForumTypeInv
  <2>4. ForumRowsOK'
    BY <1>10, <2>1 DEF ForumInv, ForumRowsOK, HasRow
  <2>5. forumsExact' => ReadOK(b)'
    <3>1. forumsExact' => ReadOK(k)
      BY <1>1, <2>1 DEF ForumInv
    <3> HIDE DEF b
    <3> QED
      BY <1>1, <1>6, <2>1, <3>1 DEF ReadOK, HasRead, HasRow
  <2>6. \A i \in Counters : i # k.key => CountedRows(i)' = CountedRows(i)
    <3> SUFFICES ASSUME NEW i \in Counters, i # k.key PROVE CountedRows(i)' = CountedRows(i)
      OBVIOUS
    <3>1. CASE i[1] = "members"
      <4>1. i[2] # row[1]
        BY <1>4, <3>1, CounterKinds
      <4> HIDE DEF row
      <4> QED
        BY <2>1, <3>1, <4>1 DEF CountedRows
    <3>2. CASE i[1] # "members"
      BY <2>1, <3>2 DEF CountedRows, RowIds, LiveReplies
    <3> QED
      BY <3>1, <3>2
  <2>7. Cardinality(CountedRows(k.key))' = Cardinality(CountedRows(k.key)) + b.delta
    <3>1. CountedRows(k.key)' = CountedRows(k.key) \cup {row} /\ row \notin CountedRows(k.key)
      BY <1>4, <1>10, <2>1 DEF CountedRows
    <3>2. IsFiniteSet(CountedRows(k.key))
      BY <1>3, RowsFinite DEF ForumInv
    <3>3. Cardinality(CountedRows(k.key) \cup {row}) = Cardinality(CountedRows(k.key)) + 1
      BY <3>1, <3>2, FS_AddElement
    <3> QED
      BY <1>6, <2>2, <3>1, <3>3
  <2> HIDE DEF b
  <2> QED
    BY <1>1, <1>3, <1>6, <1>7, <1>8, <2>1, <2>3, <2>4, <2>5, <2>6, <2>7, RowsChange
<1>11. CASE RemoveForumMember(c)
  <2>1. /\ ocalls' = [ocalls EXCEPT ![c] = b] /\ forumMembers' = forumMembers \ {row}
        /\ UNCHANGED <<forums, topics, reactions, replies, tally>>
        /\ forumsExact' = (forumsExact /\ row \in forumMembers)
        /\ k.at = "removeMember"
    BY <1>1, <1>4, <1>5, <1>11 DEF RemoveForumMember, OGoes, Waits
  <2>2. k.delta = -1
    BY <1>2, <2>1 DEF ForumCallOK
  <2>3. ForumTypeInv'
    <3>1. ocalls' \in [Calls -> ForumCall \cup {None}]
      BY <1>6, <2>1 DEF ForumInv, ForumTypeInv
    <3>2. forumsExact' \in BOOLEAN
      BY <2>1 DEF ForumInv, ForumTypeInv
    <3> HIDE DEF b
    <3> QED
      BY <2>1, <3>1, <3>2 DEF ForumInv, ForumTypeInv
  <2>4. ForumRowsOK'
    BY <2>1 DEF ForumInv, ForumRowsOK, HasRow
  <2>5. ReadOK(b)'
    <3> HIDE DEF b
    <3> QED
      BY <1>3, <1>6, <2>2 DEF ReadOK, HasRead
  <2>6. \A i \in Counters : i # k.key => CountedRows(i)' = CountedRows(i)
    <3> SUFFICES ASSUME NEW i \in Counters, i # k.key PROVE CountedRows(i)' = CountedRows(i)
      OBVIOUS
    <3>1. CASE i[1] = "members"
      <4>1. i[2] # row[1]
        BY <1>4, <3>1, CounterKinds
      <4> HIDE DEF row
      <4> QED
        BY <2>1, <3>1, <4>1 DEF CountedRows
    <3>2. CASE i[1] # "members"
      BY <2>1, <3>2 DEF CountedRows, RowIds, LiveReplies
    <3> QED
      BY <3>1, <3>2
  <2>7. forumsExact' => Cardinality(CountedRows(k.key))' = Cardinality(CountedRows(k.key)) + b.delta
    <3> SUFFICES ASSUME forumsExact'
                 PROVE  Cardinality(CountedRows(k.key))' = Cardinality(CountedRows(k.key)) + b.delta
      OBVIOUS
    <3>0. row \in forumMembers /\ row[1] = f /\ CountedRows(k.key) = {m \in forumMembers : m[1] = f}
          /\ CountedRows(k.key)' = {m \in forumMembers' : m[1] = f}
      <4>1. row \in forumMembers
        BY <2>1
      <4> QED
        BY <1>4, <4>1 DEF CountedRows
    <3>1. CountedRows(k.key)' = CountedRows(k.key) \ {row} /\ row \in CountedRows(k.key)
      <4> HIDE DEF row
      <4> QED
        BY <2>1, <3>0
    <3>2. IsFiniteSet(CountedRows(k.key)) /\ Cardinality(CountedRows(k.key)) \in Nat
      BY <1>3, RowsFinite DEF ForumInv
    <3>3. Cardinality(CountedRows(k.key) \ {row}) = Cardinality(CountedRows(k.key)) - 1
      BY <3>1, <3>2, FS_RemoveElement
    <3> QED
      BY <1>6, <2>2, <3>1, <3>2, <3>3
  <2>8. forumsExact' => forumsExact
    BY <2>1
  <2> HIDE DEF b
  <2> QED
    BY <1>1, <1>3, <1>6, <1>7, <1>8, <2>1, <2>3, <2>4, <2>5, <2>6, <2>7, <2>8, RowsChange
<1> QED
  BY <1>9, <1>10, <1>11

(* A deletion that is not done: what is counted all the same spoils the    *)
(* counter, what a deleted topic keeps is not counted any more.            *)
LEMMA MissStatementOK ==
  ASSUME ForumInv, NEW c \in Calls, MissStatement(c)
  PROVE  ForumInv'
<1>1. PICK k \in ForumCall : k = ocalls[c] /\ k # None
  BY ForumsAssumption DEF MissStatement, Waits, ForumInv, ForumTypeInv
<1>2. ForumCallOK(k)
  BY <1>1 DEF ForumInv
<1>3. PICK at \in {"readFirst", "reread", "deleteReplies", "deleteTopic"} :
        /\ ocalls' = [ocalls EXCEPT ![c].at = at]
        /\ \/ k.at = "removeReaction" /\ at = "readFirst" /\ forumsExact' = FALSE
           \/ k.at = "softDelete" /\ at = "reread" /\ forumsExact' = FALSE
           \/ k.at = "clearReactions" /\ at = "deleteReplies" /\ forumsExact' = forumsExact
           \/ k.at = "deleteReplies" /\ at = "deleteTopic" /\ forumsExact' = forumsExact
  BY <1>1 DEF MissStatement, Waits, OGoes
<1> DEFINE b == [k EXCEPT !.at = at]
<1>4. ocalls' = [ocalls EXCEPT ![c] = b]
  BY <1>1, <1>3
<1>5. b \in ForumCall /\ b.key = k.key /\ b.stale = k.stale /\ b.at = at /\ b.delta = k.delta
      /\ b.user = k.user /\ b.holds = k.holds /\ b.on = k.on
  BY DEF ForumCall, Owing, Clearing
<1> HIDE DEF b
<1>6. b # None
  BY <1>5, ForumsAssumption
<1>7. ForumCallOK(b)
  <2>1. CASE k.at = "removeReaction"
    <3>1. Cardinality(Taken(b)) = 1
      BY <1>2, <1>5, <2>1, CounterKinds, Singly DEF ForumCallOK, Clearing, ForumCall
    <3> QED
      BY <1>2, <1>3, <1>5, <2>1, <3>1 DEF ForumCallOK, DeltaOK, Clearing
  <2>2. CASE k.at = "softDelete"
    BY <1>2, <1>3, <1>5, <2>2 DEF ForumCallOK, DeltaOK, Taken, Clearing
  <2>3. CASE k.at \in {"clearReactions", "deleteReplies"}
    BY <1>2, <1>3, <1>5, <2>3 DEF ForumCallOK, DeltaOK, Owing, Clearing
  <2> QED
    BY <1>3, <2>1, <2>2, <2>3
<1>8. ASSUME forumsExact'
      PROVE  /\ ReadOK(b)
             /\ b.at \in Clearing /\ b.on = k.on
             /\ \A i \in Counters : Net(b, i) = Net(k, i)
  <2>1. k.at \in {"clearReactions", "deleteReplies"} /\ b.at \in {"deleteReplies", "deleteTopic"}
    BY <1>3, <1>5, <1>8
  <2>2. b.at \in Clearing /\ b.at \notin Owing /\ k.at \notin Owing /\ ~HasRead(b)
    BY <2>1 DEF HasRead, Owing, Clearing
  <2> QED
    BY <1>5, <2>2 DEF ReadOK, Net, Pays
<1>9. forumsExact' \in BOOLEAN /\ (forumsExact' => forumsExact)
      /\ UNCHANGED <<forums, forumMembers, topics, reactions, replies, tally>>
  <2>1. UNCHANGED <<forums, forumMembers, topics, reactions, replies, tally>>
    BY DEF MissStatement
  <2>2. forumsExact \in BOOLEAN
    BY DEF ForumInv, ForumTypeInv
  <2>3. forumsExact' = FALSE \/ forumsExact' = forumsExact
    BY <1>3
  <2>4. forumsExact' \in BOOLEAN
    BY <2>2, <2>3, Zenon
  <2>5. forumsExact' => forumsExact
    BY <2>3, Zenon
  <2> QED
    BY <2>1, <2>4, <2>5, Zenon
<1> QED
  BY <1>1, <1>4, <1>5, <1>6, <1>7, <1>8, <1>9, CallOnly

(* A comment of the feed about a topic.                                    *)
LEMMA FeedCommentGoes ==
  ASSUME ForumInv, NEW c \in Calls, ReadTopicOfFeed(c) \/ UncountInTopic(c)
  PROVE  ForumInv'
<1>1. PICK k \in ForumCall : k = ocalls[c] /\ k # None
  BY ForumsAssumption DEF ReadTopicOfFeed, UncountInTopic, Waits, ForumInv, ForumTypeInv
<1>2. ForumCallOK(k) /\ k.at \in {"feedRead", "feedWrite"}
  BY <1>1 DEF ForumInv, ReadTopicOfFeed, UncountInTopic, Waits
<1>3. k.key \in Counters /\ k.at \notin Owing \cup Clearing
  BY <1>2 DEF ForumCallOK, Owing, Clearing, ForumCall
<1>4. CASE ReadTopicOfFeed(c)
  <2>1. PICK n \in Nat : n = tally[k.key]
    BY <1>3 DEF ForumInv, ForumTypeInv
  <2> DEFINE b == [k EXCEPT !.read = n, !.at = "feedWrite"]
  <2>2. ocalls' = [ocalls EXCEPT ![c] = b]
    BY <1>1, <1>4, <2>1 DEF ReadTopicOfFeed
  <2>3. b \in ForumCall /\ b.key = k.key /\ b.stale = k.stale /\ b.at = "feedWrite"
    BY DEF ForumCall
  <2> HIDE DEF b
  <2>4. ForumCallOK(b)
    BY <1>2, <1>3, <2>3 DEF ForumCallOK, DeltaOK, Owing, Clearing
  <2>5. ReadOK(b) /\ \A i \in Counters : Net(b, i) = Net(k, i)
    BY <1>3, <2>3 DEF ReadOK, HasRead, Net, Pays, Owing
  <2>6. forumsExact' = forumsExact /\ forumsExact \in BOOLEAN
        /\ UNCHANGED <<forums, forumMembers, topics, reactions, replies, tally>>
    BY <1>4 DEF ReadTopicOfFeed, ForumInv, ForumTypeInv
  <2> QED
    BY <1>1, <1>3, <2>2, <2>3, <2>4, <2>5, <2>6, CallOnly
<1>5. CASE UncountInTopic(c)
  <2>1. /\ ocalls' = [ocalls EXCEPT ![c] = None]
        /\ UNCHANGED <<forums, forumMembers, topics, reactions, replies>>
        /\ forumsExact' = FALSE
    BY <1>5 DEF UncountInTopic, OEnds
  <2>2. /\ ocalls' \in [Calls -> ForumCall \cup {None}]
        /\ \A d \in Calls : ocalls'[d] # None => ForumCallOK(ocalls'[d])
        /\ MetOK'
    BY <1>1, <2>1, CallGoesOn
  <2>3. PICK v \in Int : Stored(k.key, v)
    <3>1. k.read + k.delta \in Int
      BY DEF ForumCall
    <3> QED
      BY <1>1, <1>5, <3>1 DEF UncountInTopic
  <2>4. /\ tally' \in [Counters -> Nat]
        /\ \A i \in Counters : ~HasRow(i) => tally'[i] = tally[i]
    <3>1. tally \in [Counters -> Nat]
      BY DEF ForumInv, ForumTypeInv
    <3> QED
      BY <1>3, <2>3, <3>1 DEF Stored
  <2>5. ForumTypeInv'
    BY <2>1, <2>2, <2>4 DEF ForumInv, ForumTypeInv
  <2>6. ForumRowsOK'
    BY <2>1, <2>4 DEF ForumInv, ForumRowsOK, HasRow
  <2> QED
    BY <2>1, <2>2, <2>5, <2>6 DEF ForumInv
<1> QED
  BY <1>4, <1>5

LEMMA ReactionSteps ==
  ASSUME ForumInv, NEW c \in Calls, UpsertReaction(c) \/ RemoveReaction(c)
  PROVE  ForumInv'
<1>1. PICK k \in ForumCall : k = ocalls[c] /\ k # None
  BY ForumsAssumption DEF UpsertReaction, RemoveReaction, Waits, ForumInv, ForumTypeInv
<1>2. ForumCallOK(k)
  BY <1>1 DEF ForumInv
<1>3. k.at \in {"upsert", "removeReaction"} /\ k.key[1] = "reactions" /\ k.key \in Counters
  BY <1>1, <1>2 DEF UpsertReaction, RemoveReaction, Waits, ForumCallOK, Clearing, ForumCall
<1>4. PICK t \in TopicIds : k.key = <<"reactions", t>>
  BY <1>3, CounterKinds
<1>5. PICK u \in Authors : u = k.user
  BY DEF ForumCall
<1> DEFINE row == <<t, u>>
           b == [k EXCEPT !.at = "readFirst"]
<1>6. b \in ForumCall /\ b # None /\ b.at = "readFirst"
      /\ b.key = k.key /\ b.stale = k.stale /\ b.delta = k.delta /\ b.read = k.read
      /\ b.user = k.user /\ b.holds = k.holds /\ b.on = k.on
  BY NextStage DEF Owing
<1>7. k.at \notin Owing /\ k.at \notin Clearing /\ b.at \in Owing
  BY <1>3, <1>6 DEF Owing, Clearing
<1>8. ForumCallOK(b)
  <2> HIDE DEF b
  <2>0. Cardinality(Taken(b)) = 1
    BY <1>3, <1>6, CounterKinds, Singly
  <2>1. b.delta = 1 \/ b.delta = -Cardinality(Taken(b))
    BY <1>2, <1>3, <1>6, <2>0 DEF ForumCallOK
  <2> QED
    BY <1>2, <1>3, <1>6, <1>7, <2>1, CounterKinds DEF ForumCallOK, DeltaOK, Clearing
<1>9. PICK n \in Int : n = -1
  OBVIOUS
<1> DEFINE e == [k EXCEPT !.at = "removeReaction", !.delta = n]
<1>15. e \in ForumCall /\ e.at = "removeReaction" /\ e.key = k.key /\ e.stale = k.stale /\ e.delta = n
  BY DEF ForumCall
<1>16. ForumCallOK(e)
  <2> HIDE DEF b, e
  <2> QED
    BY <1>3, <1>9, <1>15, CounterKinds DEF ForumCallOK, DeltaOK, Clearing, Owing
<1>17. UpsertReaction(c) =>
         /\ UNCHANGED <<forums, forumMembers, topics, replies, tally>>
         /\ \/ /\ row \notin reactions /\ topics[t] # None
               /\ reactions' = reactions \cup {row}
               /\ ocalls' = [ocalls EXCEPT ![c] = b]
               /\ UNCHANGED forumsExact
            \/ /\ ocalls' = [ocalls EXCEPT ![c] = e]
               /\ UNCHANGED <<reactions, forumsExact>>
  <2> SUFFICES ASSUME UpsertReaction(c)
               PROVE  /\ UNCHANGED <<forums, forumMembers, topics, replies, tally>>
                      /\ \/ /\ row \notin reactions /\ topics[t] # None
                            /\ reactions' = reactions \cup {row}
                            /\ ocalls' = [ocalls EXCEPT ![c] = b]
                            /\ UNCHANGED forumsExact
                         \/ /\ ocalls' = [ocalls EXCEPT ![c] = e]
                            /\ UNCHANGED <<reactions, forumsExact>>
    OBVIOUS
  <2>1. row = <<ocalls[c].key[2], ocalls[c].user>> /\ row[1] = t
    BY <1>1, <1>4, <1>5
  <2>2. [ocalls EXCEPT ![c].at = "readFirst"] = [ocalls EXCEPT ![c] = b]
    BY <1>1
  <2>3. [ocalls EXCEPT ![c].at = "removeReaction", ![c].delta = -1] = [ocalls EXCEPT ![c] = e]
    BY <1>1, <1>9
  <2> HIDE DEF b, e, row
  <2> QED
    BY <2>1, <2>2, <2>3 DEF UpsertReaction, OGoes
<1>18. CASE /\ ocalls' = [ocalls EXCEPT ![c] = e]
            /\ UNCHANGED <<forums, forumMembers, topics, reactions, replies, tally, forumsExact>>
  <2> HIDE DEF b, e
  <2>1. \A i \in Counters : Net(e, i) = Net(k, i)
    BY <1>7, <1>15 DEF Net, Pays, Owing
  <2>2. ReadOK(e) /\ forumsExact \in BOOLEAN
    BY <1>15 DEF ReadOK, HasRead, ForumInv, ForumTypeInv
  <2> QED
    BY <1>1, <1>7, <1>15, <1>16, <1>18, <2>1, <2>2, CallOnly
<1> HIDE DEF e
<1>10. ReadOK(b)'
  <2> HIDE DEF b
  <2> QED
    BY <1>6 DEF ReadOK, HasRead
<1>11. ASSUME ocalls' = [ocalls EXCEPT ![c] = b],
              reactions' = reactions \cup {row} \/ reactions' = reactions \ {row},
              topics[t] = None => reactions' \subseteq reactions,
              UNCHANGED <<forums, forumMembers, topics, replies, tally>>, forumsExact' \in BOOLEAN
       PROVE  /\ ForumTypeInv'
              /\ ForumRowsOK'
              /\ \A i \in Counters : i # k.key => CountedRows(i)' = CountedRows(i)
  <2>1. ForumTypeInv'
    <3>1. ocalls' \in [Calls -> ForumCall \cup {None}]
      BY <1>6, <1>11 DEF ForumInv, ForumTypeInv
    <3>2. reactions' \subseteq TopicIds \X Authors
      BY <1>11 DEF ForumInv, ForumTypeInv
    <3> HIDE DEF b
    <3> QED
      BY <1>11, <3>1, <3>2 DEF ForumInv, ForumTypeInv
  <2>2. ForumRowsOK'
    <3>1. \A r \in reactions' : topics[r[1]] # None
      BY <1>11 DEF ForumInv, ForumRowsOK
    <3> QED
      BY <1>11, <3>1 DEF ForumInv, ForumRowsOK, HasRow
  <2>3. ASSUME NEW i \in Counters, i # k.key PROVE CountedRows(i)' = CountedRows(i)
    <3>1. CASE i[1] = "reactions"
      <4>1. i[2] # row[1]
        BY <1>4, <2>3, <3>1, CounterKinds
      <4> HIDE DEF row
      <4> QED
        BY <1>11, <3>1, <4>1 DEF CountedRows
    <3>2. CASE i[1] # "reactions"
      BY <1>11, <3>2 DEF CountedRows, RowIds, LiveReplies
    <3> QED
      BY <3>1, <3>2
  <2> QED
    BY <2>1, <2>2, <2>3
<1>12. IsFiniteSet(CountedRows(k.key)) /\ Cardinality(CountedRows(k.key)) \in Nat
  BY <1>3, RowsFinite DEF ForumInv
<1>13. CASE /\ k.at = "upsert" /\ row \notin reactions /\ topics[t] # None
            /\ ocalls' = [ocalls EXCEPT ![c] = b] /\ reactions' = reactions \cup {row}
            /\ UNCHANGED <<forums, forumMembers, topics, replies, tally, forumsExact>>
  <2>1. /\ ocalls' = [ocalls EXCEPT ![c] = b] /\ reactions' = reactions \cup {row}
        /\ UNCHANGED <<forums, forumMembers, topics, replies, tally, forumsExact>>
        /\ k.at = "upsert"
    BY <1>13
  <2>2. k.delta = 1
    BY <1>2, <2>1 DEF ForumCallOK
  <2>3. /\ ForumTypeInv'
        /\ ForumRowsOK'
        /\ \A i \in Counters : i # k.key => CountedRows(i)' = CountedRows(i)
    <3>1. forumsExact' \in BOOLEAN
      BY <2>1 DEF ForumInv, ForumTypeInv
    <3> QED
      BY <1>11, <1>13, <2>1, <3>1
  <2>4. Cardinality(CountedRows(k.key))' = Cardinality(CountedRows(k.key)) + b.delta
    <3>1. CountedRows(k.key)' = CountedRows(k.key) \cup {row} /\ row \notin CountedRows(k.key)
      BY <1>4, <1>13, <2>1 DEF CountedRows
    <3>2. Cardinality(CountedRows(k.key) \cup {row}) = Cardinality(CountedRows(k.key)) + 1
      BY <1>12, <3>1, FS_AddElement
    <3> QED
      BY <1>6, <2>2, <3>1, <3>2
  <2> HIDE DEF b
  <2> QED
    BY <1>1, <1>3, <1>6, <1>7, <1>8, <1>10, <2>1, <2>3, <2>4, RowsChange
<1>14. CASE RemoveReaction(c)
  <2>1. /\ ocalls' = [ocalls EXCEPT ![c] = b] /\ reactions' = reactions \ {row}
        /\ UNCHANGED <<forums, forumMembers, topics, replies, tally>>
        /\ forumsExact' = (forumsExact /\ row \in reactions)
        /\ k.at = "removeReaction"
    BY <1>1, <1>4, <1>5, <1>14 DEF RemoveReaction, OGoes, Waits
  <2>2. k.delta = -1
    BY <1>2, <2>1 DEF ForumCallOK
  <2>3. /\ ForumTypeInv'
        /\ ForumRowsOK'
        /\ \A i \in Counters : i # k.key => CountedRows(i)' = CountedRows(i)
    <3>1. forumsExact' \in BOOLEAN
      BY <2>1 DEF ForumInv, ForumTypeInv
    <3> QED
      BY <1>11, <2>1, <3>1
  <2>4. forumsExact' => Cardinality(CountedRows(k.key))' = Cardinality(CountedRows(k.key)) + b.delta
    <3> SUFFICES ASSUME forumsExact'
                 PROVE  Cardinality(CountedRows(k.key))' = Cardinality(CountedRows(k.key)) + b.delta
      OBVIOUS
    <3>0. row \in reactions /\ row[1] = t /\ CountedRows(k.key) = {m \in reactions : m[1] = t}
          /\ CountedRows(k.key)' = {m \in reactions' : m[1] = t}
      <4>1. row \in reactions
        BY <2>1
      <4> QED
        BY <1>4, <4>1 DEF CountedRows
    <3>1. CountedRows(k.key)' = CountedRows(k.key) \ {row} /\ row \in CountedRows(k.key)
      <4> HIDE DEF row
      <4> QED
        BY <2>1, <3>0
    <3>2. Cardinality(CountedRows(k.key) \ {row}) = Cardinality(CountedRows(k.key)) - 1
      BY <1>12, <3>1, FS_RemoveElement
    <3> QED
      BY <1>6, <1>12, <2>2, <3>1, <3>2
  <2>5. forumsExact' => forumsExact
    BY <2>1
  <2> HIDE DEF b
  <2> QED
    BY <1>1, <1>3, <1>6, <1>7, <1>8, <1>10, <2>1, <2>3, <2>4, <2>5, RowsChange
<1>20. CASE UpsertReaction(c)
  <2>1. k.at = "upsert"
    BY <1>1, <1>20 DEF UpsertReaction, Waits
  <2> HIDE DEF b
  <2> QED
    BY <1>13, <1>17, <1>18, <1>20, <2>1
<1> QED
  BY <1>14, <1>20

(* An id that no handler holds is no part of a handler's counter.          *)
LEMMA FreshId ==
  ASSUME ForumTypeInv, NEW table, NEW id, Unused(table, id)
  PROVE  \A d \in Calls : ocalls[d] # None =>
           /\ \A i \in Counters : i[2] = id => ocalls[d].key # i
           /\ id \notin ocalls[d].holds /\ ocalls[d].on # id
<1>1. DOMAIN ocalls = Calls
  BY DEF ForumTypeInv
<1> QED
  BY <1>1, CounterKinds DEF Unused, RowIds

LEMMA AddTopicOK ==
  ASSUME ForumInv, NEW c \in Calls, AddTopic(c)
  PROVE  ForumInv'
<1>1. PICK k \in ForumCall : k = ocalls[c] /\ k # None
  BY ForumsAssumption DEF AddTopic, Waits, ForumInv, ForumTypeInv
<1>2. ForumCallOK(k)
  BY <1>1 DEF ForumInv
<1>3. k.at = "addTopic" /\ k.key[1] = "topics" /\ k.key \in Counters /\ k.delta = 1
  BY <1>1, <1>2 DEF AddTopic, Waits, ForumCallOK, Clearing, ForumCall
<1>4. PICK f \in ForumIds : k.key = <<"topics", f>>
  BY <1>3, CounterKinds
<1> DEFINE b == [k EXCEPT !.at = "count"]
<1>6. b \in ForumCall /\ b # None /\ b.at = "count"
      /\ b.key = k.key /\ b.stale = k.stale /\ b.delta = k.delta /\ b.read = k.read
      /\ b.user = k.user /\ b.holds = k.holds /\ b.on = k.on
  BY NextStage DEF Owing
<1>7. k.at \notin Owing /\ k.at \notin Clearing /\ b.at \in Owing
  BY <1>3, <1>6 DEF Owing, Clearing
<1>8. ForumCallOK(b)
  <2> HIDE DEF b
  <2> QED
    BY <1>3, <1>6, <1>7, CounterKinds DEF ForumCallOK, DeltaOK, Clearing
<1>9. CASE forums[f] = None
  <2>1. ocalls' = [ocalls EXCEPT ![c] = None]
        /\ UNCHANGED <<forums, forumMembers, topics, reactions, replies, tally, forumsExact>>
    BY <1>1, <1>4, <1>9 DEF AddTopic, OEnds
  <2>2. \A i \in Counters : Net(None, i) = Net(k, i)
    BY <1>7 DEF Net, Pays
  <2>3. ReadOK(None) /\ forumsExact \in BOOLEAN
    BY DEF ReadOK, ForumInv, ForumTypeInv
  <2> QED
    BY <1>1, <1>7, <2>1, <2>2, <2>3, CallOnly
<1>10. CASE forums[f] # None
  <2>1. PICK t \in TopicIds :
          /\ Unused(topics, t)
          /\ topics' = [topics EXCEPT ![t] = [forum |-> f, user |-> ocalls[c].user, is_deleted |-> FALSE]]
    BY <1>1, <1>4, <1>10 DEF AddTopic
  <2>2. ocalls' = [ocalls EXCEPT ![c] = b]
        /\ UNCHANGED <<forums, forumMembers, reactions, replies, tally, forumsExact>>
    BY <1>1, <1>4, <1>10 DEF AddTopic, OGoes
  <2> DEFINE row == [forum |-> f, user |-> k.user, is_deleted |-> FALSE]
  <2>3. row \in TopicRow /\ row # None /\ row.forum = f /\ topics' = [topics EXCEPT ![t] = row]
    <3>1. k.user \in Authors
      BY DEF ForumCall
    <3>2. row \in TopicRow
      BY <3>1 DEF TopicRow
    <3> QED
      BY <1>1, <2>1, <3>2, ForumsAssumption
  <2>4. topics[t] = None /\ topics \in [TopicIds -> TopicRow \cup {None}]
    BY <2>1 DEF Unused, ForumInv, ForumTypeInv
  <2> HIDE DEF row, b
  <2>5. ForumTypeInv'
    <3>1. ocalls' \in [Calls -> ForumCall \cup {None}]
      BY <1>6, <2>2 DEF ForumInv, ForumTypeInv
    <3>2. topics' \in [TopicIds -> TopicRow \cup {None}]
      BY <2>3, <2>4
    <3> QED
      BY <2>2, <3>1, <3>2 DEF ForumInv, ForumTypeInv
  <2>6. topics'[t] = row /\ \A s \in TopicIds \ {t} : topics'[s] = topics[s]
    BY <2>3, <2>4
  <2>7. ForumRowsOK'
    <3>1. \A s \in TopicIds : topics'[s] # None => forums'[topics'[s].forum] # None
      BY <1>10, <2>2, <2>3, <2>6 DEF ForumInv, ForumRowsOK
    <3>2. \A s \in TopicIds : topics[s] # None => topics'[s] # None
      BY <2>3, <2>6
    <3>3. \A r \in reactions' : topics'[r[1]] # None
      BY <2>2, <3>2 DEF ForumInv, ForumRowsOK, ForumTypeInv
    <3>4. \A r \in ReplyIds : replies'[r] # None => topics'[replies'[r].topic] # None
      BY <2>2, <3>2 DEF ForumInv, ForumRowsOK, ForumTypeInv, ReplyRow
    <3>5. \A i \in Counters : ~HasRow(i)' => tally'[i] = 0
      <4> SUFFICES ASSUME NEW i \in Counters, ~HasRow(i)' PROVE ~HasRow(i) /\ tally'[i] = tally[i]
        BY DEF ForumInv, ForumRowsOK
      <4>1. i[1] \in {"reactions", "comments"} => i[2] \in TopicIds
        BY CounterKinds
      <4> QED
        BY <2>2, <3>2, <4>1, CounterKinds DEF HasRow
    <3> QED
      BY <2>2, <3>1, <3>3, <3>4, <3>5 DEF ForumInv, ForumRowsOK
  <2>8. forumsExact' => ReadOK(b)'
    <3>1. forumsExact' => ReadOK(k)
      BY <1>1, <2>2 DEF ForumInv
    <3>2. k.key = <<"topics", f>> /\ (HasRow(k.key)' <=> HasRow(k.key))
      BY <1>4, <2>2 DEF HasRow
    <3> QED
      BY <1>1, <1>3, <1>6, <2>2, <3>1, <3>2 DEF ReadOK, HasRead
  <2>9. CountedRows(<<"reactions", t>>)' = {} /\ CountedRows(<<"comments", t>>)' = {}
    <3>1. \A r \in reactions : r[1] # t
      BY <2>4 DEF ForumInv, ForumRowsOK
    <3>2. \A r \in ReplyIds : replies[r] # None => replies[r].topic # t
      BY <2>4 DEF ForumInv, ForumRowsOK
    <3>3. DOMAIN replies = ReplyIds
      BY DEF ForumInv, ForumTypeInv
    <3> QED
      BY <2>2, <3>1, <3>2, <3>3 DEF CountedRows, LiveReplies, RowIds
  <2>10. \A s \in TopicIds :
           \/ topics'[s] = topics[s]
           \/ /\ topics[s] = None /\ topics'[s] # None
              /\ \A d \in Calls : ocalls[d] # None => \A i \in Counters : i[2] = s => ocalls[d].key # i
              /\ CountedRows(<<"reactions", s>>)' = {}
              /\ CountedRows(<<"comments", s>>)' = {}
    <3> SUFFICES ASSUME NEW s \in TopicIds, s = t
                 PROVE  /\ topics[s] = None /\ topics'[s] # None
                        /\ \A d \in Calls : ocalls[d] # None => \A i \in Counters : i[2] = s => ocalls[d].key # i
                        /\ CountedRows(<<"reactions", s>>)' = {}
                        /\ CountedRows(<<"comments", s>>)' = {}
      BY <2>6
    <3> QED
      BY <2>1, <2>3, <2>4, <2>6, <2>9, FreshId DEF ForumInv
  <2>11. RowIds(topics)' = RowIds(topics) \cup {t} /\ t \notin RowIds(topics)
    BY <2>3, <2>4, <2>6 DEF RowIds
  <2>12. \A i \in Counters : i # k.key => CountedRows(i)' = CountedRows(i)
    <3> SUFFICES ASSUME NEW i \in Counters, i # k.key PROVE CountedRows(i)' = CountedRows(i)
      OBVIOUS
    <3>1. CASE i[1] = "topics"
      <4>1. i[2] # f
        BY <1>4, <3>1, CounterKinds
      <4>2. CountedRows(i) = {s \in RowIds(topics) : topics[s].forum = i[2]}
            /\ CountedRows(i)' = {s \in RowIds(topics)' : topics'[s].forum = i[2]}
        BY <3>1 DEF CountedRows
      <4>3. \A s \in RowIds(topics) : s \in TopicIds \ {t}
        BY <2>4, <2>11 DEF RowIds
      <4> QED
        BY <2>3, <2>6, <2>11, <4>1, <4>2, <4>3
    <3>2. CASE i[1] # "topics"
      BY <2>2, <3>2 DEF CountedRows, RowIds, LiveReplies
    <3> QED
      BY <3>1, <3>2
  <2>13. Cardinality(CountedRows(k.key))' = Cardinality(CountedRows(k.key)) + b.delta
    <3>1. CountedRows(k.key) = {s \in RowIds(topics) : topics[s].forum = f}
          /\ CountedRows(k.key)' = {s \in RowIds(topics)' : topics'[s].forum = f}
      BY <1>4 DEF CountedRows
    <3>2. \A s \in RowIds(topics) : s \in TopicIds \ {t}
      BY <2>4, <2>11 DEF RowIds
    <3>3. CountedRows(k.key)' = CountedRows(k.key) \cup {t} /\ t \notin CountedRows(k.key)
      BY <2>3, <2>6, <2>11, <3>1, <3>2
    <3>4. IsFiniteSet(CountedRows(k.key))
      BY <1>3, RowsFinite DEF ForumInv
    <3>5. Cardinality(CountedRows(k.key) \cup {t}) = Cardinality(CountedRows(k.key)) + 1
      BY <3>3, <3>4, FS_AddElement
    <3> QED
      BY <1>3, <1>6, <3>3, <3>5
  <2> QED
    BY <1>1, <1>3, <1>6, <1>7, <1>8, <2>2, <2>5, <2>7, <2>8, <2>10, <2>12, <2>13, RowsChange
<1> QED
  BY <1>9, <1>10

LEMMA AddReplyOK ==
  ASSUME ForumInv, NEW c \in Calls, AddReply(c)
  PROVE  ForumInv'
<1>1. PICK k \in ForumCall : k = ocalls[c] /\ k # None
  BY ForumsAssumption DEF AddReply, Waits, ForumInv, ForumTypeInv
<1>2. ForumCallOK(k)
  BY <1>1 DEF ForumInv
<1>3. k.at = "addReply" /\ k.key[1] = "comments" /\ k.key \in Counters /\ k.delta = 1
  BY <1>1, <1>2 DEF AddReply, Waits, ForumCallOK, Clearing, ForumCall
<1>4. PICK t \in TopicIds : k.key = <<"comments", t>>
  BY <1>3, CounterKinds
<1> DEFINE b == [k EXCEPT !.at = "count"]
<1>6. b \in ForumCall /\ b # None /\ b.at = "count"
      /\ b.key = k.key /\ b.stale = k.stale /\ b.delta = k.delta /\ b.read = k.read
      /\ b.user = k.user /\ b.holds = k.holds /\ b.on = k.on
  BY NextStage DEF Owing
<1>7. k.at \notin Owing /\ k.at \notin Clearing /\ b.at \in Owing
  BY <1>3, <1>6 DEF Owing, Clearing
<1>8. ForumCallOK(b)
  <2> HIDE DEF b
  <2> QED
    BY <1>3, <1>6, <1>7, CounterKinds DEF ForumCallOK, DeltaOK, Clearing
<1>9. CASE topics[t] = None \/ (k.on # None /\ replies[k.on] = None)
  <2>1. ocalls' = [ocalls EXCEPT ![c] = None]
        /\ UNCHANGED <<forums, forumMembers, topics, reactions, replies, tally, forumsExact>>
    BY <1>1, <1>4, <1>9 DEF AddReply, OEnds
  <2>2. \A i \in Counters : Net(None, i) = Net(k, i)
    BY <1>7 DEF Net, Pays
  <2>3. ReadOK(None) /\ forumsExact \in BOOLEAN
    BY DEF ReadOK, ForumInv, ForumTypeInv
  <2> QED
    BY <1>1, <1>7, <2>1, <2>2, <2>3, CallOnly
<1>10. CASE topics[t] # None /\ ~(k.on # None /\ replies[k.on] = None)
  <2> DEFINE row == [topic |-> t, user |-> k.user, parent |-> k.on, is_deleted |-> FALSE]
  <2>1. PICK r \in ReplyIds : Unused(replies, r) /\ replies' = [replies EXCEPT ![r] = row]
    BY <1>1, <1>4, <1>10 DEF AddReply
  <2>2. ocalls' = [ocalls EXCEPT ![c] = b]
        /\ UNCHANGED <<forums, forumMembers, topics, reactions, tally, forumsExact>>
    BY <1>1, <1>4, <1>10 DEF AddReply, OGoes
  <2>3. row \in ReplyRow /\ row # None /\ row.topic = t /\ ~row.is_deleted
    <3>1. k.on \in ReplyIds \cup {None}
      BY <1>2, <1>3 DEF ForumCallOK
    <3>2. k.user \in Authors
      BY DEF ForumCall
    <3>3. row \in ReplyRow
      BY <3>1, <3>2 DEF ReplyRow
    <3> QED
      BY <3>3, ForumsAssumption
  <2>4. replies[r] = None /\ replies \in [ReplyIds -> ReplyRow \cup {None}]
    BY <2>1 DEF Unused, ForumInv, ForumTypeInv
  <2> HIDE DEF row, b
  <2>5. ForumTypeInv'
    <3>1. ocalls' \in [Calls -> ForumCall \cup {None}]
      BY <1>6, <2>2 DEF ForumInv, ForumTypeInv
    <3>2. replies' \in [ReplyIds -> ReplyRow \cup {None}]
      BY <2>1, <2>3, <2>4
    <3> QED
      BY <2>2, <3>1, <3>2 DEF ForumInv, ForumTypeInv
  <2>6. replies'[r] = row /\ \A s \in ReplyIds \ {r} : replies'[s] = replies[s]
    BY <2>1, <2>4
  <2>7. ForumRowsOK'
    <3>1. \A s \in ReplyIds : replies'[s] # None => topics'[replies'[s].topic] # None
      BY <1>10, <2>2, <2>3, <2>6 DEF ForumInv, ForumRowsOK
    <3> QED
      BY <2>2, <3>1 DEF ForumInv, ForumRowsOK, HasRow
  <2>8. forumsExact' => ReadOK(b)'
    <3>1. forumsExact' => ReadOK(k)
      BY <1>1, <2>2 DEF ForumInv
    <3> QED
      BY <1>1, <1>3, <1>6, <2>2, <3>1 DEF ReadOK, HasRead, HasRow
  <2>9. RowIds(replies)' = RowIds(replies) \cup {r} /\ r \notin RowIds(replies)
        /\ RowIds(replies) \subseteq ReplyIds \ {r}
    BY <2>3, <2>4, <2>6, <2>1 DEF RowIds
  <2>10. LiveReplies(t)' = LiveReplies(t) \cup {r} /\ r \notin LiveReplies(t)
         /\ \A s \in TopicIds \ {t} : LiveReplies(s)' = LiveReplies(s)
    BY <2>3, <2>6, <2>9 DEF LiveReplies
  <2>11. \A i \in Counters : i # k.key => CountedRows(i)' = CountedRows(i)
    <3> SUFFICES ASSUME NEW i \in Counters, i # k.key PROVE CountedRows(i)' = CountedRows(i)
      OBVIOUS
    <3>1. CASE i[1] = "comments"
      <4>1. i[2] # t /\ i[2] \in TopicIds
        BY <1>4, <3>1, CounterKinds
      <4>2. CountedRows(i) = LiveReplies(i[2]) /\ CountedRows(i)' = LiveReplies(i[2])'
        BY <3>1 DEF CountedRows
      <4> QED
        BY <2>10, <4>1, <4>2
    <3>2. CASE i[1] # "comments"
      BY <2>2, <3>2, CounterKinds DEF CountedRows, RowIds
    <3> QED
      BY <3>1, <3>2
  <2>12. Cardinality(CountedRows(k.key))' = Cardinality(CountedRows(k.key)) + b.delta
    <3>1. CountedRows(k.key) = LiveReplies(t) /\ CountedRows(k.key)' = LiveReplies(t)'
      BY <1>4 DEF CountedRows
    <3>2. IsFiniteSet(CountedRows(k.key))
      BY <1>3, RowsFinite DEF ForumInv
    <3>3. Cardinality(CountedRows(k.key) \cup {r}) = Cardinality(CountedRows(k.key)) + 1
      BY <2>10, <3>1, <3>2, FS_AddElement
    <3> QED
      BY <1>3, <1>6, <2>10, <3>1, <3>3
  <2> QED
    BY <1>1, <1>3, <1>6, <1>7, <1>8, <2>2, <2>5, <2>7, <2>8, <2>11, <2>12, RowsChange
<1> QED
  BY <1>9, <1>10

(* While a topic is being cleared nothing is said of its counters.         *)
LEMMA ClearsTopic ==
  ASSUME ForumInv, NEW c \in Calls, NEW k \in ForumCall, k = ocalls[c], k # None, k.at \in Clearing,
         NEW t \in TopicIds, t = k.on,
         NEW b \in ForumCall \cup {None}, ocalls' = [ocalls EXCEPT ![c] = b],
         \/ b # None /\ b.at \in Clearing /\ b.on = t /\ b.key = None /\ b.stale = k.stale
         \/ b = None /\ (topics'[t] # None => topics'[t].is_deleted),
         ForumTypeInv', ForumRowsOK', UNCHANGED <<forums, tally, forumsExact>>,
         \A s \in TopicIds : \/ topics'[s] = topics[s]
                             \/ topics[s] # None /\ topics'[s] # None /\ topics'[s].is_deleted,
         \A i \in Counters : i[2] # t \/ i[1] \in {"members", "topics"} =>
           CountedRows(i)' = CountedRows(i)
  PROVE  ForumInv'
<1>1. ForumCallOK(k) /\ k.key = None
  BY DEF ForumInv, ForumCallOK
<1>2. b # None => ForumCallOK(b)
  BY DEF ForumCallOK, DeltaOK, Clearing, Owing
<1>3. /\ ocalls' \in [Calls -> ForumCall \cup {None}]
      /\ \A d \in Calls : ocalls'[d] # None => ForumCallOK(ocalls'[d])
      /\ MetOK'
  BY <1>1, <1>2, CallGoesOn
<1>4. ASSUME forumsExact'
      PROVE  /\ \A d \in Calls : ReadOK(ocalls[d])'
             /\ \A i \in Counters : Standing(i)' => Balanced(i)'
  <2>1. ReadOK(b)'
    BY DEF ReadOK, HasRead, Clearing
  <2>2. \A i \in Counters : HasRow(i)' <=> HasRow(i)
    <3> SUFFICES ASSUME NEW i \in Counters PROVE HasRow(i)' <=> HasRow(i)
      OBVIOUS
    <3>1. i[1] \in {"reactions", "comments"} => i[2] \in TopicIds
      BY CounterKinds
    <3> QED
      BY <3>1, CounterKinds DEF HasRow
  <2>3. tally' \in [Counters -> Nat] /\ tally' = tally
    BY DEF ForumTypeInv
  <2>4. ASSUME NEW i \in Counters, Standing(i)'
        PROVE  /\ Standing(i)
               /\ Cardinality(CountedRows(i)) \in Nat
               /\ Cardinality(CountedRows(i))' = Cardinality(CountedRows(i))
                    + (tally'[i] - tally[i]) + Net(b, i) - Net(ocalls[c], i)
    <3>1. ASSUME i[1] \in {"reactions", "comments"}
          PROVE  i[2] # t /\ ~topics[i[2]].is_deleted /\ ~BeingCleared(i[2])
      <4>1. i[2] \in TopicIds /\ ~topics'[i[2]].is_deleted /\ ~BeingCleared(i[2])' /\ topics'[i[2]] # None
        BY <2>4, <3>1, CounterKinds DEF Standing, HasRow
      <4>2. i[2] # t
        <5>1. b # None /\ b.at \in Clearing /\ b.on = t => BeingCleared(t)'
          BY DEF BeingCleared, ForumInv, ForumTypeInv
        <5> QED
          BY <4>1, <5>1
      <4>3. ~BeingCleared(i[2])
        <5> SUFFICES ASSUME NEW d \in Calls, ocalls[d] # None, ocalls[d].at \in Clearing,
                            ocalls[d].on = i[2]
                     PROVE  BeingCleared(i[2])'
          BY <4>1 DEF BeingCleared
        <5>1. d # c
          BY <4>2
        <5>2. ocalls'[d] = ocalls[d]
          BY <5>1 DEF ForumInv, ForumTypeInv
        <5> QED
          BY <5>2 DEF BeingCleared
      <4> QED
        BY <4>1, <4>2, <4>3
    <3>2. Standing(i)
      BY <2>2, <2>4, <3>1 DEF Standing
    <3>3. CountedRows(i)' = CountedRows(i)
      BY <3>1, CounterKinds
    <3>4. Cardinality(CountedRows(i)) \in Nat
      BY RowsFinite DEF ForumInv
    <3>5. Net(b, i) = 0 /\ Net(ocalls[c], i) = 0 /\ tally'[i] = tally[i] /\ tally[i] \in Nat
      BY <1>1, <2>3, CounterKinds DEF Net, Pays
    <3> QED
      BY <3>2, <3>3, <3>4, <3>5
  <2>5. /\ \A i \in Counters : HasRow(i)' => HasRow(i)
        /\ \A i \in Counters : i # ocalls[c].key => tally'[i] = tally[i]
    BY <2>2, <2>3
  <2>6. b # None => ForumCallOK(b) /\ b.key = ocalls[c].key /\ (ocalls[c].stale => b.stale)
    BY <1>1, <1>2
  <2> QED
    BY <1>4, <2>1, <2>3, <2>4, <2>5, <2>6, ExactGoesOn
<1> QED
  BY <1>3, <1>4 DEF ForumInv

LEMMA SoftDeletedRows ==
  ASSUME ForumTypeInv, NEW ids, replies' = SoftDeleted(ids)
  PROVE  /\ replies' \in [ReplyIds -> ReplyRow \cup {None}]
         /\ \A r \in ReplyIds :
              /\ replies'[r] = None <=> replies[r] = None
              /\ replies[r] # None =>
                   /\ replies'[r].topic = replies[r].topic
                   /\ replies'[r].is_deleted <=> r \in ids \/ replies[r].is_deleted
         /\ RowIds(replies)' = RowIds(replies)
<1>1. \A r \in ReplyIds : replies'[r] = IF r \in ids \cap RowIds(replies)
                                         THEN [replies[r] EXCEPT !.is_deleted = TRUE] ELSE replies[r]
  BY DEF SoftDeleted
<1>2. ASSUME NEW r \in ReplyIds
      PROVE  /\ replies'[r] \in ReplyRow \cup {None}
             /\ replies'[r] = None <=> replies[r] = None
             /\ replies[r] # None =>
                  /\ replies'[r].topic = replies[r].topic
                  /\ replies'[r].is_deleted <=> r \in ids \/ replies[r].is_deleted
  <2>1. replies[r] \in ReplyRow \cup {None} /\ (r \in RowIds(replies) <=> replies[r] # None)
    BY DEF ForumTypeInv, RowIds
  <2>2. CASE r \in ids \cap RowIds(replies)
    <3>1. PICK q \in ReplyRow : q = replies[r]
      BY <2>1, <2>2
    <3>2. replies'[r] = [q EXCEPT !.is_deleted = TRUE]
      BY <1>1, <2>2, <3>1
    <3>3. [q EXCEPT !.is_deleted = TRUE] \in ReplyRow
          /\ [q EXCEPT !.is_deleted = TRUE].topic = q.topic
          /\ [q EXCEPT !.is_deleted = TRUE].is_deleted
      BY DEF ReplyRow
    <3> QED
      BY <2>1, <2>2, <3>1, <3>2, <3>3, ForumsAssumption
  <2>3. CASE r \notin ids \cap RowIds(replies)
    BY <1>1, <2>1, <2>3
  <2> QED
    BY <2>2, <2>3
<1>3. replies' \in [ReplyIds -> ReplyRow \cup {None}]
  <2>1. replies' = [r \in ReplyIds |-> replies'[r]]
    BY DEF SoftDeleted
  <2> QED
    BY <1>2, <2>1
<1>4. RowIds(replies)' = RowIds(replies)
  BY <1>2, <1>3 DEF RowIds, ForumTypeInv
<1> QED
  BY <1>2, <1>3, <1>4

LEMMA ClearingSteps ==
  ASSUME ForumInv, NEW c \in Calls, ClearReactions(c) \/ DeleteReplies(c) \/ MarkDeleted(c)
  PROVE  ForumInv'
<1>1. PICK k \in ForumCall : k = ocalls[c] /\ k # None
  BY ForumsAssumption DEF ClearReactions, DeleteReplies, MarkDeleted, Waits, ForumInv, ForumTypeInv
<1>2. ForumCallOK(k)
  BY <1>1 DEF ForumInv
<1>3. k.at \in Clearing
  BY <1>1 DEF ClearReactions, DeleteReplies, MarkDeleted, Waits, Clearing
<1>4. PICK t \in TopicIds : t = k.on
  BY <1>2, <1>3 DEF ForumCallOK
<1>5. ASSUME NEW at \in Clearing
      PROVE  LET b == [k EXCEPT !.at = at]
             IN  b \in ForumCall /\ b # None /\ b.at \in Clearing /\ b.on = t /\ b.key = None /\ b.stale = k.stale
  <2> DEFINE b == [k EXCEPT !.at = at]
  <2>1. b \in ForumCall /\ b.at = at /\ b.on = k.on /\ b.key = k.key /\ b.stale = k.stale
    BY DEF ForumCall
  <2>2. b # None
    BY <2>1, ForumsAssumption
  <2> HIDE DEF b
  <2>3. b \in ForumCall /\ b # None /\ b.at \in Clearing /\ b.on = t /\ b.key = None /\ b.stale = k.stale
    BY <1>2, <1>3, <1>4, <2>1, <2>2 DEF ForumCallOK
  <2> QED
    BY <2>3 DEF b
<1>6. CASE ClearReactions(c)
  <2> DEFINE b == [k EXCEPT !.at = "deleteReplies"]
  <2>1. b \in ForumCall /\ b # None /\ b.at \in Clearing /\ b.on = t /\ b.key = None /\ b.stale = k.stale
    BY <1>5 DEF Clearing
  <2>2. /\ ocalls' = [ocalls EXCEPT ![c] = b]
        /\ reactions' = {r \in reactions : r[1] # t}
        /\ UNCHANGED <<forums, forumMembers, topics, replies, tally, forumsExact>>
    BY <1>1, <1>4, <1>6 DEF ClearReactions, OGoes
  <2> HIDE DEF b
  <2>3. ForumTypeInv' /\ ForumRowsOK'
    <3>1. ocalls' \in [Calls -> ForumCall \cup {None}]
      BY <2>1, <2>2 DEF ForumInv, ForumTypeInv
    <3>2. reactions' \subseteq reactions
      BY <2>2
    <3> QED
      BY <2>2, <3>1, <3>2 DEF ForumInv, ForumTypeInv, ForumRowsOK, HasRow
  <2>4. ASSUME NEW i \in Counters, i[2] # t \/ i[1] \in {"members", "topics"}
        PROVE  CountedRows(i)' = CountedRows(i)
    <3>1. CASE i[1] = "reactions"
      BY <2>2, <2>4, <3>1 DEF CountedRows
    <3>2. CASE i[1] # "reactions"
      BY <2>2, <3>2 DEF CountedRows, RowIds, LiveReplies
    <3> QED
      BY <3>1, <3>2
  <2> QED
    BY <1>1, <1>3, <1>4, <2>1, <2>2, <2>3, <2>4, ClearsTopic
<1>7. CASE DeleteReplies(c)
  <2> DEFINE b == [k EXCEPT !.at = "deleteTopic"]
             ids == {r \in RowIds(replies) : replies[r].topic = t}
  <2>1. b \in ForumCall /\ b # None /\ b.at \in Clearing /\ b.on = t /\ b.key = None /\ b.stale = k.stale
    BY <1>5 DEF Clearing
  <2>2. /\ ocalls' = [ocalls EXCEPT ![c] = b]
        /\ replies' = SoftDeleted(ids)
        /\ UNCHANGED <<forums, forumMembers, topics, reactions, tally, forumsExact>>
    BY <1>1, <1>4, <1>7 DEF DeleteReplies, OGoes
  <2> HIDE DEF b
  <2>3. /\ replies' \in [ReplyIds -> ReplyRow \cup {None}]
        /\ \A r \in ReplyIds :
             /\ replies'[r] = None <=> replies[r] = None
             /\ replies[r] # None =>
                  /\ replies'[r].topic = replies[r].topic
                  /\ replies'[r].is_deleted <=> r \in ids \/ replies[r].is_deleted
        /\ RowIds(replies)' = RowIds(replies)
    BY <2>2, SoftDeletedRows DEF ForumInv
  <2>4. ForumTypeInv' /\ ForumRowsOK'
    <3>1. ocalls' \in [Calls -> ForumCall \cup {None}]
      BY <2>1, <2>2 DEF ForumInv, ForumTypeInv
    <3> QED
      BY <2>2, <2>3, <3>1 DEF ForumInv, ForumTypeInv, ForumRowsOK, HasRow
  <2>5. ASSUME NEW i \in Counters, i[2] # t \/ i[1] \in {"members", "topics"}
        PROVE  CountedRows(i)' = CountedRows(i)
    <3>1. CASE i[1] = "comments"
      <4>1. RowIds(replies) \subseteq ReplyIds /\ \A r \in RowIds(replies) : replies[r] # None
        BY DEF RowIds, ForumInv, ForumTypeInv
      <4>2. CountedRows(i) = LiveReplies(i[2]) /\ CountedRows(i)' = LiveReplies(i[2])'
        BY <3>1 DEF CountedRows
      <4>3. i[2] # t
        BY <2>5, <3>1
      <4>4. LiveReplies(i[2])' = LiveReplies(i[2])
        BY <2>3, <4>1, <4>3 DEF LiveReplies
      <4> QED
        BY <4>2, <4>4
    <3>2. CASE i[1] # "comments"
      BY <2>2, <3>2, CounterKinds DEF CountedRows, RowIds
    <3> QED
      BY <3>1, <3>2
  <2> HIDE DEF ids
  <2> QED
    BY <1>1, <1>3, <1>4, <2>1, <2>2, <2>4, <2>5, ClearsTopic
<1>8. CASE MarkDeleted(c)
  <2>1. /\ ocalls' = [ocalls EXCEPT ![c] = None]
        /\ topics' = IF topics[t] = None THEN topics ELSE [topics EXCEPT ![t].is_deleted = TRUE]
        /\ UNCHANGED <<forums, forumMembers, reactions, replies, tally, forumsExact>>
    BY <1>1, <1>4, <1>8 DEF MarkDeleted, OEnds
  <2>2. topics \in [TopicIds -> TopicRow \cup {None}]
    BY DEF ForumInv, ForumTypeInv
  <2>3. /\ topics' \in [TopicIds -> TopicRow \cup {None}]
        /\ topics[t] = None => topics' = topics
        /\ topics[t] # None => topics'[t] # None /\ topics'[t].is_deleted
                                /\ topics'[t].forum = topics[t].forum
        /\ \A s \in TopicIds \ {t} : topics'[s] = topics[s]
    <3>1. CASE topics[t] = None
      BY <2>1, <2>2, <3>1
    <3>2. CASE topics[t] # None
      <4>1. PICK q \in TopicRow : q = topics[t]
        BY <2>2, <3>2
      <4>2. topics' = [topics EXCEPT ![t] = [q EXCEPT !.is_deleted = TRUE]]
        BY <2>1, <3>2, <4>1
      <4> DEFINE p == [q EXCEPT !.is_deleted = TRUE]
      <4>3. p \in TopicRow /\ p.is_deleted /\ p.forum = q.forum
        BY DEF TopicRow
      <4>4. p # None
        BY <4>3, ForumsAssumption
      <4> HIDE DEF p
      <4> QED
        BY <2>2, <3>2, <4>1, <4>2, <4>3, <4>4 DEF p
    <3> QED
      BY <3>1, <3>2
  <2>4. ForumTypeInv' /\ ForumRowsOK'
    <3>1. ocalls' \in [Calls -> ForumCall \cup {None}]
      BY <2>1 DEF ForumInv, ForumTypeInv
    <3>2. ForumTypeInv'
      BY <2>1, <2>3, <3>1 DEF ForumInv, ForumTypeInv
    <3>3. \A s \in TopicIds : /\ topics'[s] = None <=> topics[s] = None
                              /\ topics[s] # None => topics'[s].forum = topics[s].forum
      BY <2>3
    <3>4. \A i \in Counters : HasRow(i)' <=> HasRow(i)
      <4> SUFFICES ASSUME NEW i \in Counters PROVE HasRow(i)' <=> HasRow(i)
        OBVIOUS
      <4>1. i[1] \in {"reactions", "comments"} => i[2] \in TopicIds
        BY CounterKinds
      <4> QED
        BY <2>1, <3>3, <4>1, CounterKinds DEF HasRow
    <3>5. ForumRowsOK'
      <4>1. \A r \in reactions : r[1] \in TopicIds
        BY DEF ForumInv, ForumTypeInv
      <4>2. \A r \in ReplyIds : replies[r] # None => replies[r].topic \in TopicIds
        BY DEF ForumInv, ForumTypeInv, ReplyRow
      <4> QED
        BY <2>1, <3>3, <3>4, <4>1, <4>2 DEF ForumInv, ForumRowsOK
    <3> QED
      BY <3>2, <3>5
  <2>5. ASSUME NEW i \in Counters
        PROVE  CountedRows(i)' = CountedRows(i)
    <3>1. CASE i[1] = "topics"
      <4>1. RowIds(topics)' = RowIds(topics) /\ RowIds(topics) \subseteq TopicIds
        BY <2>2, <2>3 DEF RowIds
      <4>2. \A s \in RowIds(topics) : topics'[s].forum = topics[s].forum
        BY <2>2, <2>3 DEF RowIds
      <4> QED
        BY <3>1, <4>1, <4>2 DEF CountedRows
    <3>2. CASE i[1] # "topics"
      BY <2>1, <3>2 DEF CountedRows, RowIds, LiveReplies
    <3> QED
      BY <3>1, <3>2
  <2>6. \A s \in TopicIds : \/ topics'[s] = topics[s]
                            \/ topics[s] # None /\ topics'[s] # None /\ topics'[s].is_deleted
    BY <2>3
  <2>7. topics'[t] # None => topics'[t].is_deleted
    BY <2>3
  <2> QED
    BY <1>1, <1>3, <1>4, <2>1, <2>4, <2>5, <2>6, <2>7, ClearsTopic
<1> QED
  BY <1>6, <1>7, <1>8

LEMMA CollectOK ==
  ASSUME ForumInv, NEW c \in Calls, CollectReplies(c)
  PROVE  ForumInv'
<1>1. PICK k \in ForumCall : k = ocalls[c] /\ k # None
  BY ForumsAssumption DEF CollectReplies, Waits, ForumInv, ForumTypeInv
<1>2. ForumCallOK(k) /\ k.at = "collect"
  BY <1>1 DEF ForumInv, CollectReplies, Waits
<1>3. k.key[1] = "comments" /\ k.key \in Counters
  BY <1>1, <1>2 DEF ForumCallOK, Clearing, ForumCall
<1>4. PICK ids \in SUBSET ReplyIds :
        /\ ocalls' = [ocalls EXCEPT ![c].at = "softDelete", ![c].holds = ids,
                                    ![c].delta = -Cardinality(ids)]
        /\ IsFiniteSet(ids)
  <2>1. PICK ids \in {ForumDescendants(k.on, k.key[2]), {k.on}} :
          ocalls' = [ocalls EXCEPT ![c].at = "softDelete", ![c].holds = ids,
                                   ![c].delta = -Cardinality(ids)]
    BY <1>1 DEF CollectReplies
  <2>2. k.on \in ReplyIds
    BY <1>2 DEF ForumCallOK
  <2>3. ids \in SUBSET ReplyIds
    BY <2>1, <2>2 DEF ForumDescendants
  <2> QED
    BY <2>1, <2>3, ForumsAssumption, FS_Subset
<1>5. PICK n \in Int : n = -Cardinality(ids)
  <2>1. Cardinality(ids) \in Nat
    BY <1>4, FS_CardinalityType
  <2> QED
    BY <2>1
<1>6. /\ ocalls' = [ocalls EXCEPT ![c].at = "softDelete", ![c].holds = ids, ![c].delta = n]
      /\ UNCHANGED <<forums, forumMembers, topics, reactions, replies, tally, forumsExact>>
  BY <1>4, <1>5 DEF CollectReplies
<1> DEFINE b == [k EXCEPT !.at = "softDelete", !.holds = ids, !.delta = n]
<1>7. ocalls' = [ocalls EXCEPT ![c] = b]
  BY <1>1, <1>6
<1>8. b \in ForumCall /\ b.at = "softDelete" /\ b.key = k.key /\ b.stale = k.stale /\ b.delta = n
      /\ b.holds = ids
  BY <1>4 DEF ForumCall
<1> HIDE DEF b
<1>9. ForumCallOK(b)
  BY <1>3, <1>5, <1>8, CounterKinds DEF ForumCallOK, DeltaOK, Clearing, Owing
<1>10. \A i \in Counters : Net(b, i) = Net(k, i)
  BY <1>2, <1>8 DEF Net, Pays, Owing
<1>11. ReadOK(b) /\ forumsExact \in BOOLEAN /\ k.at \notin Clearing
  BY <1>2, <1>8 DEF ReadOK, HasRead, ForumInv, ForumTypeInv, Clearing
<1> QED
  BY <1>1, <1>6, <1>7, <1>8, <1>9, <1>10, <1>11, CallOnly

LEMMA SoftDeleteOK ==
  ASSUME ForumInv, NEW c \in Calls, SoftDeleteReplies(c)
  PROVE  ForumInv'
<1>1. PICK k \in ForumCall : k = ocalls[c] /\ k # None
  BY ForumsAssumption DEF SoftDeleteReplies, Waits, ForumInv, ForumTypeInv
<1>2. ForumCallOK(k) /\ k.at = "softDelete"
  BY <1>1 DEF ForumInv, SoftDeleteReplies, Waits
<1>3. k.key[1] = "comments" /\ k.key \in Counters /\ k.delta = -Cardinality(k.holds)
      /\ k.holds \subseteq ReplyIds
  BY <1>1, <1>2 DEF ForumCallOK, Clearing, ForumCall
<1>4. PICK t \in TopicIds : k.key = <<"comments", t>>
  BY <1>3, CounterKinds
<1> DEFINE b == [k EXCEPT !.at = "reread"]
<1>6. b \in ForumCall /\ b # None /\ b.at = "reread"
      /\ b.key = k.key /\ b.stale = k.stale /\ b.delta = k.delta /\ b.read = k.read
      /\ b.user = k.user /\ b.holds = k.holds /\ b.on = k.on
  BY NextStage DEF Owing
<1>7. /\ ocalls' = [ocalls EXCEPT ![c] = b]
      /\ replies' = SoftDeleted(k.holds)
      /\ forumsExact' = (forumsExact /\ k.holds \subseteq LiveReplies(t))
      /\ UNCHANGED <<forums, forumMembers, topics, reactions, tally>>
  BY <1>1, <1>4 DEF SoftDeleteReplies, OGoes
<1> HIDE DEF b
<1>8. k.at \notin Owing /\ k.at \notin Clearing /\ b.at \in Owing
  BY <1>2, <1>6 DEF Owing, Clearing
<1>9. ForumCallOK(b)
  BY <1>3, <1>6, <1>8, CounterKinds DEF ForumCallOK, DeltaOK, Clearing, Taken
<1>10. /\ replies' \in [ReplyIds -> ReplyRow \cup {None}]
       /\ \A r \in ReplyIds :
            /\ replies'[r] = None <=> replies[r] = None
            /\ replies[r] # None =>
                 /\ replies'[r].topic = replies[r].topic
                 /\ replies'[r].is_deleted <=> r \in k.holds \/ replies[r].is_deleted
       /\ RowIds(replies)' = RowIds(replies)
  BY <1>7, SoftDeletedRows DEF ForumInv
<1>11. ForumTypeInv' /\ ForumRowsOK'
  <2>1. ocalls' \in [Calls -> ForumCall \cup {None}]
    BY <1>6, <1>7 DEF ForumInv, ForumTypeInv
  <2>2. forumsExact' \in BOOLEAN
    BY <1>7 DEF ForumInv, ForumTypeInv
  <2> QED
    BY <1>7, <1>10, <2>1, <2>2 DEF ForumInv, ForumTypeInv, ForumRowsOK, HasRow
<1>12. ReadOK(b)'
  BY <1>6 DEF ReadOK, HasRead
<1>13. forumsExact' => forumsExact
  BY <1>7
<1>14. RowIds(replies) \subseteq ReplyIds /\ \A r \in RowIds(replies) : replies[r] # None
  BY DEF RowIds, ForumInv, ForumTypeInv
<1>15. ASSUME forumsExact', NEW i \in Counters, i # k.key
       PROVE  CountedRows(i)' = CountedRows(i)
  <2>1. CASE i[1] = "comments"
    <3>1. i[2] # t
      BY <1>4, <1>15, <2>1, CounterKinds
    <3>2. k.holds \subseteq LiveReplies(t)
      BY <1>7, <1>15
    <3>3. CountedRows(i) = LiveReplies(i[2]) /\ CountedRows(i)' = LiveReplies(i[2])'
      BY <2>1 DEF CountedRows
    <3>4. \A r \in k.holds : replies[r].topic = t
      BY <3>2 DEF LiveReplies
    <3>5. LiveReplies(i[2])' = LiveReplies(i[2])
      BY <1>10, <1>14, <3>1, <3>4 DEF LiveReplies
    <3> QED
      BY <3>3, <3>5
  <2>2. CASE i[1] # "comments"
    BY <1>7, <2>2, CounterKinds DEF CountedRows, RowIds
  <2> QED
    BY <2>1, <2>2
<1>16. ASSUME forumsExact'
       PROVE  Cardinality(CountedRows(k.key))' = Cardinality(CountedRows(k.key)) + b.delta
  <2>1. k.holds \subseteq LiveReplies(t)
    BY <1>7, <1>16
  <2>2. CountedRows(k.key) = LiveReplies(t) /\ CountedRows(k.key)' = LiveReplies(t)'
    BY <1>4 DEF CountedRows
  <2>3. LiveReplies(t)' = LiveReplies(t) \ k.holds
    BY <1>10, <1>14, <2>1 DEF LiveReplies
  <2>4. IsFiniteSet(LiveReplies(t))
    BY <1>3, <2>2, RowsFinite DEF ForumInv
  <2>5. Cardinality(LiveReplies(t) \ k.holds) =
          Cardinality(LiveReplies(t)) - Cardinality(LiveReplies(t) \cap k.holds)
    BY <2>4, FS_Difference
  <2>6. LiveReplies(t) \cap k.holds = k.holds
    BY <2>1
  <2>7. IsFiniteSet(k.holds)
    BY <2>1, <2>4, FS_Subset
  <2>8. Cardinality(LiveReplies(t)) \in Nat /\ Cardinality(k.holds) \in Nat
    BY <2>4, <2>7, FS_CardinalityType
  <2> QED
    BY <1>3, <1>6, <2>2, <2>3, <2>5, <2>6, <2>8
<1>17. /\ forumsExact' => \A i \in Counters : i # k.key /\ HasRow(i) => CountedRows(i)' = CountedRows(i)
       /\ forumsExact' /\ Standing(k.key) =>
            Cardinality(CountedRows(k.key))' = Cardinality(CountedRows(k.key)) + b.delta
  BY <1>15, <1>16
<1> QED
  BY <1>1, <1>3, <1>6, <1>7, <1>8, <1>9, <1>11, <1>12, <1>13, <1>17, RowsChange

----------------------------------------------------------------------------
(* Forums: what begins, and forums themselves.                             *)

LEMMA ForumBegins ==
  ASSUME ForumInv, NEW c \in Calls, NEW u \in Authors, ForumStarts(c, u)
  PROVE  ForumInv'
<1> DEFINE New(at, key, delta, n, on) ==
             [at |-> at, key |-> key, user |-> u, delta |-> delta, read |-> n, stale |-> FALSE,
              on |-> on, holds |-> {}]
<1>1. tally \in [Counters -> Nat] /\ replies \in [ReplyIds -> ReplyRow \cup {None}]
  BY DEF ForumInv, ForumTypeInv
<1>2. /\ \A f \in ForumIds : <<"members", f>> \in Counters /\ <<"topics", f>> \in Counters
      /\ \A t \in TopicIds : <<"reactions", t>> \in Counters /\ <<"comments", t>> \in Counters
  BY DEF Counters
<1>3. ASSUME NEW at \in {"addMember", "addTopic", "addReply"}, NEW key \in Counters,
             NEW on \in ReplyIds \cup {None},
             OStarts(c, New(at, key, 1, tally[key], on)),
             at = "addMember" => key[1] = "members",
             at = "addTopic" => key[1] = "topics",
             at = "addReply" => key[1] = "comments",
             UNCHANGED <<forums, forumMembers, topics, reactions, replies, tally>>
      PROVE  ForumInv'
  <2>1. PICK n \in Nat : n = tally[key]
    BY <1>1
  <2> DEFINE call == New(at, key, 1, n, on)
  <2>2. call \in ForumCall /\ call.at = at /\ call.key = key /\ call.delta = 1 /\ call.read = n
        /\ ~call.stale /\ call.on = on
    BY DEF ForumCall, Clearing, Owing
  <2>3. OStarts(c, call)
    BY <1>3, <2>1
  <2> HIDE DEF call
  <2>4. ForumCallOK(call) /\ call.at \notin Owing
    BY <1>3, <2>2, CounterKinds DEF ForumCallOK, DeltaOK, Clearing, Owing
  <2>5. ReadOK(call)
    BY <2>1, <2>2 DEF ReadOK
  <2> QED
    BY <1>3, <2>2, <2>3, <2>4, <2>5, CallBegins
<1>4. ASSUME NEW at \in {"removeMember", "upsert", "clearReactions", "collect", "feedRead"},
             NEW key \in Counters \cup {None},
             NEW on \in TopicIds \cup ReplyIds \cup {None}, NEW delta \in Int,
             OStarts(c, New(at, key, delta, 0, on)),
             at = "removeMember" => key[1] = "members" /\ delta = -1,
             at = "upsert" => key[1] = "reactions" /\ delta = 1,
             at = "collect" => key[1] = "comments" /\ on \in ReplyIds,
             at = "feedRead" => key[1] = "comments",
             at = "clearReactions" <=> key = None,
             at = "clearReactions" => on \in TopicIds,
             UNCHANGED <<forums, forumMembers, topics, reactions, replies, tally>>
      PROVE  ForumInv'
  <2> DEFINE call == New(at, key, delta, 0, on)
  <2>1. call \in ForumCall /\ call.at = at /\ call.key = key /\ call.delta = delta
        /\ ~call.stale /\ call.on = on
    BY DEF ForumCall, Clearing, Owing
  <2>2. OStarts(c, call)
    BY <1>4
  <2> HIDE DEF call
  <2>3. ForumCallOK(call) /\ call.at \notin Owing
    BY <1>4, <2>1, CounterKinds DEF ForumCallOK, DeltaOK, Clearing, Owing
  <2>4. ReadOK(call)
    BY <2>1 DEF ReadOK, HasRead
  <2> QED
    BY <1>4, <2>1, <2>2, <2>3, <2>4, CallBegins
<1>5. ASSUME NEW at, NEW key, NEW delta
      PROVE  OCall(at, key, u, delta) = New(at, key, delta, 0, None)
  BY DEF OCall
<1> HIDE DEF New
<1>6. ASSUME NEW kind \in {"members", "topics"}, NEW f \in ForumIds
      PROVE  \E key \in Counters : key = <<kind, f>> /\ key[1] = kind /\ key # None
  BY <1>2, CounterKinds
<1>7. ASSUME NEW kind \in {"reactions", "comments"}, NEW t \in TopicIds
      PROVE  \E key \in Counters : key = <<kind, t>> /\ key[1] = kind /\ key # None
  BY <1>2, CounterKinds
<1>8. ASSUME NEW f \in ForumIds, JoinForum(c, f, u) \/ CreateTopic(c, f, u) \/ LeaveForum(c, f, u)
      PROVE ForumInv'
  <2>1. CASE JoinForum(c, f, u)
    <3>1. PICK key \in Counters : key = <<"members", f>> /\ key[1] = "members" /\ key # None
      BY <1>6
    <3>2. PICK call : call = [OCall("addMember", key, u, 1) EXCEPT !.read = tally[key]] /\ OStarts(c, call)
      BY <2>1, <3>1 DEF JoinForum
    <3>3. call = New("addMember", key, 1, tally[key], None)
      BY <3>2 DEF OCall, New
    <3> QED
      BY <1>3, <2>1, <3>1, <3>2, <3>3 DEF JoinForum
  <2>2. CASE CreateTopic(c, f, u)
    <3>1. PICK key \in Counters : key = <<"topics", f>> /\ key[1] = "topics" /\ key # None
      BY <1>6
    <3>2. PICK call : call = [OCall("addTopic", key, u, 1) EXCEPT !.read = tally[key]] /\ OStarts(c, call)
      BY <2>2, <3>1 DEF CreateTopic
    <3>3. call = New("addTopic", key, 1, tally[key], None)
      BY <3>2 DEF OCall, New
    <3> QED
      BY <1>3, <2>2, <3>1, <3>2, <3>3 DEF CreateTopic
  <2>3. CASE LeaveForum(c, f, u)
    <3>1. PICK key \in Counters : key = <<"members", f>> /\ key[1] = "members" /\ key # None
      BY <1>6
    <3>2. PICK n \in Int : n = -1
      OBVIOUS
    <3>3. OStarts(c, New("removeMember", key, n, 0, None))
      BY <1>5, <2>3, <3>1, <3>2 DEF LeaveForum
    <3> QED
      BY <1>4, <2>3, <3>1, <3>2, <3>3 DEF LeaveForum
  <2> QED
    BY <1>8, <2>1, <2>2, <2>3
<1>9. ASSUME NEW t \in TopicIds, AddReaction(c, t, u) \/ DeleteTopic(c, t, u) PROVE ForumInv'
  <2>1. CASE AddReaction(c, t, u)
    <3>1. PICK key \in Counters : key = <<"reactions", t>> /\ key[1] = "reactions" /\ key # None
      BY <1>7
    <3>2. OStarts(c, New("upsert", key, 1, 0, None))
      BY <1>5, <2>1, <3>1 DEF AddReaction
    <3> QED
      BY <1>4, <2>1, <3>1, <3>2 DEF AddReaction
  <2>2. CASE DeleteTopic(c, t, u)
    <3>1. PICK call : call = [OCall("clearReactions", None, u, 0) EXCEPT !.on = t] /\ OStarts(c, call)
      BY <2>2 DEF DeleteTopic
    <3>2. call = New("clearReactions", None, 0, 0, t)
      BY <3>1 DEF OCall, New
    <3> QED
      BY <1>4, <2>2, <3>1, <3>2 DEF DeleteTopic
  <2> QED
    BY <1>9, <2>1, <2>2
<1>10. ASSUME NEW t \in TopicIds, NEW parent \in RowIds(replies) \cup {None},
              CreateComment(c, t, u, parent)
       PROVE  ForumInv'
  <2>1. parent \in ReplyIds \cup {None}
    BY <1>1 DEF RowIds
  <2>2. PICK key \in Counters : key = <<"comments", t>> /\ key[1] = "comments" /\ key # None
    BY <1>7
  <2>3. PICK call : /\ call = [OCall("addReply", key, u, 1) EXCEPT !.read = tally[key], !.on = parent]
                    /\ OStarts(c, call)
    BY <1>10, <2>2 DEF CreateComment
  <2>4. call = New("addReply", key, 1, tally[key], parent)
    BY <2>3 DEF OCall, New
  <2> QED
    BY <1>3, <1>10, <2>1, <2>2, <2>3, <2>4 DEF CreateComment
<1>11. ASSUME NEW r \in ReplyIds, DeleteReply(c, r, u) PROVE ForumInv'
  <2>1. PICK t \in TopicIds : t = replies[r].topic
    BY <1>1, <1>11 DEF DeleteReply, ReplyRow
  <2>2. PICK key \in Counters : key = <<"comments", t>> /\ key[1] = "comments" /\ key # None
    BY <1>7
  <2>3. PICK call : call = [OCall("collect", key, u, 0) EXCEPT !.on = r] /\ OStarts(c, call)
    BY <1>11, <2>1, <2>2 DEF DeleteReply
  <2>4. call = New("collect", key, 0, 0, r)
    BY <2>3 DEF OCall, New
  <2> QED
    BY <1>4, <1>11, <2>2, <2>3, <2>4 DEF DeleteReply
<1>12. ASSUME NEW t \in TopicIds, DeleteFeedComment(c, t, u) PROVE ForumInv'
  <2>1. PICK key \in Counters : key = <<"comments", t>> /\ key[1] = "comments" /\ key # None
    BY <1>7
  <2>2. IsFiniteSet(ReplyIds) /\ Cardinality(ReplyIds) \in Nat
    BY ForumsAssumption, FS_CardinalityType
  <2>3. PICK gone \in 1 .. Cardinality(ReplyIds) : OStarts(c, OCall("feedRead", key, u, -gone))
    BY <1>12, <2>1 DEF DeleteFeedComment
  <2>4. PICK n \in Int : n = -gone
    BY <2>2
  <2>5. OStarts(c, New("feedRead", key, n, 0, None))
    BY <1>5, <2>3, <2>4
  <2> QED
    BY <1>4, <1>12, <2>1, <2>5 DEF DeleteFeedComment
<1> QED
  BY <1>8, <1>9, <1>10, <1>11, <1>12 DEF ForumStarts

LEMMA DeleteForumOK ==
  ASSUME ForumInv, NEW f \in ForumIds, DeleteForum(f)
  PROVE  ForumInv'
<1> DEFINE gone == {t \in RowIds(topics) : topics[t].forum = f}
<1>1. /\ forums' = [forums EXCEPT ![f] = None]
      /\ forumMembers' = {m \in forumMembers : m[1] # f}
      /\ topics' = [t \in TopicIds |-> IF t \in gone THEN None ELSE topics[t]]
      /\ reactions' = {r \in reactions : r[1] \notin gone}
      /\ replies' = [r \in ReplyIds |->
           IF replies[r] # None /\ replies[r].topic \in gone THEN None ELSE replies[r]]
      /\ tally' = [k \in Counters |-> IF k[2] \in gone \cup {f} THEN 0 ELSE tally[k]]
      /\ UNCHANGED <<ocalls, forumsExact>>
  BY DEF DeleteForum
<1>2. gone \subseteq TopicIds /\ \A t \in TopicIds : t \in gone <=> topics[t] # None /\ topics[t].forum = f
  BY DEF RowIds, ForumInv, ForumTypeInv
<1> HIDE DEF gone
<1>3. f \notin TopicIds /\ gone \cap ForumIds = {}
  BY <1>2, ForumsAssumption
<1>4. ForumTypeInv'
  <2>1. forums' \in [ForumIds -> ForumRow \cup {None}] /\ topics' \in [TopicIds -> TopicRow \cup {None}]
        /\ replies' \in [ReplyIds -> ReplyRow \cup {None}] /\ tally' \in [Counters -> Nat]
    BY <1>1 DEF ForumInv, ForumTypeInv
  <2>2. forumMembers' \subseteq forumMembers /\ reactions' \subseteq reactions
    BY <1>1
  <2> QED
    BY <1>1, <2>1, <2>2 DEF ForumInv, ForumTypeInv
<1>5. /\ forums'[f] = None /\ \A g \in ForumIds \ {f} : forums'[g] = forums[g]
      /\ \A t \in TopicIds : topics'[t] = IF t \in gone THEN None ELSE topics[t]
      /\ \A r \in ReplyIds : replies'[r] = IF replies[r] # None /\ replies[r].topic \in gone
                                            THEN None ELSE replies[r]
      /\ \A k \in Counters : tally'[k] = IF k[2] \in gone \cup {f} THEN 0 ELSE tally[k]
  BY <1>1 DEF ForumInv, ForumTypeInv
<1>6. ASSUME NEW k \in Counters
      PROVE  HasRow(k)' <=> HasRow(k) /\ k[2] \notin gone \cup {f}
  <2>1. CASE k[1] \in {"members", "topics"}
    <3>1. k[2] \in ForumIds
      BY <2>1, CounterKinds
    <3> QED
      BY <1>3, <1>5, <2>1, <3>1 DEF HasRow
  <2>2. CASE k[1] \in {"reactions", "comments"}
    <3>1. k[2] \in TopicIds
      BY <2>2, CounterKinds
    <3> QED
      BY <1>3, <1>5, <2>2, <3>1 DEF HasRow
  <2> QED
    BY <2>1, <2>2, CounterKinds
<1>7. ForumRowsOK'
  <2>1. \A m \in forumMembers' : forums'[m[1]] # None
    BY <1>1, <1>5 DEF ForumInv, ForumRowsOK, ForumTypeInv
  <2>2. \A t \in TopicIds : topics'[t] # None => forums'[topics'[t].forum] # None
    <3> SUFFICES ASSUME NEW t \in TopicIds, topics'[t] # None PROVE forums'[topics'[t].forum] # None
      OBVIOUS
    <3>1. t \notin gone /\ topics'[t] = topics[t] /\ topics[t] # None
      BY <1>5
    <3>2. topics[t].forum \in ForumIds \ {f}
      BY <1>2, <3>1 DEF ForumInv, ForumTypeInv, TopicRow
    <3> QED
      BY <1>5, <3>1, <3>2 DEF ForumInv, ForumRowsOK
  <2>3. \A r \in reactions' : topics'[r[1]] # None
    <3> SUFFICES ASSUME NEW r \in reactions' PROVE topics'[r[1]] # None
      OBVIOUS
    <3>1. r \in reactions /\ r[1] \notin gone /\ r[1] \in TopicIds
      BY <1>1 DEF ForumInv, ForumTypeInv
    <3> QED
      BY <1>5, <3>1 DEF ForumInv, ForumRowsOK
  <2>4. \A r \in ReplyIds : replies'[r] # None => topics'[replies'[r].topic] # None
    <3> SUFFICES ASSUME NEW r \in ReplyIds, replies'[r] # None PROVE topics'[replies'[r].topic] # None
      OBVIOUS
    <3>1. replies'[r] = replies[r] /\ replies[r] # None /\ replies[r].topic \notin gone
      BY <1>5
    <3>2. replies[r].topic \in TopicIds
      BY <3>1 DEF ForumInv, ForumTypeInv, ReplyRow
    <3> QED
      BY <1>5, <3>1, <3>2 DEF ForumInv, ForumRowsOK
  <2>5. \A k \in Counters : ~HasRow(k)' => tally'[k] = 0
    BY <1>5, <1>6 DEF ForumInv, ForumRowsOK
  <2> QED
    BY <2>1, <2>2, <2>3, <2>4, <2>5 DEF ForumRowsOK
<1>8. MetOK'
  BY <1>1 DEF ForumInv, MetOK
<1>9. ASSUME forumsExact'
      PROVE  /\ \A c \in Calls : ReadOK(ocalls[c])'
             /\ \A k \in Counters : Standing(k)' => Balanced(k)'
  <2>1. \A k \in Counters : HasRow(k)' => HasRow(k) /\ tally'[k] = tally[k]
    BY <1>5, <1>6
  <2>2. ASSUME NEW c \in Calls PROVE ReadOK(ocalls[c])'
    BY <1>1, <1>9, <2>1 DEF ReadOK, ForumInv
  <2>3. ASSUME NEW k \in Counters, Standing(k)' PROVE Balanced(k)'
    <3>1. HasRow(k) /\ tally'[k] = tally[k] /\ k[2] \notin gone \cup {f}
      BY <1>6, <2>1, <2>3 DEF Standing
    <3>2. Standing(k)
      <4>1. k[1] \in {"reactions", "comments"} => k[2] \in TopicIds
        BY CounterKinds
      <4> QED
        BY <1>1, <1>5, <2>3, <3>1, <4>1 DEF Standing, BeingCleared
    <3>3. CountedRows(k)' = CountedRows(k)
      <4>1. CASE k[1] = "members"
        BY <1>1, <3>1, <4>1 DEF CountedRows
      <4>2. CASE k[1] = "topics"
        <5>1. CountedRows(k) = {t \in TopicIds : topics[t] # None /\ topics[t].forum = k[2]}
          BY <4>2 DEF CountedRows, RowIds, ForumInv, ForumTypeInv
        <5>2. CountedRows(k)' = {t \in TopicIds : topics'[t] # None /\ topics'[t].forum = k[2]}
          BY <1>4, <4>2 DEF CountedRows, RowIds, ForumTypeInv
        <5>3. \A t \in TopicIds : topics'[t] # None /\ topics'[t].forum = k[2]
                                    <=> topics[t] # None /\ topics[t].forum = k[2]
          BY <1>2, <1>5, <3>1
        <5> QED
          BY <5>1, <5>2, <5>3
      <4>3. CASE k[1] = "reactions"
        BY <1>1, <3>1, <4>3 DEF CountedRows
      <4>4. CASE k[1] = "comments"
        <5>1. CountedRows(k) = {r \in ReplyIds : replies[r] # None /\ replies[r].topic = k[2]
                                                  /\ ~replies[r].is_deleted}
          BY <4>4 DEF CountedRows, LiveReplies, RowIds, ForumInv, ForumTypeInv
        <5>2. CountedRows(k)' = {r \in ReplyIds : replies'[r] # None /\ replies'[r].topic = k[2]
                                                  /\ ~replies'[r].is_deleted}
          BY <1>4, <4>4 DEF CountedRows, LiveReplies, RowIds, ForumTypeInv
        <5>3. \A r \in ReplyIds :
                replies'[r] # None /\ replies'[r].topic = k[2] /\ ~replies'[r].is_deleted
                  <=> replies[r] # None /\ replies[r].topic = k[2] /\ ~replies[r].is_deleted
          BY <1>5, <3>1
        <5> QED
          BY <5>1, <5>2, <5>3
      <4> QED
        BY <4>1, <4>2, <4>3, <4>4, CounterKinds
    <3>4. Balanced(k)
      BY <1>1, <1>9, <3>2 DEF ForumInv
    <3> QED
      BY <1>1, <3>1, <3>3, <3>4 DEF Balanced
  <2> QED
    BY <2>2, <2>3
<1> QED
  BY <1>1, <1>4, <1>7, <1>8, <1>9 DEF ForumInv

LEMMA CreateForumOK ==
  ASSUME ForumInv, NEW f \in ForumIds, NEW global \in BOOLEAN, CreateForum(f, global)
  PROVE  ForumInv'
<1> DEFINE row == [is_global |-> global]
<1>1. /\ forums' = [forums EXCEPT ![f] = row]
      /\ UNCHANGED <<forumMembers, topics, reactions, replies, tally, ocalls, forumsExact>>
      /\ Unused(forums, f) /\ forums[f] = None
  BY DEF CreateForum, Unused
<1>2. row \in ForumRow /\ row # None
  BY ForumsAssumption DEF ForumRow
<1> HIDE DEF row
<1>3. ForumTypeInv'
  BY <1>1, <1>2 DEF ForumInv, ForumTypeInv
<1>4. \A g \in ForumIds : forums'[g] = IF g = f THEN row ELSE forums[g]
  BY <1>1 DEF ForumInv, ForumTypeInv
<1>5. \A k \in Counters :
        HasRow(k)' <=> HasRow(k) \/ (k[1] \in {"members", "topics"} /\ k[2] = f)
  <2> SUFFICES ASSUME NEW k \in Counters
               PROVE  HasRow(k)' <=> HasRow(k) \/ (k[1] \in {"members", "topics"} /\ k[2] = f)
    OBVIOUS
  <2>1. CASE k[1] \in {"members", "topics"}
    <3>1. k[2] \in ForumIds
      BY <2>1, CounterKinds
    <3> QED
      BY <1>2, <1>4, <2>1, <3>1 DEF HasRow
  <2>2. CASE k[1] \in {"reactions", "comments"}
    BY <1>1, <2>2 DEF HasRow
  <2> QED
    BY <2>1, <2>2, CounterKinds
<1>6. ForumRowsOK'
  <2>1. \A g \in ForumIds : forums[g] # None => forums'[g] # None
    BY <1>2, <1>4
  <2>2. /\ \A m \in forumMembers : m[1] \in ForumIds
        /\ \A t \in TopicIds : topics[t] # None => topics[t].forum \in ForumIds
    BY DEF ForumInv, ForumTypeInv, TopicRow
  <2> QED
    BY <1>1, <1>5, <2>1, <2>2 DEF ForumInv, ForumRowsOK
<1>7. MetOK'
  BY <1>1 DEF ForumInv, MetOK
<1>8. \A d \in Calls : ocalls[d] # None => \A i \in Counters : i[2] = f => ocalls[d].key # i
  BY <1>1, FreshId DEF ForumInv
<1>9. ASSUME forumsExact'
      PROVE  /\ \A c \in Calls : ReadOK(ocalls[c])'
             /\ \A k \in Counters : Standing(k)' => Balanced(k)'
  <2>1. ASSUME NEW c \in Calls PROVE ReadOK(ocalls[c])'
    BY <1>1, <1>5, <1>8, <1>9 DEF ReadOK, ForumInv
  <2>2. ASSUME NEW k \in Counters, Standing(k)' PROVE Balanced(k)'
    <3>1. CountedRows(k)' = CountedRows(k)
      BY <1>1 DEF CountedRows, RowIds, LiveReplies
    <3>2. CASE HasRow(k)
      <4>1. Standing(k)
        BY <1>1, <2>2, <3>2 DEF Standing, BeingCleared
      <4>2. Balanced(k)
        BY <1>1, <1>9, <4>1 DEF ForumInv
      <4> QED
        BY <1>1, <3>1, <4>2 DEF Balanced
    <3>3. CASE ~HasRow(k)
      <4>1. k[1] \in {"members", "topics"} /\ k[2] = f
        BY <1>5, <2>2, <3>3 DEF Standing
      <4>2. Owed(ocalls, k) = 0
        <5>1. ocalls \in [Calls -> ForumCall \cup {None}]
          BY DEF ForumInv, ForumTypeInv
        <5> QED
          BY <1>8, <4>1, <5>1, NothingOwed
      <4>3. tally[k] = 0
        BY <3>3 DEF ForumInv, ForumRowsOK
      <4>4. CountedRows(k) = {}
        <5>1. \A m \in forumMembers : m[1] # f
          BY <1>1 DEF ForumInv, ForumRowsOK
        <5>2. \A t \in RowIds(topics) : topics[t].forum # f
          BY <1>1 DEF ForumInv, ForumRowsOK, ForumTypeInv, RowIds
        <5> QED
          BY <4>1, <5>1, <5>2 DEF CountedRows
      <4>5. Cardinality(CountedRows(k)) = 0
        BY <4>4, FS_EmptySet
      <4> QED
        BY <1>1, <3>1, <4>2, <4>3, <4>5 DEF Balanced
    <3> QED
      BY <3>2, <3>3
  <2> QED
    BY <2>1, <2>2
<1> QED
  BY <1>1, <1>3, <1>6, <1>7, <1>9 DEF ForumInv

LEMMA ForumsInitOK == ForumsInit => ForumInv
<1> SUFFICES ASSUME ForumsInit PROVE ForumInv
  OBVIOUS
<1>1. ForumTypeInv
  BY DEF ForumsInit, ForumTypeInv
<1>2. ForumRowsOK
  BY DEF ForumsInit, ForumRowsOK
<1>3. MetOK /\ \A c \in Calls : ReadOK(ocalls[c])
  BY DEF ForumsInit, MetOK, ReadOK
<1>4. \A k \in Counters : ~HasRow(k)
  <2> SUFFICES ASSUME NEW k \in Counters PROVE ~HasRow(k)
    OBVIOUS
  <2>1. CASE k[1] \in {"members", "topics"}
    BY <2>1, CounterKinds DEF HasRow, ForumsInit
  <2>2. CASE k[1] \in {"reactions", "comments"}
    BY <2>2, CounterKinds DEF HasRow, ForumsInit
  <2> QED
    BY <2>1, <2>2, CounterKinds
<1> QED
  BY <1>1, <1>2, <1>3, <1>4 DEF ForumInv, Standing, ForumsInit

LEMMA ForumsNextOK == ForumInv /\ [ForumsNext]_forumVars => ForumInv'
<1> SUFFICES ASSUME ForumInv, [ForumsNext]_forumVars PROVE ForumInv'
  OBVIOUS
<1>1. CASE UNCHANGED forumVars
  <2>1. ForumTypeInv'
    BY <1>1 DEF forumVars, ForumInv, ForumTypeInv
  <2>2. \A k \in Counters : HasRow(k)' <=> HasRow(k)
    BY <1>1 DEF forumVars, HasRow
  <2>3. ForumRowsOK'
    BY <1>1, <2>2 DEF forumVars, ForumInv, ForumRowsOK
  <2>4. MetOK'
    BY <1>1 DEF forumVars, ForumInv, MetOK
  <2>5. ASSUME forumsExact', NEW c \in Calls PROVE ReadOK(ocalls[c])'
    BY <1>1, <2>2, <2>5 DEF forumVars, ForumInv, ReadOK
  <2>6. ASSUME forumsExact', NEW k \in Counters, Standing(k)' PROVE Balanced(k)'
    <3>1. Standing(k)
      BY <1>1, <2>2, <2>6 DEF forumVars, Standing, BeingCleared
    <3>2. Balanced(k)
      BY <1>1, <2>6, <3>1 DEF forumVars, ForumInv
    <3>3. CountedRows(k)' = CountedRows(k)
      BY <1>1 DEF forumVars, CountedRows, LiveReplies, RowIds
    <3> QED
      BY <1>1, <3>2, <3>3 DEF forumVars, Balanced
  <2>7. \A c \in Calls : ocalls'[c] # None => ForumCallOK(ocalls'[c])
    BY <1>1 DEF forumVars, ForumInv
  <2> QED
    BY <2>1, <2>3, <2>4, <2>5, <2>6, <2>7 DEF ForumInv
<1>2. ASSUME NEW c \in Calls, ForumStep(c) PROVE ForumInv'
  BY <1>2, ForumCounts, FailsOrReads, MissCounterOK, MissStatementOK, FeedCommentGoes, MemberSteps, AddTopicOK, ReactionSteps, ClearingSteps,
     AddReplyOK, CollectOK, SoftDeleteOK DEF ForumStep
<1> QED
  BY <1>1, <1>2, ForumAborts, ForumBegins, DeleteForumOK, CreateForumOK DEF ForumsNext

(* As long as nothing was lost, miscounted or written over in a way the    *)
(* code leaves uncorrected, every counter of a forum or topic that no      *)
(* handler is about is exact, for any number of handlers at a time, with   *)
(* or without the database's functions and with failures that leave no     *)
(* trace in a counter.                                                     *)
THEOREM ForumCountersExact == ForumsSpec => []ForumCountsAddUp
<1>1. ForumInv => ForumCountsAddUp
  <2> SUFFICES ASSUME ForumInv, forumsExact, NEW k \in Counters, Spoken(k),
                      \A c \in RowIds(ocalls) : ocalls[c].key # k
               PROVE  tally[k] = Cardinality(CountedRows(k))
    BY DEF ForumCountsAddUp
  <2>1. ocalls \in [Calls -> ForumCall \cup {None}] /\ tally[k] \in Nat
    BY DEF ForumInv, ForumTypeInv
  <2>2. Owed(ocalls, k) = 0
    <3>1. \A c \in Calls : ocalls[c] # None => ocalls[c].key # k
      BY <2>1 DEF RowIds
    <3> QED
      BY <2>1, <3>1, NothingOwed
  <2>3. Standing(k)
    BY <2>1 DEF Spoken, Standing, BeingCleared, RowIds
  <2>4. tally[k] + 0 = Cardinality(CountedRows(k))
    BY <2>2, <2>3 DEF ForumInv, Balanced
  <2> QED
    BY <2>1, <2>4
<1> QED
  BY <1>1, ForumsInitOK, ForumsNextOK, PTL DEF ForumsSpec


----------------------------------------------------------------------------
(* Posts.  While handlers keep apart, a counter of a post and what the     *)
(* handlers on their way owe it make the number of its rows: each of them  *)
(* speaks for a row of its own, or is the only one that writes the counter *)
(* from a value read.                                                      *)

PostTypeInv ==
  /\ posts \in [PostIds -> PostRow \cup {None}]
  /\ engaged \subseteq Kinds \X Readers \X PostIds
  /\ comments \in [CommentIds -> CommentRow \cup {None}]
  /\ fcalls \in [Calls -> PostCall \cup {None}]
  /\ postsApart \in BOOLEAN

PostOwing == {"count", "countWrite", "uncount"}
Unposting == Kinds \cup {"deleteComments", "archive"}

(* What a removal has taken, or is about to take, from a counter.          *)
PostTaken(call) == IF call.kind = "comment" THEN call.holds ELSE {call.user}

PostDeltaOK(call) ==
  call.at \in PostOwing => call.delta = 1 \/ call.delta = -Cardinality(PostTaken(call))

PostCallOK(call) ==
  /\ PostDeltaOK(call)
  /\ call.at \in PostOwing => call.kind \in CountedKinds
  /\ call.at = "addRow" => call.kind \in Kinds /\ call.delta = 1
  /\ call.at = "removeRow" => call.kind \in Kinds /\ call.delta = -1
  /\ call.at = "insertComment" => call.kind = "comment" /\ call.delta = 1
  /\ call.at = "count" /\ call.kind = "comment" => call.delta = 1
  /\ call.at \in {"collect", "softDelete", "uncount"} => call.kind = "comment" /\ call.slow
  /\ call.at \in {"softDelete", "uncount"} => call.delta = -Cardinality(call.holds)
  /\ call.at = "countWrite" => call.slow
  /\ call.kind = "all" <=> call.at \in Unposting

RowOf(call) == <<call.kind, call.user, call.post>>

(* What a handler has read, or done, still holds of the tables.            *)
PostCallHolds(call) ==
  /\ call.at = "addRow" => RowOf(call) \notin engaged
  /\ call.at = "removeRow" /\ call.kind = "like" => RowOf(call) \in engaged
  /\ call.at \in PostOwing /\ call.kind # "comment" /\ call.delta = 1 => RowOf(call) \in engaged
  /\ call.at = "countWrite" => call.count = posts[call.post].counts[call.kind]
  /\ call.at \in {"collect", "softDelete"} => call.holds \subseteq LiveComments(call.post)
  /\ call.at \in Kinds \cup {"archive"} => LiveComments(call.post) = {}
  /\ call.at \in {"like", "bookmark", "share", "archive"} => EngagedIn("reaction", call.post) = {}
  /\ call.at \in {"bookmark", "share", "archive"} => EngagedIn("like", call.post) = {}
  /\ call.at \in {"share", "archive"} => EngagedIn("bookmark", call.post) = {}
  /\ call.at = "archive" => EngagedIn("share", call.post) = {}

PostPays(call, i) ==
  call # None /\ call.kind = i[1] /\ call.post = i[2] /\ call.at \in PostOwing
PostNet(call, i)  == IF PostPays(call, i) THEN call.delta ELSE 0

PostAdders(calls, i) == {c \in Calls : PostPays(calls[c], i) /\ calls[c].delta = 1}
PostTakers(calls, i) ==
  {p \in Calls \X (CommentIds \cup Readers) :
     PostPays(calls[p[1]], i) /\ calls[p[1]].delta # 1 /\ p[2] \in PostTaken(calls[p[1]])}

PostOwed(calls, i) == Cardinality(PostAdders(calls, i)) - Cardinality(PostTakers(calls, i))

PostCounters == CountedKinds \X PostIds

RowsAbout(i) == IF i[1] = "comment" THEN LiveComments(i[2]) ELSE EngagedIn(i[1], i[2])

(* Nobody is deleting the post, or has.                                    *)
Open(p) ==
  /\ posts[p] # None
  /\ ~posts[p].is_archived
  /\ \A c \in Calls : fcalls[c] # None /\ fcalls[c].kind = "all" => fcalls[c].post # p

InBalance(i) ==
  /\ posts[i[2]].counts[i[1]] + PostOwed(fcalls, i) <= Cardinality(RowsAbout(i))
  /\ i[1] # "share" =>
       posts[i[2]].counts[i[1]] + PostOwed(fcalls, i) >= Cardinality(RowsAbout(i))

KeptApart ==
  /\ \A c \in Calls : \A d \in Calls \ {c} :
       fcalls[c] # None /\ fcalls[d] # None => ~Clashes(fcalls[c], fcalls[d])
  /\ \A c \in Calls : fcalls[c] # None => PostCallHolds(fcalls[c])
  /\ \A i \in PostCounters : Open(i[2]) => InBalance(i)

PostsInv ==
  /\ PostTypeInv
  /\ \A c \in Calls : fcalls[c] # None =>
       /\ PostCallOK(fcalls[c])
       /\ posts[fcalls[c].post] # None
       /\ \A m \in fcalls[c].holds : comments[m] # None
  /\ \A m \in CommentIds : comments[m] # None => posts[comments[m].post] # None
  /\ \A r \in engaged : posts[r[3]] # None
  /\ postsApart => KeptApart

LEMMA PostOwedFinite ==
  ASSUME NEW calls \in [Calls -> PostCall \cup {None}], NEW i
  PROVE  /\ IsFiniteSet(PostAdders(calls, i))
         /\ IsFiniteSet(PostTakers(calls, i))
         /\ PostOwed(calls, i) \in Int
<1>1. IsFiniteSet(Calls) /\ IsFiniteSet(CommentIds \cup Readers)
  BY EngagementAssumption, FS_Union
<1>2. IsFiniteSet(Calls \X (CommentIds \cup Readers))
  BY <1>1, FS_Product
<1>3. IsFiniteSet(PostAdders(calls, i)) /\ IsFiniteSet(PostTakers(calls, i))
  BY <1>1, <1>2, FS_Subset DEF PostAdders, PostTakers
<1> QED
  BY <1>3, FS_CardinalityType DEF PostOwed

(* What is owed is what one handler owes and what the others do.           *)
LEMMA PostOwedParts ==
  ASSUME NEW calls \in [Calls -> PostCall \cup {None}], NEW c \in Calls, NEW i,
         calls[c] # None => PostDeltaOK(calls[c])
  PROVE  /\ PostOwed(calls, i) = PostOwed([calls EXCEPT ![c] = None], i) + PostNet(calls[c], i)
         /\ PostNet(calls[c], i) \in Int
<1> DEFINE rest == [calls EXCEPT ![c] = None]
           X == CommentIds \cup Readers
<1>1. rest \in [Calls -> PostCall \cup {None}]
  OBVIOUS
<1>2. /\ IsFiniteSet(PostAdders(calls, i)) /\ IsFiniteSet(PostTakers(calls, i))
      /\ IsFiniteSet(PostAdders(rest, i)) /\ IsFiniteSet(PostTakers(rest, i))
      /\ Cardinality(PostAdders(rest, i)) \in Nat /\ Cardinality(PostTakers(rest, i)) \in Nat
  BY <1>1, PostOwedFinite, FS_CardinalityType
<1>3. CASE ~PostPays(calls[c], i)
  <2>1. PostAdders(rest, i) = PostAdders(calls, i)
    BY <1>3 DEF PostAdders, PostPays
  <2>2. PostTakers(rest, i) = PostTakers(calls, i)
    BY <1>3 DEF PostTakers, PostPays
  <2> QED
    BY <1>2, <1>3, <2>1, <2>2 DEF PostOwed, PostNet
<1>4. CASE PostPays(calls[c], i) /\ calls[c].delta = 1
  <2>1. PostAdders(calls, i) = PostAdders(rest, i) \cup {c} /\ c \notin PostAdders(rest, i)
    BY <1>4 DEF PostAdders, PostPays
  <2>2. PostTakers(rest, i) = PostTakers(calls, i)
    BY <1>4 DEF PostTakers, PostPays
  <2>3. Cardinality(PostAdders(calls, i)) = Cardinality(PostAdders(rest, i)) + 1
    BY <1>2, <2>1, FS_AddElement
  <2> QED
    BY <1>2, <1>4, <2>2, <2>3 DEF PostOwed, PostNet
<1>5. CASE PostPays(calls[c], i) /\ calls[c].delta # 1
  <2> DEFINE gone == {c} \X PostTaken(calls[c])
  <2>0. calls[c] \in PostCall
    BY <1>5 DEF PostPays
  <2>1. PostAdders(rest, i) = PostAdders(calls, i)
    BY <1>5 DEF PostAdders, PostPays
  <2>2. PostTaken(calls[c]) \subseteq X
    BY <2>0 DEF PostTaken, PostCall
  <2>3. PostTakers(calls, i) = PostTakers(rest, i) \cup gone /\ PostTakers(rest, i) \cap gone = {}
    BY <1>5, <2>2 DEF PostTakers, PostPays
  <2>4. IsFiniteSet(PostTaken(calls[c]))
    BY <2>2, EngagementAssumption, FS_Union, FS_Subset
  <2>5. IsFiniteSet(gone) /\ Cardinality(gone) = Cardinality(PostTaken(calls[c]))
    <3>1. IsFiniteSet({c}) /\ Cardinality({c}) = 1
      BY FS_Singleton
    <3>2. IsFiniteSet(gone) /\ Cardinality(gone) = 1 * Cardinality(PostTaken(calls[c]))
      BY <2>4, <3>1, FS_Product
    <3> QED
      BY <2>4, <3>2, FS_CardinalityType
  <2>6. Cardinality(PostTakers(calls, i)) = Cardinality(PostTakers(rest, i)) + Cardinality(gone)
    <3> HIDE DEF gone, rest
    <3>1. Cardinality(PostTakers(rest, i) \cup gone) =
            Cardinality(PostTakers(rest, i)) + Cardinality(gone)
              - Cardinality(PostTakers(rest, i) \cap gone)
      BY <1>2, <2>5, FS_Union
    <3>2. Cardinality(gone) \in Nat
      BY <2>5, FS_CardinalityType
    <3>3. Cardinality(PostTakers(rest, i) \cap gone) = 0
      BY <2>3, FS_EmptySet
    <3>4. Cardinality(PostTakers(rest, i) \cup gone)
            = Cardinality(PostTakers(rest, i)) + Cardinality(gone)
      BY <1>2, <3>1, <3>2, <3>3
    <3> QED
      BY <2>3, <3>4
  <2>7. calls[c].delta = -Cardinality(PostTaken(calls[c]))
    BY <1>5, <2>0 DEF PostDeltaOK, PostPays
  <2>8. Cardinality(PostTaken(calls[c])) \in Nat
    BY <2>4, FS_CardinalityType
  <2> HIDE DEF gone, rest
  <2> QED
    BY <1>2, <1>5, <2>1, <2>5, <2>6, <2>7, <2>8 DEF PostOwed, PostNet, rest
<1> QED
  BY <1>3, <1>4, <1>5

(* Nobody but handlers of a counter owes it anything.                      *)
LEMMA NoPostOwed ==
  ASSUME NEW calls \in [Calls -> PostCall \cup {None}], NEW i,
         \A c \in Calls : ~PostPays(calls[c], i)
  PROVE  PostOwed(calls, i) = 0
<1>1. PostAdders(calls, i) = {} /\ PostTakers(calls, i) = {}
  BY DEF PostAdders, PostTakers
<1> QED
  BY <1>1, FS_EmptySet DEF PostOwed

(* What one handler does changes what is owed by what it owes.             *)
LEMMA PostOwedChanges ==
  ASSUME NEW calls \in [Calls -> PostCall \cup {None}], NEW c \in Calls, NEW i,
         NEW b \in PostCall \cup {None},
         calls[c] # None => PostDeltaOK(calls[c]), b # None => PostDeltaOK(b)
  PROVE  /\ PostOwed([calls EXCEPT ![c] = b], i)
              = PostOwed(calls, i) - PostNet(calls[c], i) + PostNet(b, i)
         /\ PostOwed(calls, i) \in Int /\ PostNet(calls[c], i) \in Int /\ PostNet(b, i) \in Int
<1> DEFINE next == [calls EXCEPT ![c] = b]
<1>1. next \in [Calls -> PostCall \cup {None}] /\ next[c] = b
  OBVIOUS
<1>2. [next EXCEPT ![c] = None] = [calls EXCEPT ![c] = None]
      /\ [calls EXCEPT ![c] = None] \in [Calls -> PostCall \cup {None}]
  OBVIOUS
<1> HIDE DEF next
<1>3. /\ PostOwed(calls, i) = PostOwed([calls EXCEPT ![c] = None], i) + PostNet(calls[c], i)
      /\ PostNet(calls[c], i) \in Int
  BY PostOwedParts
<1>4. /\ PostOwed(next, i) = PostOwed([next EXCEPT ![c] = None], i) + PostNet(next[c], i)
      /\ PostNet(next[c], i) \in Int
  BY <1>1, PostOwedParts
<1>5. PostOwed(calls, i) \in Int /\ PostOwed([calls EXCEPT ![c] = None], i) \in Int
  BY <1>2, PostOwedFinite
<1>6. PostOwed(next, i) = PostOwed(calls, i) - PostNet(calls[c], i) + PostNet(b, i)
  BY <1>1, <1>2, <1>3, <1>4, <1>5
<1> QED
  BY <1>1, <1>3, <1>4, <1>5, <1>6 DEF next

----------------------------------------------------------------------------

LEMMA EngagedFinite ==
  ASSUME PostTypeInv, NEW kind, NEW p
  PROVE  /\ IsFiniteSet(EngagedIn(kind, p))
         /\ Cardinality(EngagedIn(kind, p)) \in Nat
<1> DEFINE E == EngagedIn(kind, p)
           f == [r \in E |-> r[2]]
<1>1. \A r \in E : r = <<kind, r[2], p>> /\ r[2] \in Readers
  BY DEF PostTypeInv, EngagedIn
<1>2. f \in Injection(E, Readers)
  BY <1>1 DEF Injection, IsInjective
<1>3. IsFiniteSet(E)
  <2> HIDE DEF E, f
  <2> QED
    BY <1>2, FS_Injection, EngagementAssumption
<1> QED
  BY <1>3, FS_CardinalityType

LEMMA LiveFinite ==
  ASSUME PostTypeInv, NEW p
  PROVE  /\ LiveComments(p) \subseteq CommentIds
         /\ IsFiniteSet(LiveComments(p))
         /\ Cardinality(LiveComments(p)) \in Nat
<1>1. LiveComments(p) \subseteq CommentIds
  BY DEF PostTypeInv, LiveComments, RowIds
<1> QED
  BY <1>1, FS_Subset, FS_CardinalityType, EngagementAssumption

(* Another handler is not disturbed by what c does to its own rows.        *)
LEMMA OthersHold ==
  ASSUME PostsInv, NEW c \in Calls, NEW k \in PostCall, k = fcalls[c],
         NEW d \in Calls, d # c, NEW l \in PostCall, l = fcalls[d],
         postsApart,
         \A p \in PostIds, kind \in Kinds :
           p # k.post \/ (kind # k.kind /\ k.kind # "all") => EngagedIn(kind, p)' = EngagedIn(kind, p),
         \A p \in PostIds :
           p # k.post \/ k.kind \notin {"comment", "all"} => LiveComments(p)' = LiveComments(p),
         \A i \in PostCounters :
           i # <<k.kind, k.post>> /\ posts[i[2]] # None =>
             posts'[i[2]].counts[i[1]] = posts[i[2]].counts[i[1]],
         \A u \in Readers :
           u # k.user => (<<k.kind, u, k.post>> \in engaged' <=> <<k.kind, u, k.post>> \in engaged)
  PROVE  PostCallHolds(l)'
<1>1. k # None /\ l # None
  BY EngagementAssumption
<1>2. PostCallHolds(l) /\ ~Clashes(k, l) /\ PostCallOK(l) /\ posts[l.post] # None
  BY <1>1 DEF PostsInv, KeptApart
<1>3. l.user \in Readers /\ l.post \in PostIds
  BY DEF PostCall
<1>4. l.kind \in Kinds => (RowOf(l) \in engaged' <=> RowOf(l) \in engaged)
  <2>1. CASE l.post = k.post /\ l.kind = k.kind
    <3>1. l.kind \in Kinds => l.user # k.user
      BY <1>2, <2>1 DEF Clashes, Kinds
    <3> QED
      BY <1>3, <2>1, <3>1 DEF RowOf
  <2>2. CASE ~(l.post = k.post /\ l.kind = k.kind)
    <3>1. l.kind \in Kinds => EngagedIn(l.kind, l.post)' = EngagedIn(l.kind, l.post)
      BY <1>2, <1>3, <2>2 DEF Clashes, Kinds
    <3> QED
      BY <3>1 DEF RowOf, EngagedIn
  <2> QED
    BY <2>1, <2>2
<1>5. l.at = "countWrite" => posts'[l.post].counts[l.kind] = posts[l.post].counts[l.kind]
  <2>1. SUFFICES ASSUME l.at = "countWrite"
                 PROVE  posts'[l.post].counts[l.kind] = posts[l.post].counts[l.kind]
    OBVIOUS
  <2>2. l.slow /\ l.kind \in CountedKinds
    BY <1>2, <2>1 DEF PostCallOK, PostOwing
  <2>3. <<l.kind, l.post>> \in PostCounters /\ <<l.kind, l.post>> # <<k.kind, k.post>>
    BY <1>2, <1>3, <2>2 DEF PostCounters, Clashes
  <2> QED
    BY <1>2, <2>3
<1>6. l.at \in {"collect", "softDelete"} => LiveComments(l.post)' = LiveComments(l.post)
  BY <1>2, <1>3 DEF PostCallOK, Clashes
<1>7. l.kind = "all" =>
        /\ LiveComments(l.post)' = LiveComments(l.post)
        /\ \A kind \in Kinds : EngagedIn(kind, l.post)' = EngagedIn(kind, l.post)
  BY <1>2, <1>3 DEF Clashes
<1>8. l.at \in Kinds \cup {"archive"} => l.kind = "all"
  BY <1>2 DEF PostCallOK, Unposting
<1>9. /\ l.at = "addRow" => l.kind \in Kinds
      /\ l.at = "removeRow" => l.kind \in Kinds
      /\ l.at \in PostOwing /\ l.kind # "comment" => l.kind \in Kinds
  BY <1>2 DEF PostCallOK, CountedKinds, Kinds
<1>a. /\ l.at = "addRow" => RowOf(l) \notin engaged'
      /\ l.at = "removeRow" /\ l.kind = "like" => RowOf(l) \in engaged'
      /\ l.at \in PostOwing /\ l.kind # "comment" /\ l.delta = 1 => RowOf(l) \in engaged'
  BY <1>2, <1>4, <1>9 DEF PostCallHolds
<1>b. l.at = "countWrite" => l.count = posts'[l.post].counts[l.kind]
  BY <1>2, <1>5 DEF PostCallHolds
<1>c. l.at \in {"collect", "softDelete"} => l.holds \subseteq LiveComments(l.post)'
  BY <1>2, <1>6 DEF PostCallHolds
<1>d. /\ l.at \in Kinds \cup {"archive"} => LiveComments(l.post)' = {}
      /\ l.at \in {"like", "bookmark", "share", "archive"} => EngagedIn("reaction", l.post)' = {}
      /\ l.at \in {"bookmark", "share", "archive"} => EngagedIn("like", l.post)' = {}
      /\ l.at \in {"share", "archive"} => EngagedIn("bookmark", l.post)' = {}
      /\ l.at = "archive" => EngagedIn("share", l.post)' = {}
  BY <1>2, <1>7, <1>8 DEF PostCallHolds, Kinds
<1> QED
  BY <1>a, <1>b, <1>c, <1>d DEF PostCallHolds, RowOf

(* A handler goes on: to keep the invariant it is enough that it leaves    *)
(* the rows of others alone and its own counter in balance.                *)
LEMMA PostGoesOn ==
  ASSUME PostsInv, NEW c \in Calls, NEW k \in PostCall, k = fcalls[c],
         NEW b \in PostCall \cup {None}, fcalls' = [fcalls EXCEPT ![c] = b],
         b # None => /\ PostCallOK(b) /\ b.kind = k.kind /\ b.user = k.user /\ b.post = k.post
                     /\ \A m \in b.holds : comments'[m] # None,
         \A m \in CommentIds : comments[m] # None => comments'[m] # None,
         \A m \in CommentIds : comments'[m] # None =>
           \/ comments[m] # None /\ comments'[m].post = comments[m].post
           \/ comments'[m].post = k.post,
         \A r \in engaged' : r \in engaged \/ r[3] = k.post,
         posts' \in [PostIds -> PostRow \cup {None}],
         engaged' \subseteq Kinds \X Readers \X PostIds,
         comments' \in [CommentIds -> CommentRow \cup {None}],
         \A p \in PostIds : posts[p] # None => posts'[p] # None,
         postsApart' \in BOOLEAN,
         postsApart' => postsApart /\ (b # None => ClashFree(b, Calls \ {c})),
         \A p \in PostIds, kind \in Kinds :
           p # k.post \/ (kind # k.kind /\ k.kind # "all") => EngagedIn(kind, p)' = EngagedIn(kind, p),
         postsApart' => \A p \in PostIds :
           p # k.post \/ k.kind \notin {"comment", "all"} => LiveComments(p)' = LiveComments(p),
         \A i \in PostCounters :
           i # <<k.kind, k.post>> /\ posts[i[2]] # None =>
             posts'[i[2]].counts[i[1]] = posts[i[2]].counts[i[1]],
         \A u \in Readers :
           u # k.user => (<<k.kind, u, k.post>> \in engaged' <=> <<k.kind, u, k.post>> \in engaged),
         \A p \in PostIds : Open(p)' => Open(p),
         postsApart' /\ b # None => PostCallHolds(b)',
         postsApart' /\ Open(k.post)' /\ k.kind \in CountedKinds => InBalance(<<k.kind, k.post>>)'
  PROVE  PostsInv'
<1>0. k # None /\ PostCallOK(k) /\ posts[k.post] # None /\ k.post \in PostIds
  BY EngagementAssumption DEF PostsInv, PostCall
<1>1. fcalls \in [Calls -> PostCall \cup {None}] /\ fcalls' \in [Calls -> PostCall \cup {None}]
      /\ fcalls'[c] = b /\ \A d \in Calls \ {c} : fcalls'[d] = fcalls[d]
  BY DEF PostsInv, PostTypeInv
<1>2. PostTypeInv'
  BY <1>1 DEF PostTypeInv
<1>3. ASSUME NEW d \in Calls, fcalls'[d] # None
      PROVE  /\ PostCallOK(fcalls'[d]) /\ posts'[fcalls'[d].post] # None
             /\ \A m \in fcalls'[d].holds : comments'[m] # None
  <2>1. fcalls'[d] \in PostCall
    BY <1>1, <1>3
  <2>2. CASE d = c
    BY <1>0, <1>1, <1>3, <2>2 DEF PostsInv
  <2>3. CASE d # c
    <3>1. fcalls'[d].post \in PostIds /\ fcalls'[d].holds \subseteq CommentIds
      BY <2>1 DEF PostCall
    <3>2. /\ PostCallOK(fcalls[d]) /\ posts[fcalls[d].post] # None /\ fcalls'[d] = fcalls[d]
          /\ \A m \in fcalls[d].holds : comments[m] # None
      BY <1>1, <1>3, <2>3 DEF PostsInv
    <3> QED
      BY <3>1, <3>2
  <2> QED
    BY <2>2, <2>3
<1>5. ASSUME NEW m \in CommentIds, comments'[m] # None PROVE posts'[comments'[m].post] # None
  <2>1. CASE comments[m] # None /\ comments'[m].post = comments[m].post
    <3>1. comments[m].post \in PostIds /\ posts[comments[m].post] # None
      BY <2>1 DEF PostsInv, PostTypeInv, CommentRow
    <3> QED
      BY <2>1, <3>1
  <2>2. CASE comments'[m].post = k.post
    BY <1>0, <2>2
  <2> QED
    BY <1>5, <2>1, <2>2
<1>6. ASSUME NEW r \in engaged' PROVE posts'[r[3]] # None
  <2>1. r[3] \in PostIds /\ (r \in engaged => posts[r[3]] # None)
    BY DEF PostsInv
  <2> QED
    BY <1>0, <2>1
<1>4. ASSUME postsApart' PROVE KeptApart'
  <2>0. postsApart /\ KeptApart
    BY <1>4 DEF PostsInv
  <2>1. ASSUME NEW d \in Calls, NEW e \in Calls \ {d}, fcalls'[d] # None, fcalls'[e] # None
        PROVE  ~Clashes(fcalls'[d], fcalls'[e])
    <3>1. CASE d # c /\ e # c
      BY <1>1, <2>0, <2>1, <3>1 DEF KeptApart
    <3>2. CASE d = c
      <4>1. ~Clashes(fcalls[e], b)
        BY <1>1, <1>4, <2>1, <3>2 DEF ClashFree
      <4> QED
        BY <1>1, <2>1, <3>2, <4>1 DEF Clashes
    <3>3. CASE e = c
      <4>1. ~Clashes(fcalls[d], b)
        BY <1>1, <1>4, <2>1, <3>3 DEF ClashFree
      <4> QED
        BY <1>1, <2>1, <3>3, <4>1
    <3> QED
      BY <3>1, <3>2, <3>3
  <2>2. ASSUME NEW d \in Calls, fcalls'[d] # None
        PROVE  PostCallHolds(fcalls[d])'
    <3>1. CASE d = c
      <4>1. PostCallHolds(b)'
        BY <1>1, <1>4, <2>2, <3>1
      <4>2. fcalls'[d] = b
        BY <1>1, <3>1
      <4> QED
        BY <4>1, <4>2 DEF PostCallHolds, RowOf
    <3>2. CASE d # c
      <4>1. PICK l \in PostCall : l = fcalls[d]
        BY <1>1, <2>2, <3>2
      <4>2. PostCallHolds(l)'
        BY <1>4, <2>0, <3>2, <4>1, OthersHold
      <4>3. fcalls'[d] = l
        BY <1>1, <3>2, <4>1
      <4> QED
        BY <4>2, <4>3 DEF PostCallHolds, RowOf
    <3> QED
      BY <3>1, <3>2
  <2>3. ASSUME NEW i \in PostCounters, Open(i[2])'
        PROVE  InBalance(i)'
    <3>1. i = <<i[1], i[2]>> /\ i[1] \in CountedKinds /\ i[2] \in PostIds
      BY DEF PostCounters
    <3>2. CASE i = <<k.kind, k.post>>
      BY <1>4, <2>3, <3>1, <3>2
    <3>3. CASE i # <<k.kind, k.post>>
      <4>1. Open(i[2]) /\ InBalance(i) /\ posts[i[2]] # None
        BY <2>0, <2>3, <3>1 DEF KeptApart, Open
      <4>2. ~(i[2] = k.post /\ k.kind = "all")
        BY <1>0, <1>1, <4>1 DEF Open
      <4>3. RowsAbout(i)' = RowsAbout(i)
        <5>1. i[1] = "comment" => LiveComments(i[2])' = LiveComments(i[2])
          BY <1>4, <3>1, <3>3, <4>2
        <5>2. i[1] # "comment" => EngagedIn(i[1], i[2])' = EngagedIn(i[1], i[2])
          BY <3>1, <3>3, <4>2 DEF CountedKinds, Kinds
        <5> QED
          BY <5>1, <5>2 DEF RowsAbout
      <4>4. posts'[i[2]].counts[i[1]] = posts[i[2]].counts[i[1]]
        BY <3>3, <4>1
      <4>5. PostOwed(fcalls', i) = PostOwed(fcalls, i)
        <5>1. ~PostPays(k, i) /\ ~PostPays(b, i)
          BY <3>1, <3>3 DEF PostPays
        <5>2. PICK f \in [Calls -> PostCall \cup {None}] : f = fcalls
          BY <1>1
        <5>3. f[c] # None => PostDeltaOK(f[c])
          BY <1>0, <5>2 DEF PostCallOK
        <5>4. b # None => PostDeltaOK(b)
          BY DEF PostCallOK
        <5>5. /\ PostOwed([f EXCEPT ![c] = b], i) = PostOwed(f, i) - PostNet(f[c], i) + PostNet(b, i)
              /\ PostOwed(f, i) \in Int
          BY <5>3, <5>4, PostOwedChanges
        <5>6. PostNet(f[c], i) = 0 /\ PostNet(b, i) = 0
          BY <5>1, <5>2 DEF PostNet
        <5> QED
          BY <5>2, <5>5, <5>6
      <4> QED
        BY <4>1, <4>3, <4>4, <4>5 DEF InBalance
    <3> QED
      BY <3>2, <3>3
  <2> QED
    BY <2>1, <2>2, <2>3 DEF KeptApart
<1> QED
  BY <1>2, <1>3, <1>4, <1>5, <1>6 DEF PostsInv

----------------------------------------------------------------------------

(* What happens to the counter of a handler is made up for by what the     *)
(* handler owes it afterwards.                                             *)
LEMMA StaysInBalance ==
  ASSUME PostsInv, NEW c \in Calls, NEW k \in PostCall, k = fcalls[c], postsApart,
         NEW b \in PostCall \cup {None}, fcalls' = [fcalls EXCEPT ![c] = b],
         b # None => PostCallOK(b), NEW i \in PostCounters, Open(i[2]),
         NEW m \in Nat, m = posts'[i[2]].counts[i[1]],
         NEW n \in Nat, n = posts[i[2]].counts[i[1]],
         NEW r \in Nat, r = Cardinality(RowsAbout(i)),
         NEW s \in Nat, s = Cardinality(RowsAbout(i))',
         s >= r + (m - n) + PostNet(b, i) - PostNet(k, i),
         i[1] # "share" => s = r + (m - n) + PostNet(b, i) - PostNet(k, i)
  PROVE  InBalance(i)'
<1>1. k # None /\ PostCallOK(k) /\ fcalls \in [Calls -> PostCall \cup {None}]
  BY EngagementAssumption DEF PostsInv, PostTypeInv
<1>2. InBalance(i)
  BY DEF PostsInv, KeptApart
<1>3. /\ PostOwed(fcalls', i) = PostOwed(fcalls, i) - PostNet(k, i) + PostNet(b, i)
      /\ PostOwed(fcalls, i) \in Int /\ PostNet(k, i) \in Int /\ PostNet(b, i) \in Int
  <2>1. PICK f \in [Calls -> PostCall \cup {None}] : f = fcalls
    BY <1>1
  <2>2. f[c] # None => PostDeltaOK(f[c])
    BY <1>1, <2>1 DEF PostCallOK
  <2>3. b # None => PostDeltaOK(b)
    BY DEF PostCallOK
  <2>4. /\ PostOwed([f EXCEPT ![c] = b], i) = PostOwed(f, i) - PostNet(f[c], i) + PostNet(b, i)
        /\ PostOwed(f, i) \in Int /\ PostNet(f[c], i) \in Int /\ PostNet(b, i) \in Int
    BY <2>2, <2>3, PostOwedChanges
  <2> QED
    BY <2>1, <2>4
<1>4. n + PostOwed(fcalls, i) <= r /\ (i[1] # "share" => n + PostOwed(fcalls, i) >= r)
  BY <1>2 DEF InBalance
<1>5. m + PostOwed(fcalls', i) <= s
  BY <1>3, <1>4
<1>6. i[1] # "share" => m + PostOwed(fcalls', i) >= s
  BY <1>3, <1>4
<1> QED
  BY <1>5, <1>6 DEF InBalance

(* Each handler about to add one has a row of its own.                     *)
LEMMA AddersHaveRows ==
  ASSUME PostsInv, postsApart, NEW i \in PostCounters, i[1] # "comment"
  PROVE  Cardinality(PostAdders(fcalls, i)) <= Cardinality(EngagedIn(i[1], i[2]))
<1> DEFINE A == PostAdders(fcalls, i)
           E == EngagedIn(i[1], i[2])
           f == [c \in A |-> RowOf(fcalls[c])]
<1>1. ASSUME NEW c \in A
      PROVE  /\ c \in Calls /\ fcalls[c] # None /\ fcalls[c].kind = i[1] /\ fcalls[c].post = i[2]
             /\ RowOf(fcalls[c]) \in E
  <2>1. c \in Calls /\ PostPays(fcalls[c], i) /\ fcalls[c].delta = 1
    BY DEF PostAdders
  <2>2. fcalls[c] # None /\ fcalls[c].kind = i[1] /\ fcalls[c].post = i[2]
        /\ fcalls[c].at \in PostOwing
    BY <2>1 DEF PostPays
  <2>3. RowOf(fcalls[c]) \in engaged
    BY <2>1, <2>2 DEF PostsInv, KeptApart, PostCallHolds
  <2> QED
    BY <2>1, <2>2, <2>3 DEF EngagedIn, RowOf
<1>2. \A c \in A : \A d \in A : c # d => RowOf(fcalls[c]) # RowOf(fcalls[d])
  <2> SUFFICES ASSUME NEW c \in A, NEW d \in A, c # d
               PROVE  RowOf(fcalls[c]) # RowOf(fcalls[d])
    OBVIOUS
  <2>1. ~Clashes(fcalls[c], fcalls[d])
    BY <1>1 DEF PostsInv, KeptApart
  <2> QED
    BY <1>1, <2>1 DEF Clashes, RowOf
<1>3. f \in Injection(A, E)
  BY <1>1, <1>2 DEF Injection, IsInjective
<1>4. IsFiniteSet(E)
  BY EngagedFinite DEF PostsInv
<1> HIDE DEF A, E, f
<1>5. Cardinality(A) <= Cardinality(E)
  BY <1>3, <1>4, FS_Injection
<1> QED
  BY <1>5 DEF A, E

(* A record of a handler in progress at its next stage.                    *)
LEMMA PostStage ==
  ASSUME NEW k \in PostCall,
         NEW at \in Kinds \cup {"addRow", "removeRow", "count", "countWrite", "insertComment",
                                "collect", "softDelete", "uncount", "deleteComments", "archive"},
         NEW b, b = [k EXCEPT !.at = at]
  PROVE  /\ b \in PostCall /\ b # None /\ b.at = at
         /\ b.kind = k.kind /\ b.user = k.user /\ b.post = k.post /\ b.delta = k.delta
         /\ b.slow = k.slow /\ b.count = k.count /\ b.holds = k.holds
<1>1. /\ b \in PostCall /\ b.at = at
      /\ b.kind = k.kind /\ b.user = k.user /\ b.post = k.post /\ b.delta = k.delta
      /\ b.slow = k.slow /\ b.count = k.count /\ b.holds = k.holds
  BY DEF PostCall
<1> QED
  BY <1>1, EngagementAssumption

LEMMA WriteRowOK ==
  ASSUME PostsInv, NEW c \in Calls, WriteRow(c)
  PROVE  PostsInv'
<1>1. PICK k \in PostCall : k = fcalls[c] /\ k # None
  BY EngagementAssumption DEF WriteRow, Waits, PostsInv, PostTypeInv
<1>2. PostCallOK(k) /\ posts[k.post] # None /\ PostTypeInv /\ \A m \in k.holds : comments[m] # None
  BY <1>1 DEF PostsInv
<1>3. /\ k.at \in {"addRow", "removeRow"} /\ k.kind \in Kinds
      /\ k.at = "addRow" => k.delta = 1
      /\ k.at = "removeRow" => k.delta = -1
      /\ k.user \in Readers /\ k.post \in PostIds /\ k.at \notin PostOwing
  BY <1>1, <1>2 DEF WriteRow, Waits, PostCallOK, PostCall, PostOwing
<1> DEFINE row == RowOf(k)
<1>4. /\ engaged' = IF k.at = "addRow" THEN engaged \cup {row} ELSE engaged \ {row}
      /\ UNCHANGED <<posts, comments>>
  BY <1>1 DEF WriteRow, RowOf
<1>5. PICK b \in PostCall \cup {None} :
        /\ fcalls' = [fcalls EXCEPT ![c] = b]
        /\ b # None <=> k.kind \in {"like", "share"}
        /\ b # None => /\ b.at = "count" /\ b.kind = k.kind /\ b.user = k.user /\ b.post = k.post
                       /\ b.delta = k.delta /\ b.slow = k.slow /\ b.holds = k.holds
        /\ postsApart' \in BOOLEAN
        /\ postsApart' => postsApart /\ (b # None => ClashFree(b, Calls \ {c}))
  <2>1. CASE k.kind \in {"like", "share"}
    <3>1. PICK b : b = [k EXCEPT !.at = "count"]
      OBVIOUS
    <3>2. /\ b \in PostCall /\ b # None /\ b.at = "count" /\ b.kind = k.kind /\ b.user = k.user
          /\ b.post = k.post /\ b.delta = k.delta /\ b.slow = k.slow /\ b.holds = k.holds
      BY <3>1, PostStage
    <3>3. fcalls' = [fcalls EXCEPT ![c] = b] /\ postsApart' = (postsApart /\ ClashFree(b, Calls \ {c}))
      BY <1>1, <2>1, <3>1 DEF WriteRow, FGoes, FBecomes
    <3> QED
      BY <2>1, <3>2, <3>3
  <2>2. CASE k.kind \notin {"like", "share"}
    BY <1>1, <1>2, <2>2 DEF WriteRow, FEnds, PostTypeInv
  <2> QED
    BY <2>1, <2>2
<1>6. b # None => PostCallOK(b)
  <2> SUFFICES ASSUME b # None PROVE PostCallOK(b)
    OBVIOUS
  <2>1. b.kind # "comment" /\ b.kind \in CountedKinds /\ b.kind # "all"
    BY <1>5 DEF CountedKinds
  <2>2. Cardinality(PostTaken(b)) = 1
    BY <2>1, FS_Singleton DEF PostTaken
  <2>3. b.delta = 1 \/ b.delta = -Cardinality(PostTaken(b))
    BY <1>3, <1>5, <2>2
  <2> QED
    BY <1>5, <2>1, <2>3 DEF PostCallOK, PostDeltaOK, PostOwing, Unposting, Kinds
<1>7. engaged' \subseteq Kinds \X Readers \X PostIds
  BY <1>2, <1>3, <1>4 DEF PostTypeInv, RowOf
<1>8. \A p \in PostIds, kind \in Kinds :
        p # k.post \/ kind # k.kind => EngagedIn(kind, p)' = EngagedIn(kind, p)
  BY <1>4 DEF EngagedIn, RowOf
<1>9. \A p : LiveComments(p)' = LiveComments(p)
  BY <1>4 DEF LiveComments, RowIds
<1>a. \A u \in Readers :
        u # k.user => (<<k.kind, u, k.post>> \in engaged' <=> <<k.kind, u, k.post>> \in engaged)
  BY <1>4 DEF RowOf
<1>b. \A p \in PostIds : Open(p)' => Open(p)
  BY <1>1, <1>2, <1>3, <1>4, <1>5 DEF Open, PostTypeInv, Kinds
<1>c. ASSUME postsApart', b # None PROVE PostCallHolds(b)'
  <2>1. b.at = "count" /\ b.kind # "comment" /\ RowOf(b) = row
    BY <1>5, <1>c DEF RowOf
  <2>2. b.delta = 1 => RowOf(b) \in engaged'
    BY <1>3, <1>4, <1>5, <1>c, <2>1
  <2> QED
    BY <2>1, <2>2 DEF PostCallHolds, RowOf, Kinds
<1>d. ASSUME postsApart', Open(k.post)', k.kind \in CountedKinds
      PROVE  InBalance(<<k.kind, k.post>>)'
  <2>1. PICK i \in PostCounters : i = <<k.kind, k.post>>
    BY <1>3, <1>d DEF PostCounters
  <2>2. k.kind \in {"like", "share"} /\ i[1] = k.kind /\ i[2] = k.post /\ postsApart
    BY <1>3, <1>5, <1>d, <2>1 DEF Kinds, CountedKinds
  <2>3. Open(i[2])
    BY <1>3, <1>b, <1>d, <2>2
  <2>4. posts[i[2]].counts[i[1]] \in Nat /\ posts'[i[2]].counts[i[1]] = posts[i[2]].counts[i[1]]
    BY <1>2, <1>3, <1>4, <1>d, <2>2 DEF PostTypeInv, PostRow
  <2>5. PICK n \in Nat : n = posts[i[2]].counts[i[1]]
    BY <2>4
  <2> DEFINE E == EngagedIn(k.kind, k.post)
             F == EngagedIn(k.kind, k.post)'
  <2>6. RowsAbout(i) = E /\ RowsAbout(i)' = F
    BY <2>2 DEF RowsAbout
  <2>7. IsFiniteSet(E) /\ Cardinality(E) \in Nat
    BY <1>2, EngagedFinite
  <2>8. PostNet(k, i) = 0 /\ PostNet(b, i) = k.delta
    BY <1>3, <1>5, <2>2 DEF PostNet, PostPays, PostOwing
  <2>9. CASE k.at = "addRow"
    <3>1. row \notin engaged
      BY <1>1, <2>2, <2>9 DEF PostsInv, KeptApart, PostCallHolds
    <3>2. F = E \cup {row} /\ row \notin E
      BY <1>4, <2>9, <3>1 DEF EngagedIn, RowOf
    <3> HIDE DEF E, F, row
    <3>0. Cardinality(F) = Cardinality(E) + 1
      BY <2>7, <3>2, FS_AddElement
    <3>3. Cardinality(F) = Cardinality(E) + 1 /\ Cardinality(F) \in Nat
      BY <2>7, <3>0
    <3>4. Cardinality(F) = Cardinality(E) + (n - n) + PostNet(b, i) - PostNet(k, i)
      BY <1>3, <2>5, <2>7, <2>8, <2>9, <3>3
    <3>5. PICK r \in Nat, s \in Nat : r = Cardinality(E) /\ s = Cardinality(F)
      BY <2>7, <3>3
    <3>6. s = r + (n - n) + PostNet(b, i) - PostNet(k, i) /\ s >= r + (n - n) + PostNet(b, i) - PostNet(k, i)
      BY <1>3, <2>8, <3>4, <3>5
    <3>7. r = Cardinality(RowsAbout(i)) /\ s = Cardinality(RowsAbout(i))'
      BY <2>6, <3>5
    <3>8. InBalance(i)'
      BY <1>1, <1>5, <1>6, <2>2, <2>3, <2>4, <2>5, <3>6, <3>7, StaysInBalance
    <3> QED
      BY <2>1, <3>8
  <2>a. CASE k.at = "removeRow"
    <3>1. k.kind = "like" => row \in E
      BY <1>1, <2>2, <2>a DEF PostsInv, KeptApart, PostCallHolds, EngagedIn, RowOf
    <3>2. F = E \ {row}
      BY <1>4, <2>a DEF EngagedIn, RowOf
    <3> HIDE DEF E, F, row
    <3>3. /\ IsFiniteSet(F)
          /\ Cardinality(F) = IF row \in E THEN Cardinality(E) - 1 ELSE Cardinality(E)
      BY <2>7, <3>2, FS_RemoveElement
    <3>4. Cardinality(F) \in Nat
      BY <3>3, FS_CardinalityType
    <3>5. PICK r \in Nat, s \in Nat : r = Cardinality(E) /\ s = Cardinality(F)
      BY <2>7, <3>4
    <3>6. PostNet(k, i) = 0 /\ PostNet(b, i) = -1
      BY <1>3, <2>8, <2>a
    <3>7. s >= r + (n - n) + PostNet(b, i) - PostNet(k, i)
      BY <2>5, <3>3, <3>5, <3>6
    <3>8. i[1] # "share" => s = r + (n - n) + PostNet(b, i) - PostNet(k, i)
      BY <2>2, <2>5, <3>1, <3>3, <3>5, <3>6
    <3>9. r = Cardinality(RowsAbout(i)) /\ s = Cardinality(RowsAbout(i))'
      BY <2>6, <3>5
    <3>10. InBalance(i)'
      BY <1>1, <1>5, <1>6, <2>2, <2>3, <2>4, <2>5, <3>7, <3>8, <3>9, StaysInBalance
    <3> QED
      BY <2>1, <3>10
  <2> QED
    BY <1>3, <2>9, <2>a
<1>e. posts' \in [PostIds -> PostRow \cup {None}] /\ comments' \in [CommentIds -> CommentRow \cup {None}]
  BY <1>2, <1>4 DEF PostTypeInv
<1>f. \A i \in PostCounters : posts'[i[2]].counts[i[1]] = posts[i[2]].counts[i[1]]
  BY <1>4
<1>g. \A p \in PostIds : posts[p] # None => posts'[p] # None
  BY <1>4
<1>h. /\ \A m \in CommentIds : comments[m] # None => comments'[m] # None
      /\ \A m \in CommentIds : comments'[m] = comments[m]
      /\ b # None => \A m \in b.holds : comments'[m] # None
  BY <1>2, <1>4, <1>5
<1>i. \A r \in engaged' : r \in engaged \/ r[3] = k.post
  BY <1>4 DEF RowOf
<1> QED
  BY <1>1, <1>5, <1>6, <1>7, <1>8, <1>9, <1>a, <1>b, <1>c, <1>d, <1>e, <1>f, <1>g, <1>h, <1>i, PostGoesOn

(* What it means for the posts that a counter is written.                  *)
LEMMA CountedPost ==
  ASSUME PostTypeInv, NEW p \in PostIds, posts[p] # None, NEW kind \in CountedKinds,
         NEW value \in Int, Counted(p, kind, value)
  PROVE  /\ posts' \in [PostIds -> PostRow \cup {None}]
         /\ \A q \in PostIds : posts'[q] = None <=> posts[q] = None
         /\ \A q \in PostIds : posts[q] # None => posts'[q].is_archived = posts[q].is_archived
         /\ \A i \in PostCounters :
              i # <<kind, p>> /\ posts[i[2]] # None =>
                posts'[i[2]].counts[i[1]] = posts[i[2]].counts[i[1]]
         /\ posts'[p].counts[kind] = IF value < 0 THEN 0 ELSE value
         /\ posts[p].counts[kind] \in Nat
<1>1. PICK q \in PostRow : q = posts[p]
  BY DEF PostTypeInv
<1>2. PICK v \in Nat : v = IF value < 0 THEN 0 ELSE value
  OBVIOUS
<1>3. PICK g \in [CountedKinds -> Nat] : g = [q.counts EXCEPT ![kind] = v]
  BY DEF PostRow
<1>4. PICK r : r = [q EXCEPT !.counts = g]
  OBVIOUS
<1>5. r \in PostRow /\ r.counts = g /\ r.is_archived = q.is_archived
  BY <1>4 DEF PostRow
<1>6. posts' = [posts EXCEPT ![p] = r]
  BY <1>1, <1>2, <1>3, <1>4 DEF Counted, NoLess
<1>7. r # None
  BY <1>5, EngagementAssumption
<1>8. posts' \in [PostIds -> PostRow \cup {None}] /\ posts'[p] = r
      /\ \A s \in PostIds \ {p} : posts'[s] = posts[s]
  BY <1>5, <1>6 DEF PostTypeInv
<1>9. \A q2 \in PostIds : posts'[q2] = None <=> posts[q2] = None
  BY <1>7, <1>8
<1>a. \A q2 \in PostIds : posts[q2] # None => posts'[q2].is_archived = posts[q2].is_archived
  BY <1>1, <1>5, <1>8
<1>b. g[kind] = v /\ (\A l \in CountedKinds \ {kind} : g[l] = q.counts[l]) /\ q.counts[kind] \in Nat
  BY <1>3 DEF PostRow
<1>c. ASSUME NEW i \in PostCounters, i # <<kind, p>>, posts[i[2]] # None
      PROVE  posts'[i[2]].counts[i[1]] = posts[i[2]].counts[i[1]]
  <2>1. i = <<i[1], i[2]>> /\ i[1] \in CountedKinds /\ i[2] \in PostIds
    BY DEF PostCounters
  <2>2. CASE i[2] = p
    <3>1. i[1] # kind
      BY <1>c, <2>1, <2>2
    <3> QED
      BY <1>1, <1>5, <1>8, <1>b, <2>1, <2>2, <3>1
  <2>3. CASE i[2] # p
    BY <1>8, <2>1, <2>3
  <2> QED
    BY <2>2, <2>3
<1> QED
  BY <1>1, <1>2, <1>5, <1>8, <1>9, <1>a, <1>b, <1>c

LEMMA PostCountsOK ==
  ASSUME PostsInv, NEW c \in Calls, CountInDatabase(c) \/ CountWrites(c)
  PROVE  PostsInv'
<1>1. PICK k \in PostCall : k = fcalls[c] /\ k # None
  BY EngagementAssumption DEF CountInDatabase, CountWrites, Waits, PostsInv, PostTypeInv
<1>2. PostCallOK(k) /\ posts[k.post] # None /\ PostTypeInv /\ \A m \in k.holds : comments[m] # None
  BY <1>1 DEF PostsInv
<1>3. /\ k.at \in {"count", "countWrite"} /\ k.at \in PostOwing
      /\ k.user \in Readers /\ k.post \in PostIds /\ k.delta \in Int /\ k.count \in Nat
      /\ k.kind \in CountedKinds
  BY <1>1, <1>2 DEF CountInDatabase, CountWrites, Waits, PostCallOK, PostCall, PostOwing
<1>0. PICK i \in PostCounters : i = <<k.kind, k.post>>
  BY <1>3 DEF PostCounters
<1>4. i = <<k.kind, k.post>> /\ i[1] = k.kind /\ i[2] = k.post
  BY <1>0
<1>5. PICK n : n = posts[k.post].counts[k.kind]
  OBVIOUS
<1>6. n \in Nat
  BY <1>2, <1>3, <1>5 DEF PostTypeInv, PostRow
<1>7. PICK v \in Int : v = (IF k.at = "count" THEN n ELSE k.count) + k.delta
  BY <1>3, <1>6
<1>8. /\ Counted(k.post, k.kind, v)
      /\ fcalls' = [fcalls EXCEPT ![c] = None]
      /\ UNCHANGED <<engaged, comments, postsApart>>
  <2>1. CASE CountInDatabase(c)
    BY <1>1, <1>5, <1>7, <2>1 DEF CountInDatabase, Waits, FEnds
  <2>2. CASE CountWrites(c)
    BY <1>1, <1>7, <2>2 DEF CountWrites, Waits, FEnds
  <2> QED
    BY <2>1, <2>2
<1>9. /\ posts' \in [PostIds -> PostRow \cup {None}]
      /\ \A q \in PostIds : posts'[q] = None <=> posts[q] = None
      /\ \A q \in PostIds : posts[q] # None => posts'[q].is_archived = posts[q].is_archived
      /\ \A j \in PostCounters :
           j # <<k.kind, k.post>> /\ posts[j[2]] # None =>
             posts'[j[2]].counts[j[1]] = posts[j[2]].counts[j[1]]
      /\ posts'[k.post].counts[k.kind] = IF v < 0 THEN 0 ELSE v
  BY <1>2, <1>3, <1>8, CountedPost
<1>a. k.kind # "all"
  BY <1>3 DEF CountedKinds
<1>b. \A p \in PostIds : Open(p)' => Open(p)
  BY <1>1, <1>2, <1>8, <1>9, <1>a DEF Open, PostTypeInv
<1>c. (\A p, kind : EngagedIn(kind, p)' = EngagedIn(kind, p))
      /\ (\A p : LiveComments(p)' = LiveComments(p)) /\ RowsAbout(i)' = RowsAbout(i)
  BY <1>8 DEF EngagedIn, LiveComments, RowIds, RowsAbout
<1>d. ASSUME postsApart', Open(k.post)'
      PROVE  InBalance(i)'
  <2>0. postsApart /\ Open(i[2]) /\ fcalls \in [Calls -> PostCall \cup {None}]
    BY <1>2, <1>3, <1>4, <1>8, <1>b, <1>d DEF PostTypeInv
  <2>1. PostCallHolds(k) /\ InBalance(i)
    BY <1>1, <1>4, <2>0 DEF PostsInv, KeptApart
  <2>2. v = n + k.delta
    BY <1>3, <1>5, <1>6, <1>7, <2>1 DEF PostCallHolds
  <2>3. PICK r \in Nat : r = Cardinality(RowsAbout(i))
    BY <1>2, EngagedFinite, LiveFinite DEF RowsAbout
  <2>4. PICK o \in Int : o = PostOwed(fcalls, i)
    BY <2>0, PostOwedFinite
  <2>5. n + o <= r /\ (k.kind # "share" => n + o >= r)
    BY <1>4, <1>5, <2>1, <2>3, <2>4 DEF InBalance
  <2>6. PostPays(k, i)
    BY <1>1, <1>3, <1>4 DEF PostPays
  <2>7. PostOwed(fcalls', i) = o - k.delta
    <3>1. PICK f \in [Calls -> PostCall \cup {None}] : f = fcalls
      BY <2>0
    <3>2. f[c] # None => PostDeltaOK(f[c])
      BY <1>1, <1>2, <3>1 DEF PostCallOK
    <3>3. None \in PostCall \cup {None}
      OBVIOUS
    <3>4. PICK b \in PostCall \cup {None} : b = None
      OBVIOUS
    <3>5. b # None => PostDeltaOK(b)
      BY <3>4
    <3>6. PostOwed([f EXCEPT ![c] = b], i) = PostOwed(f, i) - PostNet(f[c], i) + PostNet(b, i)
      BY <3>2, <3>5, PostOwedChanges
    <3>7. PostNet(f[c], i) = k.delta /\ PostNet(b, i) = 0
      BY <1>1, <2>6, <3>1, <3>4 DEF PostNet, PostPays
    <3>8. PostOwed(fcalls', i) = PostOwed(f, i) - k.delta + 0
      BY <1>8, <3>1, <3>4, <3>6, <3>7
    <3> QED
      BY <1>3, <2>4, <3>1, <3>8
  <2>8. CASE k.kind # "comment"
    <3>1. Cardinality(PostTaken(k)) = 1
      BY <2>8, FS_Singleton DEF PostTaken
    <3>2. k.delta = 1 \/ k.delta = -1
      BY <1>2, <1>3, <3>1 DEF PostCallOK, PostDeltaOK
    <3>3. CASE k.delta = 1
      <4>1. posts'[k.post].counts[k.kind] = n + 1
        BY <1>6, <1>9, <2>2, <3>3
      <4>2. n + 1 + (o - 1) <= r /\ (k.kind # "share" => n + 1 + (o - 1) >= r)
        BY <1>6, <2>5
      <4> QED
        BY <1>4, <1>c, <2>3, <2>7, <3>3, <4>1, <4>2 DEF InBalance
    <3>4. CASE k.delta = -1
      <4>1. PICK a \in Nat : a = Cardinality(PostAdders(fcalls, i))
        BY <2>0, PostOwedFinite, FS_CardinalityType
      <4>2. PICK t \in Nat : t = Cardinality(PostTakers(fcalls, i))
        BY <2>0, PostOwedFinite, FS_CardinalityType
      <4>3. t >= 1
        <5>1. <<c, k.user>> \in PostTakers(fcalls, i)
          BY <1>1, <1>3, <2>6, <2>8, <3>4 DEF PostTakers, PostTaken
        <5>2. t # 0
          BY <2>0, <4>2, <5>1, PostOwedFinite, FS_EmptySet
        <5> QED
          BY <5>2
      <4>4. o = a - t
        BY <2>4, <4>1, <4>2 DEF PostOwed
      <4>5. a <= r
        <5>1. Cardinality(PostAdders(fcalls, i)) <= Cardinality(EngagedIn(i[1], i[2]))
          BY <1>4, <2>0, <2>8, AddersHaveRows
        <5> QED
          BY <1>4, <2>3, <2>8, <4>1, <5>1 DEF RowsAbout
      <4>6. PICK m \in Nat : m = IF n - 1 < 0 THEN 0 ELSE n - 1
        BY <1>6
      <4>7. m + (o + 1) <= r /\ (k.kind # "share" => m + (o + 1) >= r)
        BY <1>6, <2>5, <4>3, <4>4, <4>5, <4>6
      <4>8. posts'[k.post].counts[k.kind] = m /\ PostOwed(fcalls', i) = o + 1
        BY <1>6, <1>9, <2>2, <2>7, <3>4, <4>6
      <4> QED
        BY <1>4, <1>c, <2>3, <4>7, <4>8 DEF InBalance
    <3> QED
      BY <3>2, <3>3, <3>4
  <2>9. CASE k.kind = "comment"
    <3>1. n + k.delta >= 0
      <4>1. CASE k.at = "count"
        <5>1. k.delta = 1
          BY <1>2, <2>9, <4>1 DEF PostCallOK
        <5> QED
          BY <1>6, <5>1
      <4>2. CASE k.at = "countWrite"
        <5>1. k.slow
          BY <1>2, <4>2 DEF PostCallOK
        <5>2. ASSUME NEW d \in Calls, d # c PROVE ~PostPays(fcalls[d], i)
          <6> SUFFICES ASSUME PostPays(fcalls[d], i) PROVE FALSE
            OBVIOUS
          <6>1. fcalls[d] # None /\ fcalls[d].kind = k.kind /\ fcalls[d].post = k.post
            BY <1>4 DEF PostPays
          <6>2. ~Clashes(k, fcalls[d])
            BY <1>1, <2>0, <5>2, <6>1 DEF PostsInv, KeptApart
          <6> QED
            BY <5>1, <6>1, <6>2 DEF Clashes
        <5>3. PICK f \in [Calls -> PostCall \cup {None}] : f = fcalls
          BY <2>0
        <5>4. PICK g \in [Calls -> PostCall \cup {None}] : g = [f EXCEPT ![c] = None]
          OBVIOUS
        <5>5. \A d \in Calls : ~PostPays(g[d], i)
          BY <5>2, <5>3, <5>4 DEF PostPays
        <5>6. PostOwed(g, i) = 0
          BY <5>5, NoPostOwed
        <5>7. PostOwed(f, i) = PostOwed([f EXCEPT ![c] = None], i) + PostNet(f[c], i)
          BY <1>1, <1>2, <5>3, PostOwedParts DEF PostCallOK
        <5>8. PostNet(f[c], i) = k.delta
          BY <1>1, <2>6, <5>3 DEF PostNet
        <5>9. o = 0 + k.delta
          BY <2>4, <5>3, <5>4, <5>6, <5>7, <5>8
        <5> QED
          BY <1>3, <1>6, <2>5, <2>9, <5>9
      <4> QED
        BY <1>3, <4>1, <4>2
    <3>2. posts'[k.post].counts[k.kind] = n + k.delta
      BY <1>3, <1>6, <1>9, <2>2, <3>1
    <3>3. n + k.delta + (o - k.delta) <= r /\ n + k.delta + (o - k.delta) >= r
      BY <1>3, <1>6, <2>5, <2>9
    <3> QED
      BY <1>4, <1>c, <2>3, <2>7, <3>2, <3>3 DEF InBalance
  <2> QED
    BY <2>8, <2>9
<1>e. engaged' \subseteq Kinds \X Readers \X PostIds /\ comments' \in [CommentIds -> CommentRow \cup {None}]
      /\ postsApart' \in BOOLEAN /\ postsApart' = postsApart
  BY <1>2, <1>8 DEF PostTypeInv
<1>f. PICK b \in PostCall \cup {None} : b = None
  OBVIOUS
<1>g. fcalls' = [fcalls EXCEPT ![c] = b]
  BY <1>8, <1>f
<1>h. /\ \A u \in Readers : <<k.kind, u, k.post>> \in engaged' <=> <<k.kind, u, k.post>> \in engaged
      /\ \A m \in CommentIds : comments[m] # None => comments'[m] # None
      /\ \A m \in CommentIds : comments'[m] = comments[m]
  BY <1>8
<1>i. /\ \A m \in CommentIds : comments[m] # None => comments'[m] # None
      /\ \A m \in CommentIds : comments'[m] # None =>
           \/ comments[m] # None /\ comments'[m].post = comments[m].post
           \/ comments'[m].post = k.post
      /\ \A r \in engaged' : r \in engaged \/ r[3] = k.post
  BY <1>8
<1>j. /\ \A p \in PostIds, kind \in Kinds :
           p # k.post \/ (kind # k.kind /\ k.kind # "all") => EngagedIn(kind, p)' = EngagedIn(kind, p)
      /\ postsApart' => \A p \in PostIds :
           p # k.post \/ k.kind \notin {"comment", "all"} => LiveComments(p)' = LiveComments(p)
  BY <1>c
<1>k. /\ postsApart' => postsApart /\ (b # None => ClashFree(b, Calls \ {c}))
      /\ postsApart' /\ b # None => PostCallHolds(b)'
      /\ b # None => /\ PostCallOK(b) /\ b.kind = k.kind /\ b.user = k.user /\ b.post = k.post
                     /\ \A m \in b.holds : comments'[m] # None
  BY <1>e, <1>f
<1>l. \A u \in Readers :
        u # k.user => (<<k.kind, u, k.post>> \in engaged' <=> <<k.kind, u, k.post>> \in engaged)
  BY <1>h
<1>m. postsApart' /\ Open(k.post)' /\ k.kind \in CountedKinds => InBalance(<<k.kind, k.post>>)'
  BY <1>4, <1>d
<1>n. \A p \in PostIds : posts[p] # None => posts'[p] # None
  BY <1>9
<1> QED
  BY <1>1, <1>9, <1>b, <1>e, <1>g, <1>i, <1>j, <1>k, <1>l, <1>m, <1>n, PostGoesOn

LEMMA ReadsOK ==
  ASSUME PostsInv, NEW c \in Calls, CountReads(c) \/ UncountReads(c)
  PROVE  PostsInv'
<1>1. PICK k \in PostCall : k = fcalls[c] /\ k # None
  BY EngagementAssumption DEF CountReads, UncountReads, Waits, PostsInv, PostTypeInv
<1>2. PostCallOK(k) /\ posts[k.post] # None /\ PostTypeInv /\ \A m \in k.holds : comments[m] # None
  BY <1>1 DEF PostsInv
<1>3. /\ k.at \in {"count", "uncount"} /\ k.at \in PostOwing
      /\ k.user \in Readers /\ k.post \in PostIds /\ k.delta \in Int
      /\ k.kind \in CountedKinds /\ (k.at = "uncount" => k.kind = "comment" /\ k.slow)
  BY <1>1, <1>2 DEF CountReads, UncountReads, Waits, PostCallOK, PostCall, PostOwing
<1>4. PICK i \in PostCounters : i = <<k.kind, k.post>>
  BY <1>3 DEF PostCounters
<1>5. i[1] = k.kind /\ i[2] = k.post
  BY <1>4
<1>6. PICK n : n = posts[k.post].counts[k.kind]
  OBVIOUS
<1>7. n \in Nat
  BY <1>2, <1>3, <1>6 DEF PostTypeInv, PostRow
<1>8. PICK b : b = [k EXCEPT !.at = "countWrite", !.slow = TRUE, !.count = n]
  OBVIOUS
<1>9. /\ b \in PostCall /\ b.at = "countWrite" /\ b.kind = k.kind /\ b.user = k.user
      /\ b.post = k.post /\ b.delta = k.delta /\ b.slow = TRUE /\ b.count = n /\ b.holds = k.holds
  BY <1>7, <1>8 DEF PostCall
<1>a. /\ fcalls' = [fcalls EXCEPT ![c] = b]
      /\ postsApart' = (postsApart /\ ClashFree(b, Calls \ {c}))
      /\ UNCHANGED <<posts, engaged, comments>>
  <2>1. CASE CountReads(c)
    BY <1>1, <1>6, <1>8, <2>1 DEF CountReads, FBecomes
  <2>2. CASE UncountReads(c)
    <3>1. k.at = "uncount"
      BY <1>1, <2>2 DEF UncountReads, Waits
    <3>2. k.slow = TRUE /\ k.kind = "comment"
      BY <1>3, <3>1 DEF PostCall
    <3>3. b = [k EXCEPT !.at = "countWrite", !.count = n]
      BY <1>8, <3>2 DEF PostCall
    <3> QED
      BY <1>1, <1>6, <2>2, <3>2, <3>3 DEF UncountReads, FBecomes
  <2> QED
    BY <2>1, <2>2
<1>b. b # None /\ PostCallOK(b)
  <2>1. b # None
    BY <1>9, EngagementAssumption
  <2>2. PostTaken(b) = PostTaken(k)
    BY <1>9 DEF PostTaken
  <2>3. k.kind # "all"
    BY <1>3 DEF CountedKinds
  <2> QED
    BY <1>2, <1>3, <1>9, <2>1, <2>2, <2>3 DEF PostCallOK, PostDeltaOK, PostOwing, Unposting, Kinds
<1>c. (\A p, kind : EngagedIn(kind, p)' = EngagedIn(kind, p))
      /\ (\A p : LiveComments(p)' = LiveComments(p)) /\ RowsAbout(i)' = RowsAbout(i)
  BY <1>a DEF EngagedIn, LiveComments, RowIds, RowsAbout
<1>d. \A p \in PostIds : Open(p)' => Open(p)
  <2>1. fcalls' \in [Calls -> PostCall \cup {None}] /\ fcalls'[c] = b
        /\ \A d \in Calls \ {c} : fcalls'[d] = fcalls[d]
    BY <1>2, <1>9, <1>a DEF PostTypeInv
  <2>2. \A d \in Calls : fcalls[d] # None =>
          fcalls'[d] # None /\ fcalls'[d].kind = fcalls[d].kind /\ fcalls'[d].post = fcalls[d].post
    BY <1>1, <1>9, <1>b, <2>1
  <2> QED
    BY <1>a, <2>2 DEF Open
<1>e. ASSUME postsApart' PROVE PostCallHolds(b)'
  <2>1. PostCallHolds(k)
    BY <1>1, <1>a, <1>e DEF PostsInv, KeptApart
  <2>2. posts'[b.post].counts[b.kind] = n
    BY <1>6, <1>9, <1>a
  <2>3. b.kind # "comment" /\ b.delta = 1 => RowOf(b) \in engaged'
    BY <1>3, <1>9, <1>a, <2>1 DEF PostCallHolds, RowOf
  <2> QED
    BY <1>9, <2>2, <2>3 DEF PostCallHolds, RowOf, Kinds
<1>f. ASSUME postsApart', Open(k.post)' PROVE InBalance(i)'
  <2>1. postsApart /\ Open(i[2])
    BY <1>3, <1>5, <1>a, <1>d, <1>f
  <2>2. PICK r \in Nat : r = Cardinality(RowsAbout(i))
    BY <1>2, EngagedFinite, LiveFinite DEF RowsAbout
  <2>3. r = Cardinality(RowsAbout(i))' /\ n = posts[i[2]].counts[i[1]] /\ n = posts'[i[2]].counts[i[1]]
    BY <1>5, <1>6, <1>a, <1>c, <2>2
  <2>4. PostNet(b, i) = PostNet(k, i) /\ PostNet(k, i) \in Int
    BY <1>1, <1>3, <1>9, <1>b DEF PostNet, PostPays, PostOwing
  <2>5. r = r + (n - n) + PostNet(b, i) - PostNet(k, i) /\ r >= r + (n - n) + PostNet(b, i) - PostNet(k, i)
    BY <1>7, <2>4
  <2> QED
    BY <1>1, <1>7, <1>9, <1>a, <1>b, <2>1, <2>2, <2>3, <2>5, StaysInBalance
<1>g. /\ posts' \in [PostIds -> PostRow \cup {None}]
      /\ engaged' \subseteq Kinds \X Readers \X PostIds
      /\ comments' \in [CommentIds -> CommentRow \cup {None}]
      /\ postsApart' \in BOOLEAN /\ (postsApart' => postsApart /\ ClashFree(b, Calls \ {c}))
  BY <1>2, <1>a DEF PostTypeInv
<1>h. /\ \A u \in Readers : <<k.kind, u, k.post>> \in engaged' <=> <<k.kind, u, k.post>> \in engaged
      /\ \A p \in PostIds : posts[p] # None => posts'[p] # None
      /\ \A j \in PostCounters : posts'[j[2]].counts[j[1]] = posts[j[2]].counts[j[1]]
      /\ \A m \in CommentIds : comments[m] # None => comments'[m] # None
      /\ \A m \in CommentIds : comments'[m] = comments[m]
      /\ \A m \in b.holds : comments'[m] # None
  BY <1>2, <1>9, <1>a
<1> QED
  BY <1>1, <1>4, <1>9, <1>a, <1>b, <1>c, <1>d, <1>e, <1>f, <1>g, <1>h, PostGoesOn

----------------------------------------------------------------------------

LEMMA InsertCommentOK ==
  ASSUME PostsInv, NEW c \in Calls, InsertComment(c)
  PROVE  PostsInv'
<1>1. PICK k \in PostCall : k = fcalls[c] /\ k # None
  BY EngagementAssumption DEF InsertComment, Waits, PostsInv, PostTypeInv
<1>2. PostCallOK(k) /\ posts[k.post] # None /\ PostTypeInv /\ \A m \in k.holds : comments[m] # None
  BY <1>1 DEF PostsInv
<1>3. /\ k.at = "insertComment" /\ k.kind = "comment" /\ k.delta = 1
      /\ k.user \in Readers /\ k.post \in PostIds /\ k.holds \subseteq CommentIds
  BY <1>1, <1>2 DEF InsertComment, Waits, PostCallOK, PostCall
<1>4. PICK i \in PostCounters : i = <<k.kind, k.post>>
  BY <1>3 DEF PostCounters, CountedKinds
<1>5. i[1] = "comment" /\ i[2] = k.post
  BY <1>3, <1>4
<1>6. PICK m \in FreeIds(comments) :
        comments' = [comments EXCEPT ![m] =
          [user |-> k.user, post |-> k.post, is_deleted |-> FALSE,
           parent |-> IF k.holds = {} THEN None ELSE CHOOSE q \in k.holds : TRUE]]
  BY <1>1 DEF InsertComment
<1>7. PICK par \in CommentIds \cup {None} :
        par = IF k.holds = {} THEN None ELSE CHOOSE q \in k.holds : TRUE
  BY <1>3
<1>8. PICK row : row = [user |-> k.user, post |-> k.post, is_deleted |-> FALSE, parent |-> par]
  OBVIOUS
<1>9. row \in CommentRow /\ row # None /\ row.post = k.post /\ row.is_deleted = FALSE
  <2>1. row \in CommentRow /\ row.post = k.post /\ row.is_deleted = FALSE
    BY <1>3, <1>8 DEF CommentRow
  <2> QED
    BY <2>1, EngagementAssumption
<1>a. m \in CommentIds /\ comments[m] = None /\ comments' = [comments EXCEPT ![m] = row]
  BY <1>2, <1>6, <1>7, <1>8 DEF FreeIds, RowIds, PostTypeInv
<1>b. comments' \in [CommentIds -> CommentRow \cup {None}] /\ comments'[m] = row
      /\ \A d \in CommentIds \ {m} : comments'[d] = comments[d]
  BY <1>2, <1>9, <1>a DEF PostTypeInv
<1>c. LiveComments(k.post)' = LiveComments(k.post) \cup {m} /\ m \notin LiveComments(k.post)
      /\ \A p : p # k.post => LiveComments(p)' = LiveComments(p)
  BY <1>2, <1>9, <1>a, <1>b DEF LiveComments, RowIds, PostTypeInv
<1>d. PICK b : b = [k EXCEPT !.at = "count"]
  OBVIOUS
<1>e. /\ b \in PostCall /\ b # None /\ b.at = "count" /\ b.kind = k.kind /\ b.user = k.user
      /\ b.post = k.post /\ b.delta = k.delta /\ b.slow = k.slow /\ b.holds = k.holds
  BY <1>d, PostStage
<1>f. /\ fcalls' = [fcalls EXCEPT ![c] = b]
      /\ postsApart' = (postsApart /\ ClashFree(b, Calls \ {c}))
      /\ UNCHANGED <<posts, engaged>>
  BY <1>1, <1>d DEF InsertComment, FGoes, FBecomes
<1>g. PostCallOK(b)
  BY <1>3, <1>e DEF PostCallOK, PostDeltaOK, PostOwing, Unposting, Kinds, CountedKinds
<1>h. \A p, kind : EngagedIn(kind, p)' = EngagedIn(kind, p)
  BY <1>f DEF EngagedIn
<1>i. \A p \in PostIds : Open(p)' => Open(p)
  BY <1>1, <1>2, <1>e, <1>f DEF Open, PostTypeInv
<1>j. PostCallHolds(b)'
  BY <1>3, <1>e DEF PostCallHolds, RowOf, Kinds
<1>k. ASSUME postsApart', Open(k.post)' PROVE InBalance(i)'
  <2>1. postsApart /\ Open(i[2])
    BY <1>3, <1>5, <1>f, <1>i, <1>k
  <2>2. IsFiniteSet(LiveComments(k.post)) /\ Cardinality(LiveComments(k.post)) \in Nat
    BY <1>2, LiveFinite
  <2>3. PICK L : L = LiveComments(k.post)
    OBVIOUS
  <2>4. Cardinality(L \cup {m}) = Cardinality(L) + 1
    BY <1>c, <2>2, <2>3, FS_AddElement
  <2>5. PICK r \in Nat : r = Cardinality(L)
    BY <2>2, <2>3
  <2>6. PICK s \in Nat : s = Cardinality(L \cup {m})
    BY <2>4, <2>5
  <2>7. r = Cardinality(RowsAbout(i)) /\ s = Cardinality(RowsAbout(i))'
    BY <1>5, <1>c, <2>3, <2>5, <2>6 DEF RowsAbout
  <2>8. PICK n \in Nat : n = posts[i[2]].counts[i[1]]
    BY <1>2, <1>3, <1>5 DEF PostTypeInv, PostRow, CountedKinds
  <2>9. n = posts'[i[2]].counts[i[1]]
    BY <1>f, <2>8
  <2>a. PostNet(b, i) = 1 /\ PostNet(k, i) = 0
    BY <1>3, <1>5, <1>e DEF PostNet, PostPays, PostOwing
  <2>b. s = r + (n - n) + PostNet(b, i) - PostNet(k, i) /\ s >= r + (n - n) + PostNet(b, i) - PostNet(k, i)
    BY <2>4, <2>5, <2>6, <2>8, <2>a
  <2> QED
    BY <1>1, <1>e, <1>f, <1>g, <2>1, <2>7, <2>8, <2>9, <2>b, StaysInBalance
<1>l. /\ posts' \in [PostIds -> PostRow \cup {None}]
      /\ engaged' \subseteq Kinds \X Readers \X PostIds
      /\ postsApart' \in BOOLEAN /\ (postsApart' => postsApart /\ ClashFree(b, Calls \ {c}))
  BY <1>2, <1>f DEF PostTypeInv
<1>m. /\ \A u \in Readers : <<k.kind, u, k.post>> \in engaged' <=> <<k.kind, u, k.post>> \in engaged
      /\ \A p \in PostIds : posts[p] # None => posts'[p] # None
      /\ \A j \in PostCounters : posts'[j[2]].counts[j[1]] = posts[j[2]].counts[j[1]]
  BY <1>f
<1>n. /\ \A d \in CommentIds : comments[d] # None => comments'[d] # None
      /\ \A d \in b.holds : comments'[d] # None
  BY <1>2, <1>3, <1>9, <1>b, <1>e
<1>o. \A d \in CommentIds : comments'[d] # None =>
        \/ comments[d] # None /\ comments'[d].post = comments[d].post
        \/ comments'[d].post = k.post
  BY <1>9, <1>b
<1>p. postsApart' /\ Open(k.post)' => InBalance(<<k.kind, k.post>>)'
  BY <1>4, <1>k
<1>q. postsApart' => \A p \in PostIds :
        p # k.post \/ k.kind \notin {"comment", "all"} => LiveComments(p)' = LiveComments(p)
  BY <1>3, <1>c
<1> QED
  BY <1>1, <1>b, <1>e, <1>f, <1>g, <1>h, <1>i, <1>j, <1>l, <1>m, <1>n, <1>o, <1>p, <1>q, PostGoesOn

LEMMA CollectCommentsOK ==
  ASSUME PostsInv, NEW c \in Calls, CollectComments(c)
  PROVE  PostsInv'
<1>1. PICK k \in PostCall : k = fcalls[c] /\ k # None
  BY EngagementAssumption DEF CollectComments, Waits, PostsInv, PostTypeInv
<1>2. PostCallOK(k) /\ posts[k.post] # None /\ PostTypeInv /\ \A m \in k.holds : comments[m] # None
  BY <1>1 DEF PostsInv
<1>3. /\ k.at = "collect" /\ k.kind = "comment" /\ k.slow
      /\ k.user \in Readers /\ k.post \in PostIds /\ k.holds \subseteq CommentIds
  BY <1>1, <1>2 DEF CollectComments, Waits, PostCallOK, PostCall
<1>4. PICK i \in PostCounters : i = <<k.kind, k.post>>
  BY <1>3 DEF PostCounters, CountedKinds
<1>5. i[1] = "comment" /\ i[2] = k.post
  BY <1>3, <1>4
<1>6. PICK ids \in {k.holds, UNION {Descendants(m) : m \in k.holds}} :
        FBecomes(c, [k EXCEPT !.at = "softDelete", !.holds = ids, !.delta = -Cardinality(ids)])
  BY <1>1 DEF CollectComments
<1>7. ids \subseteq CommentIds
  BY <1>3, <1>6 DEF Descendants
<1>8. PICK n \in Int : n = -Cardinality(ids)
  BY <1>7, EngagementAssumption, FS_Subset, FS_CardinalityType
<1>9. PICK b : b = [k EXCEPT !.at = "softDelete", !.holds = ids, !.delta = n]
  OBVIOUS
<1>a. /\ b \in PostCall /\ b.at = "softDelete" /\ b.kind = k.kind /\ b.user = k.user
      /\ b.post = k.post /\ b.delta = n /\ b.slow = k.slow /\ b.holds = ids
  BY <1>7, <1>8, <1>9 DEF PostCall
<1>b. /\ fcalls' = [fcalls EXCEPT ![c] = b]
      /\ postsApart' = (postsApart /\ ClashFree(b, Calls \ {c}))
      /\ UNCHANGED <<posts, engaged, comments>>
  BY <1>6, <1>8, <1>9 DEF CollectComments, FBecomes
<1>c. b # None /\ PostCallOK(b)
  <2>1. b # None
    BY <1>a, EngagementAssumption
  <2> QED
    BY <1>3, <1>8, <1>a, <2>1 DEF PostCallOK, PostDeltaOK, PostOwing, Unposting, Kinds
<1>d. (\A p, kind : EngagedIn(kind, p)' = EngagedIn(kind, p))
      /\ (\A p : LiveComments(p)' = LiveComments(p)) /\ RowsAbout(i)' = RowsAbout(i)
  BY <1>b DEF EngagedIn, LiveComments, RowIds, RowsAbout
<1>e. \A p \in PostIds : Open(p)' => Open(p)
  <2>1. fcalls' \in [Calls -> PostCall \cup {None}] /\ fcalls'[c] = b
        /\ \A d \in Calls \ {c} : fcalls'[d] = fcalls[d]
    BY <1>2, <1>a, <1>b DEF PostTypeInv
  <2>2. \A d \in Calls : fcalls[d] # None =>
          fcalls'[d] # None /\ fcalls'[d].kind = fcalls[d].kind /\ fcalls'[d].post = fcalls[d].post
    BY <1>1, <1>a, <1>c, <2>1
  <2> QED
    BY <1>b, <2>2 DEF Open
<1>f. ASSUME postsApart' PROVE PostCallHolds(b)'
  <2>1. k.holds \subseteq LiveComments(k.post)
    BY <1>1, <1>3, <1>b, <1>f DEF PostsInv, KeptApart, PostCallHolds
  <2>2. ASSUME NEW m \in k.holds PROVE Descendants(m) \subseteq LiveComments(k.post)
    <3>1. m \in LiveComments(k.post) /\ comments[m].post = k.post /\ LiveComments(k.post) \subseteq CommentIds
      BY <1>2, <2>1, LiveFinite DEF LiveComments
    <3>2. PICK ids2 \in SUBSET CommentIds : ids2 = LiveComments(k.post)
      BY <3>1
    <3>3. m \in ids2 /\ {d \in LiveComments(comments[m].post) : comments[d].parent \in ids2} \subseteq ids2
      BY <3>1, <3>2
    <3> QED
      BY <3>2, <3>3 DEF Descendants
  <2>3. ids \subseteq LiveComments(k.post)
    BY <1>6, <2>1, <2>2
  <2>4. b.holds \subseteq LiveComments(b.post)'
    BY <1>a, <1>d, <2>3
  <2> QED
    BY <1>a, <2>4 DEF PostCallHolds, RowOf, PostOwing, Kinds
<1>g. ASSUME postsApart', Open(k.post)' PROVE InBalance(i)'
  <2>1. postsApart /\ Open(i[2])
    BY <1>3, <1>5, <1>b, <1>e, <1>g
  <2>2. PICK r \in Nat : r = Cardinality(RowsAbout(i))
    BY <1>2, EngagedFinite, LiveFinite DEF RowsAbout
  <2>3. PICK m \in Nat : m = posts[i[2]].counts[i[1]]
    BY <1>2, <1>3, <1>5 DEF PostTypeInv, PostRow, CountedKinds
  <2>4. r = Cardinality(RowsAbout(i))' /\ m = posts'[i[2]].counts[i[1]]
    BY <1>b, <1>d, <2>2, <2>3
  <2>5. PostNet(b, i) = 0 /\ PostNet(k, i) = 0
    BY <1>3, <1>a DEF PostNet, PostPays, PostOwing
  <2>6. r = r + (m - m) + PostNet(b, i) - PostNet(k, i) /\ r >= r + (m - m) + PostNet(b, i) - PostNet(k, i)
    BY <2>5
  <2> QED
    BY <1>1, <1>a, <1>b, <1>c, <2>1, <2>2, <2>3, <2>4, <2>6, StaysInBalance
<1>h. /\ posts' \in [PostIds -> PostRow \cup {None}]
      /\ engaged' \subseteq Kinds \X Readers \X PostIds
      /\ comments' \in [CommentIds -> CommentRow \cup {None}]
      /\ postsApart' \in BOOLEAN /\ (postsApart' => postsApart /\ ClashFree(b, Calls \ {c}))
  BY <1>2, <1>b DEF PostTypeInv
<1>i. /\ \A u \in Readers : <<k.kind, u, k.post>> \in engaged' <=> <<k.kind, u, k.post>> \in engaged
      /\ \A p \in PostIds : posts[p] # None => posts'[p] # None
      /\ \A j \in PostCounters : posts'[j[2]].counts[j[1]] = posts[j[2]].counts[j[1]]
      /\ \A m \in CommentIds : comments[m] # None => comments'[m] # None
      /\ \A m \in CommentIds : comments'[m] = comments[m]
  BY <1>b
<1>j. \A m \in b.holds : comments'[m] # None
  <2> SUFFICES ASSUME NEW x \in ids PROVE comments[x] # None
    BY <1>a, <1>b
  <2>0. CASE ids = k.holds
    BY <1>2, <2>0
  <2> SUFFICES ASSUME ids # k.holds PROVE comments[x] # None
    BY <2>0
  <2>1. PICK m \in k.holds : x \in Descendants(m)
    BY <1>6
  <2>2. PICK ids2 \in SUBSET CommentIds : ids2 = {m} \cup LiveComments(comments[m].post)
    BY <1>2, <1>3, LiveFinite
  <2>3. x \in ids2
    BY <2>1, <2>2 DEF Descendants
  <2> QED
    BY <1>2, <2>2, <2>3 DEF LiveComments, RowIds
<1> QED
  BY <1>1, <1>4, <1>a, <1>b, <1>c, <1>d, <1>e, <1>f, <1>g, <1>h, <1>i, <1>j, PostGoesOn

(* What it means for the comments that some of them are deleted.           *)
LEMMA DeletedRows ==
  ASSUME PostTypeInv, NEW ids \in SUBSET CommentIds, comments' = Deleted(ids),
         \A m \in ids : comments[m] # None
  PROVE  /\ comments' \in [CommentIds -> CommentRow \cup {None}]
         /\ \A p : LiveComments(p)' = LiveComments(p) \ ids
         /\ \A m \in CommentIds : comments[m] # None => comments'[m] # None
         /\ \A m \in CommentIds : comments'[m] # None =>
              comments[m] # None /\ comments'[m].post = comments[m].post
<1>1. ASSUME NEW m \in CommentIds
      PROVE  /\ comments'[m] \in CommentRow \cup {None}
             /\ comments'[m] = None <=> comments[m] = None
             /\ m \in ids => comments'[m].is_deleted
             /\ m \notin ids => comments'[m] = comments[m]
             /\ comments[m] # None => comments'[m].post = comments[m].post
  <2>1. CASE m \in ids
    <3>1. PICK q \in CommentRow : q = comments[m]
      BY <2>1 DEF PostTypeInv
    <3>2. PICK r : r = [q EXCEPT !.is_deleted = TRUE]
      OBVIOUS
    <3>3. r \in CommentRow /\ r.is_deleted /\ r.post = q.post
      BY <3>2 DEF CommentRow
    <3>4. comments'[m] = r
      BY <2>1, <3>1, <3>2 DEF Deleted
    <3>5. r # None /\ comments[m] # None
      BY <2>1, <3>3, EngagementAssumption
    <3> QED
      BY <2>1, <3>1, <3>3, <3>4, <3>5
  <2>2. CASE m \notin ids
    BY <2>2 DEF Deleted, PostTypeInv
  <2> QED
    BY <2>1, <2>2
<1>2. comments' \in [CommentIds -> CommentRow \cup {None}]
  <2>1. comments' = [m \in CommentIds |-> comments'[m]]
    BY DEF Deleted
  <2> QED
    BY <1>1, <2>1
<1>3. ASSUME NEW p PROVE LiveComments(p)' = LiveComments(p) \ ids
  BY <1>1, <1>2 DEF LiveComments, RowIds, PostTypeInv
<1> QED
  BY <1>1, <1>2, <1>3

LEMMA SoftDeleteCommentsOK ==
  ASSUME PostsInv, NEW c \in Calls, SoftDeleteComments(c)
  PROVE  PostsInv'
<1>1. PICK k \in PostCall : k = fcalls[c] /\ k # None
  BY EngagementAssumption DEF SoftDeleteComments, Waits, PostsInv, PostTypeInv
<1>2. PostCallOK(k) /\ posts[k.post] # None /\ PostTypeInv /\ \A m \in k.holds : comments[m] # None
  BY <1>1 DEF PostsInv
<1>3. /\ k.at = "softDelete" /\ k.kind = "comment" /\ k.slow
      /\ k.user \in Readers /\ k.post \in PostIds /\ k.holds \subseteq CommentIds
      /\ k.delta = -Cardinality(k.holds)
  BY <1>1, <1>2 DEF SoftDeleteComments, Waits, PostCallOK, PostCall
<1>4. PICK i \in PostCounters : i = <<k.kind, k.post>>
  BY <1>3 DEF PostCounters, CountedKinds
<1>5. i[1] = "comment" /\ i[2] = k.post
  BY <1>3, <1>4
<1>6. PICK b : b = [k EXCEPT !.at = "uncount"]
  OBVIOUS
<1>7. /\ b \in PostCall /\ b # None /\ b.at = "uncount" /\ b.kind = k.kind /\ b.user = k.user
      /\ b.post = k.post /\ b.delta = k.delta /\ b.slow = k.slow /\ b.holds = k.holds
  BY <1>6, PostStage
<1>8. /\ fcalls' = [fcalls EXCEPT ![c] = b]
      /\ postsApart' = (postsApart /\ ClashFree(b, Calls \ {c}))
      /\ comments' = Deleted(k.holds)
      /\ UNCHANGED <<posts, engaged>>
  BY <1>1, <1>6 DEF SoftDeleteComments, FGoes, FBecomes
<1>9. PostCallOK(b)
  BY <1>3, <1>7 DEF PostCallOK, PostDeltaOK, PostOwing, PostTaken, Unposting, Kinds, CountedKinds
<1>a. /\ comments' \in [CommentIds -> CommentRow \cup {None}]
      /\ \A p : LiveComments(p)' = LiveComments(p) \ k.holds
      /\ \A m \in CommentIds : comments[m] # None => comments'[m] # None
      /\ \A m \in CommentIds : comments'[m] # None =>
           comments[m] # None /\ comments'[m].post = comments[m].post
  <2>1. /\ comments' \in [CommentIds -> CommentRow \cup {None}]
        /\ \A p : LiveComments(p)' = LiveComments(p) \ k.holds
        /\ \A m \in CommentIds : comments[m] # None => comments'[m] # None
        /\ \A m \in CommentIds : comments'[m] # None =>
             comments[m] # None /\ comments'[m].post = comments[m].post
    BY <1>2, <1>3, <1>8, DeletedRows
  <2> QED
    BY <2>1
<1>b. ASSUME postsApart' PROVE k.holds \subseteq LiveComments(k.post)
  BY <1>1, <1>3, <1>8, <1>b DEF PostsInv, KeptApart, PostCallHolds
<1>c. ASSUME postsApart' PROVE \A p \in PostIds : p # k.post => LiveComments(p)' = LiveComments(p)
  BY <1>a, <1>b, <1>c DEF LiveComments
<1>d. \A p, kind : EngagedIn(kind, p)' = EngagedIn(kind, p)
  BY <1>8 DEF EngagedIn
<1>e. \A p \in PostIds : Open(p)' => Open(p)
  <2>1. fcalls' \in [Calls -> PostCall \cup {None}] /\ fcalls'[c] = b
        /\ \A d \in Calls \ {c} : fcalls'[d] = fcalls[d]
    BY <1>2, <1>7, <1>8 DEF PostTypeInv
  <2>2. \A d \in Calls : fcalls[d] # None =>
          fcalls'[d] # None /\ fcalls'[d].kind = fcalls[d].kind /\ fcalls'[d].post = fcalls[d].post
    BY <1>1, <1>7, <2>1
  <2> QED
    BY <1>8, <2>2 DEF Open
<1>f. PostCallHolds(b)'
  BY <1>3, <1>7 DEF PostCallHolds, RowOf, Kinds
<1>g. ASSUME postsApart', Open(k.post)' PROVE InBalance(i)'
  <2>1. postsApart /\ Open(i[2])
    BY <1>3, <1>5, <1>8, <1>e, <1>g
  <2>2. PICK L : L = LiveComments(k.post)
    OBVIOUS
  <2>3. PICK H : H = k.holds
    OBVIOUS
  <2>4. IsFiniteSet(L) /\ IsFiniteSet(H) /\ IsFiniteSet(L \ H) /\ H \subseteq L
    BY <1>2, <1>3, <1>b, <1>g, <2>2, <2>3, LiveFinite, FS_Subset, EngagementAssumption
  <2>5. PICK r \in Nat, h \in Nat, s \in Nat :
          r = Cardinality(L) /\ h = Cardinality(H) /\ s = Cardinality(L \ H)
    BY <2>4, FS_CardinalityType
  <2>6. r = s + h
    <3>1. Cardinality((L \ H) \cup H) = s + h - Cardinality((L \ H) \cap H)
      BY <2>4, <2>5, FS_Union
    <3>2. (L \ H) \cup H = L /\ (L \ H) \cap H = {}
      BY <2>4
    <3>3. Cardinality((L \ H) \cap H) = 0
      BY <3>2, FS_EmptySet
    <3>4. r = s + h - Cardinality((L \ H) \cap H)
      BY <2>5, <3>1, <3>2
    <3> QED
      BY <2>5, <3>3, <3>4
  <2>7. r = Cardinality(RowsAbout(i)) /\ s = Cardinality(RowsAbout(i))'
    BY <1>5, <1>a, <2>2, <2>3, <2>5 DEF RowsAbout
  <2>8. PICK n \in Nat : n = posts[i[2]].counts[i[1]]
    BY <1>2, <1>3, <1>5 DEF PostTypeInv, PostRow, CountedKinds
  <2>9. n = posts'[i[2]].counts[i[1]]
    BY <1>8, <2>8
  <2>a. PostNet(b, i) = -h /\ PostNet(k, i) = 0
    BY <1>3, <1>5, <1>7, <2>3, <2>5 DEF PostNet, PostPays, PostOwing
  <2>b. s = r + (n - n) + PostNet(b, i) - PostNet(k, i) /\ s >= r + (n - n) + PostNet(b, i) - PostNet(k, i)
    BY <2>5, <2>6, <2>8, <2>a
  <2> QED
    BY <1>1, <1>7, <1>8, <1>9, <2>1, <2>5, <2>7, <2>8, <2>9, <2>b, StaysInBalance
<1>h. /\ posts' \in [PostIds -> PostRow \cup {None}]
      /\ engaged' \subseteq Kinds \X Readers \X PostIds
      /\ postsApart' \in BOOLEAN /\ (postsApart' => postsApart /\ ClashFree(b, Calls \ {c}))
  BY <1>2, <1>8 DEF PostTypeInv
<1>i. /\ \A u \in Readers : <<k.kind, u, k.post>> \in engaged' <=> <<k.kind, u, k.post>> \in engaged
      /\ \A p \in PostIds : posts[p] # None => posts'[p] # None
      /\ \A j \in PostCounters : posts'[j[2]].counts[j[1]] = posts[j[2]].counts[j[1]]
  BY <1>8
<1>j. \A m \in b.holds : comments'[m] # None
  BY <1>2, <1>3, <1>7, <1>a
<1>k. postsApart' => \A p \in PostIds :
        p # k.post \/ k.kind \notin {"comment", "all"} => LiveComments(p)' = LiveComments(p)
  BY <1>3, <1>c
<1>l. \A p \in PostIds, kind \in Kinds :
        p # k.post \/ (kind # k.kind /\ k.kind # "all") => EngagedIn(kind, p)' = EngagedIn(kind, p)
  BY <1>d
<1>m. postsApart' /\ Open(k.post)' => InBalance(<<k.kind, k.post>>)'
  BY <1>4, <1>g
<1> QED
  BY <1>1, <1>7, <1>8, <1>9, <1>a, <1>e, <1>f, <1>h, <1>i, <1>j, <1>k, <1>l, <1>m, PostGoesOn

----------------------------------------------------------------------------
(* A deletion of a post goes on.                                           *)

LEMMA DeletionGoesOn ==
  ASSUME PostsInv, NEW c \in Calls, NEW k \in PostCall, k = fcalls[c], k.at \in Unposting,
         NEW at \in Kinds \cup {"archive"},
         NEW b, b = [k EXCEPT !.at = at],
         fcalls' = [fcalls EXCEPT ![c] = b],
         postsApart' = (postsApart /\ ClashFree(b, Calls \ {c})),
         engaged' \subseteq engaged,
         comments' \in [CommentIds -> CommentRow \cup {None}],
         \A m \in CommentIds : comments[m] # None => comments'[m] # None,
         \A m \in CommentIds : comments'[m] # None =>
           comments[m] # None /\ comments'[m].post = comments[m].post,
         UNCHANGED posts,
         \A p \in PostIds, kind \in Kinds :
           p # k.post => EngagedIn(kind, p)' = EngagedIn(kind, p),
         \A p \in PostIds : p # k.post => LiveComments(p)' = LiveComments(p),
         postsApart' => PostCallHolds(b)'
  PROVE  PostsInv'
<1>1. k # None /\ PostTypeInv
  BY EngagementAssumption DEF PostsInv
<1>2. PostCallOK(k) /\ posts[k.post] # None /\ \A m \in k.holds : comments[m] # None
  BY <1>1 DEF PostsInv
<1>3. /\ b \in PostCall /\ b # None /\ b.at = at /\ b.kind = k.kind /\ b.user = k.user
      /\ b.post = k.post /\ b.holds = k.holds
  BY PostStage
<1>4. k.kind = "all" /\ k.post \in PostIds /\ k.holds \subseteq CommentIds
  BY <1>2 DEF PostCallOK, PostCall
<1>5. PostCallOK(b)
  BY <1>3, <1>4 DEF PostCallOK, PostDeltaOK, PostOwing, Unposting, Kinds
<1>6. \A u \in Readers : <<k.kind, u, k.post>> \in engaged' <=> <<k.kind, u, k.post>> \in engaged
  BY <1>1, <1>4 DEF PostTypeInv, Kinds
<1>7. \A p \in PostIds : Open(p)' => Open(p)
  <2>1. fcalls' \in [Calls -> PostCall \cup {None}] /\ fcalls'[c] = b
        /\ \A d \in Calls \ {c} : fcalls'[d] = fcalls[d]
    BY <1>1, <1>3 DEF PostTypeInv
  <2>2. \A d \in Calls : fcalls[d] # None =>
          fcalls'[d] # None /\ fcalls'[d].kind = fcalls[d].kind /\ fcalls'[d].post = fcalls[d].post
    BY <1>1, <1>3, <2>1
  <2> QED
    BY <2>2 DEF Open
<1>8. /\ posts' \in [PostIds -> PostRow \cup {None}]
      /\ engaged' \subseteq Kinds \X Readers \X PostIds
      /\ postsApart' \in BOOLEAN /\ (postsApart' => postsApart /\ ClashFree(b, Calls \ {c}))
  BY <1>1 DEF PostTypeInv
<1>9. \A m \in b.holds : comments'[m] # None
  BY <1>2, <1>3, <1>4
<1>a. k.kind \notin CountedKinds
  BY <1>4 DEF CountedKinds
<1>b. \A p \in PostIds, kind \in Kinds :
        p # k.post \/ (kind # k.kind /\ k.kind # "all") => EngagedIn(kind, p)' = EngagedIn(kind, p)
  BY <1>4
<1>c. postsApart' => \A p \in PostIds :
        p # k.post \/ k.kind \notin {"comment", "all"} => LiveComments(p)' = LiveComments(p)
  BY <1>4
<1>d. /\ \A i \in PostCounters : posts'[i[2]].counts[i[1]] = posts[i[2]].counts[i[1]]
      /\ \A p \in PostIds : posts[p] # None => posts'[p] # None
  OBVIOUS
<1>e. \A u \in Readers :
        u # k.user => (<<k.kind, u, k.post>> \in engaged' <=> <<k.kind, u, k.post>> \in engaged)
  BY <1>6
<1>f. /\ b \in PostCall \cup {None}
      /\ b # None => /\ PostCallOK(b) /\ b.kind = k.kind /\ b.user = k.user /\ b.post = k.post
                     /\ \A m \in b.holds : comments'[m] # None
  BY <1>3, <1>5, <1>9
<1>g. /\ \A m \in CommentIds : comments'[m] # None =>
           \/ comments[m] # None /\ comments'[m].post = comments[m].post
           \/ comments'[m].post = k.post
      /\ \A r \in engaged' : r \in engaged \/ r[3] = k.post
      /\ \A i \in PostCounters :
           i # <<k.kind, k.post>> /\ posts[i[2]] # None =>
             posts'[i[2]].counts[i[1]] = posts[i[2]].counts[i[1]]
  BY <1>d
<1>h. /\ postsApart' => postsApart /\ (b # None => ClashFree(b, Calls \ {c}))
      /\ postsApart' /\ b # None => PostCallHolds(b)'
      /\ postsApart' /\ Open(k.post)' /\ k.kind \in CountedKinds => InBalance(<<k.kind, k.post>>)'
  BY <1>8, <1>a
<1> QED
  BY <1>7, <1>8, <1>b, <1>c, <1>d, <1>e, <1>f, <1>g, <1>h, PostGoesOn, ZenonT(60)

LEMMA DeletionSteps ==
  ASSUME PostsInv, NEW c \in Calls, DeleteAllComments(c) \/ DeleteRows(c)
  PROVE  PostsInv'
<1>1. PICK k \in PostCall : k = fcalls[c] /\ k # None
  BY EngagementAssumption DEF DeleteAllComments, DeleteRows, Waits, PostsInv, PostTypeInv
<1>2. PostTypeInv /\ k.post \in PostIds /\ k.at \in Kinds \cup {"deleteComments"} /\ k.at \in Unposting
  BY <1>1 DEF PostsInv, PostCall, DeleteAllComments, DeleteRows, Waits, Unposting
<1>3. CASE DeleteAllComments(c)
  <2>1. PICK b : b = [k EXCEPT !.at = "reaction"]
    OBVIOUS
  <2>2. b.at = "reaction" /\ b.post = k.post
    BY <2>1, PostStage DEF Kinds
  <2>3. /\ fcalls' = [fcalls EXCEPT ![c] = b]
        /\ postsApart' = (postsApart /\ ClashFree(b, Calls \ {c}))
        /\ comments' = Deleted(LiveComments(k.post))
        /\ UNCHANGED <<posts, engaged>>
    BY <1>1, <1>3, <2>1 DEF DeleteAllComments, FGoes, FBecomes
  <2>4. PICK L \in SUBSET CommentIds : L = LiveComments(k.post)
    BY <1>2, LiveFinite
  <2>5. \A m \in L : comments[m] # None /\ comments[m].post = k.post
    BY <2>4 DEF LiveComments, RowIds
  <2>6. /\ comments' \in [CommentIds -> CommentRow \cup {None}]
        /\ \A p : LiveComments(p)' = LiveComments(p) \ L
        /\ \A m \in CommentIds : comments[m] # None => comments'[m] # None
        /\ \A m \in CommentIds : comments'[m] # None =>
             comments[m] # None /\ comments'[m].post = comments[m].post
    BY <1>2, <2>3, <2>4, <2>5, DeletedRows
  <2>7. \A p \in PostIds : p # k.post => LiveComments(p)' = LiveComments(p)
    BY <2>5, <2>6 DEF LiveComments
  <2>8. LiveComments(k.post)' = {}
    BY <2>4, <2>6
  <2>9. PostCallHolds(b)'
    BY <2>2, <2>8 DEF PostCallHolds, PostOwing, Kinds
  <2>10. \A p, kind : EngagedIn(kind, p)' = EngagedIn(kind, p)
    BY <2>3 DEF EngagedIn
  <2>11. "reaction" \in Kinds \cup {"archive"}
    BY DEF Kinds
  <2> QED
    BY <1>1, <1>2, <2>1, <2>3, <2>6, <2>7, <2>9, <2>10, <2>11, DeletionGoesOn
<1>4. CASE DeleteRows(c)
  <2>1. k.at \in Kinds
    BY <1>1, <1>4 DEF DeleteRows
  <2>2. PICK at \in Kinds \cup {"archive"} :
          /\ at = NextKind[k.at]
          /\ k.at = "reaction" => at = "like"
          /\ k.at = "like" => at = "bookmark"
          /\ k.at = "bookmark" => at = "share"
          /\ k.at = "share" => at = "archive"
    <3>1. CASE k.at = "reaction"
      BY <3>1 DEF NextKind, Kinds
    <3>2. CASE k.at = "like"
      BY <3>2 DEF NextKind, Kinds
    <3>3. CASE k.at = "bookmark"
      BY <3>3 DEF NextKind, Kinds
    <3>4. CASE k.at = "share"
      BY <3>4 DEF NextKind, Kinds
    <3> QED
      BY <2>1, <3>1, <3>2, <3>3, <3>4 DEF Kinds
  <2>3. PICK b : b = [k EXCEPT !.at = at]
    OBVIOUS
  <2>4. b.at = at /\ b.post = k.post
    BY <2>3, PostStage
  <2>5. /\ fcalls' = [fcalls EXCEPT ![c] = b]
        /\ postsApart' = (postsApart /\ ClashFree(b, Calls \ {c}))
        /\ engaged' = {r \in engaged : r[1] # k.at \/ r[3] # k.post}
        /\ UNCHANGED <<posts, comments>>
    BY <1>1, <1>4, <2>2, <2>3 DEF DeleteRows, FGoes, FBecomes
  <2>6. \A kind, p : kind # k.at \/ p # k.post => EngagedIn(kind, p)' = EngagedIn(kind, p)
    BY <2>5 DEF EngagedIn
  <2>7. EngagedIn(k.at, k.post)' = {}
    BY <2>5 DEF EngagedIn
  <2>8. \A p : LiveComments(p)' = LiveComments(p)
    BY <2>5 DEF LiveComments, RowIds
  <2>9. ASSUME postsApart' PROVE PostCallHolds(b)'
    <3>1. PostCallHolds(k)
      BY <1>1, <2>5, <2>9 DEF PostsInv, KeptApart
    <3>2. LiveComments(k.post)' = {}
      BY <2>1, <2>8, <3>1 DEF PostCallHolds
    <3>3. /\ at \in {"like", "bookmark", "share", "archive"} => EngagedIn("reaction", k.post)' = {}
          /\ at \in {"bookmark", "share", "archive"} => EngagedIn("like", k.post)' = {}
          /\ at \in {"share", "archive"} => EngagedIn("bookmark", k.post)' = {}
          /\ at = "archive" => EngagedIn("share", k.post)' = {}
      <4>1. CASE k.at = "reaction"
        BY <2>2, <2>7, <4>1
      <4>2. CASE k.at = "like"
        <5>1. EngagedIn("reaction", k.post)' = EngagedIn("reaction", k.post)
          BY <2>6, <4>2
        <5> QED
          BY <2>2, <2>7, <3>1, <4>2, <5>1 DEF PostCallHolds
      <4>3. CASE k.at = "bookmark"
        <5>1. /\ EngagedIn("reaction", k.post)' = EngagedIn("reaction", k.post)
              /\ EngagedIn("like", k.post)' = EngagedIn("like", k.post)
          BY <2>6, <4>3
        <5> QED
          BY <2>2, <2>7, <3>1, <4>3, <5>1 DEF PostCallHolds
      <4>4. CASE k.at = "share"
        <5>1. /\ EngagedIn("reaction", k.post)' = EngagedIn("reaction", k.post)
              /\ EngagedIn("like", k.post)' = EngagedIn("like", k.post)
              /\ EngagedIn("bookmark", k.post)' = EngagedIn("bookmark", k.post)
          BY <2>6, <4>4
        <5> QED
          BY <2>2, <2>7, <3>1, <4>4, <5>1 DEF PostCallHolds
      <4> QED
        BY <2>1, <4>1, <4>2, <4>3, <4>4 DEF Kinds
    <3>4. at \notin {"addRow", "removeRow", "countWrite", "collect", "softDelete"} \cup PostOwing
      BY DEF Kinds, PostOwing
    <3> QED
      BY <2>4, <3>2, <3>3, <3>4 DEF PostCallHolds
  <2>10. engaged' \subseteq engaged
    BY <2>5
  <2>11. /\ comments' \in [CommentIds -> CommentRow \cup {None}]
         /\ \A m \in CommentIds : comments[m] # None => comments'[m] # None
         /\ \A m \in CommentIds : comments'[m] = comments[m]
    BY <1>2, <2>5 DEF PostTypeInv
  <2>12. \A p \in PostIds, kind \in Kinds :
           p # k.post => EngagedIn(kind, p)' = EngagedIn(kind, p)
    BY <2>6
  <2> QED
    BY <1>1, <1>2, <2>2, <2>3, <2>5, <2>8, <2>9, <2>10, <2>11, <2>12, DeletionGoesOn
<1> QED
  BY <1>3, <1>4

LEMMA ArchivePostOK ==
  ASSUME PostsInv, NEW c \in Calls, ArchivePost(c)
  PROVE  PostsInv'
<1>1. PICK k \in PostCall : k = fcalls[c] /\ k # None
  BY EngagementAssumption DEF ArchivePost, Waits, PostsInv, PostTypeInv
<1>2. PostCallOK(k) /\ posts[k.post] # None /\ PostTypeInv
  BY <1>1 DEF PostsInv
<1>3. k.at = "archive" /\ k.kind = "all" /\ k.post \in PostIds
  BY <1>1, <1>2 DEF ArchivePost, Waits, PostCallOK, Unposting, PostCall
<1>4. PICK q \in PostRow : q = posts[k.post]
  BY <1>2, <1>3 DEF PostTypeInv
<1>5. PICK r : r = [q EXCEPT !.is_archived = TRUE]
  OBVIOUS
<1>6. r \in PostRow /\ r # None /\ r.is_archived /\ r.counts = q.counts
  <2>1. r \in PostRow /\ r.is_archived /\ r.counts = q.counts
    BY <1>5 DEF PostRow
  <2> QED
    BY <2>1, EngagementAssumption
<1>7. /\ posts' = [posts EXCEPT ![k.post] = r]
      /\ fcalls' = [fcalls EXCEPT ![c] = None]
      /\ UNCHANGED <<engaged, comments, postsApart>>
  BY <1>1, <1>4, <1>5 DEF ArchivePost, FEnds
<1>8. /\ posts' \in [PostIds -> PostRow \cup {None}]
      /\ \A p \in PostIds : p # k.post => posts'[p] = posts[p]
      /\ posts'[k.post] = r
  BY <1>2, <1>3, <1>6, <1>7 DEF PostTypeInv
<1>9. \A p \in PostIds : Open(p)' => Open(p)
  <2>1. \A d \in Calls \ {c} : fcalls'[d] = fcalls[d]
    BY <1>2, <1>7 DEF PostTypeInv
  <2> QED
    BY <1>1, <1>6, <1>8, <2>1 DEF Open
<1>a. \A p \in PostIds : posts[p] # None => posts'[p] # None
  BY <1>6, <1>8
<1>b. \A i \in PostCounters : posts'[i[2]].counts[i[1]] = posts[i[2]].counts[i[1]]
  <2> SUFFICES ASSUME NEW i \in PostCounters
               PROVE  posts'[i[2]].counts[i[1]] = posts[i[2]].counts[i[1]]
    OBVIOUS
  <2>1. i[2] \in PostIds
    BY DEF PostCounters
  <2> QED
    BY <1>4, <1>6, <1>8, <2>1
<1>c. (\A p, kind : EngagedIn(kind, p)' = EngagedIn(kind, p))
      /\ (\A p : LiveComments(p)' = LiveComments(p))
  BY <1>7 DEF EngagedIn, LiveComments, RowIds
<1>d. PICK b \in PostCall \cup {None} : b = None
  OBVIOUS
<1>e. fcalls' = [fcalls EXCEPT ![c] = b]
  BY <1>7, <1>d
<1>f. /\ engaged' \subseteq Kinds \X Readers \X PostIds
      /\ comments' \in [CommentIds -> CommentRow \cup {None}]
      /\ postsApart' \in BOOLEAN /\ postsApart' = postsApart
      /\ \A m \in CommentIds : comments[m] # None => comments'[m] # None
      /\ \A m \in CommentIds : comments'[m] = comments[m]
      /\ \A u \in Readers : <<k.kind, u, k.post>> \in engaged' <=> <<k.kind, u, k.post>> \in engaged
  BY <1>2, <1>7 DEF PostTypeInv
<1>g. k.kind \notin CountedKinds
  BY <1>3 DEF CountedKinds
<1>h. /\ \A m \in CommentIds : comments[m] # None => comments'[m] # None
      /\ \A m \in CommentIds : comments'[m] # None =>
           \/ comments[m] # None /\ comments'[m].post = comments[m].post
           \/ comments'[m].post = k.post
      /\ \A e \in engaged' : e \in engaged \/ e[3] = k.post
  BY <1>7
<1>i. /\ \A p \in PostIds, kind \in Kinds :
           p # k.post \/ (kind # k.kind /\ k.kind # "all") => EngagedIn(kind, p)' = EngagedIn(kind, p)
      /\ postsApart' => \A p \in PostIds :
           p # k.post \/ k.kind \notin {"comment", "all"} => LiveComments(p)' = LiveComments(p)
  BY <1>c
<1>j. /\ postsApart' => postsApart /\ (b # None => ClashFree(b, Calls \ {c}))
      /\ postsApart' /\ b # None => PostCallHolds(b)'
      /\ b # None => /\ PostCallOK(b) /\ b.kind = k.kind /\ b.user = k.user /\ b.post = k.post
                     /\ \A m \in b.holds : comments'[m] # None
  BY <1>d, <1>f
<1>k. \A u \in Readers :
        u # k.user => (<<k.kind, u, k.post>> \in engaged' <=> <<k.kind, u, k.post>> \in engaged)
  BY <1>f
<1>l. /\ \A j \in PostCounters :
           j # <<k.kind, k.post>> /\ posts[j[2]] # None =>
             posts'[j[2]].counts[j[1]] = posts[j[2]].counts[j[1]]
      /\ postsApart' /\ Open(k.post)' /\ k.kind \in CountedKinds => InBalance(<<k.kind, k.post>>)'
  BY <1>b, <1>g
<1> QED
  BY <1>1, <1>8, <1>9, <1>a, <1>e, <1>f, <1>h, <1>i, <1>j, <1>k, <1>l, PostGoesOn

----------------------------------------------------------------------------
(* Handlers begin and break off.                                           *)

LEMMA PostBegins ==
  ASSUME PostsInv, NEW c \in Calls, NEW call \in PostCall, FStarts(c, call),
         PostCallOK(call), posts[call.post] # None, \A m \in call.holds : comments[m] # None,
         call.at \notin PostOwing, PostCallHolds(call),
         UNCHANGED <<posts, engaged, comments>>
  PROVE  PostsInv'
<1>1. /\ fcalls[c] = None /\ fcalls' = [fcalls EXCEPT ![c] = call]
      /\ postsApart' = (postsApart /\ ClashFree(call, Calls \ {c}))
  BY DEF FStarts, FBecomes
<1>2. PostTypeInv /\ call # None
  BY EngagementAssumption DEF PostsInv
<1>3. fcalls \in [Calls -> PostCall \cup {None}] /\ fcalls' \in [Calls -> PostCall \cup {None}]
      /\ fcalls'[c] = call /\ \A d \in Calls \ {c} : fcalls'[d] = fcalls[d]
  BY <1>1, <1>2 DEF PostTypeInv
<1>4. PostTypeInv'
  BY <1>1, <1>2, <1>3 DEF PostTypeInv
<1>5. \A d \in Calls : fcalls'[d] # None =>
        /\ PostCallOK(fcalls'[d]) /\ posts'[fcalls'[d].post] # None
        /\ \A m \in fcalls'[d].holds : comments'[m] # None
  BY <1>3 DEF PostsInv
<1>6. /\ \A p, kind : EngagedIn(kind, p)' = EngagedIn(kind, p)
      /\ \A p : LiveComments(p)' = LiveComments(p)
      /\ \A i : RowsAbout(i)' = RowsAbout(i)
  BY DEF EngagedIn, LiveComments, RowIds, RowsAbout
<1>7. ASSUME postsApart' PROVE KeptApart'
  <2>0. postsApart /\ KeptApart /\ ClashFree(call, Calls \ {c})
    BY <1>1, <1>7 DEF PostsInv
  <2>1. ASSUME NEW d \in Calls, NEW e \in Calls \ {d}, fcalls'[d] # None, fcalls'[e] # None
        PROVE  ~Clashes(fcalls'[d], fcalls'[e])
    <3>1. CASE d # c /\ e # c
      BY <1>3, <2>0, <2>1, <3>1 DEF KeptApart
    <3>2. CASE d = c
      <4>1. ~Clashes(fcalls[e], call)
        BY <1>3, <2>0, <2>1, <3>2 DEF ClashFree
      <4> QED
        BY <1>3, <2>1, <3>2, <4>1 DEF Clashes
    <3>3. CASE e = c
      <4>1. ~Clashes(fcalls[d], call)
        BY <1>3, <2>0, <2>1, <3>3 DEF ClashFree
      <4> QED
        BY <1>3, <2>1, <3>3, <4>1
    <3> QED
      BY <3>1, <3>2, <3>3
  <2>2. ASSUME NEW d \in Calls, fcalls'[d] # None
        PROVE  PostCallHolds(fcalls[d])'
    <3>1. PICK l : l = fcalls'[d]
      OBVIOUS
    <3>2. PostCallHolds(l)
      BY <1>3, <2>0, <2>2, <3>1 DEF KeptApart
    <3>3. PostCallHolds(l)'
      BY <1>6, <3>2 DEF PostCallHolds, RowOf
    <3> QED
      BY <3>1, <3>3 DEF PostCallHolds, RowOf
  <2>3. ASSUME NEW i \in PostCounters, Open(i[2])'
        PROVE  InBalance(i)'
    <3>1. Open(i[2])
      BY <1>1, <1>3, <2>3 DEF Open
    <3>2. InBalance(i)
      BY <2>0, <3>1 DEF KeptApart
    <3>3. PostOwed(fcalls', i) = PostOwed(fcalls, i)
      <4>1. PICK f \in [Calls -> PostCall \cup {None}] : f = fcalls
        BY <1>3
      <4>2. /\ PostOwed([f EXCEPT ![c] = call], i)
                 = PostOwed(f, i) - PostNet(f[c], i) + PostNet(call, i)
            /\ PostOwed(f, i) \in Int
        <5>1. PICK b \in PostCall \cup {None} : b = call /\ PostDeltaOK(b)
          BY DEF PostCallOK
        <5>2. f[c] # None => PostDeltaOK(f[c])
          BY <1>1, <4>1
        <5>4. b # None => PostDeltaOK(b)
          BY <5>1
        <5>3. /\ PostOwed([f EXCEPT ![c] = b], i) = PostOwed(f, i) - PostNet(f[c], i) + PostNet(b, i)
              /\ PostOwed(f, i) \in Int
          BY <5>2, <5>4, PostOwedChanges
        <5> QED
          BY <5>1, <5>3
      <4>3. PostNet(f[c], i) = 0 /\ PostNet(call, i) = 0
        BY <1>1, <4>1 DEF PostNet, PostPays
      <4> QED
        BY <1>1, <4>1, <4>2, <4>3
    <3> QED
      BY <1>6, <3>2, <3>3 DEF InBalance
  <2> QED
    BY <2>1, <2>2, <2>3 DEF KeptApart
<1> QED
  BY <1>4, <1>5, <1>7 DEF PostsInv

(* A handler that goes on over an error: nothing is claimed any more.      *)
LEMMA MissesSpoil ==
  ASSUME PostsInv, NEW c \in Calls, NEW call \in PostCall, FMisses(c, call),
         PostCallOK(call), posts[call.post] # None, \A m \in call.holds : comments[m] # None,
         UNCHANGED <<posts, engaged, comments>>
  PROVE  PostsInv'
<1>1. PostTypeInv /\ postsApart' = FALSE /\ fcalls' = [fcalls EXCEPT ![c] = call]
  BY DEF PostsInv, FMisses
<1>2. PostTypeInv'
  BY <1>1 DEF PostTypeInv
<1>3. \A d \in Calls : fcalls'[d] # None => fcalls'[d] = fcalls[d] \/ fcalls'[d] = call
  BY <1>1 DEF PostTypeInv
<1> QED
  BY <1>1, <1>2, <1>3 DEF PostsInv

LEMMA MissLookOK ==
  ASSUME PostsInv, NEW c \in Calls, NEW u \in Readers, NEW p \in PostIds, NEW kind \in Kinds,
         MissLook(c, kind, u, p)
  PROVE  PostsInv'
<1>1. PICK call : call = FCall("addRow", kind, u, p, 1)
  OBVIOUS
<1>2. /\ call \in PostCall /\ call.kind = kind /\ call.user = u /\ call.post = p
      /\ call.at = "addRow" /\ call.delta = 1 /\ call.holds = {}
  BY <1>1 DEF FCall, PostCall, Kinds
<1>3. PostCallOK(call)
  BY <1>2 DEF PostCallOK, PostDeltaOK, PostOwing, Unposting, Kinds
<1>4. posts[call.post] # None
  BY <1>2 DEF MissLook, PostsInv
<1> QED
  BY <1>1, <1>2, <1>3, <1>4, MissesSpoil DEF MissLook

LEMMA PostMissesOK ==
  ASSUME PostsInv, NEW c \in Calls,
         MissRow(c) \/ MissCount(c) \/ MissAllComments(c) \/ MissRows(c)
  PROVE  PostsInv'
<1>1. PICK k \in PostCall : k = fcalls[c] /\ k # None
  BY EngagementAssumption DEF MissRow, MissCount, MissAllComments, MissRows, Waits, PostsInv, PostTypeInv
<1>2. /\ PostCallOK(k) /\ posts[k.post] # None /\ \A m \in k.holds : comments[m] # None
      /\ UNCHANGED <<posts, engaged, comments>>
  BY <1>1 DEF PostsInv, MissRow, MissCount, MissAllComments, MissRows
<1>3. PICK b \in PostCall : FMisses(c, b) /\ PostCallOK(b) /\ b.post = k.post /\ b.holds = k.holds
  <2>1. CASE MissRow(c)
    <3>1. PICK b : b = [k EXCEPT !.at = "count"]
      OBVIOUS
    <3>2. /\ b \in PostCall /\ b.at = "count" /\ b.kind = k.kind /\ b.user = k.user
          /\ b.post = k.post /\ b.delta = k.delta /\ b.slow = k.slow /\ b.holds = k.holds
      BY <3>1 DEF PostCall
    <3>3. k.at \in {"addRow", "removeRow"} /\ k.kind \in {"like", "share"} /\ FMisses(c, b)
      BY <1>1, <2>1, <3>1 DEF MissRow, Waits
    <3>4. k.delta = 1 \/ k.delta = -1
      BY <1>2, <3>3 DEF PostCallOK
    <3>5. Cardinality({k.user}) = 1
      BY FS_Singleton
    <3>6. PostDeltaOK(b)
      BY <3>2, <3>3, <3>4, <3>5 DEF PostDeltaOK, PostTaken
    <3>7. PostCallOK(b)
      BY <3>2, <3>3, <3>6 DEF PostCallOK, PostOwing, Unposting, Kinds, CountedKinds
    <3> QED
      BY <3>2, <3>3, <3>7
  <2>2. CASE MissCount(c)
    <3>1. PICK b : b = [k EXCEPT !.at = "countWrite", !.slow = TRUE, !.count = 0]
      OBVIOUS
    <3>2. /\ b \in PostCall /\ b.at = "countWrite" /\ b.kind = k.kind /\ b.user = k.user
          /\ b.post = k.post /\ b.delta = k.delta /\ b.slow = TRUE /\ b.holds = k.holds
      BY <3>1 DEF PostCall
    <3>3. k.at = "count" /\ FMisses(c, b)
      BY <1>1, <2>2, <3>1 DEF MissCount, Waits
    <3>4. PostDeltaOK(b) /\ k.kind \in CountedKinds
      BY <1>2, <3>2, <3>3 DEF PostDeltaOK, PostTaken, PostCallOK, PostOwing
    <3>5. PostCallOK(b)
      BY <3>2, <3>4 DEF PostCallOK, PostOwing, Unposting, Kinds, CountedKinds
    <3> QED
      BY <3>2, <3>3, <3>5
  <2>3. CASE MissAllComments(c) \/ MissRows(c)
    <3>1. PICK at \in Unposting :
            k.at \in Unposting /\ at # "deleteComments" /\ FMisses(c, [k EXCEPT !.at = at])
      BY <1>1, <2>3 DEF MissAllComments, MissRows, Waits, Unposting, Kinds, NextKind
    <3>2. PICK b : b = [k EXCEPT !.at = at]
      OBVIOUS
    <3>3. /\ b \in PostCall /\ b.at = at /\ b.kind = k.kind /\ b.post = k.post /\ b.holds = k.holds
      BY <3>1, <3>2 DEF PostCall, Unposting, Kinds
    <3>4. PostCallOK(b)
      BY <1>2, <3>1, <3>3 DEF PostCallOK, PostDeltaOK, PostOwing, Unposting, Kinds
    <3> QED
      BY <3>1, <3>2, <3>3, <3>4
  <2> QED
    BY <2>1, <2>2, <2>3
<1> QED
  BY <1>2, <1>3, MissesSpoil

LEMMA FeedStartsOK ==
  ASSUME PostsInv, NEW c \in Calls, NEW u \in Readers, FeedStarts(c, u)
  PROVE  PostsInv'
<1>0. PostTypeInv
  BY DEF PostsInv
<1>1. ASSUME NEW kind \in {"like", "reaction", "bookmark"}, NEW p \in PostIds, Toggle(c, kind, u, p)
      PROVE  PostsInv'
  <2>1. PICK call : call = IF <<kind, u, p>> \in engaged
                           THEN FCall("removeRow", kind, u, p, -1)
                           ELSE FCall("addRow", kind, u, p, 1)
    OBVIOUS
  <2>2. PICK n \in Int : n = -1
    OBVIOUS
  <2>3. /\ call \in PostCall /\ call.kind = kind /\ call.user = u /\ call.post = p
        /\ call.holds = {}
        /\ \/ call.at = "removeRow" /\ call.delta = -1 /\ <<kind, u, p>> \in engaged
           \/ call.at = "addRow" /\ call.delta = 1 /\ <<kind, u, p>> \notin engaged
    <3>1. CASE <<kind, u, p>> \in engaged
      BY <2>1, <2>2, <3>1 DEF FCall, PostCall, Kinds
    <3>2. CASE <<kind, u, p>> \notin engaged
      BY <2>1, <3>2 DEF FCall, PostCall, Kinds
    <3> QED
      BY <3>1, <3>2
  <2>4. PostCallOK(call)
    BY <2>3 DEF PostCallOK, PostDeltaOK, PostOwing, Unposting, Kinds
  <2>5. PostCallHolds(call) /\ call.at \notin PostOwing
    BY <2>3 DEF PostCallHolds, PostOwing, Kinds, RowOf
  <2>6. /\ FStarts(c, call) /\ posts[call.post] # None /\ UNCHANGED <<posts, engaged, comments>>
        /\ \A m \in call.holds : comments[m] # None
    BY <1>1, <2>1, <2>3 DEF Toggle
  <2> QED
    BY <2>3, <2>4, <2>5, <2>6, PostBegins
<1>2. ASSUME NEW p \in PostIds, ShareItem(c, u, p) PROVE PostsInv'
  <2>1. PICK call : call = FCall("addRow", "share", u, p, 1)
    OBVIOUS
  <2>2. /\ call \in PostCall /\ call.kind = "share" /\ call.user = u /\ call.post = p
        /\ call.at = "addRow" /\ call.delta = 1 /\ call.holds = {}
    BY <2>1 DEF FCall, PostCall, Kinds
  <2>3. PostCallOK(call)
    BY <2>2 DEF PostCallOK, PostDeltaOK, PostOwing, Unposting, Kinds
  <2>4. PostCallHolds(call) /\ call.at \notin PostOwing
    BY <1>2, <2>2 DEF PostCallHolds, PostOwing, Kinds, RowOf, ShareItem
  <2>5. /\ FStarts(c, call) /\ posts[call.post] # None /\ UNCHANGED <<posts, engaged, comments>>
        /\ \A m \in call.holds : comments[m] # None
    BY <1>2, <2>1, <2>2 DEF ShareItem
  <2> QED
    BY <2>2, <2>3, <2>4, <2>5, PostBegins
<1>3. ASSUME NEW p \in PostIds, UnshareItem(c, u, p) PROVE PostsInv'
  <2>1. PICK call : call = FCall("removeRow", "share", u, p, -1)
    OBVIOUS
  <2>a. PICK n \in Int : n = -1
    OBVIOUS
  <2>2. /\ call \in PostCall /\ call.kind = "share" /\ call.user = u /\ call.post = p
        /\ call.at = "removeRow" /\ call.delta = -1 /\ call.holds = {}
    BY <2>1, <2>a DEF FCall, PostCall, Kinds
  <2>3. PostCallOK(call)
    BY <2>2 DEF PostCallOK, PostDeltaOK, PostOwing, Unposting, Kinds
  <2>4. PostCallHolds(call) /\ call.at \notin PostOwing
    BY <2>2 DEF PostCallHolds, PostOwing, Kinds, RowOf
  <2>5. /\ FStarts(c, call) /\ posts[call.post] # None /\ UNCHANGED <<posts, engaged, comments>>
        /\ \A m \in call.holds : comments[m] # None
    BY <1>3, <2>1, <2>2 DEF UnshareItem
  <2> QED
    BY <2>2, <2>3, <2>4, <2>5, PostBegins
<1>4. ASSUME NEW p \in PostIds, DeletePost(c, u, p) PROVE PostsInv'
  <2>1. PICK call : call = FCall("deleteComments", "all", u, p, 0)
    OBVIOUS
  <2>2. /\ call \in PostCall /\ call.kind = "all" /\ call.user = u /\ call.post = p
        /\ call.at = "deleteComments" /\ call.holds = {}
    BY <2>1 DEF FCall, PostCall, Kinds
  <2>3. PostCallOK(call)
    BY <2>2 DEF PostCallOK, PostDeltaOK, PostOwing, Unposting, Kinds
  <2>4. PostCallHolds(call) /\ call.at \notin PostOwing
    BY <2>2 DEF PostCallHolds, PostOwing, Kinds, RowOf
  <2>5. /\ FStarts(c, call) /\ posts[call.post] # None /\ UNCHANGED <<posts, engaged, comments>>
        /\ \A m \in call.holds : comments[m] # None
    BY <1>4, <2>1, <2>2 DEF DeletePost
  <2> QED
    BY <2>2, <2>3, <2>4, <2>5, PostBegins
<1>5. ASSUME NEW p \in PostIds, NEW parent \in RowIds(comments) \cup {None}, AddComment(c, u, p, parent)
      PROVE  PostsInv'
  <2>1. PICK hs \in SUBSET CommentIds : hs = {parent} \ {None} /\ \A m \in hs : comments[m] # None
    <3>1. parent # None => parent \in CommentIds /\ comments[parent] # None
      BY <1>0 DEF RowIds, PostTypeInv
    <3>2. PICK hs : hs = {parent} \ {None}
      OBVIOUS
    <3>3. hs \in SUBSET CommentIds /\ \A m \in hs : comments[m] # None
      BY <3>1, <3>2
    <3> QED
      BY <3>2, <3>3
  <2>a. PICK new : new = FCall("insertComment", "comment", u, p, 1)
    OBVIOUS
  <2>b. /\ new \in PostCall /\ new.at = "insertComment" /\ new.kind = "comment" /\ new.user = u
        /\ new.post = p /\ new.delta = 1
    BY <2>a DEF FCall, PostCall, Kinds
  <2>2. PICK call : call = [new EXCEPT !.holds = hs]
    OBVIOUS
  <2>3. /\ call \in PostCall /\ call.kind = "comment" /\ call.user = u /\ call.post = p
        /\ call.at = "insertComment" /\ call.delta = 1 /\ call.holds = hs
    BY <2>2, <2>b DEF PostCall
  <2>4. PostCallOK(call)
    BY <2>3 DEF PostCallOK, PostDeltaOK, PostOwing, Unposting, Kinds
  <2>5. PostCallHolds(call) /\ call.at \notin PostOwing
    BY <2>3 DEF PostCallHolds, PostOwing, Kinds, RowOf
  <2>6. /\ FStarts(c, call) /\ posts[call.post] # None /\ UNCHANGED <<posts, engaged, comments>>
        /\ \A m \in call.holds : comments[m] # None
    BY <1>5, <2>1, <2>2, <2>3, <2>a DEF AddComment
  <2> QED
    BY <2>3, <2>4, <2>5, <2>6, PostBegins
<1>6. ASSUME NEW m \in CommentIds, DeleteComment(c, u, m) PROVE PostsInv'
  <2>1. PICK row \in CommentRow : row = comments[m]
    BY <1>0, <1>6 DEF DeleteComment, PostTypeInv
  <2>2. row.post \in PostIds /\ comments[m] # None /\ ~row.is_deleted
    BY <1>6, <2>1 DEF CommentRow, DeleteComment
  <2>a. PICK new : new = FCall("collect", "comment", u, row.post, 0)
    OBVIOUS
  <2>b. /\ new \in PostCall /\ new.at = "collect" /\ new.kind = "comment" /\ new.user = u
        /\ new.post = row.post
    BY <2>2, <2>a DEF FCall, PostCall, Kinds
  <2>3. PICK call : call = [new EXCEPT !.slow = TRUE, !.holds = {m}]
    OBVIOUS
  <2>4. /\ call \in PostCall /\ call.kind = "comment" /\ call.user = u /\ call.post = row.post
        /\ call.at = "collect" /\ call.slow /\ call.holds = {m}
    BY <2>3, <2>b DEF PostCall
  <2>5. PostCallOK(call)
    BY <2>4 DEF PostCallOK, PostDeltaOK, PostOwing, Unposting, Kinds
  <2>6. m \in LiveComments(row.post)
    BY <1>0, <2>1, <2>2 DEF LiveComments, RowIds, PostTypeInv
  <2>7. PostCallHolds(call) /\ call.at \notin PostOwing
    BY <2>4, <2>6 DEF PostCallHolds, PostOwing, Kinds, RowOf
  <2>8. posts[row.post] # None
    BY <2>1, <2>2 DEF PostsInv
  <2>9. /\ FStarts(c, call) /\ posts[call.post] # None /\ UNCHANGED <<posts, engaged, comments>>
        /\ \A d \in call.holds : comments[d] # None
    BY <1>6, <2>1, <2>2, <2>3, <2>4, <2>8, <2>a DEF DeleteComment
  <2> QED
    BY <2>4, <2>5, <2>7, <2>9, PostBegins
<1> QED
  BY <1>1, <1>2, <1>3, <1>4, <1>5, <1>6, MissLookOK
     DEF FeedStarts, ToggleLike, ToggleReaction, ToggleBookmark

LEMMA FeedAbortOK ==
  ASSUME PostsInv, NEW c \in Calls, FeedAbort(c)
  PROVE  PostsInv'
<1>1. PostTypeInv /\ postsApart' = FALSE /\ fcalls' = [fcalls EXCEPT ![c] = None]
      /\ UNCHANGED <<posts, engaged, comments>>
  BY DEF PostsInv, FeedAbort
<1>2. PostTypeInv'
  BY <1>1 DEF PostTypeInv
<1>3. \A d \in Calls : fcalls'[d] # None => fcalls'[d] = fcalls[d]
  BY <1>1 DEF PostTypeInv
<1> QED
  BY <1>1, <1>2, <1>3 DEF PostsInv

LEMMA CreatePostOK ==
  ASSUME PostsInv, NEW u \in Readers, NEW p \in PostIds, CreatePost(u, p)
  PROVE  PostsInv'
<1>1. PostTypeInv
  BY DEF PostsInv
<1>2. PICK row : row = [user |-> u, is_archived |-> FALSE, counts |-> [kind \in CountedKinds |-> 0]]
  OBVIOUS
<1>3. row \in PostRow /\ row.counts = [kind \in CountedKinds |-> 0]
  BY <1>2 DEF PostRow
<1>4. row # None
  BY <1>3, EngagementAssumption
<1>5. /\ posts[p] = None /\ posts' = [posts EXCEPT ![p] = row]
      /\ UNCHANGED <<engaged, comments, fcalls, postsApart>>
  BY <1>2 DEF CreatePost
<1>6. posts' \in [PostIds -> PostRow \cup {None}] /\ posts'[p] = row
      /\ \A q \in PostIds \ {p} : posts'[q] = posts[q]
  BY <1>1, <1>3, <1>5 DEF PostTypeInv
<1>7. PostTypeInv'
  BY <1>1, <1>5, <1>6 DEF PostTypeInv
<1>8. \A d \in Calls : fcalls'[d] # None =>
        /\ PostCallOK(fcalls'[d]) /\ posts'[fcalls'[d].post] # None /\ fcalls'[d].post # p
        /\ \A m \in fcalls'[d].holds : comments'[m] # None
  <2> SUFFICES ASSUME NEW d \in Calls, fcalls[d] # None
               PROVE  /\ PostCallOK(fcalls[d]) /\ posts'[fcalls[d].post] # None /\ fcalls[d].post # p
                      /\ \A m \in fcalls[d].holds : comments[m] # None
    BY <1>5
  <2>1. fcalls[d].post \in PostIds
    BY <1>1 DEF PostTypeInv, PostCall
  <2> QED
    BY <1>5, <1>6, <2>1 DEF PostsInv
<1>9. \A m \in CommentIds : comments'[m] # None =>
        posts'[comments'[m].post] # None /\ comments'[m].post # p
  <2> SUFFICES ASSUME NEW m \in CommentIds, comments[m] # None
               PROVE  posts'[comments[m].post] # None /\ comments[m].post # p
    BY <1>5
  <2>1. comments[m].post \in PostIds
    BY <1>1 DEF PostTypeInv, CommentRow
  <2> QED
    BY <1>5, <1>6, <2>1 DEF PostsInv
<1>b. \A r \in engaged' : posts'[r[3]] # None
  <2> SUFFICES ASSUME NEW r \in engaged PROVE posts'[r[3]] # None
    BY <1>5
  <2>1. r[3] \in PostIds /\ posts[r[3]] # None
    BY <1>1 DEF PostsInv, PostTypeInv
  <2> QED
    BY <1>4, <1>6, <2>1
<1>a. ASSUME postsApart' PROVE KeptApart'
  <2>0. postsApart /\ KeptApart
    BY <1>5, <1>a DEF PostsInv
  <2>1. \A d \in Calls : \A e \in Calls \ {d} :
          fcalls'[d] # None /\ fcalls'[e] # None => ~Clashes(fcalls'[d], fcalls'[e])
    BY <1>5, <2>0 DEF KeptApart
  <2>2. /\ \A q, kind : EngagedIn(kind, q)' = EngagedIn(kind, q)
        /\ \A q : LiveComments(q)' = LiveComments(q)
        /\ \A i : RowsAbout(i)' = RowsAbout(i)
    BY <1>5 DEF EngagedIn, LiveComments, RowIds, RowsAbout
  <2>3. ASSUME NEW d \in Calls, fcalls'[d] # None PROVE PostCallHolds(fcalls[d])'
    <3>1. PICK l \in PostCall : l = fcalls'[d]
      BY <1>7, <2>3 DEF PostTypeInv
    <3>2. PostCallHolds(l)
      BY <1>5, <2>0, <2>3, <3>1 DEF KeptApart
    <3>3. l.post \in PostIds /\ l.post # p
      BY <1>8, <2>3, <3>1 DEF PostCall
    <3>4. posts'[l.post] = posts[l.post]
      BY <1>6, <3>3
    <3>5. PostCallHolds(l)'
      BY <1>5, <2>2, <3>2, <3>4 DEF PostCallHolds, RowOf
    <3> QED
      BY <3>1, <3>5 DEF PostCallHolds, RowOf
  <2>4. ASSUME NEW i \in PostCounters, Open(i[2])' PROVE InBalance(i)'
    <3>1. i[1] \in CountedKinds /\ i[2] \in PostIds
      BY DEF PostCounters
    <3>2. CASE i[2] # p
      <4>1. Open(i[2]) /\ posts'[i[2]] = posts[i[2]]
        BY <1>5, <1>6, <2>4, <3>1, <3>2 DEF Open
      <4> QED
        BY <1>5, <2>0, <2>2, <4>1 DEF KeptApart, InBalance
    <3>3. CASE i[2] = p
      <4>1. \A d \in Calls : ~PostPays(fcalls'[d], i)
        BY <1>8, <3>3 DEF PostPays
      <4>2. PostOwed(fcalls', i) = 0
        <5>1. PICK f \in [Calls -> PostCall \cup {None}] : f = fcalls'
          BY <1>7 DEF PostTypeInv
        <5>2. \A d \in Calls : ~PostPays(f[d], i)
          BY <4>1, <5>1
        <5>3. PostOwed(f, i) = 0
          BY <5>2, NoPostOwed
        <5> QED
          BY <5>1, <5>3
      <4>3. posts'[i[2]].counts[i[1]] = 0
        BY <1>3, <1>6, <3>1, <3>3
      <4>4. RowsAbout(i)' \subseteq {}
        <5>1. LiveComments(p)' = {}
          BY <1>7, <1>9 DEF LiveComments, RowIds, PostTypeInv
        <5>2. EngagedIn(i[1], p)' = {}
          BY <1>5 DEF EngagedIn, PostsInv
        <5> QED
          BY <3>3, <5>1, <5>2 DEF RowsAbout
      <4>5. Cardinality(RowsAbout(i))' = 0
        BY <4>4, FS_EmptySet
      <4> QED
        BY <4>2, <4>3, <4>5 DEF InBalance
    <3> QED
      BY <3>2, <3>3
  <2> QED
    BY <2>1, <2>3, <2>4 DEF KeptApart
<1> QED
  BY <1>7, <1>8, <1>9, <1>a, <1>b DEF PostsInv

LEMMA FeedInitOK == FeedInit => PostsInv
<1> SUFFICES ASSUME FeedInit PROVE PostsInv
  OBVIOUS
<1>1. PostTypeInv
  BY DEF FeedInit, PostTypeInv
<1>2. KeptApart
  <2>1. \A i \in PostCounters : ~Open(i[2])
    BY DEF FeedInit, Open, PostCounters
  <2> QED
    BY <2>1 DEF FeedInit, KeptApart
<1> QED
  BY <1>1, <1>2 DEF FeedInit, PostsInv

LEMMA FeedNextOK == PostsInv /\ [FeedNext]_feedVars => PostsInv'
<1> SUFFICES ASSUME PostsInv, [FeedNext]_feedVars PROVE PostsInv'
  OBVIOUS
<1>1. CASE UNCHANGED feedVars
  <2>1. PostTypeInv'
    BY <1>1 DEF feedVars, PostsInv, PostTypeInv
  <2>2. ASSUME postsApart' PROVE KeptApart'
    <3>1. KeptApart
      BY <1>1, <2>2 DEF feedVars, PostsInv
    <3>2. /\ \A p, kind : EngagedIn(kind, p)' = EngagedIn(kind, p)
          /\ \A p : LiveComments(p)' = LiveComments(p)
          /\ \A i : RowsAbout(i)' = RowsAbout(i)
      BY <1>1 DEF feedVars, EngagedIn, LiveComments, RowIds, RowsAbout
    <3>3. \A d \in Calls : fcalls[d] # None => PostCallHolds(fcalls[d])'
      BY <1>1, <3>1, <3>2 DEF feedVars, KeptApart, PostCallHolds, RowOf
    <3>4. \A i \in PostCounters : Open(i[2])' => InBalance(i)'
      <4> SUFFICES ASSUME NEW i \in PostCounters, Open(i[2])' PROVE InBalance(i)'
        OBVIOUS
      <4>1. Open(i[2])
        BY <1>1 DEF feedVars, Open
      <4>2. InBalance(i)
        BY <3>1, <4>1 DEF KeptApart
      <4> QED
        BY <1>1, <3>2, <4>2 DEF feedVars, InBalance
    <3> QED
      BY <1>1, <3>1, <3>3, <3>4 DEF feedVars, KeptApart
  <2> QED
    BY <1>1, <2>1, <2>2 DEF feedVars, PostsInv
<1>2. ASSUME NEW c \in Calls, FeedStep(c) PROVE PostsInv'
  BY <1>2, WriteRowOK, PostCountsOK, ReadsOK, InsertCommentOK, CollectCommentsOK, SoftDeleteCommentsOK,
     DeletionSteps, ArchivePostOK, PostMissesOK DEF FeedStep
<1> QED
  BY <1>1, <1>2, FeedAbortOK, FeedStartsOK, CreatePostOK DEF FeedNext

(* Unless a handler broke off or went on over an error that leaves its     *)
(* trace, a user raced himself or a counter was written from an old value, *)
(* a post that no handler is about has as many likes as rows, as many      *)
(* comments as are not deleted and no more shares than rows, and a post    *)
(* about to be archived has nothing left, for any number of readers,       *)
(* comments and handlers at a time.                                        *)
THEOREM PostCountersExact == FeedSpec => []EngagementCountsAddUp
<1>1. PostsInv => EngagementCountsAddUp
  <2> SUFFICES ASSUME PostsInv, postsApart PROVE EngagementCountsAddUp
    BY DEF EngagementCountsAddUp
  <2>0. KeptApart /\ PostTypeInv
    BY DEF PostsInv
  <2>1. ASSUME NEW p \in RowIds(posts), ~posts[p].is_archived,
               \A c \in RowIds(fcalls) : fcalls[c].post # p
        PROVE  /\ posts[p].counts["like"] = Cardinality(EngagedIn("like", p))
               /\ posts[p].counts["comment"] = Cardinality(LiveComments(p))
               /\ posts[p].counts["share"] <= Cardinality(EngagedIn("share", p))
    <3>1. p \in PostIds /\ posts[p] # None
      BY <2>0 DEF RowIds, PostTypeInv
    <3>2. \A c \in Calls : fcalls[c] # None => fcalls[c].post # p
      BY <2>0, <2>1 DEF RowIds, PostTypeInv
    <3>3. Open(p)
      BY <2>1, <3>1, <3>2 DEF Open
    <3>4. ASSUME NEW kind \in CountedKinds
          PROVE  /\ posts[p].counts[kind] <= Cardinality(RowsAbout(<<kind, p>>))
                 /\ kind # "share" => posts[p].counts[kind] = Cardinality(RowsAbout(<<kind, p>>))
      <4>1. PICK i \in PostCounters : i = <<kind, p>>
        BY <3>1 DEF PostCounters
      <4>2. i[1] = kind /\ i[2] = p
        BY <4>1
      <4>3. InBalance(i)
        BY <2>0, <3>3, <4>2 DEF KeptApart
      <4>4. PostOwed(fcalls, i) = 0
        <5>1. PICK f \in [Calls -> PostCall \cup {None}] : f = fcalls
          BY <2>0 DEF PostTypeInv
        <5>2. \A d \in Calls : ~PostPays(f[d], i)
          BY <3>2, <4>2, <5>1 DEF PostPays
        <5>3. PostOwed(f, i) = 0
          BY <5>2, NoPostOwed
        <5> QED
          BY <5>1, <5>3
      <4>5. PICK n \in Nat : n = posts[p].counts[kind]
        BY <2>0, <3>1 DEF PostTypeInv, PostRow
      <4>6. PICK r \in Nat : r = Cardinality(RowsAbout(i))
        BY <2>0, EngagedFinite, LiveFinite DEF RowsAbout
      <4>7. n + 0 <= r /\ (kind # "share" => n + 0 >= r)
        BY <4>2, <4>3, <4>4, <4>5, <4>6 DEF InBalance
      <4> QED
        BY <4>1, <4>5, <4>6, <4>7
    <3>5. /\ RowsAbout(<<"like", p>>) = EngagedIn("like", p)
          /\ RowsAbout(<<"share", p>>) = EngagedIn("share", p)
          /\ RowsAbout(<<"comment", p>>) = LiveComments(p)
      BY DEF RowsAbout
    <3> QED
      BY <3>4, <3>5 DEF CountedKinds
  <2>2. ASSUME NEW c \in RowIds(fcalls), fcalls[c].at = "archive"
        PROVE  /\ \A kind \in Kinds : EngagedIn(kind, fcalls[c].post) = {}
               /\ LiveComments(fcalls[c].post) = {}
    <3>1. c \in Calls /\ fcalls[c] # None
      BY <2>0 DEF RowIds, PostTypeInv
    <3>2. PostCallHolds(fcalls[c])
      BY <2>0, <3>1 DEF KeptApart
    <3> QED
      BY <2>2, <3>2 DEF PostCallHolds, Kinds
  <2> QED
    BY <2>1, <2>2 DEF EngagementCountsAddUp
<1> QED
  BY <1>1, FeedInitOK, FeedNextOK, PTL DEF FeedSpec
=============================================================================
