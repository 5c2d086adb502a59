------------------------------- MODULE Forums -------------------------------
(***************************************************************************)
(* Forums: members, topics, reactions to a topic, threads of comments, the *)
(* deletions, and the counters of each.                                    *)
(*                                                                         *)
(* A counter is changed by a function of the database, in one statement;   *)
(* when the function fails the handler writes a value it has computed from *)
(* a read made earlier, often at its very start.  Most errors are not      *)
(* looked at.  The history variable forumsExact turns FALSE at each event  *)
(* that the code leaves uncorrected: such a write while another handler of *)
(* the counter was in progress, or from a read that failed; a row that two *)
(* handlers remove; one that is not removed and counted all the same; a    *)
(* counter stopped at zero; the deletion of a comment of the feed about a  *)
(* topic, which nothing had counted; a handler that stops.  Left out:      *)
(* texts, names, views, reactions to comments, bookmarks, activity times,  *)
(* notifications and caches.                                               *)
(***************************************************************************)
EXTENDS Handlers, Integers, FiniteSets

CONSTANTS
  Authors,       \* users
  ForumIds,
  TopicIds,
  ReplyIds       \* ids of forum_comments

VARIABLES
  forums,        \* [ForumIds -> None or [is_global]]
  forumMembers,  \* forum_members: <<forum, user>>
  topics,        \* [TopicIds -> None or a row]
  reactions,     \* topic_reactions of one type: <<topic, user>>
  replies,       \* forum_comments: [ReplyIds -> None or a row]
  tally,         \* the counters, [Counters -> Nat]
  ocalls,        \* [Calls -> None or the handler in progress]
  forumsExact    \* history: nothing has been lost yet

forumVars == <<forums, forumMembers, topics, reactions, replies, tally, ocalls, forumsExact>>

Counters == ({"members", "topics"} \X ForumIds) \cup ({"reactions", "comments"} \X TopicIds)

ForumRow == [is_global : BOOLEAN]
TopicRow == [forum : ForumIds, user : Authors, is_deleted : BOOLEAN]
ReplyRow == [topic : TopicIds, user : Authors, parent : ReplyIds \cup {None},
             is_deleted : BOOLEAN]

Clearing == {"clearReactions", "deleteReplies", "deleteTopic"}
Owing    == {"readFirst", "count", "reread", "write"}

ForumCall ==
  [at : Clearing \cup Owing \cup {"addMember", "removeMember", "addTopic", "upsert",
                                  "removeReaction", "addReply", "collect", "softDelete",
                                  "feedRead", "feedWrite"},
   key : Counters \cup {None}, user : Authors, delta : Int, read : Nat, stale : BOOLEAN,
   on : TopicIds \cup ReplyIds \cup {None}, holds : SUBSET ReplyIds]

(* Ids are uuids, so that no two tables share one.                         *)
ASSUME ForumsAssumption ==
  /\ \A S \in {Calls, Authors, ForumIds, TopicIds, ReplyIds} : IsFiniteSet(S)
  /\ ForumIds \cap TopicIds = {}
  /\ None \notin Counters \cup ForumRow \cup TopicRow \cup ReplyRow \cup ForumCall

ForumsInit ==
  /\ forums = [f \in ForumIds |-> None]
  /\ forumMembers = {}
  /\ topics = [t \in TopicIds |-> None]
  /\ reactions = {}
  /\ replies = [r \in ReplyIds |-> None]
  /\ tally = [k \in Counters |-> 0]
  /\ ocalls = [c \in Calls |-> None]
  /\ forumsExact = TRUE

(* A handler: the counter it is about, by how much it changes it, the      *)
(* value it has read, and whether that may be wrong: the handler has met   *)
(* another one of the counter, or its read has failed.                     *)
OCall(at, key, u, delta) ==
  [at |-> at, key |-> key, user |-> u, delta |-> delta, read |-> 0, stale |-> FALSE,
   on |-> None, holds |-> {}]

Rivals(c, key) == {d \in RowIds(ocalls) \ {c} : ocalls[d].key = key /\ key # None}

OStarts(c, call) ==
  /\ ocalls[c] = None
  /\ ocalls' = [d \in Calls |->
       IF d = c THEN [call EXCEPT !.stale = Rivals(c, call.key) # {}]
       ELSE IF d \in Rivals(c, call.key) THEN [ocalls[d] EXCEPT !.stale = TRUE] ELSE ocalls[d]]
  /\ UNCHANGED forumsExact

OGoes(c, at) == ocalls' = [ocalls EXCEPT ![c].at = at]
OEnds(c)     == ocalls' = [ocalls EXCEPT ![c] = None]

(* An id is a uuid: it is not used again while a handler may hold it.      *)
Unused(table, id) ==
  /\ table[id] = None
  /\ \A k \in {ocalls[c] : c \in RowIds(ocalls)} : id \notin k.holds \cup {k.on}
  /\ \A c \in RowIds(ocalls) : ocalls[c].key # None => ocalls[c].key[2] # id

HasRow(key) == IF key[1] \in {"members", "topics"} THEN forums[key[2]] # None
               ELSE topics[key[2]] # None

Stored(key, value) ==
  tally' = IF HasRow(key) THEN [tally EXCEPT ![key] = IF value < 0 THEN 0 ELSE value] ELSE tally

----------------------------------------------------------------------------
(* The counters                                                            *)

(* increment_..., decrement_...: one UPDATE, never below zero.             *)
CountByFunction(c) ==
  /\ Waits(ocalls[c], "count")
  /\ LET k == ocalls[c]
     IN /\ Stored(k.key, tally[k.key] + k.delta)
        /\ forumsExact' = (forumsExact /\ tally[k.key] + k.delta >= 0)
  /\ OEnds(c)
  /\ UNCHANGED <<forums, forumMembers, topics, reactions, replies>>

(* safeRpc: the function fails.  leaveForum reads the counter only now.    *)
FunctionFails(c) ==
  /\ Waits(ocalls[c], "count")
  /\ LET leaves == ocalls[c].delta < 0 /\ ocalls[c].key[1] = "members"
     IN OGoes(c, IF leaves THEN "reread" ELSE "write")
  /\ UNCHANGED <<forums, forumMembers, topics, reactions, replies, tally, forumsExact>>

ReadCounter(c) ==
  /\ \/ Waits(ocalls[c], "reread")
     \/ Waits(ocalls[c], "readFirst")
  /\ LET k == ocalls[c]
     IN ocalls' = [ocalls EXCEPT ![c].read = tally[k.key],
                                 ![c].at = IF k.at = "reread" THEN "write" ELSE "count"]
  /\ UNCHANGED <<forums, forumMembers, topics, reactions, replies, tally, forumsExact>>

(* A read that fails answers nothing, which counts as zero, or as the one  *)
(* that leaveForum takes away; only the deletion of a comment writes no    *)
(* value then.                                                             *)
MissCounter(c) ==
  /\ \/ Waits(ocalls[c], "reread") /\ ocalls[c].key[1] # "comments"
     \/ Waits(ocalls[c], "readFirst")
  /\ ocalls' = [ocalls EXCEPT ![c].read = 0, ![c].stale = TRUE,
                              ![c].at = IF ocalls[c].at = "reread" THEN "write" ELSE "count"]
  /\ UNCHANGED <<forums, forumMembers, topics, reactions, replies, tally, forumsExact>>

WriteCounter(c) ==
  /\ Waits(ocalls[c], "write")
  /\ LET k == ocalls[c]
     IN /\ Stored(k.key, k.read + k.delta)
        /\ forumsExact' = (forumsExact /\ ~k.stale /\ k.read + k.delta >= 0)
  /\ OEnds(c)
  /\ UNCHANGED <<forums, forumMembers, topics, reactions, replies>>

----------------------------------------------------------------------------
(* Forums and their members                                                *)

CreateForum(f, global) ==
  /\ Unused(forums, f)
  /\ forums' = [forums EXCEPT ![f] = [is_global |-> global]]
  /\ UNCHANGED <<forumMembers, topics, reactions, replies, tally, ocalls, forumsExact>>

(* deleteForum, which cascades.                                            *)
DeleteForum(f) ==
  /\ forums[f] # None
  /\ LET gone == {t \in RowIds(topics) : topics[t].forum = f}
     IN /\ forums' = [forums EXCEPT ![f] = None]
        /\ forumMembers' = {m \in forumMembers : m[1] # f}
        /\ topics' = [t \in TopicIds |-> IF t \in gone THEN None ELSE topics[t]]
        /\ reactions' = {r \in reactions : r[1] \notin gone}
        /\ replies' = [r \in ReplyIds |->
             IF replies[r] # None /\ replies[r].topic \in gone THEN None ELSE replies[r]]
        /\ tally' = [k \in Counters |-> IF k[2] \in gone \cup {f} THEN 0 ELSE tally[k]]
  /\ UNCHANGED <<ocalls, forumsExact>>

JoinForum(c, f, u) ==
  /\ forums[f] # None
  /\ OStarts(c, [OCall("addMember", <<"members", f>>, u, 1)
                   EXCEPT !.read = tally[<<"members", f>>]])
  /\ UNCHANGED <<forums, forumMembers, topics, reactions, replies, tally>>

(* The look-up of the member and the unique index refuse alike.            *)
AddMember(c) ==
  /\ Waits(ocalls[c], "addMember")
  /\ LET row == <<ocalls[c].key[2], ocalls[c].user>>
     IN IF row \in forumMembers \/ forums[row[1]] = None
        THEN OEnds(c) /\ UNCHANGED forumMembers
        ELSE forumMembers' = forumMembers \cup {row} /\ OGoes(c, "count")
  /\ UNCHANGED <<forums, topics, reactions, replies, tally, forumsExact>>

LeaveForum(c, f, u) ==
  /\ forums[f] # None
  /\ <<f, u>> \in forumMembers
  /\ OStarts(c, OCall("removeMember", <<"members", f>>, u, -1))
  /\ UNCHANGED <<forums, forumMembers, topics, reactions, replies, tally>>

RemoveForumMember(c) ==
  /\ Waits(ocalls[c], "removeMember")
  /\ LET row == <<ocalls[c].key[2], ocalls[c].user>>
     IN /\ forumMembers' = forumMembers \ {row}
        /\ forumsExact' = (forumsExact /\ row \in forumMembers)
  /\ OGoes(c, "count")
  /\ UNCHANGED <<forums, topics, reactions, replies, tally>>

----------------------------------------------------------------------------
(* Topics                                                                  *)

CreateTopic(c, f, u) ==
  /\ forums[f] # None
  /\ forums[f].is_global \/ <<f, u>> \in forumMembers
  /\ OStarts(c, [OCall("addTopic", <<"topics", f>>, u, 1)
                   EXCEPT !.read = tally[<<"topics", f>>]])
  /\ UNCHANGED <<forums, forumMembers, topics, reactions, replies, tally>>

AddTopic(c) ==
  /\ Waits(ocalls[c], "addTopic")
  /\ LET f == ocalls[c].key[2]
     IN IF forums[f] = None
        THEN OEnds(c) /\ UNCHANGED topics
        ELSE /\ \E t \in TopicIds :
                  /\ Unused(topics, t)
                  /\ topics' = [topics EXCEPT ![t] =
                       [forum |-> f, user |-> ocalls[c].user, is_deleted |-> FALSE]]
             /\ OGoes(c, "count")
  /\ UNCHANGED <<forums, forumMembers, reactions, replies, tally, forumsExact>>

(* addReaction: an insert that a duplicate turns into a removal.           *)
AddReaction(c, t, u) ==
  /\ topics[t] # None
  /\ OStarts(c, OCall("upsert", <<"reactions", t>>, u, 1))
  /\ UNCHANGED <<forums, forumMembers, topics, reactions, replies, tally>>

UpsertReactionCounts(c) ==
  /\ Waits(ocalls[c], "upsert")
  /\ LET row == <<ocalls[c].key[2], ocalls[c].user>>
     IN /\ reactions' = IF topics[row[1]] = None THEN reactions ELSE reactions \cup {row}
        /\ OGoes(c, "readFirst")
  /\ UNCHANGED <<forums, forumMembers, topics, replies, tally, forumsExact>>

(* An answer without a row is taken for a row that was there: a removal,   *)
(* also when the insert has failed.                                        *)
UpsertReaction(c) ==
  /\ Waits(ocalls[c], "upsert")
  /\ LET row == <<ocalls[c].key[2], ocalls[c].user>>
         insertable == row \notin reactions /\ topics[row[1]] # None
     IN \/ /\ insertable
           /\ reactions' = reactions \cup {row}
           /\ OGoes(c, "readFirst")
        \/ /\ ocalls' = [ocalls EXCEPT ![c].at = "removeReaction", ![c].delta = -1]
           /\ UNCHANGED reactions
  /\ UNCHANGED <<forums, forumMembers, topics, replies, tally, forumsExact>>

RemoveReaction(c) ==
  /\ Waits(ocalls[c], "removeReaction")
  /\ LET row == <<ocalls[c].key[2], ocalls[c].user>>
     IN /\ reactions' = reactions \ {row}
        /\ forumsExact' = (forumsExact /\ row \in reactions)
  /\ OGoes(c, "readFirst")
  /\ UNCHANGED <<forums, forumMembers, topics, replies, tally>>

(* deleteTopic: reactions, comments, the topic; the function it then calls *)
(* to count is not in the database, which is an answer and no exception:   *)
(* topic_count stays as it is.                                             *)
DeleteTopic(c, t, u) ==
  /\ topics[t] # None
  /\ topics[t].user = u
  /\ ~topics[t].is_deleted
  /\ OStarts(c, [OCall("clearReactions", None, u, 0) EXCEPT !.on = t])
  /\ UNCHANGED <<forums, forumMembers, topics, reactions, replies, tally>>

ClearReactions(c) ==
  /\ Waits(ocalls[c], "clearReactions")
  /\ reactions' = {r \in reactions : r[1] # ocalls[c].on}
  /\ OGoes(c, "deleteReplies")
  /\ UNCHANGED <<forums, forumMembers, topics, replies, tally, forumsExact>>

SoftDeleted(ids) ==
  [r \in ReplyIds |-> IF r \in ids \cap RowIds(replies)
                      THEN [replies[r] EXCEPT !.is_deleted = TRUE] ELSE replies[r]]

DeleteReplies(c) ==
  /\ Waits(ocalls[c], "deleteReplies")
  /\ replies' = SoftDeleted({r \in RowIds(replies) : replies[r].topic = ocalls[c].on})
  /\ OGoes(c, "deleteTopic")
  /\ UNCHANGED <<forums, forumMembers, topics, reactions, tally, forumsExact>>

MarkDeleted(c) ==
  /\ Waits(ocalls[c], "deleteTopic")
  /\ LET t == ocalls[c].on
     IN topics' = IF topics[t] = None THEN topics ELSE [topics EXCEPT ![t].is_deleted = TRUE]
  /\ OEnds(c)
  /\ UNCHANGED <<forums, forumMembers, reactions, replies, tally, forumsExact>>

----------------------------------------------------------------------------
(* Comments                                                                *)

(* createComment: the topic may be deleted, the parent of another topic.   *)
CreateComment(c, t, u, parent) ==
  /\ topics[t] # None
  /\ OStarts(c, [OCall("addReply", <<"comments", t>>, u, 1)
                   EXCEPT !.read = tally[<<"comments", t>>], !.on = parent])
  /\ UNCHANGED <<forums, forumMembers, topics, reactions, replies, tally>>

AddReply(c) ==
  /\ Waits(ocalls[c], "addReply")
  /\ LET k == ocalls[c]
     IN IF topics[k.key[2]] = None \/ (k.on # None /\ replies[k.on] = None)
        THEN OEnds(c) /\ UNCHANGED replies
        ELSE /\ \E r \in ReplyIds :
                  /\ Unused(replies, r)
                  /\ replies' = [replies EXCEPT ![r] =
                       [topic |-> k.key[2], user |-> k.user, parent |-> k.on, is_deleted |-> FALSE]]
             /\ OGoes(c, "count")
  /\ UNCHANGED <<forums, forumMembers, topics, reactions, tally, forumsExact>>

LiveReplies(t) == {r \in RowIds(replies) : replies[r].topic = t /\ ~replies[r].is_deleted}

(* collectForumCommentDescendants: a walk through what is live in a topic. *)
(* It ends with the least set of ids that has r and every live reply to    *)
(* one of its own; with r alone when a read fails.                         *)
ForumDescendants(r, t) ==
  {x \in ReplyIds : \A ids \in SUBSET ReplyIds :
     r \in ids /\ {s \in LiveReplies(t) : replies[s].parent \in ids} \subseteq ids => x \in ids}

DeleteReply(c, r, u) ==
  /\ replies[r] # None
  /\ replies[r].user = u
  /\ ~replies[r].is_deleted
  /\ OStarts(c, [OCall("collect", <<"comments", replies[r].topic>>, u, 0) EXCEPT !.on = r])
  /\ UNCHANGED <<forums, forumMembers, topics, reactions, replies, tally>>

CollectReplies(c) ==
  /\ Waits(ocalls[c], "collect")
  /\ \E ids \in {ForumDescendants(ocalls[c].on, ocalls[c].key[2]), {ocalls[c].on}} :
       ocalls' = [ocalls EXCEPT ![c].at = "softDelete", ![c].holds = ids,
                                   ![c].delta = -Cardinality(ids)]
  /\ UNCHANGED <<forums, forumMembers, topics, reactions, replies, tally, forumsExact>>

(* Two deletions that hold the same comment both subtract it.              *)
SoftDeleteReplies(c) ==
  /\ Waits(ocalls[c], "softDelete")
  /\ replies' = SoftDeleted(ocalls[c].holds)
  /\ forumsExact' = (forumsExact /\ ocalls[c].holds \subseteq LiveReplies(ocalls[c].key[2]))
  /\ OGoes(c, "reread")
  /\ UNCHANGED <<forums, forumMembers, topics, reactions, tally>>

(* Statements whose errors are not looked at: the handler goes on, and     *)
(* takes off the counter what it has not removed.                          *)
MissStatement(c) ==
  /\ \/ Waits(ocalls[c], "removeReaction") /\ OGoes(c, "readFirst") /\ forumsExact' = FALSE
     \/ Waits(ocalls[c], "softDelete") /\ OGoes(c, "reread") /\ forumsExact' = FALSE
     \/ Waits(ocalls[c], "clearReactions") /\ OGoes(c, "deleteReplies") /\ UNCHANGED forumsExact
     \/ Waits(ocalls[c], "deleteReplies") /\ OGoes(c, "deleteTopic") /\ UNCHANGED forumsExact
  /\ UNCHANGED <<forums, forumMembers, topics, reactions, replies, tally>>

(* FeedEngagementService.deleteComment of comments of the feed about a     *)
(* topic, which addComment does not count.  How many there are is not      *)
(* kept: one and its replies, any number of them.                          *)
DeleteFeedComment(c, t, u) ==
  /\ topics[t] # None
  /\ \E gone \in 1 .. Cardinality(ReplyIds) :
       OStarts(c, OCall("feedRead", <<"comments", t>>, u, -gone))
  /\ UNCHANGED <<forums, forumMembers, topics, reactions, replies, tally>>

ReadTopicOfFeed(c) ==
  /\ Waits(ocalls[c], "feedRead")
  /\ ocalls' = [ocalls EXCEPT ![c].read = tally[ocalls[c].key], ![c].at = "feedWrite"]
  /\ UNCHANGED <<forums, forumMembers, topics, reactions, replies, tally, forumsExact>>

UncountInTopic(c) ==
  /\ Waits(ocalls[c], "feedWrite")
  /\ Stored(ocalls[c].key, ocalls[c].read + ocalls[c].delta)
  /\ OEnds(c)
  /\ forumsExact' = FALSE
  /\ UNCHANGED <<forums, forumMembers, topics, reactions, replies>>

ForumAbort(c) ==
  /\ ocalls[c] # None
  /\ OEnds(c)
  /\ forumsExact' = FALSE
  /\ UNCHANGED <<forums, forumMembers, topics, reactions, replies, tally>>

ForumStarts(c, u) ==
  \/ \E f \in ForumIds : JoinForum(c, f, u) \/ LeaveForum(c, f, u) \/ CreateTopic(c, f, u)
  \/ \E t \in TopicIds :
       \/ AddReaction(c, t, u) \/ DeleteTopic(c, t, u) \/ DeleteFeedComment(c, t, u)
       \/ \E parent \in RowIds(replies) \cup {None} : CreateComment(c, t, u, parent)
  \/ \E r \in ReplyIds : DeleteReply(c, r, u)

ForumStep(c) ==
  \/ CountByFunction(c)
  \/ FunctionFails(c)
  \/ ReadCounter(c)
  \/ MissCounter(c)
  \/ WriteCounter(c)
  \/ AddMember(c)
  \/ RemoveForumMember(c)
  \/ AddTopic(c)
  \/ UpsertReaction(c)
  \/ RemoveReaction(c)
  \/ ClearReactions(c)
  \/ DeleteReplies(c)
  \/ MarkDeleted(c)
  \/ AddReply(c)
  \/ CollectReplies(c)
  \/ SoftDeleteReplies(c)
  \/ MissStatement(c)
  \/ ReadTopicOfFeed(c)
  \/ UncountInTopic(c)

ForumsNext ==
  \/ \E c \in Calls : ForumStep(c) \/ ForumAbort(c) \/ \E u \in Authors : ForumStarts(c, u)
  \/ \E f \in ForumIds : DeleteForum(f) \/ \E global \in BOOLEAN : CreateForum(f, global)

ForumsSpec == ForumsInit /\ [][ForumsNext]_forumVars

----------------------------------------------------------------------------
(* The rows a counter counts.                                              *)
CountedRows(k) ==
  IF k[1] = "members" THEN {m \in forumMembers : m[1] = k[2]}
  ELSE IF k[1] = "topics" THEN {t \in RowIds(topics) : topics[t].forum = k[2]}
  ELSE IF k[1] = "reactions" THEN {r \in reactions : r[1] = k[2]}
  ELSE LiveReplies(k[2])

(* A counter of a row that is shown, which no deletion is clearing.        *)
Spoken(k) ==
  /\ HasRow(k)
  /\ k[1] \in {"reactions", "comments"} =>
       ~topics[k[2]].is_deleted /\ \A c \in RowIds(ocalls) : ocalls[c].on # k[2]

(* With handlers of different users on one counter at the same time, with  *)
(* the functions of the database in reach or not, and with walks through a *)
(* thread that fail, reactions that are not inserted and topics that keep  *)
(* what their deletion missed: as long as none of the events named at the  *)
(* top has happened, every counter that no handler is about is exact.      *)
(* topic_count counts deleted topics too; a deleted topic is not spoken of.*)
ForumCountsAddUp ==
  forumsExact =>
    \A k \in Counters :
      Spoken(k) /\ (\A c \in RowIds(ocalls) : ocalls[c].key # k) =>
        tally[k] = Cardinality(CountedRows(k))
=============================================================================
