----------------------------- MODULE Engagement -----------------------------
(***************************************************************************)
(* Posts of the feed and what users do with them: likes, reactions,        *)
(* bookmarks, shares, threads of comments, and the deletion of a post.     *)
(*                                                                         *)
(* A row of feed_likes, feed_reactions, feed_bookmarks or feed_shares is   *)
(* its key, <<kind, user, post>>.  Counters are added to by a function of  *)
(* the database; only when that call fails, or a comment is deleted, is a  *)
(* counter read by one statement and written by the next.  Few errors are  *)
(* looked at: a handler goes on over a look, an insert, a delete or a read *)
(* that failed.  The history variable postsApart says that none has done   *)
(* so, that no read and write has met another handler of the counter, that *)
(* no user raced himself, and that no handler broke off.  Left out: texts, *)
(* visibility, pins, views, reactions to comments, caches.                 *)
(***************************************************************************)
EXTENDS Handlers, Integers, FiniteSets

CONSTANTS
  Readers,      \* users
  PostIds,
  CommentIds

VARIABLES
  posts,        \* feed_posts: [PostIds -> None or a row]
  engaged,      \* feed_likes, _reactions, _bookmarks, _shares
  comments,     \* feed_comments: [CommentIds -> None or a row]
  fcalls,       \* [Calls -> None or the handler in progress]
  postsApart    \* history: no clash and no failure yet

feedVars == <<posts, engaged, comments, fcalls, postsApart>>

Kinds == {"like", "reaction", "bookmark", "share"}

CountedKinds == {"like", "share", "comment"}

PostRow    == [user : Readers, is_archived : BOOLEAN, counts : [CountedKinds -> Nat]]
CommentRow == [user : Readers, post : PostIds, parent : CommentIds \cup {None},
               is_deleted : BOOLEAN]

PostCall ==
  [at : Kinds \cup {"addRow", "removeRow", "count", "countWrite", "insertComment", "collect",
                    "softDelete", "uncount", "deleteComments", "archive"},
   kind : Kinds \cup {"comment", "all"}, user : Readers, post : PostIds, delta : Int,
   slow : BOOLEAN, count : Nat, holds : SUBSET CommentIds]

ASSUME EngagementAssumption ==
  /\ \A S \in {Calls, Readers, PostIds, CommentIds} : IsFiniteSet(S)
  /\ None \notin PostRow \cup CommentRow \cup PostCall \cup CommentIds

FeedInit ==
  /\ posts = [p \in PostIds |-> None]
  /\ engaged = {}
  /\ comments = [m \in CommentIds |-> None]
  /\ fcalls = [c \in Calls |-> None]
  /\ postsApart = TRUE

(* Two handlers clash when they are about one counter of one post and one  *)
(* of them writes it from a value read before, or both are of one user.    *)
Clashes(k, l) ==
  /\ k.post = l.post
  /\ \/ "all" \in {k.kind, l.kind}
     \/ k.kind = l.kind /\ (k.slow \/ l.slow \/ (k.kind # "comment" /\ k.user = l.user))

ClashFree(call, others) == \A d \in others : fcalls[d] = None \/ ~Clashes(fcalls[d], call)

FBecomes(c, call) ==
  /\ fcalls' = [fcalls EXCEPT ![c] = call]
  /\ postsApart' = (postsApart /\ ClashFree(call, Calls \ {c}))

FStarts(c, call) == fcalls[c] = None /\ FBecomes(c, call)
FGoes(c, at)     == FBecomes(c, [fcalls[c] EXCEPT !.at = at])
FEnds(c)         == fcalls' = [fcalls EXCEPT ![c] = None] /\ UNCHANGED postsApart

FCall(at, kind, u, p, delta) ==
  [at |-> at, kind |-> kind, user |-> u, post |-> p, delta |-> delta, slow |-> FALSE,
   count |-> 0, holds |-> {}]

NoLess(k) == IF k < 0 THEN 0 ELSE k

Counted(p, kind, value) == posts' = [posts EXCEPT ![p].counts[kind] = NoLess(value)]

----------------------------------------------------------------------------
CreatePost(u, p) ==
  /\ posts[p] = None
  /\ posts' = [posts EXCEPT ![p] = [user |-> u, is_archived |-> FALSE,
                                    counts |-> [kind \in CountedKinds |-> 0]]]
  /\ UNCHANGED <<engaged, comments, fcalls, postsApart>>

(* Over an error, which nobody looks at.                                   *)
FMisses(c, call) ==
  /\ fcalls' = [fcalls EXCEPT ![c] = call]
  /\ postsApart' = FALSE

(* The row is looked up; the post is not.                                  *)
Toggle(c, kind, u, p) ==
  /\ posts[p] # None
  /\ FStarts(c, IF <<kind, u, p>> \in engaged
                THEN FCall("removeRow", kind, u, p, -1)
                ELSE FCall("addRow", kind, u, p, 1))
  /\ UNCHANGED <<posts, engaged, comments>>

(* The look for the row of a toggle or of a share fails: as if there were  *)
(* none.                                                                   *)
MissLook(c, kind, u, p) ==
  /\ fcalls[c] = None
  /\ <<kind, u, p>> \in engaged
  /\ FMisses(c, FCall("addRow", kind, u, p, 1))
  /\ UNCHANGED <<posts, engaged, comments>>

ToggleLike(c, u, p)     == Toggle(c, "like", u, p)
ToggleReaction(c, u, p) == Toggle(c, "reaction", u, p)
ToggleBookmark(c, u, p) == Toggle(c, "bookmark", u, p)

ShareItem(c, u, p) ==
  /\ posts[p] # None
  /\ <<"share", u, p>> \notin engaged
  /\ FStarts(c, FCall("addRow", "share", u, p, 1))
  /\ UNCHANGED <<posts, engaged, comments>>

(* A share is taken back, and uncounted, whether or not there was one.     *)
UnshareItem(c, u, p) ==
  /\ posts[p] # None
  /\ FStarts(c, FCall("removeRow", "share", u, p, -1))
  /\ UNCHANGED <<posts, engaged, comments>>

(* The insert of a row that exists is refused, and nobody asks.            *)
WriteRow(c) ==
  /\ \/ Waits(fcalls[c], "addRow")
     \/ Waits(fcalls[c], "removeRow")
  /\ LET k == fcalls[c]
         row == <<k.kind, k.user, k.post>>
     IN /\ engaged' = IF k.at = "addRow" THEN engaged \cup {row} ELSE engaged \ {row}
        /\ IF k.kind \in {"like", "share"} THEN FGoes(c, "count") ELSE FEnds(c)
  /\ UNCHANGED <<posts, comments>>

(* The insert or the delete fails and is counted; of these errors only     *)
(* that of taking a share back ends the handler.                           *)
MissRow(c) ==
  /\ \/ Waits(fcalls[c], "addRow")
     \/ Waits(fcalls[c], "removeRow") /\ fcalls[c].kind # "share"
  /\ fcalls[c].kind \in {"like", "share"}
  /\ FMisses(c, [fcalls[c] EXCEPT !.at = "count"])
  /\ UNCHANGED <<posts, engaged, comments>>

(* increment_ and decrement_feed_post_..., one UPDATE.                     *)
CountInDatabase(c) ==
  /\ Waits(fcalls[c], "count")
  /\ LET k == fcalls[c] IN Counted(k.post, k.kind, posts[k.post].counts[k.kind] + k.delta)
  /\ FEnds(c)
  /\ UNCHANGED <<engaged, comments>>

(* The function is not there or fails: read, then write.                   *)
CountReads(c) ==
  /\ Waits(fcalls[c], "count")
  /\ FBecomes(c, [fcalls[c] EXCEPT !.at = "countWrite", !.slow = TRUE,
                                   !.count = posts[fcalls[c].post].counts[fcalls[c].kind]])
  /\ UNCHANGED <<posts, engaged, comments>>

(* The read fails as well, and stands for zero.                            *)
MissCount(c) ==
  /\ Waits(fcalls[c], "count")
  /\ FMisses(c, [fcalls[c] EXCEPT !.at = "countWrite", !.slow = TRUE, !.count = 0])
  /\ UNCHANGED <<posts, engaged, comments>>

CountWrites(c) ==
  /\ Waits(fcalls[c], "countWrite")
  /\ LET k == fcalls[c] IN Counted(k.post, k.kind, k.count + k.delta)
  /\ FEnds(c)
  /\ UNCHANGED <<engaged, comments>>

----------------------------------------------------------------------------
(* addComment: the post is looked up; a parent only has to exist.          *)
AddComment(c, u, p, parent) ==
  /\ posts[p] # None
  /\ FStarts(c, [FCall("insertComment", "comment", u, p, 1) EXCEPT !.holds = {parent} \ {None}])
  /\ UNCHANGED <<posts, engaged, comments>>

InsertComment(c) ==
  /\ Waits(fcalls[c], "insertComment")
  /\ \E m \in FreeIds(comments) :
       comments' = [comments EXCEPT ![m] =
         [user |-> fcalls[c].user, post |-> fcalls[c].post, is_deleted |-> FALSE,
          parent |-> IF fcalls[c].holds = {} THEN None ELSE CHOOSE q \in fcalls[c].holds : TRUE]]
  /\ FGoes(c, "count")
  /\ UNCHANGED <<posts, engaged>>

LiveComments(p) ==
  {m \in RowIds(comments) : comments[m].post = p /\ ~comments[m].is_deleted}

(* collectCommentDescendants: a walk through what is live in this post.    *)
(* It ends with the least set of ids that has m and every live reply to    *)
(* one of its own.                                                         *)
Descendants(m) ==
  {x \in CommentIds : \A ids \in SUBSET CommentIds :
     m \in ids /\ {d \in LiveComments(comments[m].post) : comments[d].parent \in ids} \subseteq ids
       => x \in ids}

DeleteComment(c, u, m) ==
  /\ comments[m] # None
  /\ comments[m].user = u
  /\ ~comments[m].is_deleted
  /\ FStarts(c, [FCall("collect", "comment", u, comments[m].post, 0)
                   EXCEPT !.slow = TRUE, !.holds = {m}])
  /\ UNCHANGED <<posts, engaged, comments>>

(* When one of its two reads fails the walk ends where it began.           *)
CollectComments(c) ==
  /\ Waits(fcalls[c], "collect")
  /\ \E ids \in {fcalls[c].holds, UNION {Descendants(m) : m \in fcalls[c].holds}} :
       FBecomes(c, [fcalls[c] EXCEPT !.at = "softDelete", !.holds = ids,
                                     !.delta = -Cardinality(ids)])
  /\ UNCHANGED <<posts, engaged, comments>>

Deleted(ids) ==
  [m \in CommentIds |-> IF m \in ids THEN [comments[m] EXCEPT !.is_deleted = TRUE] ELSE comments[m]]

(* After the comments are gone the counter is read, then written; a read   *)
(* that fails ends the handler.                                            *)
SoftDeleteComments(c) ==
  /\ Waits(fcalls[c], "softDelete")
  /\ comments' = Deleted(fcalls[c].holds)
  /\ FGoes(c, "uncount")
  /\ UNCHANGED <<posts, engaged>>

UncountReads(c) ==
  /\ Waits(fcalls[c], "uncount")
  /\ FBecomes(c, [fcalls[c] EXCEPT !.at = "countWrite",
                                   !.count = posts[fcalls[c].post].counts["comment"]])
  /\ UNCHANGED <<posts, engaged, comments>>

----------------------------------------------------------------------------
(* deletePost: the comments, then the reactions, likes, bookmarks and      *)
(* shares, and then the post is archived.  Its counters stay.              *)
DeletePost(c, u, p) ==
  /\ posts[p] # None
  /\ ~posts[p].is_archived
  /\ posts[p].user = u
  /\ FStarts(c, FCall("deleteComments", "all", u, p, 0))
  /\ UNCHANGED <<posts, engaged, comments>>

DeleteAllComments(c) ==
  /\ Waits(fcalls[c], "deleteComments")
  /\ comments' = Deleted(LiveComments(fcalls[c].post))
  /\ FGoes(c, "reaction")
  /\ UNCHANGED <<posts, engaged>>

NextKind == [reaction |-> "like", like |-> "bookmark", bookmark |-> "share", share |-> "archive"]

NextKindSkips == [NextKind EXCEPT !.like = "share"]

DeleteRowsVariant(c) ==
  /\ fcalls[c] # None
  /\ fcalls[c].at \in Kinds
  /\ engaged' = {r \in engaged : r[1] # fcalls[c].at \/ r[3] # fcalls[c].post}
  /\ FGoes(c, NextKindSkips[fcalls[c].at])
  /\ UNCHANGED <<posts, comments>>

DeleteRows(c) ==
  /\ fcalls[c] # None
  /\ fcalls[c].at \in Kinds
  /\ engaged' = {r \in engaged : r[1] # fcalls[c].at \/ r[3] # fcalls[c].post}
  /\ FGoes(c, NextKind[fcalls[c].at])
  /\ UNCHANGED <<posts, comments>>

(* The comments are not found or not deleted, or the rows are not; the     *)
(* post is archived all the same.                                          *)
MissAllComments(c) ==
  /\ Waits(fcalls[c], "deleteComments")
  /\ FMisses(c, [fcalls[c] EXCEPT !.at = "reaction"])
  /\ UNCHANGED <<posts, engaged, comments>>

MissRows(c) ==
  /\ fcalls[c] # None
  /\ fcalls[c].at \in Kinds
  /\ FMisses(c, [fcalls[c] EXCEPT !.at = NextKind[fcalls[c].at]])
  /\ UNCHANGED <<posts, engaged, comments>>

ArchivePost(c) ==
  /\ Waits(fcalls[c], "archive")
  /\ posts' = [posts EXCEPT ![fcalls[c].post].is_archived = TRUE]
  /\ FEnds(c)
  /\ UNCHANGED <<engaged, comments>>

FeedAbort(c) ==
  /\ fcalls[c] # None
  /\ fcalls' = [fcalls EXCEPT ![c] = None]
  /\ postsApart' = FALSE
  /\ UNCHANGED <<posts, engaged, comments>>

FeedStarts(c, u) ==
  \/ \E p \in PostIds :
       \/ ToggleLike(c, u, p) \/ ToggleReaction(c, u, p) \/ ToggleBookmark(c, u, p)
       \/ \E kind \in Kinds : MissLook(c, kind, u, p)
       \/ ShareItem(c, u, p) \/ UnshareItem(c, u, p) \/ DeletePost(c, u, p)
       \/ \E parent \in RowIds(comments) \cup {None} : AddComment(c, u, p, parent)
  \/ \E m \in CommentIds : DeleteComment(c, u, m)

FeedStep(c) ==
  \/ WriteRow(c)
  \/ MissRow(c)
  \/ CountInDatabase(c)
  \/ CountReads(c)
  \/ MissCount(c)
  \/ CountWrites(c)
  \/ InsertComment(c)
  \/ CollectComments(c)
  \/ SoftDeleteComments(c)
  \/ UncountReads(c)
  \/ DeleteAllComments(c)
  \/ MissAllComments(c)
  \/ DeleteRows(c)
  \/ MissRows(c)
  \/ ArchivePost(c)

FeedNext ==
  \/ \E c \in Calls : FeedStep(c) \/ FeedAbort(c) \/ \E u \in Readers : FeedStarts(c, u)
  \/ \E u \in Readers, p \in PostIds : CreatePost(u, p)

FeedSpec == FeedInit /\ [][FeedNext]_feedVars

----------------------------------------------------------------------------
\* The rows of one kind about a post.
EngagedIn(kind, p) == {r \in engaged : r[1] = kind /\ r[3] = p}

(* However the handlers of different users overlap, with the functions of  *)
(* the database in reach or not, and with walks through a thread cut short *)
(* by a failed read: a post has as many likes as rows and as many comments *)
(* as are not deleted, and no more shares than rows (a share taken back    *)
(* twice is uncounted twice), unless a handler broke off or went on over   *)
(* another error (feed-engagement.service.ts:59, 1180, 1202 and 1225 and   *)
(* feed-posts.service.ts:479), a user raced himself or a counter was       *)
(* written from an old value.  Under the same condition, what was posted   *)
(* before a deletion of the post is gone with it, except what came to the  *)
(* archived post later, which no handler refuses: so nothing is left at    *)
(* the moment of archiving.                                                *)
EngagementCountsAddUp ==
  postsApart =>
    /\ \A p \in RowIds(posts) :
         (~posts[p].is_archived /\ \A c \in RowIds(fcalls) : fcalls[c].post # p) =>
           /\ posts[p].counts["like"] = Cardinality(EngagedIn("like", p))
           /\ posts[p].counts["comment"] = Cardinality(LiveComments(p))
           /\ posts[p].counts["share"] <= Cardinality(EngagedIn("share", p))
    /\ \A c \in RowIds(fcalls) :
         fcalls[c].at = "archive" =>
           /\ \A kind \in Kinds : EngagedIn(kind, fcalls[c].post) = {}
           /\ LiveComments(fcalls[c].post) = {}
=============================================================================
