----------------------------- MODULE Referrals -----------------------------
(***************************************************************************)
(* One referral post with its likes, bookmarks and comments.  A row is     *)
(* written first and counted by a stored function afterwards, whose result *)
(* nobody looks at: there is no fallback, so where the function is missing *)
(* or fails the count stays as it was.  A like taken back that was never   *)
(* given is counted as well.  Connections are in IdentityReveal.           *)
(*                                                                         *)
(* The history variable marksApart says that no two handlers of one user   *)
(* overlapped and that no count was lost.                                  *)
(***************************************************************************)
EXTENDS Handlers, Integers, FiniteSets

CONSTANTS
  Fans,          \* users who like, bookmark and comment
  CommentsMade   \* ids of comments

Marks == {"likes", "bookmarks"}
ReferralCounters == Marks \cup {"comments"}

ReferralRow == [status : {"open", "closed"}, counts : [ReferralCounters -> Nat]]
ReferralCall == [at : {"insertMark", "deleteMark", "insertRemark", "deleteRemark",
                       "count", "uncount"},
                 user : Fans, kind : ReferralCounters, id : CommentsMade \cup {None}]

ASSUME ReferralsAssumption ==
  /\ None \notin Fans \cup ReferralRow \cup ReferralCall
  /\ IsFiniteSet(Fans) /\ IsFiniteSet(CommentsMade) /\ IsFiniteSet(Calls)

VARIABLES
  referral,    \* referral_posts: [status, counts], or None once deleted
  marks,       \* referral_likes, referral_bookmarks: [Marks -> SUBSET Fans]
  remarks,     \* referral_comments: [CommentsMade -> None or the author]
  pcalls,      \* [Calls -> None or the handler in progress]
  marksApart   \* history, see above

referralVars == <<referral, marks, remarks, pcalls, marksApart>>

(* createReferral has inserted the post.                                   *)
ReferralsInit ==
  /\ referral = [status |-> "open", counts |-> [k \in ReferralCounters |-> 0]]
  /\ marks = [k \in Marks |-> {}]
  /\ remarks = [i \in CommentsMade |-> None]
  /\ pcalls = [c \in Calls |-> None]
  /\ marksApart = TRUE

PStarts(c, at, user, kind, id) ==
  /\ pcalls[c] = None
  /\ referral # None
  /\ pcalls' = [pcalls EXCEPT ![c] = [at |-> at, user |-> user, kind |-> kind, id |-> id]]
  /\ marksApart' = (marksApart /\ \A d \in RowIds(pcalls) : pcalls[d].user # user)
  /\ UNCHANGED <<referral, marks, remarks>>

PGoes(c, at) == pcalls' = [pcalls EXCEPT ![c].at = at] /\ UNCHANGED marksApart
PEnds(c)     == pcalls' = [pcalls EXCEPT ![c] = None] /\ UNCHANGED marksApart

RowsOf(kind) == IF kind = "comments" THEN Cardinality(RowIds(remarks)) ELSE Cardinality(marks[kind])

----------------------------------------------------------------------------
(* updateReferral writes a status of the client's choice.                  *)
UpdateReferral(status) ==
  /\ referral # None
  /\ referral' = [referral EXCEPT !.status = status]
  /\ UNCHANGED <<marks, remarks, pcalls, marksApart>>

(* deleteReferral: the rows go with the post.                              *)
DeleteReferral ==
  /\ referral # None
  /\ referral' = None
  /\ marks' = [k \in Marks |-> {}]
  /\ remarks' = [i \in CommentsMade |-> None]
  /\ UNCHANGED <<pcalls, marksApart>>

(* likeReferral and bookmarkReferral, unlikeReferral and removeBookmark.   *)
Mark(c, user, kind)   == PStarts(c, "insertMark", user, kind, None)
Unmark(c, user, kind) == PStarts(c, "deleteMark", user, kind, None)

InsertMarkAgain(c) ==
  /\ Waits(pcalls[c], "insertMark")
  /\ LET k == pcalls[c]
     IN IF referral = None
        THEN PEnds(c) /\ UNCHANGED marks
        ELSE marks' = [marks EXCEPT ![k.kind] = @ \cup {k.user}] /\ PGoes(c, "count")
  /\ UNCHANGED <<referral, remarks>>

(* Refused without a post, and by the unique index.                        *)
InsertMark(c) ==
  /\ Waits(pcalls[c], "insertMark")
  /\ LET k == pcalls[c]
     IN IF referral = None \/ k.user \in marks[k.kind]
        THEN PEnds(c) /\ UNCHANGED marks
        ELSE marks' = [marks EXCEPT ![k.kind] = @ \cup {k.user}] /\ PGoes(c, "count")
  /\ UNCHANGED <<referral, remarks>>

(* Deleting no row is no error.                                            *)
DeleteMark(c) ==
  /\ Waits(pcalls[c], "deleteMark")
  /\ marks' = [marks EXCEPT ![pcalls[c].kind] = @ \ {pcalls[c].user}]
  /\ PGoes(c, "uncount")
  /\ UNCHANGED <<referral, remarks>>

(* createComment and deleteComment, which reads the row and its author.    *)
CreateRemark(c, user) == PStarts(c, "insertRemark", user, "comments", None)

InsertRemark(c) ==
  /\ Waits(pcalls[c], "insertRemark")
  /\ IF referral = None
     THEN PEnds(c) /\ UNCHANGED remarks
     ELSE \E i \in FreeIds(remarks) :
            remarks' = [remarks EXCEPT ![i] = pcalls[c].user] /\ PGoes(c, "count")
  /\ UNCHANGED <<referral, marks>>

DeleteRemark(c, i) ==
  /\ remarks[i] # None
  /\ PStarts(c, "deleteRemark", remarks[i], "comments", i)

RemoveRemark(c) ==
  /\ Waits(pcalls[c], "deleteRemark")
  /\ remarks' = [remarks EXCEPT ![pcalls[c].id] = None]
  /\ PGoes(c, "uncount")
  /\ UNCHANGED <<referral, marks>>

(* The stored functions: one statement each, never below zero.             *)
Counts(c, by) ==
  /\ \/ /\ referral' = IF referral = None THEN referral
                       ELSE [referral EXCEPT !.counts[pcalls[c].kind] =
                               IF @ + by < 0 THEN 0 ELSE @ + by]
        /\ UNCHANGED marksApart
     \/ UNCHANGED referral /\ marksApart' = FALSE
  /\ pcalls' = [pcalls EXCEPT ![c] = None]
  /\ UNCHANGED <<marks, remarks>>

CountMark(c)   == Waits(pcalls[c], "count") /\ Counts(c, 1)
UncountMark(c) == Waits(pcalls[c], "uncount") /\ Counts(c, -1)

ReferralAbort(c) ==
  /\ pcalls[c] # None
  /\ pcalls' = [pcalls EXCEPT ![c] = None]
  /\ marksApart' = FALSE
  /\ UNCHANGED <<referral, marks, remarks>>

ReferralStep(c) ==
  \/ \E user \in Fans :
       CreateRemark(c, user) \/ \E kind \in Marks : Mark(c, user, kind) \/ Unmark(c, user, kind)
  \/ \E i \in CommentsMade : DeleteRemark(c, i)
  \/ InsertMark(c) \/ DeleteMark(c) \/ InsertRemark(c) \/ RemoveRemark(c)
  \/ CountMark(c) \/ UncountMark(c) \/ ReferralAbort(c)

ReferralsNext ==
  \/ DeleteReferral \/ \E status \in {"open", "closed"} : UpdateReferral(status)
  \/ \E c \in Calls : ReferralStep(c)

ReferralsSpec == ReferralsInit /\ [][ReferralsNext]_referralVars

----------------------------------------------------------------------------
(* With no handler in progress and no count lost, no count is ahead of its *)
(* rows, however likes, unlikes, comments and deletions of different users *)
(* interleave (referral-likes, referral-bookmarks and referral-comments    *)
(* services).  It may be behind: by unlikes of users who never liked, and  *)
(* by a comment deleted twice at once.                                     *)
ReferralCountsNeverLead ==
  marksApart /\ RowIds(pcalls) = {} /\ referral # None =>
    \A kind \in ReferralCounters : referral.counts[kind] <= RowsOf(kind)
=============================================================================
