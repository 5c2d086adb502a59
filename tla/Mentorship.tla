----------------------------- MODULE Mentorship -----------------------------
(***************************************************************************)
(* Mentorship requests, the relationships they open and the sessions held  *)
(* under them: three tables written by the two users, one statement at a   *)
(* time and without transactions.  Every handler reads a row, decides on   *)
(* what it read, and then updates the row by its id alone.                 *)
(*                                                                         *)
(* Left out: who has read a request (but see the handler that marks it),   *)
(* notifications, notes and ratings, next_session_at, and the totals kept  *)
(* on a mentor's profile, which no handler decides on.                     *)
(***************************************************************************)
EXTENDS Handlers, Integers, FiniteSets

CONSTANTS
  Users,
  CanMentor,      \* users whose profile lets them be asked to mentor
  SeeksMentor,    \* users whose profile lets them be offered mentoring
  Viewers,        \* users who open a request to look at it
  Requests,       \* ids of mentorship_direct_requests
  Relationships,  \* ids of mentorship_relationships
  MSessions,      \* ids of mentorship_sessions
  ClientStatuses, \* values a client puts in generalUpdates.status
  ClientCounts,   \* numbers a client puts in its total_sessions or completed_sessions
  MaxCompleted    \* bound: credits given to one relationship

VARIABLES
  requests,   \* [Requests -> None or [from, to, type, status]]
  relations,  \* [Relationships -> None or [mentor, mentee, status, total, completed]]
  meetings,   \* [MSessions -> None or [of, status]]
  mcalls,     \* [Calls -> None or the handler in progress]
  consented,  \* history: the requests (from, to, type) whose receiver accepted
  lost,       \* history: the pairs whose relationship could not be written, or was
              \* given to another pair by a general update
  edited      \* history: the columns that general updates have written, by row

mentorshipVars == <<requests, relations, meetings, mcalls, consented, lost, edited>>

Types   == {"mentor_request", "mentee_request"}
Answers == {"accept", "decline", "cancel"}
RequestStatus == {"pending", "accepted", "declined", "cancelled", "withdrawn"}
RelationStatus == {"pending", "accepted", "active", "completed", "declined", "cancelled"}
MeetingStatus  == {"scheduled", "completed", "cancelled"}

(* mentorship_direct_requests; a withdrawn request is a deleted row.       *)
Request == [from : Users, to : Users, type : Types, status : RequestStatus]
Relation == [mentor : Users, mentee : Users, status : RelationStatus, total : Int, completed : Int]
Meeting  == [of : Relationships, status : MeetingStatus]

(* The columns of a general update that other handlers rely on.            *)
Columns == {"parties", "total"}

MentorshipCall ==
  [at : {"insert"}, by : Users, to : Users, type : Types]
    \cup [at : {"relationship", "response"}, on : Requests, answer : Answers]
    \cup [at : {"withdraw", "find", "open"}, on : Requests]
    \cup [at : {"getRequest", "markRead"}, by : Users, on : Requests]
    \cup [at : {"move"}, on : Relationships, to : RelationStatus]
    \cup [at : {"rewrite"}, on : Relationships, mentor : Users, mentee : Users]
    \cup [at : {"setTotal", "setCompleted"}, on : Relationships, count : ClientCounts]
    \cup [at : {"book", "count"}, on : Relationships, total : Int]
    \cup [at : {"plan"}, on : Relationships]
    \cup [at : {"tally", "complete", "credit"}, by : Users, on : MSessions, done : Int]
    \cup [at : {"mark"}, on : MSessions, to : MeetingStatus]

ASSUME MentorshipAssumption ==
  /\ CanMentor \subseteq Users /\ SeeksMentor \subseteq Users
  /\ ClientStatuses \subseteq RelationStatus
  /\ ClientCounts \subseteq Int
  /\ IsFiniteSet(MSessions)
  /\ None \notin Request \cup Relation \cup Meeting \cup MentorshipCall

MentorshipInit ==
  /\ requests = [r \in Requests |-> None]
  /\ relations = [k \in Relationships |-> None]
  /\ meetings = [s \in MSessions |-> None]
  /\ mcalls = [c \in Calls |-> None]
  /\ consented = {}
  /\ lost = {}
  /\ edited = {}

Rows == {r \in RowIds(requests) : requests[r].status # "withdrawn"}

RolesOfBySender(q) == <<q.from, q.to>>

(* The mentor and the mentee of the relationship a request asks for.       *)
RolesOf(q) == IF q.type = "mentor_request" THEN <<q.to, q.from>> ELSE <<q.from, q.to>>

(* The relationships of a mentor and a mentee, in that order: a unique     *)
(* index keeps them to one.                                                *)
PairOf(k)      == <<relations[k].mentor, relations[k].mentee>>
RelationsOf(p) == {k \in RowIds(relations) : PairOf(k) = p}

Started(c, call) == /\ mcalls[c] = None
                    /\ mcalls' = [mcalls EXCEPT ![c] = call]
Goes(c, at)      == mcalls' = [mcalls EXCEPT ![c].at = at]
Ends(c)          == mcalls' = [mcalls EXCEPT ![c] = None]

----------------------------------------------------------------------------
(* Requests                                                                *)

(* validateDirectRequest: nobody asks himself, and the target's profile    *)
(* takes the part asked of it.                                             *)
MayAsk(u, v, type) ==
  /\ u # v
  /\ IF type = "mentor_request" THEN v \in CanMentor ELSE v \in SeeksMentor

(* checkExistingRequests: an open or accepted request in either direction  *)
(* refuses the new one.                                                    *)
Existing(u, v) ==
  {r \in Rows : /\ {requests[r].from, requests[r].to} = {u, v}
                /\ requests[r].status \in {"pending", "accepted"}}

(* The checks of sendDirectRequest.  An error of the query for existing    *)
(* requests is logged and the request goes on as if there were none.       *)
SendDirectRequest(c, u, v, type) ==
  /\ MayAsk(u, v, type)
  /\ \E readFails \in BOOLEAN : readFails \/ Existing(u, v) = {}
  /\ Started(c, [at |-> "insert", by |-> u, to |-> v, type |-> type])
  /\ UNCHANGED <<requests, relations, meetings, consented, lost, edited>>

(* The insert.  The unique index on (requester_id, target_user_id) refuses *)
(* a second row whatever the status of the first.                          *)
InsertRequest(c) ==
  /\ Waits(mcalls[c], "insert")
  /\ LET k == mcalls[c]
         taken == \E r \in Rows : requests[r].from = k.by /\ requests[r].to = k.to
     IN IF taken
        THEN UNCHANGED requests
        ELSE \E r \in FreeIds(requests) :
               requests' = [requests EXCEPT ![r] =
                 [from |-> k.by, to |-> k.to, type |-> k.type, status |-> "pending"]]
  /\ Ends(c)
  /\ UNCHANGED <<relations, meetings, consented, lost, edited>>

RespondAnswersFirst(c, u, r, answer) ==
  /\ r \in Rows
  /\ \/ u = requests[r].to /\ answer \in {"accept", "decline"}
     \/ u = requests[r].from /\ answer = "cancel"
  /\ requests[r].status = "pending"
  /\ Started(c, [at |-> "response", on |-> r, answer |-> answer])
  /\ UNCHANGED <<requests, relations, meetings, consented, lost, edited>>

(* respondToDirectRequest up to its first write: the receiver accepts or   *)
(* declines, the sender cancels, and the request has to be pending.        *)
RespondToDirectRequest(c, u, r, answer) ==
  /\ r \in Rows
  /\ \/ u = requests[r].to /\ answer \in {"accept", "decline"}
     \/ u = requests[r].from /\ answer = "cancel"
  /\ requests[r].status = "pending"
  /\ Started(c, [at |-> IF answer = "accept" THEN "relationship" ELSE "response",
                 on |-> r, answer |-> answer])
  /\ LET q == requests[r]
     IN consented' = consented \cup
          (IF answer = "accept" THEN {<<q.from, q.to, q.type>>} ELSE {})
  /\ UNCHANGED <<requests, relations, meetings, lost, edited>>

NewRelation(p) == [mentor |-> p[1], mentee |-> p[2], status |-> "active",
                   total |-> 0, completed |-> 0]

(* A row inserted for a pair, unless the pair has one.                     *)
RelationInserted(p) ==
  IF RelationsOf(p) # {}
  THEN UNCHANGED relations
  ELSE \E k \in FreeIds(relations) : relations' = [relations EXCEPT ![k] = NewRelation(p)]

(* createMentorshipRelationship: the upsert leaves an existing row alone,  *)
(* and its error is never looked at.                                       *)
CreateMentorshipRelationship(c) ==
  /\ Waits(mcalls[c], "relationship")
  /\ LET p == RolesOf(requests[mcalls[c].on])
     IN \/ /\ RelationInserted(p)
           /\ UNCHANGED lost
        \/ /\ lost' = lost \cup {p}
           /\ UNCHANGED relations
  /\ Goes(c, "response")
  /\ UNCHANGED <<requests, meetings, consented, edited>>

Answered(answer) == CASE answer = "accept"  -> "accepted"
                      [] answer = "decline" -> "declined"
                      [] answer = "cancel"  -> "cancelled"

(* The answer is written by id: the status read before is not repeated.    *)
WriteResponse(c) ==
  /\ Waits(mcalls[c], "response")
  /\ LET r == mcalls[c].on
     IN requests' = IF r \in Rows
                    THEN [requests EXCEPT ![r].status = Answered(mcalls[c].answer)]
                    ELSE requests
  /\ Ends(c)
  /\ UNCHANGED <<relations, meetings, consented, lost, edited>>

(* deleteDirectRequest: the requester deletes a request read as pending.   *)
DeleteDirectRequest(c, u, r) ==
  /\ r \in Rows
  /\ requests[r].from = u
  /\ requests[r].status = "pending"
  /\ Started(c, [at |-> "withdraw", on |-> r])
  /\ UNCHANGED <<requests, relations, meetings, consented, lost, edited>>

RemoveRequest(c) ==
  /\ Waits(mcalls[c], "withdraw")
  /\ requests' = [requests EXCEPT ![mcalls[c].on].status = "withdrawn"]
  /\ Ends(c)
  /\ UNCHANGED <<relations, meetings, consented, lost, edited>>

(* getDirectRequest and markDirectRequestAsRead, called with a user as the *)
(* controller does: each awaits the other before it does anything else, so *)
(* the only way out is a request that can no longer be read.               *)
ViewDirectRequest(c, u, r, entry) ==
  /\ Started(c, [at |-> entry, by |-> u, on |-> r])
  /\ UNCHANGED <<requests, relations, meetings, consented, lost, edited>>

GetDirectRequest(c) ==
  /\ Waits(mcalls[c], "getRequest")
  /\ LET k == mcalls[c]
         visible == k.on \in Rows /\ k.by \in {requests[k.on].from, requests[k.on].to}
     IN IF visible THEN Goes(c, "markRead") ELSE Ends(c)
  /\ UNCHANGED <<requests, relations, meetings, consented, lost, edited>>

MarkDirectRequestAsRead(c) ==
  /\ Waits(mcalls[c], "markRead")
  /\ Goes(c, "getRequest")
  /\ UNCHANGED <<requests, relations, meetings, consented, lost, edited>>

----------------------------------------------------------------------------
(* startMentorshipChat opens the relationship itself when there is none    *)

StartMentorshipChat(c, u, r) ==
  /\ r \in Rows
  /\ u \in {requests[r].from, requests[r].to}
  /\ requests[r].status = "accepted"
  /\ Started(c, [at |-> "find", on |-> r])
  /\ UNCHANGED <<requests, relations, meetings, consented, lost, edited>>

(* A relationship of the two is looked for either way round.  An error of  *)
(* the query, two rows found among them, is not looked at.                 *)
FindRelationship(c) ==
  /\ Waits(mcalls[c], "find")
  /\ LET p == RolesOf(requests[mcalls[c].on])
     IN \/ RelationsOf(p) \cup RelationsOf(<<p[2], p[1]>>) # {} /\ Ends(c)
        \/ Goes(c, "open")
  /\ UNCHANGED <<requests, relations, meetings, consented, lost, edited>>

OpenRelationship(c) ==
  /\ Waits(mcalls[c], "open")
  /\ RelationInserted(RolesOf(requests[mcalls[c].on]))
  /\ Ends(c)
  /\ UNCHANGED <<requests, meetings, consented, lost, edited>>

----------------------------------------------------------------------------
(* Relationships                                                           *)

(* What a party may make of a relationship whose status it reads: the four *)
(* actions of updateRelationshipStatus, and the two of                     *)
(* updateRelationshipDetails that write the status.                        *)
Moves(u, row) ==
  {to \in RelationStatus :
     \/ to = "accepted"  /\ row.status = "pending" /\ u = row.mentee
     \/ to = "declined"  /\ row.status = "pending"
     \/ to = "completed" /\ row.status \in {"accepted", "active"}
     \/ to = "cancelled" /\ row.status \in {"accepted", "active", "pending"}
     \/ to = "active"    /\ row.status = "accepted"
     \/ to \in ClientStatuses}

IsParty(u, k) == relations[k] # None /\ u \in {relations[k].mentor, relations[k].mentee}

UpdateRelationship(c, u, k, to) ==
  /\ IsParty(u, k)
  /\ to \in Moves(u, relations[k])
  /\ Started(c, [at |-> "move", on |-> k, to |-> to])
  /\ UNCHANGED <<requests, relations, meetings, consented, lost, edited>>

WriteRelationship(c) ==
  /\ Waits(mcalls[c], "move")
  /\ relations' = [relations EXCEPT ![mcalls[c].on].status = mcalls[c].to]
  /\ Ends(c)
  /\ UNCHANGED <<requests, meetings, consented, lost, edited>>

(* The action 'general' of updateRelationshipDetails assigns whatever      *)
(* columns the client names: here the parties or one of the two counts     *)
(* (the status is one of Moves), each in an update of its own.             *)
GeneralUpdates(k) ==
  [at : {"rewrite"}, on : {k}, mentor : Users, mentee : Users]
    \cup [at : {"setTotal", "setCompleted"}, on : {k}, count : ClientCounts]

UpdateGenerally(c, u, k, update) ==
  /\ IsParty(u, k)
  /\ Started(c, update)
  /\ UNCHANGED <<requests, relations, meetings, consented, lost, edited>>

(* The unique index refuses a pair that another row has.                   *)
WriteParties(c) ==
  /\ Waits(mcalls[c], "rewrite")
  /\ LET k == mcalls[c].on
         p == <<mcalls[c].mentor, mcalls[c].mentee>>
     IN IF RelationsOf(p) # {}
        THEN UNCHANGED <<relations, lost, edited>>
        ELSE /\ relations' = [relations EXCEPT ![k].mentor = p[1], ![k].mentee = p[2]]
             /\ lost' = lost \cup {PairOf(k)}
             /\ edited' = edited \cup {<<k, "parties">>}
  /\ Ends(c)
  /\ UNCHANGED <<requests, meetings, consented>>

WriteClientTotal(c) ==
  /\ Waits(mcalls[c], "setTotal")
  /\ relations' = [relations EXCEPT ![mcalls[c].on].total = mcalls[c].count]
  /\ edited' = edited \cup {<<mcalls[c].on, "total">>}
  /\ Ends(c)
  /\ UNCHANGED <<requests, meetings, consented, lost>>

WriteClientCompleted(c) ==
  /\ Waits(mcalls[c], "setCompleted")
  /\ relations' = [relations EXCEPT ![mcalls[c].on].completed = mcalls[c].count]
  /\ Ends(c)
  /\ UNCHANGED <<requests, meetings, consented, lost, edited>>

----------------------------------------------------------------------------
(* Sessions                                                                *)

CreateSessionCountsFirst(c, k) ==
  /\ relations[k] # None
  /\ relations[k].status \in {"accepted", "active"}
  /\ Started(c, [at |-> "count", on |-> k, total |-> relations[k].total])
  /\ UNCHANGED <<requests, relations, meetings, consented, lost, edited>>

(* createSession: status and total are read before the session is inserted.*)
CreateSession(c, k) ==
  /\ relations[k] # None
  /\ relations[k].status \in {"accepted", "active"}
  /\ Started(c, [at |-> "book", on |-> k, total |-> relations[k].total])
  /\ UNCHANGED <<requests, relations, meetings, consented, lost, edited>>

Scheduled(k) == \E s \in FreeIds(meetings) :
                  meetings' = [meetings EXCEPT ![s] = [of |-> k, status |-> "scheduled"]]

InsertSession(c) ==
  /\ Waits(mcalls[c], "book")
  /\ Scheduled(mcalls[c].on)
  /\ Goes(c, "count")
  /\ UNCHANGED <<requests, relations, consented, lost, edited>>

WriteTotal(c) ==
  /\ Waits(mcalls[c], "count")
  /\ relations' = [relations EXCEPT ![mcalls[c].on].total = mcalls[c].total + 1]
  /\ Ends(c)
  /\ UNCHANGED <<requests, meetings, consented, lost, edited>>

(* scheduleSession, the mentorship chat's own way in: an active            *)
(* relationship of the caller, and no total is kept.                       *)
ScheduleSession(c, u, k) ==
  /\ IsParty(u, k)
  /\ relations[k].status = "active"
  /\ Started(c, [at |-> "plan", on |-> k])
  /\ UNCHANGED <<requests, relations, meetings, consented, lost, edited>>

InsertPlanned(c) ==
  /\ Waits(mcalls[c], "plan")
  /\ Scheduled(mcalls[c].on)
  /\ Ends(c)
  /\ UNCHANGED <<requests, relations, consented, lost, edited>>

(* completeSession: the session is read, then the credit of its            *)
(* relationship, then the session is written, then the credit.             *)
CompleteSession(c, u, s) ==
  /\ meetings[s] # None
  /\ meetings[s].status = "scheduled"
  /\ Started(c, [at |-> "tally", by |-> u, on |-> s, done |-> 0])
  /\ UNCHANGED <<requests, relations, meetings, consented, lost, edited>>

ReadCompleted(c) ==
  /\ Waits(mcalls[c], "tally")
  /\ LET k == meetings[mcalls[c].on].of
     IN /\ relations[k].completed < MaxCompleted
        /\ IF IsParty(mcalls[c].by, k)
           THEN mcalls' = [mcalls EXCEPT ![c].at = "complete",
                                         ![c].done = relations[k].completed]
           ELSE Ends(c)
  /\ UNCHANGED <<requests, relations, meetings, consented, lost, edited>>

WriteCompleted(c) ==
  /\ Waits(mcalls[c], "complete")
  /\ meetings' = [meetings EXCEPT ![mcalls[c].on].status = "completed"]
  /\ Goes(c, "credit")
  /\ UNCHANGED <<requests, relations, consented, lost, edited>>

WriteCredit(c) ==
  /\ Waits(mcalls[c], "credit")
  /\ LET k == mcalls[c]
     IN relations' = [relations EXCEPT ![meetings[k.on].of].completed = k.done + 1]
  /\ Ends(c)
  /\ UNCHANGED <<requests, meetings, consented, lost, edited>>

(* cancelSession, rescheduleSession and the status given to updateSession  *)
(* (which asks for no party): any session not read as completed.           *)
ChangeSession(c, s, to) ==
  /\ meetings[s] # None
  /\ meetings[s].status # "completed"
  /\ Started(c, [at |-> "mark", on |-> s, to |-> to])
  /\ UNCHANGED <<requests, relations, meetings, consented, lost, edited>>

WriteSession(c) ==
  /\ Waits(mcalls[c], "mark")
  /\ meetings' = [meetings EXCEPT ![mcalls[c].on].status = mcalls[c].to]
  /\ Ends(c)
  /\ UNCHANGED <<requests, relations, consented, lost, edited>>

----------------------------------------------------------------------------
(* A statement fails, the client gets an error, or the process stops: what *)
(* was written stays and nothing more is.                                  *)
MentorshipAbort(c) ==
  /\ mcalls[c] # None
  /\ Ends(c)
  /\ UNCHANGED <<requests, relations, meetings, consented, lost, edited>>

RequestStarts(c) ==
  \/ \E u, v \in Users, type \in Types : SendDirectRequest(c, u, v, type)
  \/ \E u \in Users, r \in Requests :
       \/ \E answer \in Answers : RespondToDirectRequest(c, u, r, answer)
       \/ DeleteDirectRequest(c, u, r)
       \/ StartMentorshipChat(c, u, r)
       \/ u \in Viewers /\ \E entry \in {"getRequest", "markRead"} : ViewDirectRequest(c, u, r, entry)

RelationshipStarts(c) ==
  \E k \in Relationships :
    \/ CreateSession(c, k)
    \/ \E u \in Users : ScheduleSession(c, u, k)
    \/ \E u \in Users, to \in RelationStatus : UpdateRelationship(c, u, k, to)
    \/ \E u \in Users, update \in GeneralUpdates(k) : UpdateGenerally(c, u, k, update)

SessionStarts(c) ==
  \E s \in MSessions :
    \/ \E u \in Users : CompleteSession(c, u, s)
    \/ \E to \in MeetingStatus : ChangeSession(c, s, to)

RequestStep(c) ==
  \/ InsertRequest(c)
  \/ CreateMentorshipRelationship(c)
  \/ WriteResponse(c)
  \/ RemoveRequest(c)
  \/ GetDirectRequest(c)
  \/ MarkDirectRequestAsRead(c)
  \/ FindRelationship(c)
  \/ OpenRelationship(c)

SessionStep(c) ==
  \/ WriteRelationship(c)
  \/ WriteParties(c)
  \/ WriteClientTotal(c)
  \/ WriteClientCompleted(c)
  \/ InsertSession(c)
  \/ WriteTotal(c)
  \/ InsertPlanned(c)
  \/ ReadCompleted(c)
  \/ WriteCompleted(c)
  \/ WriteCredit(c)
  \/ WriteSession(c)

MentorshipNext ==
  \E c \in Calls :
    \/ RequestStarts(c)
    \/ RelationshipStarts(c)
    \/ SessionStarts(c)
    \/ RequestStep(c)
    \/ SessionStep(c)
    \/ MentorshipAbort(c)

MentorshipSpec == MentorshipInit /\ [][MentorshipNext]_mentorshipVars

(* A handler goes on to its next statement.                                *)
MentorshipFairSpec ==
  MentorshipSpec /\ \A c \in Calls : WF_mentorshipVars(RequestStep(c) \/ SessionStep(c))

----------------------------------------------------------------------------
(* Properties                                                              *)

MentorshipTypeOK ==
  /\ requests \in [Requests -> Request \cup {None}]
  /\ relations \in [Relationships -> Relation \cup {None}]
  /\ meetings \in [MSessions -> Meeting \cup {None}]
  /\ mcalls \in [Calls -> MentorshipCall \cup {None}]
  /\ consented \subseteq Users \X Users \X Types
  /\ lost \subseteq Users \X Users
  /\ edited \subseteq Relationships \X Columns

(* Nobody becomes a mentor or a mentee unasked: behind every relationship  *)
(* there is an acceptance, by the user asked, of a request for exactly     *)
(* these two parts, through respondToDirectRequest or startMentorshipChat. *)
(* Only a party who names other users in a general update, which takes any *)
(* column, makes a row that rests on nothing.                              *)
RelationshipRestsOnAcceptance ==
  \A k \in RowIds(relations) : <<k, "parties">> \notin edited =>
    LET row == relations[k]
    IN \/ <<row.mentee, row.mentor, "mentor_request">> \in consented
       \/ <<row.mentor, row.mentee, "mentee_request">> \in consented

(* A request shown as accepted has its relationship, unless the upsert     *)
(* whose error createMentorshipRelationship swallows failed or a general   *)
(* update gave the row to other users: whatever overlaps, the relationship *)
(* is written before the answer.                                           *)
AcceptedHasRelationship ==
  \A r \in Rows : requests[r].status = "accepted" =>
    \/ RelationsOf(RolesOf(requests[r])) # {}
    \/ RolesOf(requests[r]) \in lost

(* total_sessions, written from a value read before the insert, may miss   *)
(* sessions, but never counts one that is not there, as long as no general *)
(* update has put a number of the client's own in its place.               *)
ScheduledCountNeverLeads ==
  \A k \in RowIds(relations) : <<k, "total">> \notin edited =>
    relations[k].total <= Cardinality({s \in RowIds(meetings) : meetings[s].of = k})

(* "Retrieve details of a specific direct request" and "Mark a specific    *)
(* direct request as read": the call of a party comes back.                *)
ViewReturns ==
  \A c \in Calls : Waits(mcalls[c], "getRequest") ~> mcalls[c] = None
=============================================================================
