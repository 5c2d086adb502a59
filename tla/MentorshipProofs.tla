-------------------------- MODULE MentorshipProofs --------------------------
(***************************************************************************)
(* For any users, requests, sessions and number of calls at a time: the    *)
(* mentorship services are type correct, open no relationship without an   *)
(* acceptance, show no accepted request without its relationship and count *)
(* no session that is not there, but for what a general update, which      *)
(* takes any column of the client, has written into a row.                 *)
(*                                                                         *)
(* A call decides by a row it read some statements ago.  CallOK says what  *)
(* of that still holds when it writes: requests keep their parties, a pair *)
(* keeps a relationship or is on record as having lost it, histories       *)
(* and sessions only grow, so what one call relies on survives the steps   *)
(* of all others.                                                          *)
(***************************************************************************)
EXTENDS Mentorship, FiniteSetTheorems, TLAPS

(* The acceptance behind a request's relationship.                         *)
Triple(q)  == <<q.from, q.to, q.type>>
Agreed(q)  == Triple(q) \in consented
Found(p)   == RelationsOf(p) # {} \/ p \in lost
Backed(q)  == Found(RolesOf(q))
Rests(p)   == \/ <<p[2], p[1], "mentor_request">> \in consented
              \/ <<p[1], p[2], "mentee_request">> \in consented
Held(k)    == {s \in RowIds(meetings) : meetings[s].of = k}

(* A number that counts sessions of a row, or takes after a client's own.  *)
Counts(n, k) == <<k, "total">> \in edited \/ n <= Cardinality(Held(k))

RequestOK(r) ==
  requests[r] # None /\ requests[r].status = "accepted" =>
    Agreed(requests[r]) /\ Backed(requests[r])

RelationOK(k) ==
  relations[k] # None =>
    /\ <<k, "parties">> \in edited \/ Rests(PairOf(k))
    /\ Counts(relations[k].total, k)

MeetingOK(s) ==
  meetings[s] # None => relations[meetings[s].of] # None

OnRequest  == {"relationship", "response", "withdraw", "find", "open"}
OnRelation == {"move", "rewrite", "setTotal", "setCompleted", "book", "count", "plan"}
OnMeeting  == {"tally", "complete", "credit", "mark"}

CallOK(c) ==
  mcalls[c] # None =>
    LET k == mcalls[c]
    IN /\ k.at \in OnRequest => k.on \in Requests /\ requests[k.on] # None
       /\ k.at \in {"find", "open"} => Agreed(requests[k.on])
       /\ k.at = "relationship" => k.answer = "accept"
       /\ k.at \in {"relationship", "response"} /\ k.answer = "accept" => Agreed(requests[k.on])
       /\ k.at = "response" /\ k.answer = "accept" => Backed(requests[k.on])
       /\ k.at \in OnRelation => k.on \in Relationships /\ relations[k.on] # None
       /\ k.at = "book" => Counts(k.total, k.on)
       /\ k.at = "count" => Counts(k.total + 1, k.on)
       /\ k.at \in OnMeeting => k.on \in MSessions /\ meetings[k.on] # None

RowsInv == /\ \A r \in Requests : RequestOK(r)
           /\ \A k \in Relationships : RelationOK(k)
           /\ \A s \in MSessions : MeetingOK(s)

IndInv == MentorshipTypeOK /\ RowsInv /\ \A c \in Calls : CallOK(c)

----------------------------------------------------------------------------
(* What every step keeps.                                                  *)
Kept ==
  /\ \A r \in Requests : requests[r] # None =>
       /\ requests'[r] # None
       /\ requests'[r].from = requests[r].from
       /\ requests'[r].to = requests[r].to
       /\ requests'[r].type = requests[r].type
  /\ \A k \in Relationships : relations[k] # None => relations'[k] # None
  /\ \A p \in Users \X Users : Found(p) => Found(p)'
  /\ \A s \in MSessions : meetings[s] # None =>
       meetings'[s] # None /\ meetings'[s].of = meetings[s].of
  /\ consented \subseteq consented'
  /\ edited \subseteq edited'

(* Sessions are never deleted, so a row's only grow in number.             *)
LEMMA HeldGrows ==
  ASSUME MentorshipTypeOK, MentorshipTypeOK', Kept, NEW k
  PROVE  /\ Cardinality(Held(k)) \in Nat
         /\ Cardinality(Held(k))' \in Nat
         /\ Cardinality(Held(k)) <= Cardinality(Held(k))'
<1>1. Held(k) \subseteq MSessions /\ Held(k)' \subseteq MSessions
  BY DEF Held, RowIds, MentorshipTypeOK
<1>2. IsFiniteSet(Held(k)) /\ IsFiniteSet(Held(k)')
  BY <1>1, MentorshipAssumption, FS_Subset
<1>3. Held(k) \subseteq Held(k)'
  BY <1>1 DEF Held, RowIds, MentorshipTypeOK, Kept
<1>4. Cardinality(Held(k)) <= Cardinality(Held(k)')
  BY <1>2, <1>3, FS_Subset
<1> QED
  BY <1>2, <1>4, FS_CardinalityType

(* So a number that counted sessions of a row goes on counting them.       *)
LEMMA CountStands ==
  ASSUME MentorshipTypeOK, MentorshipTypeOK', Kept, NEW k, NEW n \in Int, Counts(n, k)
  PROVE  \/ <<k, "total">> \in edited'
         \/ n <= Cardinality(Held(k))'
<1>1. /\ Cardinality(Held(k)) \in Nat /\ Cardinality(Held(k))' \in Nat
      /\ Cardinality(Held(k)) <= Cardinality(Held(k))'
  BY HeldGrows
<1> QED
  BY <1>1 DEF Counts, Kept

(* The parties of a stored request are two users.                          *)
LEMMA PartiesOfRequest ==
  ASSUME MentorshipTypeOK, NEW r \in Requests, requests[r] # None
  PROVE  RolesOf(requests[r]) \in Users \X Users
BY DEF MentorshipTypeOK, Request, RolesOf

(* A request that is backed and agreed to stays so.                        *)
LEMMA RequestStands ==
  ASSUME MentorshipTypeOK, Kept, NEW r \in Requests, requests[r] # None
  PROVE  /\ Agreed(requests[r]) => Agreed(requests[r])'
         /\ Backed(requests[r]) => Backed(requests[r])'
<1>1. RolesOf(requests'[r]) = RolesOf(requests[r]) /\ Triple(requests'[r]) = Triple(requests[r])
  BY DEF Kept, RolesOf, Triple
<1>2. RolesOf(requests[r]) \in Users \X Users
  BY PartiesOfRequest
<1> QED
  BY <1>1, <1>2 DEF Kept, Agreed, Backed

(* A call keeps what it may rely on through the steps of the other calls.  *)
LEMMA OtherCalls ==
  ASSUME MentorshipTypeOK, MentorshipTypeOK', RowsInv, Kept,
         NEW d \in Calls, CallOK(d), mcalls'[d] = mcalls[d]
  PROVE  CallOK(d)'
<1> SUFFICES ASSUME mcalls[d] # None
             PROVE  CallOK(d)'
  BY DEF CallOK
<1> DEFINE k == mcalls[d]
<1>1. k.at \in OnRequest =>
        /\ k.on \in Requests /\ requests[k.on] # None /\ requests'[k.on] # None
        /\ Agreed(requests[k.on]) => Agreed(requests[k.on])'
        /\ Backed(requests[k.on]) => Backed(requests[k.on])'
  BY RequestStands DEF CallOK, Kept, RowsInv
<1>2. k.at \in OnRelation => k.on \in Relationships /\ relations'[k.on] # None
  BY DEF CallOK, Kept
<1>3. k.at \in OnMeeting => k.on \in MSessions /\ meetings'[k.on] # None
  BY DEF CallOK, Kept
<1>4. k.at \in {"book", "count"} => k.total \in Int
  BY DEF MentorshipTypeOK, MentorshipCall
<1> PICK on : on = k.on
  OBVIOUS
<1>5. k.at = "book" => <<on, "total">> \in edited' \/ k.total <= Cardinality(Held(on))'
  BY <1>4, CountStands DEF CallOK
<1>6. k.at = "count" => <<on, "total">> \in edited' \/ k.total + 1 <= Cardinality(Held(on))'
  BY <1>4, CountStands DEF CallOK
<1> QED
  BY <1>1, <1>2, <1>3, <1>5, <1>6 DEF CallOK, OnRequest, Counts

(* A row nobody has written to stays right.                                *)
LEMMA RowsStand ==
  ASSUME MentorshipTypeOK, MentorshipTypeOK', RowsInv, Kept
  PROVE  /\ \A r \in Requests : requests'[r] = requests[r] => RequestOK(r)'
         /\ \A k \in Relationships : relations'[k] = relations[k] => RelationOK(k)'
         /\ \A s \in MSessions : meetings'[s] = meetings[s] => MeetingOK(s)'
<1>1. ASSUME NEW r \in Requests, requests'[r] = requests[r], requests[r] # None
      PROVE  RequestOK(r)'
  BY <1>1, RequestStands DEF RowsInv, RequestOK
<1>2. ASSUME NEW k \in Relationships, relations'[k] = relations[k], relations[k] # None
      PROVE  RelationOK(k)'
  <2>1. <<k, "parties">> \in edited' \/ Rests(PairOf(k))'
    BY <1>2 DEF RowsInv, RelationOK, Rests, PairOf, Kept
  <2>2. relations[k].total \in Int
    BY <1>2 DEF MentorshipTypeOK, Relation
  <2>3. <<k, "total">> \in edited' \/ relations[k].total <= Cardinality(Held(k))'
    BY <1>2, <2>2, CountStands DEF RowsInv, RelationOK
  <2> QED
    BY <1>2, <2>1, <2>3 DEF RelationOK, Counts
<1>3. ASSUME NEW s \in MSessions, meetings'[s] = meetings[s], meetings[s] # None
      PROVE  MeetingOK(s)'
  BY <1>3 DEF RowsInv, MeetingOK, Kept, MentorshipTypeOK, Meeting
<1> QED
  BY <1>1, <1>2, <1>3 DEF RequestOK, RelationOK, MeetingOK

(* A step of call c is right when the rows it changes are, and what c      *)
(* remembers is.                                                           *)
LEMMA StepOfCall ==
  ASSUME IndInv, Kept, MentorshipTypeOK',
         NEW c \in Calls, NEW k, mcalls' = [mcalls EXCEPT ![c] = k], CallOK(c)',
         \A r \in Requests : requests'[r] = requests[r] \/ RequestOK(r)',
         \A j \in Relationships : relations'[j] = relations[j] \/ RelationOK(j)',
         \A s \in MSessions : meetings'[s] = meetings[s] \/ MeetingOK(s)'
  PROVE  IndInv'
<1>1. \A d \in Calls : d # c => mcalls'[d] = mcalls[d]
  BY DEF IndInv, MentorshipTypeOK
<1>2. \A d \in Calls : d # c => CallOK(d)'
  BY <1>1, OtherCalls DEF IndInv
<1>3. RowsInv'
  BY RowsStand DEF RowsInv, IndInv
<1> QED
  BY <1>2, <1>3 DEF IndInv

(* Nobody loses a relationship while relations is left alone.              *)
LEMMA FoundStays ==
  ASSUME UNCHANGED <<relations, lost>>
  PROVE  \A p \in Users \X Users : Found(p) => Found(p)'
BY DEF Found, RelationsOf, PairOf, RowIds

tables == <<requests, relations, meetings, consented, lost, edited>>

(* A step that only reads the tables needs no more than its own call right.*)
LEMMA ReadingStep ==
  ASSUME IndInv, UNCHANGED tables,
         NEW c \in Calls, NEW k \in MentorshipCall \cup {None},
         mcalls' = [mcalls EXCEPT ![c] = k], CallOK(c)'
  PROVE  IndInv'
<1>1. Kept
  BY FoundStays DEF Kept, tables
<1>2. MentorshipTypeOK'
  BY DEF IndInv, MentorshipTypeOK, tables
<1> QED
  BY <1>1, <1>2, StepOfCall DEF tables

(* A call that ends leaves nothing to be right about.                      *)
LEMMA EndedCall ==
  ASSUME MentorshipTypeOK, NEW c \in Calls, Ends(c)
  PROVE  mcalls' = [mcalls EXCEPT ![c] = None] /\ CallOK(c)'
BY DEF Ends, CallOK, MentorshipTypeOK

LEMMA EndingStep ==
  ASSUME IndInv, UNCHANGED tables, NEW c \in Calls, Ends(c)
  PROVE  IndInv'
BY EndedCall, ReadingStep DEF IndInv

(* The shape of a call in progress, by the statement it waits for.         *)
LEMMA ShapeOfCall ==
  ASSUME MentorshipTypeOK, NEW c \in Calls, mcalls[c] # None
  PROVE  LET k == mcalls[c]
         IN /\ k.at = "insert" => k \in [at : {"insert"}, by : Users, to : Users, type : Types]
            /\ k.at \in {"relationship", "response"} =>
                 k \in [at : {"relationship", "response"}, on : Requests, answer : Answers]
            /\ k.at \in {"withdraw", "find", "open"} =>
                 k \in [at : {"withdraw", "find", "open"}, on : Requests]
            /\ k.at \in {"getRequest", "markRead"} =>
                 k \in [at : {"getRequest", "markRead"}, by : Users, on : Requests]
            /\ k.at = "move" => k \in [at : {"move"}, on : Relationships, to : RelationStatus]
            /\ k.at = "rewrite" =>
                 k \in [at : {"rewrite"}, on : Relationships, mentor : Users, mentee : Users]
            /\ k.at \in {"setTotal", "setCompleted"} =>
                 k \in [at : {"setTotal", "setCompleted"}, on : Relationships, count : ClientCounts]
            /\ k.at \in {"book", "count"} => k \in [at : {"book", "count"}, on : Relationships, total : Int]
            /\ k.at = "plan" => k \in [at : {"plan"}, on : Relationships]
            /\ k.at \in {"tally", "complete", "credit"} =>
                 k \in [at : {"tally", "complete", "credit"}, by : Users, on : MSessions, done : Int]
            /\ k.at = "mark" => k \in [at : {"mark"}, on : MSessions, to : MeetingStatus]
<1>1. mcalls[c] \in MentorshipCall
  BY DEF MentorshipTypeOK
<1> QED
  BY <1>1 DEF MentorshipCall
----------------------------------------------------------------------------
(* Handlers that begin.                                                    *)

(* Every handler but the answer to a request begins by reading.            *)
LEMMA BeginsByReading ==
  ASSUME IndInv, UNCHANGED tables, NEW c \in Calls, NEW k \in MentorshipCall, Started(c, k),
         mcalls'[c] = k => CallOK(c)'
  PROVE  IndInv'
<1>1. mcalls'[c] = k
  BY DEF IndInv, MentorshipTypeOK, Started
<1> QED
  BY <1>1, ReadingStep DEF Started

LEMMA RequestStartsStep ==
  ASSUME IndInv, NEW c \in Calls, RequestStarts(c)
  PROVE  IndInv'
<1> USE DEF tables
<1>1. ASSUME NEW u \in Users, NEW v \in Users, NEW type \in Types, SendDirectRequest(c, u, v, type)
      PROVE  IndInv'
  <2>1. [at |-> "insert", by |-> u, to |-> v, type |-> type] \in MentorshipCall
    BY DEF MentorshipCall
  <2> QED
    BY <1>1, <2>1, BeginsByReading
       DEF SendDirectRequest, CallOK, OnRequest, OnRelation, OnMeeting
<1>2. ASSUME NEW u \in Users, NEW r \in Requests, NEW answer \in Answers,
             RespondToDirectRequest(c, u, r, answer)
      PROVE  IndInv'
  <2> DEFINE k == [at |-> IF answer = "accept" THEN "relationship" ELSE "response",
                   on |-> r, answer |-> answer]
  <2>1. requests[r] # None /\ requests[r] \in Request
    BY <1>2 DEF RespondToDirectRequest, Rows, RowIds, IndInv, MentorshipTypeOK
  <2>2. /\ UNCHANGED <<requests, relations, meetings, lost, edited>>
        /\ consented \subseteq consented' /\ consented' \subseteq consented \cup {Triple(requests[r])}
        /\ answer = "accept" => Agreed(requests[r])'
    BY <1>2 DEF RespondToDirectRequest, Agreed, Triple
  <2>3. Kept
    BY <2>2, FoundStays DEF Kept
  <2>4. k \in MentorshipCall /\ mcalls' = [mcalls EXCEPT ![c] = k]
    BY <1>2 DEF RespondToDirectRequest, Started, MentorshipCall
  <2>5. mcalls'[c] = k
    BY <2>4 DEF IndInv, MentorshipTypeOK
  <2>6. MentorshipTypeOK'
    BY <2>1, <2>2, <2>4 DEF IndInv, MentorshipTypeOK, Triple, Request
  <2>7. CallOK(c)'
    BY <2>1, <2>2, <2>5 DEF CallOK, OnRequest, OnRelation, OnMeeting
  <2> QED
    BY <2>2, <2>3, <2>4, <2>6, <2>7, StepOfCall
<1>3. ASSUME NEW u \in Users, NEW r \in Requests, DeleteDirectRequest(c, u, r)
      PROVE  IndInv'
  <2>1. [at |-> "withdraw", on |-> r] \in MentorshipCall
    BY DEF MentorshipCall
  <2>2. requests'[r] # None
    BY <1>3 DEF DeleteDirectRequest, Rows, RowIds
  <2> QED
    BY <1>3, <2>1, <2>2, BeginsByReading
       DEF DeleteDirectRequest, CallOK, OnRequest, OnRelation, OnMeeting
<1>4. ASSUME NEW u \in Users, NEW r \in Requests, StartMentorshipChat(c, u, r)
      PROVE  IndInv'
  <2>1. [at |-> "find", on |-> r] \in MentorshipCall
    BY DEF MentorshipCall
  <2>2. requests'[r] # None /\ Agreed(requests[r])'
    BY <1>4 DEF StartMentorshipChat, Rows, RowIds, IndInv, RowsInv, RequestOK, Agreed
  <2> QED
    BY <1>4, <2>1, <2>2, BeginsByReading
       DEF StartMentorshipChat, CallOK, OnRequest, OnRelation, OnMeeting
<1>5. ASSUME NEW u \in Users, NEW r \in Requests, NEW entry \in {"getRequest", "markRead"},
             ViewDirectRequest(c, u, r, entry)
      PROVE  IndInv'
  <2>1. [at |-> entry, by |-> u, on |-> r] \in MentorshipCall
    BY DEF MentorshipCall
  <2> QED
    BY <1>5, <2>1, BeginsByReading
       DEF ViewDirectRequest, CallOK, OnRequest, OnRelation, OnMeeting
<1> QED
  BY <1>1, <1>2, <1>3, <1>4, <1>5 DEF RequestStarts

LEMMA RelationshipStartsStep ==
  ASSUME IndInv, NEW c \in Calls, RelationshipStarts(c)
  PROVE  IndInv'
<1> USE DEF tables
<1> PICK p \in Relationships :
         \/ CreateSession(c, p)
         \/ \E u \in Users : ScheduleSession(c, u, p)
         \/ \E u \in Users, to \in RelationStatus : UpdateRelationship(c, u, p, to)
         \/ \E u \in Users, update \in GeneralUpdates(p) : UpdateGenerally(c, u, p, update)
  BY DEF RelationshipStarts
<1>1. CASE CreateSession(c, p)
  <2>1. relations[p] # None /\ relations[p].total \in Int /\ relations'[p] # None
    BY <1>1 DEF CreateSession, IndInv, MentorshipTypeOK, Relation
  <2>2. [at |-> "book", on |-> p, total |-> relations[p].total] \in MentorshipCall
    BY <2>1 DEF MentorshipCall
  <2>3. Counts(relations[p].total, p)'
    BY <1>1, <2>1 DEF CreateSession, IndInv, RowsInv, RelationOK, Counts, Held, RowIds
  <2> QED
    BY <1>1, <2>1, <2>2, <2>3, BeginsByReading
       DEF CreateSession, CallOK, OnRequest, OnRelation, OnMeeting
<1>2. ASSUME NEW u \in Users, ScheduleSession(c, u, p)
      PROVE  IndInv'
  <2>1. [at |-> "plan", on |-> p] \in MentorshipCall /\ relations'[p] # None
    BY <1>2 DEF MentorshipCall, ScheduleSession, IsParty
  <2> QED
    BY <1>2, <2>1, BeginsByReading
       DEF ScheduleSession, CallOK, OnRequest, OnRelation, OnMeeting
<1>3. ASSUME NEW u \in Users, NEW to \in RelationStatus, UpdateRelationship(c, u, p, to)
      PROVE  IndInv'
  <2>1. [at |-> "move", on |-> p, to |-> to] \in MentorshipCall /\ relations'[p] # None
    BY <1>3 DEF MentorshipCall, UpdateRelationship, IsParty
  <2> QED
    BY <1>3, <2>1, BeginsByReading
       DEF UpdateRelationship, CallOK, OnRequest, OnRelation, OnMeeting
<1>4. ASSUME NEW u \in Users, NEW update \in GeneralUpdates(p), UpdateGenerally(c, u, p, update)
      PROVE  IndInv'
  <2>1. update \in MentorshipCall /\ update.at \in {"rewrite", "setTotal", "setCompleted"} /\ update.on = p
    BY DEF GeneralUpdates, MentorshipCall
  <2>2. relations'[p] # None
    BY <1>4 DEF UpdateGenerally, IsParty
  <2> QED
    BY <1>4, <2>1, <2>2, BeginsByReading
       DEF UpdateGenerally, CallOK, OnRequest, OnRelation, OnMeeting
<1> QED
  BY <1>1, <1>2, <1>3, <1>4

LEMMA SessionStartsStep ==
  ASSUME IndInv, NEW c \in Calls, SessionStarts(c)
  PROVE  IndInv'
<1> USE DEF tables
<1>1. ASSUME NEW s \in MSessions, NEW u \in Users, CompleteSession(c, u, s)
      PROVE  IndInv'
  <2>1. [at |-> "tally", by |-> u, on |-> s, done |-> 0] \in MentorshipCall /\ meetings'[s] # None
    BY <1>1 DEF MentorshipCall, CompleteSession
  <2> QED
    BY <1>1, <2>1, BeginsByReading
       DEF CompleteSession, CallOK, OnRequest, OnRelation, OnMeeting
<1>2. ASSUME NEW s \in MSessions, NEW to \in MeetingStatus, ChangeSession(c, s, to)
      PROVE  IndInv'
  <2>1. [at |-> "mark", on |-> s, to |-> to] \in MentorshipCall /\ meetings'[s] # None
    BY <1>2 DEF MentorshipCall, ChangeSession
  <2> QED
    BY <1>2, <2>1, BeginsByReading
       DEF ChangeSession, CallOK, OnRequest, OnRelation, OnMeeting
<1> QED
  BY <1>1, <1>2 DEF SessionStarts
----------------------------------------------------------------------------
(* Handlers that go on.                                                    *)

LEMMA InsertRequestStep ==
  ASSUME IndInv, NEW c \in Calls, InsertRequest(c)
  PROVE  IndInv'
<1> DEFINE k == mcalls[c]
<1>1. k # None /\ k.by \in Users /\ k.to \in Users /\ k.type \in Types
  BY ShapeOfCall DEF IndInv, InsertRequest, Waits
<1>2. CASE UNCHANGED requests
  BY <1>2, EndingStep DEF InsertRequest, tables
<1>3. ASSUME NEW r \in FreeIds(requests),
             requests' = [requests EXCEPT ![r] =
               [from |-> k.by, to |-> k.to, type |-> k.type, status |-> "pending"]]
      PROVE  IndInv'
  <2>1. r \in Requests /\ requests[r] = None
    BY <1>3 DEF FreeIds, RowIds, IndInv, MentorshipTypeOK
  <2>2. [from |-> k.by, to |-> k.to, type |-> k.type, status |-> "pending"] \in Request
    BY <1>1 DEF Request, RequestStatus
  <2>3. mcalls' = [mcalls EXCEPT ![c] = None] /\ CallOK(c)'
    BY EndedCall DEF InsertRequest, IndInv
  <2>4. MentorshipTypeOK'
    BY <1>3, <2>1, <2>2, <2>3 DEF InsertRequest, IndInv, MentorshipTypeOK
  <2>5. Kept
    BY <1>3, <2>1, FoundStays DEF Kept, InsertRequest, IndInv, MentorshipTypeOK
  <2>6. \A q \in Requests : requests'[q] = requests[q] \/ RequestOK(q)'
    BY <1>1, <1>3, <2>1 DEF RequestOK, IndInv, MentorshipTypeOK
  <2> QED
    BY <2>3, <2>4, <2>5, <2>6, StepOfCall DEF InsertRequest
<1> QED
  BY <1>2, <1>3 DEF InsertRequest

(* An acceptance is one for the two parts of the relationship.             *)
LEMMA AgreedRests ==
  ASSUME NEW r \in Requests, requests[r] \in Request, Agreed(requests[r])
  PROVE  Rests(RolesOf(requests[r]))
BY DEF Agreed, Rests, RolesOf, Triple, Request, Types

(* A relationship opened for a pair that has agreed to it.                 *)
LEMMA OpenedRelation ==
  ASSUME IndInv, NEW p \in Users \X Users, Rests(p), RelationInserted(p),
         UNCHANGED <<requests, meetings, consented, lost, edited>>,
         mcalls' \in [Calls -> MentorshipCall \cup {None}]
  PROVE  /\ MentorshipTypeOK'
         /\ Kept
         /\ Found(p)'
         /\ \A j \in Relationships : relations'[j] = relations[j] \/ RelationOK(j)'
<1>1. CASE RelationsOf(p) # {}
  <2>1. UNCHANGED relations
    BY <1>1 DEF RelationInserted
  <2> QED
    BY <1>1, <2>1, FoundStays DEF Kept, Found, IndInv, MentorshipTypeOK
<1>2. CASE RelationsOf(p) = {}
  <2>1. PICK k \in FreeIds(relations) : relations' = [relations EXCEPT ![k] = NewRelation(p)]
    BY <1>2 DEF RelationInserted
  <2>2. k \in Relationships /\ relations[k] = None
    BY DEF FreeIds, RowIds, IndInv, MentorshipTypeOK
  <2>3. /\ NewRelation(p) \in Relation /\ NewRelation(p) # None
        /\ <<NewRelation(p).mentor, NewRelation(p).mentee>> = p
        /\ NewRelation(p).total = 0
    BY MentorshipAssumption DEF NewRelation, Relation, RelationStatus
  <2>4. /\ relations'[k] = NewRelation(p)
        /\ \A j \in Relationships : j # k => relations'[j] = relations[j]
        /\ DOMAIN relations' = Relationships /\ DOMAIN relations = Relationships
    BY <2>1, <2>2 DEF IndInv, MentorshipTypeOK
  <2>5. MentorshipTypeOK'
    BY <2>1, <2>2, <2>3 DEF IndInv, MentorshipTypeOK
  <2>6. \A q \in Users \X Users : Found(q) => Found(q)'
    BY <2>2, <2>3, <2>4 DEF Found, RelationsOf, PairOf, RowIds
  <2>7. Kept
    BY <2>2, <2>3, <2>4, <2>6 DEF Kept
  <2>8. Found(p)'
    BY <2>2, <2>3, <2>4 DEF Found, RelationsOf, PairOf, RowIds
  <2>9. RelationOK(k)'
    <3>1. Rests(p)' /\ PairOf(k)' = p
      BY <2>3, <2>4 DEF Rests, PairOf
    <3>2. relations'[k].total <= Cardinality(Held(k))'
      BY <2>3, <2>4, <2>5, <2>7, HeldGrows DEF IndInv
    <3> QED
      BY <3>1, <3>2 DEF RelationOK, Counts, Rests
  <2> QED
    BY <2>4, <2>5, <2>7, <2>8, <2>9
<1> QED
  BY <1>1, <1>2

LEMMA CreateRelationshipStep ==
  ASSUME IndInv, NEW c \in Calls, CreateMentorshipRelationship(c)
  PROVE  IndInv'
<1> DEFINE k == mcalls[c]
<1>1. /\ k # None /\ k.at = "relationship" /\ k.answer = "accept"
      /\ k \in [at : {"relationship", "response"}, on : Requests, answer : Answers]
      /\ requests[k.on] # None /\ requests[k.on] \in Request /\ Agreed(requests[k.on])
  <2>1. k # None /\ k.at = "relationship"
    BY DEF CreateMentorshipRelationship, Waits
  <2>2. k \in [at : {"relationship", "response"}, on : Requests, answer : Answers]
    BY <2>1, ShapeOfCall DEF IndInv
  <2>3. k.answer = "accept" /\ requests[k.on] # None /\ Agreed(requests[k.on])
    BY <2>1 DEF IndInv, CallOK, OnRequest
  <2> QED
    BY <2>1, <2>2, <2>3 DEF IndInv, MentorshipTypeOK
<1>2. RolesOf(requests[k.on]) \in Users \X Users /\ Rests(RolesOf(requests[k.on]))
  BY <1>1, PartiesOfRequest, AgreedRests DEF IndInv
<1> PICK p \in Users \X Users : p = RolesOf(requests[k.on])
  BY <1>2
<1>3. /\ mcalls' = [mcalls EXCEPT ![c] = [k EXCEPT !.at = "response"]]
      /\ mcalls'[c] = [k EXCEPT !.at = "response"]
      /\ UNCHANGED <<requests, meetings, consented, edited>>
  BY DEF CreateMentorshipRelationship, Goes, IndInv, MentorshipTypeOK
<1>4. [k EXCEPT !.at = "response"] \in MentorshipCall
  BY <1>1 DEF MentorshipCall
<1>5. mcalls' \in [Calls -> MentorshipCall \cup {None}]
  BY <1>3, <1>4 DEF IndInv, MentorshipTypeOK
<1>6. ASSUME RelationInserted(p), UNCHANGED lost
      PROVE  IndInv'
  <2>1. /\ MentorshipTypeOK' /\ Kept /\ Found(p)'
        /\ \A j \in Relationships : relations'[j] = relations[j] \/ RelationOK(j)'
    BY <1>2, <1>3, <1>5, <1>6, OpenedRelation
  <2>2. Agreed(requests[k.on])' /\ Backed(requests[k.on])'
    BY <1>1, <1>3, <2>1 DEF Agreed, Backed, Found
  <2>3. CallOK(c)'
    BY <1>1, <1>3, <2>2 DEF CallOK, OnRequest, OnRelation, OnMeeting
  <2> QED
    BY <1>3, <2>1, <2>3, StepOfCall
<1>7. ASSUME lost' = lost \cup {p}, UNCHANGED relations
      PROVE  IndInv'
  <2>1. MentorshipTypeOK'
    BY <1>2, <1>3, <1>4, <1>7 DEF IndInv, MentorshipTypeOK
  <2>2. Kept
    BY <1>3, <1>7 DEF Kept, Found, RelationsOf, PairOf, RowIds
  <2>3. Agreed(requests[k.on])' /\ Backed(requests[k.on])'
    BY <1>1, <1>3, <1>7 DEF Agreed, Backed, Found
  <2>4. CallOK(c)'
    BY <1>1, <1>3, <2>3 DEF CallOK, OnRequest, OnRelation, OnMeeting
  <2> QED
    BY <1>3, <1>7, <2>1, <2>2, <2>4, StepOfCall
<1> QED
  BY <1>6, <1>7 DEF CreateMentorshipRelationship
(* An answer is written only for a request that is still there; whoever    *)
(* wrote another one before, the row keeps its parties.                    *)
LEMMA WriteResponseStep ==
  ASSUME IndInv, NEW c \in Calls, WriteResponse(c)
  PROVE  IndInv'
<1> DEFINE k == mcalls[c]
<1>1. /\ k # None /\ k.at = "response"
      /\ k \in [at : {"relationship", "response"}, on : Requests, answer : Answers]
      /\ k.answer = "accept" => Agreed(requests[k.on]) /\ Backed(requests[k.on])
  BY ShapeOfCall DEF WriteResponse, Waits, IndInv, CallOK
<1> PICK r \in Requests : r = k.on
  BY <1>1
<1>2. CASE r \notin Rows
  BY <1>2, EndingStep DEF WriteResponse, tables
<1>3. CASE r \in Rows
  <2>1. requests' = [requests EXCEPT ![r].status = Answered(k.answer)]
    BY <1>3 DEF WriteResponse
  <2>2. requests[r] # None /\ requests[r] \in Request
    BY <1>3 DEF Rows, RowIds, IndInv, MentorshipTypeOK
  <2>3. Answered(k.answer) \in RequestStatus
    BY <1>1 DEF Answered, Answers, RequestStatus
  <2>4. /\ requests'[r] = [requests[r] EXCEPT !.status = Answered(k.answer)]
        /\ requests'[r] \in Request /\ requests'[r] # None
        /\ \A q \in Requests : q # r => requests'[q] = requests[q]
    <3>1. requests'[r] = [requests[r] EXCEPT !.status = Answered(k.answer)]
      BY <2>1 DEF IndInv, MentorshipTypeOK
    <3>2. requests'[r] \in Request
      BY <2>2, <2>3, <3>1 DEF Request
    <3> QED
      BY <2>1, <3>1, <3>2, MentorshipAssumption DEF IndInv, MentorshipTypeOK
  <2>5. mcalls' = [mcalls EXCEPT ![c] = None] /\ CallOK(c)'
    BY EndedCall DEF WriteResponse, IndInv
  <2>6. MentorshipTypeOK'
    BY <2>1, <2>4, <2>5 DEF WriteResponse, IndInv, MentorshipTypeOK
  <2>7. Kept
    <3>1. /\ requests'[r].from = requests[r].from
          /\ requests'[r].to = requests[r].to
          /\ requests'[r].type = requests[r].type
      BY <2>2, <2>4 DEF Request
    <3> QED
      BY <2>4, <3>1, FoundStays DEF Kept, WriteResponse
  <2>8. RequestOK(r)'
    <3>1. RequestOK(r)
      BY DEF IndInv, RowsInv
    <3>2. requests'[r].status = "accepted" => k.answer = "accept"
      BY <1>1, <2>2, <2>4 DEF Answered, Answers, Request
    <3>3. /\ Agreed(requests[r]) => Agreed(requests[r])'
          /\ Backed(requests[r]) => Backed(requests[r])'
      BY <2>2, <2>7, <3>1, RequestStands DEF IndInv
    <3> QED
      BY <1>1, <2>2, <2>7, <3>1, <3>2, <3>3 DEF RequestOK, Kept
  <2> QED
    BY <2>4, <2>5, <2>6, <2>7, <2>8, StepOfCall DEF WriteResponse
<1> QED
  BY <1>2, <1>3

LEMMA RemoveRequestStep ==
  ASSUME IndInv, NEW c \in Calls, RemoveRequest(c)
  PROVE  IndInv'
<1>1. mcalls[c] # None /\ mcalls[c].on \in Requests /\ requests[mcalls[c].on] # None
  BY DEF RemoveRequest, Waits, IndInv, CallOK, OnRequest
<1> PICK r \in Requests : r = mcalls[c].on
  BY <1>1
<1>2. requests[r] # None /\ requests[r] \in Request
  BY <1>1 DEF IndInv, MentorshipTypeOK
<1>3. requests' = [requests EXCEPT ![r].status = "withdrawn"]
  BY DEF RemoveRequest
<1>4. /\ requests'[r] = [requests[r] EXCEPT !.status = "withdrawn"]
      /\ \A q \in Requests : q # r => requests'[q] = requests[q]
  BY <1>3 DEF IndInv, MentorshipTypeOK
<1>5. requests'[r] \in Request /\ requests'[r] # None /\ requests'[r].status = "withdrawn"
  BY <1>2, <1>4, MentorshipAssumption DEF Request, RequestStatus
<1>6. mcalls' = [mcalls EXCEPT ![c] = None] /\ CallOK(c)'
  BY EndedCall DEF RemoveRequest, IndInv
<1>7. MentorshipTypeOK'
  BY <1>3, <1>4, <1>5, <1>6 DEF RemoveRequest, IndInv, MentorshipTypeOK
<1>8. Kept
  <2>1. /\ requests'[r].from = requests[r].from
        /\ requests'[r].to = requests[r].to
        /\ requests'[r].type = requests[r].type
    BY <1>2, <1>4 DEF Request
  <2> QED
    BY <1>4, <1>5, <2>1, FoundStays DEF Kept, RemoveRequest
<1>9. RequestOK(r)'
  BY <1>2, <1>5, <1>8 DEF RequestOK, Kept, IndInv, RowsInv
<1> QED
  BY <1>4, <1>6, <1>7, <1>8, <1>9, StepOfCall DEF RemoveRequest

LEMMA ViewingSteps ==
  ASSUME IndInv, NEW c \in Calls, GetDirectRequest(c) \/ MarkDirectRequestAsRead(c)
  PROVE  IndInv'
<1>1. ASSUME NEW at \in {"getRequest", "markRead"}, Goes(c, at), UNCHANGED tables,
             mcalls[c] # None, mcalls[c].at \in {"getRequest", "markRead"}
      PROVE  IndInv'
  <2>1. mcalls[c] \in [at : {"getRequest", "markRead"}, by : Users, on : Requests]
    BY <1>1, ShapeOfCall DEF IndInv
  <2>2. [mcalls[c] EXCEPT !.at = at] \in MentorshipCall
    BY <2>1 DEF MentorshipCall
  <2>3. /\ mcalls' = [mcalls EXCEPT ![c] = [mcalls[c] EXCEPT !.at = at]]
        /\ mcalls'[c] = [mcalls[c] EXCEPT !.at = at]
    BY <1>1 DEF Goes, IndInv, MentorshipTypeOK
  <2>4. CallOK(c)'
    BY <2>1, <2>3 DEF CallOK, OnRequest, OnRelation, OnMeeting
  <2> QED
    BY <1>1, <2>2, <2>3, <2>4, ReadingStep
<1>2. CASE Ends(c)
  BY <1>2, EndingStep DEF GetDirectRequest, MarkDirectRequestAsRead, tables
<1> QED
  BY <1>1, <1>2 DEF GetDirectRequest, MarkDirectRequestAsRead, Waits, tables

LEMMA FindRelationshipStep ==
  ASSUME IndInv, NEW c \in Calls, FindRelationship(c)
  PROVE  IndInv'
<1> USE DEF tables
<1>1. CASE Ends(c)
  BY <1>1, EndingStep DEF FindRelationship
<1>2. CASE Goes(c, "open")
  <2>1. /\ mcalls[c] # None /\ mcalls[c].at = "find"
        /\ mcalls[c] \in [at : {"withdraw", "find", "open"}, on : Requests]
    BY ShapeOfCall DEF FindRelationship, Waits, IndInv
  <2>2. [mcalls[c] EXCEPT !.at = "open"] \in MentorshipCall
    BY <2>1 DEF MentorshipCall
  <2>3. /\ mcalls' = [mcalls EXCEPT ![c] = [mcalls[c] EXCEPT !.at = "open"]]
        /\ mcalls'[c] = [mcalls[c] EXCEPT !.at = "open"]
    BY <1>2 DEF Goes, IndInv, MentorshipTypeOK
  <2>4. requests'[mcalls[c].on] # None /\ Agreed(requests[mcalls[c].on])
    BY <2>1 DEF FindRelationship, IndInv, CallOK, OnRequest
  <2>5. CallOK(c)'
    BY <2>1, <2>3, <2>4 DEF FindRelationship, CallOK, OnRequest, OnRelation, OnMeeting, Agreed
  <2> QED
    BY <2>2, <2>3, <2>5, ReadingStep DEF FindRelationship
<1> QED
  BY <1>1, <1>2 DEF FindRelationship

LEMMA OpenRelationshipStep ==
  ASSUME IndInv, NEW c \in Calls, OpenRelationship(c)
  PROVE  IndInv'
<1>1. /\ mcalls[c] # None /\ mcalls[c].on \in Requests /\ requests[mcalls[c].on] # None
      /\ Agreed(requests[mcalls[c].on])
  BY DEF OpenRelationship, Waits, IndInv, CallOK, OnRequest
<1>2. /\ RolesOf(requests[mcalls[c].on]) \in Users \X Users
      /\ Rests(RolesOf(requests[mcalls[c].on]))
  BY <1>1, PartiesOfRequest, AgreedRests DEF IndInv, MentorshipTypeOK
<1> PICK p \in Users \X Users : p = RolesOf(requests[mcalls[c].on])
  BY <1>2
<1>3. RelationInserted(p) /\ UNCHANGED <<requests, meetings, consented, lost, edited>>
  BY DEF OpenRelationship
<1>4. mcalls' = [mcalls EXCEPT ![c] = None] /\ CallOK(c)'
  BY EndedCall DEF OpenRelationship, IndInv
<1>5. mcalls' \in [Calls -> MentorshipCall \cup {None}]
  BY <1>4 DEF IndInv, MentorshipTypeOK
<1>6. /\ MentorshipTypeOK' /\ Kept
      /\ \A j \in Relationships : relations'[j] = relations[j] \/ RelationOK(j)'
  BY <1>2, <1>3, <1>5, OpenedRelation
<1> QED
  BY <1>3, <1>4, <1>6, StepOfCall
----------------------------------------------------------------------------
(* Relationships and sessions.                                             *)

(* A change of a relationship that leaves its total within its sessions.   *)
LEMMA RelationWritten ==
  ASSUME IndInv, NEW c \in Calls, Ends(c), UNCHANGED <<requests, meetings, consented, lost>>,
         NEW p \in Relationships, NEW row \in Relation, relations[p] # None,
         row.mentor = relations[p].mentor, row.mentee = relations[p].mentee,
         relations' = [relations EXCEPT ![p] = row],
         edited \subseteq edited', edited' \subseteq Relationships \X Columns,
         <<p, "total">> \in edited' \/ row.total <= Cardinality(Held(p))
  PROVE  IndInv'
<1>1. row # None
  BY MentorshipAssumption
<1>2. relations'[p] = row /\ \A q \in Relationships : q # p => relations'[q] = relations[q]
  BY DEF IndInv, MentorshipTypeOK
<1>3. mcalls' = [mcalls EXCEPT ![c] = None] /\ CallOK(c)'
  BY EndedCall DEF IndInv
<1>4. MentorshipTypeOK'
  BY <1>3 DEF IndInv, MentorshipTypeOK
<1>5. Kept
  <2>1. RowIds(relations)' = RowIds(relations)
    BY <1>1, <1>2 DEF RowIds, IndInv, MentorshipTypeOK
  <2>2. \A j \in RowIds(relations) : PairOf(j)' = PairOf(j)
    BY <1>2 DEF PairOf, RowIds, IndInv, MentorshipTypeOK
  <2>3. \A q \in Users \X Users : Found(q) => Found(q)'
    BY <2>1, <2>2 DEF Found, RelationsOf
  <2> QED
    BY <1>1, <1>2, <2>3 DEF Kept
<1>6. RelationOK(p)'
  <2>1. PairOf(p)' = PairOf(p)
    BY <1>2 DEF PairOf
  <2>2. <<p, "parties">> \in edited' \/ Rests(PairOf(p))'
    BY <2>1 DEF RelationOK, Rests, IndInv, RowsInv
  <2>3. Counts(relations[p].total, p)'
    BY <1>2 DEF Counts, Held, RowIds
  <2> QED
    BY <2>2, <2>3 DEF RelationOK
<1> QED
  BY <1>2, <1>3, <1>4, <1>5, <1>6, StepOfCall

LEMMA WriteRelationshipStep ==
  ASSUME IndInv, NEW c \in Calls, WriteRelationship(c)
  PROVE  IndInv'
<1>1. /\ mcalls[c] \in [at : {"move"}, on : Relationships, to : RelationStatus]
      /\ relations[mcalls[c].on] # None
  BY ShapeOfCall DEF WriteRelationship, Waits, IndInv, CallOK, OnRelation
<1> PICK p \in Relationships : p = mcalls[c].on
  BY <1>1
<1> DEFINE row == [relations[p] EXCEPT !.status = mcalls[c].to]
<1>2. relations[p] \in Relation
  BY <1>1 DEF IndInv, MentorshipTypeOK
<1>3. /\ row \in Relation /\ row.total = relations[p].total
      /\ row.mentor = relations[p].mentor /\ row.mentee = relations[p].mentee
  BY <1>1, <1>2 DEF Relation
<1>4. relations' = [relations EXCEPT ![p] = row]
  BY DEF WriteRelationship
<1>5. <<p, "total">> \in edited \/ row.total <= Cardinality(Held(p))
  BY <1>1, <1>3 DEF IndInv, RowsInv, RelationOK, Counts
<1>6. edited' = edited /\ edited' \subseteq Relationships \X Columns
  BY DEF WriteRelationship, IndInv, MentorshipTypeOK
<1> HIDE DEF row
<1> QED
  BY <1>1, <1>3, <1>4, <1>5, <1>6, RelationWritten DEF WriteRelationship

(* A general update that gives a row to other users: its own pair is then  *)
(* among the lost ones, and the row counts as edited.                      *)
LEMMA WritePartiesStep ==
  ASSUME IndInv, NEW c \in Calls, WriteParties(c)
  PROVE  IndInv'
<1>1. /\ mcalls[c] \in [at : {"rewrite"}, on : Relationships, mentor : Users, mentee : Users]
      /\ relations[mcalls[c].on] # None
  BY ShapeOfCall DEF WriteParties, Waits, IndInv, CallOK, OnRelation
<1> PICK k \in Relationships : k = mcalls[c].on
  BY <1>1
<1> PICK p \in Users \X Users : p = <<mcalls[c].mentor, mcalls[c].mentee>>
  BY <1>1
<1> DEFINE row == [relations[k] EXCEPT !.mentor = p[1], !.mentee = p[2]]
<1>2. CASE UNCHANGED <<relations, lost, edited>>
  BY <1>2, EndingStep DEF WriteParties, tables
<1>3. CASE /\ relations' = [relations EXCEPT ![k].mentor = p[1], ![k].mentee = p[2]]
           /\ lost' = lost \cup {PairOf(k)}
           /\ edited' = edited \cup {<<k, "parties">>}
  <2>1. relations[k] \in Relation
    BY <1>1 DEF IndInv, MentorshipTypeOK
  <2>2. row \in Relation /\ row # None /\ row.total = relations[k].total
    BY <2>1, MentorshipAssumption DEF Relation
  <2>3. relations' = [relations EXCEPT ![k] = row]
    BY <1>3, <2>1 DEF IndInv, MentorshipTypeOK
  <2> HIDE DEF row
  <2>4. relations'[k] = row /\ \A j \in Relationships : j # k => relations'[j] = relations[j]
    BY <2>3 DEF IndInv, MentorshipTypeOK
  <2>5. PairOf(k) \in Users \X Users
    BY <2>1 DEF PairOf, Relation
  <2>6. mcalls' = [mcalls EXCEPT ![c] = None] /\ CallOK(c)'
    BY EndedCall DEF WriteParties, IndInv
  <2>7. UNCHANGED <<requests, meetings, consented>>
    BY DEF WriteParties
  <2>8. MentorshipTypeOK'
    BY <1>3, <2>2, <2>3, <2>5, <2>6, <2>7 DEF IndInv, MentorshipTypeOK, Columns
  <2>9. \A q \in Users \X Users : Found(q) => Found(q)'
    BY <1>3, <2>4, <2>8 DEF Found, RelationsOf, PairOf, RowIds, IndInv, MentorshipTypeOK
  <2>10. Kept
    BY <1>3, <2>2, <2>4, <2>7, <2>9 DEF Kept
  <2>11. RelationOK(k)'
    <3>1. <<k, "parties">> \in edited'
      BY <1>3
    <3>2. Counts(relations[k].total, k)'
      <4>1. Counts(relations[k].total, k)
        BY <1>1 DEF IndInv, RowsInv, RelationOK
      <4> QED
        BY <1>3, <2>2, <2>4, <2>7, <4>1 DEF Counts, Held, RowIds
    <3> QED
      BY <3>1, <3>2 DEF RelationOK
  <2> QED
    BY <2>4, <2>6, <2>7, <2>8, <2>10, <2>11, StepOfCall
<1> QED
  BY <1>2, <1>3 DEF WriteParties

(* A count of the client's own: the row's total no longer has to count.    *)
LEMMA WriteClientCountSteps ==
  ASSUME IndInv, NEW c \in Calls, WriteClientTotal(c) \/ WriteClientCompleted(c)
  PROVE  IndInv'
<1>1. /\ mcalls[c] \in [at : {"setTotal", "setCompleted"}, on : Relationships, count : ClientCounts]
      /\ relations[mcalls[c].on] # None /\ mcalls[c].count \in Int
  BY ShapeOfCall, MentorshipAssumption
     DEF WriteClientTotal, WriteClientCompleted, Waits, IndInv, CallOK, OnRelation
<1> PICK k \in Relationships : k = mcalls[c].on
  BY <1>1
<1>2. relations[k] \in Relation
  BY <1>1 DEF IndInv, MentorshipTypeOK
<1>3. CASE WriteClientTotal(c)
  <2> DEFINE row == [relations[k] EXCEPT !.total = mcalls[c].count]
  <2>1. /\ row \in Relation
        /\ row.mentor = relations[k].mentor /\ row.mentee = relations[k].mentee
    BY <1>1, <1>2 DEF Relation
  <2>2. relations' = [relations EXCEPT ![k] = row]
    BY <1>3 DEF WriteClientTotal
  <2>3. edited \subseteq edited' /\ edited' \subseteq Relationships \X Columns /\ <<k, "total">> \in edited'
    BY <1>3 DEF WriteClientTotal, IndInv, MentorshipTypeOK, Columns
  <2> HIDE DEF row
  <2> QED
    BY <1>1, <1>3, <2>1, <2>2, <2>3, RelationWritten DEF WriteClientTotal
<1>4. CASE WriteClientCompleted(c)
  <2> DEFINE row == [relations[k] EXCEPT !.completed = mcalls[c].count]
  <2>1. /\ row \in Relation /\ row.total = relations[k].total
        /\ row.mentor = relations[k].mentor /\ row.mentee = relations[k].mentee
    BY <1>1, <1>2 DEF Relation
  <2>2. relations' = [relations EXCEPT ![k] = row]
    BY <1>4 DEF WriteClientCompleted
  <2>3. <<k, "total">> \in edited \/ row.total <= Cardinality(Held(k))
    BY <1>1, <2>1 DEF IndInv, RowsInv, RelationOK, Counts
  <2>4. edited' = edited /\ edited' \subseteq Relationships \X Columns
    BY <1>4 DEF WriteClientCompleted, IndInv, MentorshipTypeOK
  <2> HIDE DEF row
  <2> QED
    BY <1>1, <1>4, <2>1, <2>2, <2>3, <2>4, RelationWritten DEF WriteClientCompleted
<1> QED
  BY <1>3, <1>4

LEMMA WriteTotalStep ==
  ASSUME IndInv, NEW c \in Calls, WriteTotal(c)
  PROVE  IndInv'
<1>1. /\ mcalls[c] # None /\ mcalls[c].at = "count"
      /\ mcalls[c] \in [at : {"book", "count"}, on : Relationships, total : Int]
      /\ relations[mcalls[c].on] # None
      /\ Counts(mcalls[c].total + 1, mcalls[c].on)
  BY ShapeOfCall DEF WriteTotal, Waits, IndInv, CallOK, OnRelation
<1> PICK p \in Relationships : p = mcalls[c].on
  BY <1>1
<1> DEFINE row == [relations[p] EXCEPT !.total = mcalls[c].total + 1]
<1>2. relations[p] \in Relation
  BY <1>1 DEF IndInv, MentorshipTypeOK
<1>3. /\ row \in Relation /\ row.total = mcalls[c].total + 1
      /\ row.mentor = relations[p].mentor /\ row.mentee = relations[p].mentee
  BY <1>1, <1>2 DEF Relation
<1>4. relations' = [relations EXCEPT ![p] = row]
  BY DEF WriteTotal
<1>5. <<p, "total">> \in edited \/ row.total <= Cardinality(Held(p))
  BY <1>1, <1>3 DEF Counts
<1>6. edited' = edited /\ edited' \subseteq Relationships \X Columns
  BY DEF WriteTotal, IndInv, MentorshipTypeOK
<1> HIDE DEF row
<1> QED
  BY <1>1, <1>3, <1>4, <1>5, <1>6, RelationWritten DEF WriteTotal

LEMMA WriteCreditStep ==
  ASSUME IndInv, NEW c \in Calls, WriteCredit(c)
  PROVE  IndInv'
<1>1. /\ mcalls[c] \in [at : {"tally", "complete", "credit"}, by : Users, on : MSessions, done : Int]
      /\ meetings[mcalls[c].on] # None
  BY ShapeOfCall DEF WriteCredit, Waits, IndInv, CallOK, OnMeeting
<1>2. meetings[mcalls[c].on].of \in Relationships /\ relations[meetings[mcalls[c].on].of] # None
  BY <1>1 DEF IndInv, MentorshipTypeOK, Meeting, RowsInv, MeetingOK
<1> PICK p \in Relationships : p = meetings[mcalls[c].on].of
  BY <1>2
<1> DEFINE row == [relations[p] EXCEPT !.completed = mcalls[c].done + 1]
<1>3. relations[p] \in Relation
  BY <1>2 DEF IndInv, MentorshipTypeOK
<1>4. /\ row \in Relation /\ row.total = relations[p].total
      /\ row.mentor = relations[p].mentor /\ row.mentee = relations[p].mentee
  BY <1>1, <1>3 DEF Relation
<1>5. relations' = [relations EXCEPT ![p] = row]
  BY DEF WriteCredit
<1>6. <<p, "total">> \in edited \/ row.total <= Cardinality(Held(p))
  BY <1>2, <1>4 DEF IndInv, RowsInv, RelationOK, Counts
<1>7. edited' = edited /\ edited' \subseteq Relationships \X Columns
  BY DEF WriteCredit, IndInv, MentorshipTypeOK
<1> HIDE DEF row
<1> QED
  BY <1>2, <1>4, <1>5, <1>6, <1>7, RelationWritten DEF WriteCredit

(* A session scheduled for a relationship that is there counts among its   *)
(* own.                                                                    *)
LEMMA SessionScheduled ==
  ASSUME IndInv, NEW p \in Relationships, relations[p] # None, Scheduled(p),
         UNCHANGED <<requests, relations, consented, lost, edited>>,
         mcalls' \in [Calls -> MentorshipCall \cup {None}]
  PROVE  /\ MentorshipTypeOK'
         /\ Kept
         /\ \A s \in MSessions : meetings'[s] = meetings[s] \/ MeetingOK(s)'
         /\ Cardinality(Held(p)) \in Nat
         /\ Cardinality(Held(p))' = Cardinality(Held(p)) + 1
<1> DEFINE row == [of |-> p, status |-> "scheduled"]
<1>1. PICK s \in FreeIds(meetings) : meetings' = [meetings EXCEPT ![s] = row]
  BY DEF Scheduled
<1>2. s \in MSessions /\ meetings[s] = None
  BY DEF FreeIds, RowIds, IndInv, MentorshipTypeOK
<1>3. row \in Meeting /\ row # None
  BY MentorshipAssumption DEF Meeting, MeetingStatus
<1>4. meetings'[s] = row /\ \A t \in MSessions : t # s => meetings'[t] = meetings[t]
  BY <1>1, <1>2 DEF IndInv, MentorshipTypeOK
<1>5. MentorshipTypeOK'
  BY <1>1, <1>2, <1>3 DEF IndInv, MentorshipTypeOK
<1>6. Kept
  BY <1>2, <1>4, FoundStays DEF Kept
<1>7. MeetingOK(s)'
  BY <1>4 DEF MeetingOK
<1>8. Held(p)' = Held(p) \cup {s} /\ s \notin Held(p)
  BY <1>2, <1>3, <1>4, <1>5 DEF Held, RowIds, IndInv, MentorshipTypeOK
<1>9. IsFiniteSet(Held(p))
  BY MentorshipAssumption, FS_Subset DEF Held, RowIds, IndInv, MentorshipTypeOK
<1>10. Cardinality(Held(p)') = Cardinality(Held(p)) + 1
  BY <1>8, <1>9, FS_AddElement
<1> QED
  BY <1>4, <1>5, <1>6, <1>7, <1>9, <1>10, FS_CardinalityType

LEMMA InsertSessionStep ==
  ASSUME IndInv, NEW c \in Calls, InsertSession(c)
  PROVE  IndInv'
<1>1. /\ mcalls[c] # None /\ mcalls[c].at = "book"
      /\ mcalls[c] \in [at : {"book", "count"}, on : Relationships, total : Int]
      /\ relations[mcalls[c].on] # None
      /\ Counts(mcalls[c].total, mcalls[c].on)
  BY ShapeOfCall DEF InsertSession, Waits, IndInv, CallOK, OnRelation
<1> PICK p \in Relationships : p = mcalls[c].on
  BY <1>1
<1>2. [mcalls[c] EXCEPT !.at = "count"] \in MentorshipCall
  BY <1>1 DEF MentorshipCall
<1>3. /\ mcalls' = [mcalls EXCEPT ![c] = [mcalls[c] EXCEPT !.at = "count"]]
      /\ mcalls'[c] = [mcalls[c] EXCEPT !.at = "count"]
      /\ mcalls' \in [Calls -> MentorshipCall \cup {None}]
  BY <1>2 DEF InsertSession, Goes, IndInv, MentorshipTypeOK
<1>4. /\ MentorshipTypeOK'
      /\ Kept
      /\ \A s \in MSessions : meetings'[s] = meetings[s] \/ MeetingOK(s)'
      /\ Cardinality(Held(p)) \in Nat
      /\ Cardinality(Held(p))' = Cardinality(Held(p)) + 1
  BY <1>1, <1>3, SessionScheduled DEF InsertSession
<1>5. /\ mcalls'[c] # None /\ mcalls'[c].at = "count" /\ mcalls'[c].on = p
      /\ mcalls'[c].total = mcalls[c].total
  BY <1>1, <1>2, <1>3, MentorshipAssumption
<1>6. Counts(mcalls[c].total + 1, p)'
  BY <1>1, <1>4, <1>5 DEF Counts, InsertSession
<1>7. CallOK(c)'
  BY <1>1, <1>5, <1>6 DEF InsertSession, CallOK, OnRequest, OnRelation, OnMeeting
<1> QED
  BY <1>3, <1>4, <1>7, StepOfCall DEF InsertSession

LEMMA InsertPlannedStep ==
  ASSUME IndInv, NEW c \in Calls, InsertPlanned(c)
  PROVE  IndInv'
<1>1. mcalls[c].on \in Relationships /\ relations[mcalls[c].on] # None
  BY DEF InsertPlanned, Waits, IndInv, CallOK, OnRelation
<1> PICK p \in Relationships : p = mcalls[c].on
  BY <1>1
<1>2. mcalls' = [mcalls EXCEPT ![c] = None] /\ CallOK(c)'
  BY EndedCall DEF InsertPlanned, IndInv
<1>3. mcalls' \in [Calls -> MentorshipCall \cup {None}]
  BY <1>2 DEF IndInv, MentorshipTypeOK
<1>4. /\ MentorshipTypeOK'
      /\ Kept
      /\ \A s \in MSessions : meetings'[s] = meetings[s] \/ MeetingOK(s)'
  BY <1>1, <1>3, SessionScheduled DEF InsertPlanned
<1> QED
  BY <1>2, <1>4, StepOfCall DEF InsertPlanned
(* Reading the credit of a session's relationship.                         *)
LEMMA ReadCompletedStep ==
  ASSUME IndInv, NEW c \in Calls, ReadCompleted(c)
  PROVE  IndInv'
<1> DEFINE k    == mcalls[c]
           next == [k EXCEPT !.at = "complete", !.done = relations[meetings[k.on].of].completed]
<1> USE DEF tables
<1>1. CASE Ends(c)
  BY <1>1, EndingStep DEF ReadCompleted
<1>2. CASE mcalls' = [mcalls EXCEPT ![c].at = "complete",
                                    ![c].done = relations[meetings[k.on].of].completed]
  <2>1. /\ k \in [at : {"tally", "complete", "credit"}, by : Users, on : MSessions, done : Int]
        /\ meetings[k.on] # None
    BY ShapeOfCall DEF ReadCompleted, Waits, IndInv, CallOK, OnMeeting
  <2>2. relations[meetings[k.on].of] \in Relation
    BY <2>1 DEF IndInv, MentorshipTypeOK, Meeting, RowsInv, MeetingOK
  <2>3. next \in [at : {"tally", "complete", "credit"}, by : Users, on : MSessions, done : Int]
    BY <2>1, <2>2 DEF Relation
  <2>4. /\ next \in MentorshipCall /\ next.at = "complete" /\ next.on = k.on
        /\ mcalls' = [mcalls EXCEPT ![c] = next] /\ mcalls'[c] = next
    BY <1>2, <2>1, <2>3 DEF MentorshipCall, IndInv, MentorshipTypeOK
  <2>5. CallOK(c)'
    BY <2>1, <2>4 DEF ReadCompleted, CallOK, OnRequest, OnRelation, OnMeeting
  <2> HIDE DEF next
  <2> QED
    BY <2>4, <2>5, ReadingStep DEF ReadCompleted
<1> QED
  BY <1>1, <1>2 DEF ReadCompleted

(* A session that changes its status stays the session of its pair.        *)
LEMMA MeetingWritten ==
  ASSUME IndInv, NEW s \in MSessions, meetings[s] # None, NEW to \in MeetingStatus,
         meetings' = [meetings EXCEPT ![s].status = to],
         UNCHANGED <<requests, relations, consented, lost, edited>>,
         mcalls' \in [Calls -> MentorshipCall \cup {None}]
  PROVE  /\ MentorshipTypeOK'
         /\ Kept
         /\ \A t \in MSessions : meetings'[t] = meetings[t] \/ MeetingOK(t)'
<1>1. /\ meetings'[s] = [meetings[s] EXCEPT !.status = to]
      /\ \A t \in MSessions : t # s => meetings'[t] = meetings[t]
  BY DEF IndInv, MentorshipTypeOK
<1>2. meetings[s] \in Meeting
  BY DEF IndInv, MentorshipTypeOK
<1>3. meetings'[s] \in Meeting /\ meetings'[s] # None /\ meetings'[s].of = meetings[s].of
  BY <1>1, <1>2, MentorshipAssumption DEF Meeting
<1>4. MentorshipTypeOK'
  BY <1>1, <1>3 DEF IndInv, MentorshipTypeOK
<1>5. Kept
  BY <1>1, <1>3, FoundStays DEF Kept
<1>6. MeetingOK(s)'
  BY <1>3 DEF MeetingOK, IndInv, RowsInv
<1> QED
  BY <1>1, <1>4, <1>5, <1>6

LEMMA WriteCompletedStep ==
  ASSUME IndInv, NEW c \in Calls, WriteCompleted(c)
  PROVE  IndInv'
<1> DEFINE next == [mcalls[c] EXCEPT !.at = "credit"]
<1>1. /\ mcalls[c] # None
      /\ mcalls[c] \in [at : {"tally", "complete", "credit"}, by : Users, on : MSessions, done : Int]
      /\ meetings[mcalls[c].on] # None
  BY ShapeOfCall DEF WriteCompleted, Waits, IndInv, CallOK, OnMeeting
<1> PICK s \in MSessions : s = mcalls[c].on
  BY <1>1
<1>2. next \in MentorshipCall /\ next.at = "credit" /\ next.on = s
  BY <1>1 DEF MentorshipCall
<1>3. /\ mcalls' = [mcalls EXCEPT ![c] = next] /\ mcalls'[c] = next
      /\ mcalls' \in [Calls -> MentorshipCall \cup {None}]
  BY <1>2 DEF WriteCompleted, Goes, IndInv, MentorshipTypeOK
<1>4. "completed" \in MeetingStatus
  BY DEF MeetingStatus
<1>5. /\ MentorshipTypeOK'
      /\ Kept
      /\ \A t \in MSessions : meetings'[t] = meetings[t] \/ MeetingOK(t)'
  BY <1>1, <1>3, <1>4, MeetingWritten DEF WriteCompleted
<1>6. CallOK(c)'
  BY <1>1, <1>2, <1>3, <1>5 DEF Kept, CallOK, OnRequest, OnRelation, OnMeeting
<1> HIDE DEF next
<1> QED
  BY <1>3, <1>5, <1>6, StepOfCall DEF WriteCompleted

LEMMA WriteSessionStep ==
  ASSUME IndInv, NEW c \in Calls, WriteSession(c)
  PROVE  IndInv'
<1>1. /\ mcalls[c] \in [at : {"mark"}, on : MSessions, to : MeetingStatus]
      /\ meetings[mcalls[c].on] # None
  BY ShapeOfCall DEF WriteSession, Waits, IndInv, CallOK, OnMeeting
<1> PICK s \in MSessions : s = mcalls[c].on
  BY <1>1
<1> PICK to \in MeetingStatus : to = mcalls[c].to
  BY <1>1
<1>2. mcalls' = [mcalls EXCEPT ![c] = None] /\ CallOK(c)'
  BY EndedCall DEF WriteSession, IndInv
<1>3. mcalls' \in [Calls -> MentorshipCall \cup {None}]
  BY <1>2 DEF IndInv, MentorshipTypeOK
<1>4. /\ MentorshipTypeOK'
      /\ Kept
      /\ \A t \in MSessions : meetings'[t] = meetings[t] \/ MeetingOK(t)'
  BY <1>1, <1>3, MeetingWritten DEF WriteSession
<1> QED
  BY <1>2, <1>4, StepOfCall DEF WriteSession

----------------------------------------------------------------------------
(* The invariant                                                           *)

LEMMA InitOK == MentorshipInit => IndInv
BY DEF MentorshipInit, IndInv, MentorshipTypeOK, RowsInv, RequestOK, RelationOK, MeetingOK, CallOK

LEMMA StepOK == IndInv /\ [MentorshipNext]_mentorshipVars => IndInv'
<1> SUFFICES ASSUME IndInv, [MentorshipNext]_mentorshipVars
             PROVE  IndInv'
  OBVIOUS
<1>1. CASE UNCHANGED mentorshipVars
  <2>1. UNCHANGED tables /\ UNCHANGED mcalls
    BY <1>1 DEF mentorshipVars, tables
  <2> QED
    BY <2>1 DEF tables, IndInv, MentorshipTypeOK, RowsInv, RequestOK, RelationOK, MeetingOK,
       CallOK, Agreed, Backed, Found, RelationsOf, PairOf, Rests, Counts, Held, RowIds
<1>2. ASSUME NEW c \in Calls, RequestStarts(c) \/ RelationshipStarts(c) \/ SessionStarts(c)
      PROVE  IndInv'
  BY <1>2, RequestStartsStep, RelationshipStartsStep, SessionStartsStep
<1>3. ASSUME NEW c \in Calls, RequestStep(c)
      PROVE  IndInv'
  BY <1>3, InsertRequestStep, CreateRelationshipStep, WriteResponseStep, RemoveRequestStep,
     ViewingSteps, FindRelationshipStep, OpenRelationshipStep DEF RequestStep
<1>4. ASSUME NEW c \in Calls, SessionStep(c)
      PROVE  IndInv'
  BY <1>4, WriteRelationshipStep, WritePartiesStep, WriteClientCountSteps, InsertSessionStep, WriteTotalStep, InsertPlannedStep,
     ReadCompletedStep, WriteCompletedStep, WriteCreditStep, WriteSessionStep DEF SessionStep
<1>5. ASSUME NEW c \in Calls, MentorshipAbort(c)
      PROVE  IndInv'
  BY <1>5, EndingStep DEF MentorshipAbort, tables
<1> QED
  BY <1>1, <1>2, <1>3, <1>4, <1>5 DEF MentorshipNext

THEOREM MentorshipInvariant == MentorshipSpec => []IndInv
BY InitOK, StepOK, PTL DEF MentorshipSpec

(* Every row and every call in progress keeps its declared shape.          *)
THEOREM MentorshipTypeCorrect == MentorshipSpec => []MentorshipTypeOK
<1>1. IndInv => MentorshipTypeOK
  BY DEF IndInv
<1> QED
  BY <1>1, MentorshipInvariant, PTL

(* Nobody becomes a mentor or a mentee unasked, whatever overlaps, whatever*)
(* is read stale and wherever a handler ends early.                        *)
THEOREM NobodyPairedUnasked == MentorshipSpec => []RelationshipRestsOnAcceptance
<1>1. IndInv => RelationshipRestsOnAcceptance
  BY DEF IndInv, RowsInv, RelationOK, Rests, PairOf, RowIds, MentorshipTypeOK,
         RelationshipRestsOnAcceptance
<1> QED
  BY <1>1, MentorshipInvariant, PTL

(* An accepted request has its relationship, but for an upsert that failed *)
(* and was not looked at.                                                  *)
THEOREM AcceptanceIsBacked == MentorshipSpec => []AcceptedHasRelationship
<1>1. IndInv => AcceptedHasRelationship
  BY DEF IndInv, RowsInv, RequestOK, Backed, Found, AcceptedHasRelationship, Rows, RowIds,
         MentorshipTypeOK
<1> QED
  BY <1>1, MentorshipInvariant, PTL

(* However calls overlap, total_sessions counts only sessions that exist.  *)
THEOREM CountNeverLeads == MentorshipSpec => []ScheduledCountNeverLeads
<1>1. IndInv => ScheduledCountNeverLeads
  BY DEF IndInv, RowsInv, RelationOK, Counts, Held, RowIds, MentorshipTypeOK,
         ScheduledCountNeverLeads
<1> QED
  BY <1>1, MentorshipInvariant, PTL
=============================================================================
