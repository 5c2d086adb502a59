--------------------------- MODULE IdentityReveal ---------------------------
(***************************************************************************)
(* Pseudonymous users and the handlers through which two of them come to   *)
(* see each other's real name.  Two services write the identity_reveals    *)
(* table without knowing of each other - the reveals of a conversation     *)
(* (messaging) and those of a referral connection (referral) - and the     *)
(* name is shown in three places: a conversation with its flags set, a     *)
(* connection with identity_revealed set, and everywhere else while an     *)
(* accepted reveal of the pair exists (IdentityRevealUtil).  The module    *)
(* also holds the handlers that create and answer what the reveals hang    *)
(* on: conversations, mentorship chats and referral connections.           *)
(*                                                                         *)
(* Each await of a handler is a step: it reads or writes one table and     *)
(* remembers what it read for its next step.  There are no transactions    *)
(* and, but for the unique indexes, no conditional writes, so any number   *)
(* of calls interleave between their steps, and a call may end after any   *)
(* of them.  A request the code refuses changes nothing, so its            *)
(* refusal is the absence of an action.                                    *)
(***************************************************************************)
EXTENDS Naturals, FiniteSets

CONSTANTS
  Users,
  Reveals,         \* ids of rows of identity_reveals
  Conversations,   \* ids of rows of conversations
  Connections,     \* ids of rows of referral_connections
  Posts,           \* referral posts
  PostOwner,       \* user_id of each post
  InitialSlots,    \* available_slots of an offer; 0 also for a null or a request
  Calls,           \* requests being served at the same time
  ReadsMayFail,    \* a query may return an error
  CallsMayEnd,     \* a call may end early: a write fails, the process dies
  None             \* no row, no call

ASSUME ConstantsAssumption ==
  /\ PostOwner \in [Posts -> Users]
  /\ InitialSlots \in [Posts -> Nat]
  /\ IsFiniteSet(Connections) /\ IsFiniteSet(Calls)
  /\ ReadsMayFail \in BOOLEAN /\ CallsMayEnd \in BOOLEAN

VARIABLES
  reveal,       \* identity_reveals
  conversation, \* conversations
  connection,   \* referral_connections
  slots,        \* available_slots of each post
  requests,     \* connection_requests_count of each post
  call,         \* what each call in progress remembers
  asked,        \* history: <<u, v>> when u's request to v was recorded
  agreed        \* history: <<v, u>> when v's acceptance of u's was recorded

vars == <<reveal, conversation, connection, slots, requests, call,
          asked, agreed>>
history == <<asked, agreed>>
counters == <<slots, requests>>

----------------------------------------------------------------------------
(* Rows.  Both flags of a conversation are only ever written together, so  *)
(* shown stands for the two of them.                                       *)

Answers == {"accepted", "rejected"}
RevealStatus == {"pending", "cancelled"} \cup Answers
ConnectionStatus == {"pending"} \cup Answers

(* A plain conversation has no context_id; a mentorship chat has the       *)
(* relationship as context.                                                *)
Contexts == {"plain", "mentorship"}

RevealRow == [from : Users, to : Users, on : Connections \cup {None},
              status : RevealStatus]
ConversationRow == [user1 : Users, user2 : Users, context : Contexts,
                    shown : BOOLEAN]
ConnectionRow == [post : Posts, sender : Users, receiver : Users,
                  status : ConnectionStatus, shown : BOOLEAN]

SamePair(a, b, u, v) == (a = u /\ b = v) \/ (a = v /\ b = u)

ConversationsOf(u, v) ==
  {c \in Conversations :
     /\ conversation[c] # None
     /\ SamePair(conversation[c].user1, conversation[c].user2, u, v)}

RevealsOf(u, v, status) ==
  {r \in Reveals : /\ reveal[r] # None
                   /\ reveal[r].status = status
                   /\ SamePair(reveal[r].from, reveal[r].to, u, v)}

IsRevealedAnyStatus(u, v) == \E status \in RevealStatus : RevealsOf(u, v, status) # {}

IsRevealed(u, v) == RevealsOf(u, v, "accepted") # {}

OtherParty(a, b, u) == IF u = a THEN b ELSE a

----------------------------------------------------------------------------
(* Calls.  by is the authenticated user, with the other user concerned;    *)
(* what is the answer being given, or what isRevealed returned; found      *)
(* holds conversations read, owed those the pair had when the answer was   *)
(* recorded.                                                               *)

Stages == {"findPending", "findExisting", "insertReveal",
           "answerInChat", "answerOnConnection", "cancel",
           "findConversations", "flagConversations", "flagConnection",
           "isRevealed", "insertConversation", "findChat",
           "insertConnection", "countRequest", "decide", "takeSlot"}

Call == [at : Stages, by : Users, with : Users,
         row : Reveals \cup {None}, on : Connections \cup {None},
         post : Posts \cup {None}, context : Contexts, what : BOOLEAN,
         takes : BOOLEAN, found : SUBSET Conversations,
         owed : SUBSET Conversations]

NewCall(stage, u, v) ==
  [at |-> stage, by |-> u, with |-> v, row |-> None, on |-> None,
   post |-> None, context |-> "plain", what |-> FALSE, takes |-> FALSE,
   found |-> {}, owed |-> {}]

(* None is none of the rows and calls it stands for the absence of.        *)
ASSUME NoneAssumption ==
  /\ None \notin Connections
  /\ None \notin RevealRow
  /\ None \notin ConversationRow
  /\ None \notin ConnectionRow
  /\ None \notin Call

Idle(x) == call[x] = None
At(x, stage) == call[x] # None /\ call[x].at = stage
Start(x, c) == call' = [call EXCEPT ![x] = c]
Goto(x, stage) == call' = [call EXCEPT ![x].at = stage]
Return(x) == call' = [call EXCEPT ![x] = None]

(* The bound on every table: a call that may insert a row starts only      *)
(* while there is an id left for it.                                       *)
RoomIn(table) == \E id \in DOMAIN table : table[id] = None

(* What a read of a possibly empty set reports: the builder returns no     *)
(* data on an error, which a caller that ignores the error takes for none. *)
Reported(nonEmpty) == IF ReadsMayFail THEN {nonEmpty, FALSE} ELSE {nonEmpty}

----------------------------------------------------------------------------
Init == /\ reveal = [r \in Reveals |-> None]
        /\ conversation = [c \in Conversations |-> None]
        /\ connection = [k \in Connections |-> None]
        /\ slots = InitialSlots
        /\ requests = [p \in Posts |-> 0]
        /\ call = [x \in Calls |-> None]
        /\ asked = {} /\ agreed = {}

----------------------------------------------------------------------------
(* Asking.                                                                 *)

(* The optional connection_id of the request comes from the client and is  *)
(* stored as it is: any connection there is, the pair's own or not.        *)
ClientConnections == {k \in Connections : connection[k] # None}

(* messaging requestReveal: the conversation is read and checked.          *)
AskInChat(x, u, c) ==
  /\ Idle(x) /\ RoomIn(reveal)
  /\ conversation[c] # None
  /\ u \in {conversation[c].user1, conversation[c].user2}
  /\ ~conversation[c].shown
  /\ LET v == OtherParty(conversation[c].user1, conversation[c].user2, u)
     IN \E k \in ClientConnections \cup {None} :
          Start(x, [NewCall("findPending", u, v) EXCEPT !.on = k])
  /\ UNCHANGED <<reveal, conversation, connection, counters, history>>

(* A pending reveal of the pair in either direction refuses the request.   *)
FindPending(x) ==
  /\ At(x, "findPending")
  /\ \E pending \in Reported(RevealsOf(call[x].by, call[x].with, "pending") # {}) :
       IF pending THEN Return(x) ELSE Goto(x, "insertReveal")
  /\ UNCHANGED <<reveal, conversation, connection, counters, history>>

(* referral requestReveal: the connection is read and checked.             *)
AskOnConnection(x, u, k) ==
  /\ Idle(x) /\ RoomIn(reveal)
  /\ connection[k] # None
  /\ u \in {connection[k].sender, connection[k].receiver}
  /\ connection[k].status = "accepted"
  /\ ~connection[k].shown
  /\ LET v == OtherParty(connection[k].sender, connection[k].receiver, u)
     IN Start(x, [NewCall("findExisting", u, v) EXCEPT !.on = k])
  /\ UNCHANGED <<reveal, conversation, connection, counters, history>>

(* maybeSingle returns one of the connection's reveals, in no order.       *)
FindExisting(x) ==
  /\ At(x, "findExisting")
  /\ LET rows == {r \in Reveals : /\ reveal[r] # None
                                  /\ reveal[r].on = call[x].on}
     IN \/ /\ rows = {} \/ ReadsMayFail
           /\ Goto(x, "insertReveal")
        \/ \E r \in rows : IF reveal[r].status \in {"pending", "accepted"}
                             THEN Return(x)
                             ELSE Goto(x, "insertReveal")
  /\ UNCHANGED <<reveal, conversation, connection, counters, history>>

(* One pending reveal from a user to another, and UNIQUE (connection_id,   *)
(* requester_id, responder_id), null being distinct from null.             *)
RevealUnique(k, u, v) ==
  \A r \in Reveals : reveal[r] # None /\ reveal[r].from = u /\ reveal[r].to = v =>
    /\ reveal[r].status # "pending"
    /\ k # None => reveal[r].on # k

InsertReveal(x, r) ==
  /\ At(x, "insertReveal")
  /\ reveal[r] = None
  /\ RevealUnique(call[x].on, call[x].by, call[x].with)
  /\ reveal' = [reveal EXCEPT ![r] = [from |-> call[x].by, to |-> call[x].with,
                                      on |-> call[x].on, status |-> "pending"]]
  /\ asked' = asked \cup {<<call[x].by, call[x].with>>}
  /\ Return(x)
  /\ UNCHANGED <<conversation, connection, counters, agreed>>

----------------------------------------------------------------------------
(* Answering and cancelling: read the reveal, check it, write its status.  *)
(* The write does not repeat the check.                                    *)

AnswerByAnyone(x, u, r, stage, yes) ==
  /\ Idle(x)
  /\ reveal[r] # None
  /\ reveal[r].status = "pending"
  /\ Start(x, [NewCall(stage, u, reveal[r].from) EXCEPT
                 !.row = r, !.on = reveal[r].on, !.what = yes])
  /\ UNCHANGED <<reveal, conversation, connection, counters, history>>

Answer(x, u, r, stage, yes) ==
  /\ Idle(x)
  /\ reveal[r] # None
  /\ reveal[r].to = u
  /\ reveal[r].status = "pending"
  /\ Start(x, [NewCall(stage, u, reveal[r].from) EXCEPT
                 !.row = r, !.on = reveal[r].on, !.what = yes])
  /\ UNCHANGED <<reveal, conversation, connection, counters, history>>

(* messaging respondToReveal                                               *)
AnswerInChat(x, u, r) == \E yes \in BOOLEAN : Answer(x, u, r, "answerInChat", yes)

(* referral acceptReveal and rejectReveal                                  *)
AnswerOnConnection(x, u, r) ==
  \E yes \in BOOLEAN : Answer(x, u, r, "answerOnConnection", yes)

CancelAsk(x, u, r) ==
  /\ Idle(x)
  /\ reveal[r] # None
  /\ reveal[r].from = u
  /\ reveal[r].status = "pending"
  /\ Start(x, [NewCall("cancel", u, reveal[r].to) EXCEPT !.row = r])
  /\ UNCHANGED <<reveal, conversation, connection, counters, history>>

(* The acceptance is recorded and then carried to the pair's conversations *)
(* (messaging) or to the reveal's connection (referral), never to both.    *)
WriteAnswer(x) ==
  /\ \/ At(x, "answerInChat")
     \/ At(x, "answerOnConnection")
  /\ reveal' = [reveal EXCEPT ![call[x].row].status =
                  IF call[x].what THEN "accepted" ELSE "rejected"]
  /\ IF call[x].what
       THEN /\ agreed' = agreed \cup {<<call[x].by, call[x].with>>}
            /\ IF At(x, "answerInChat")
                 THEN Start(x, [call[x] EXCEPT
                        !.at = "findConversations",
                        !.owed = ConversationsOf(call[x].by, call[x].with)])
                 ELSE Goto(x, "flagConnection")
       ELSE /\ Return(x)
            /\ UNCHANGED agreed
  /\ UNCHANGED <<conversation, connection, counters, asked>>

WriteCancel(x) ==
  /\ At(x, "cancel")
  /\ reveal' = [reveal EXCEPT ![call[x].row].status = "cancelled"]
  /\ Return(x)
  /\ UNCHANGED <<conversation, connection, counters, history>>

FindConversationsOneWay(x) ==
  /\ At(x, "findConversations")
  /\ LET found == {c \in ConversationsOf(call[x].by, call[x].with) :
                     conversation[c].user1 = call[x].with}
     IN IF found = {}
          THEN Return(x)
          ELSE Start(x, [call[x] EXCEPT !.at = "flagConversations",
                                        !.found = found])
  /\ UNCHANGED <<reveal, conversation, connection, counters, history>>

FindConversations(x) ==
  /\ At(x, "findConversations")
  /\ LET found == ConversationsOf(call[x].by, call[x].with)
     IN IF found = {}
          THEN Return(x)
          ELSE Start(x, [call[x] EXCEPT !.at = "flagConversations",
                                        !.found = found])
  /\ UNCHANGED <<reveal, conversation, connection, counters, history>>

FlagConversations(x) ==
  /\ At(x, "flagConversations")
  /\ conversation' = [c \in Conversations |->
                        IF c \in call[x].found
                          THEN [conversation[c] EXCEPT !.shown = TRUE]
                          ELSE conversation[c]]
  /\ Return(x)
  /\ UNCHANGED <<reveal, connection, counters, history>>

(* A reveal asked for in a conversation may have no connection: the update *)
(* then matches no row, which is not an error.                             *)
FlagConnection(x) ==
  /\ At(x, "flagConnection")
  /\ connection' = [k \in Connections |->
                      IF k = call[x].on
                        THEN [connection[k] EXCEPT !.shown = TRUE]
                        ELSE connection[k]]
  /\ Return(x)
  /\ UNCHANGED <<reveal, conversation, counters, history>>

----------------------------------------------------------------------------
(* Conversations.                                                          *)

InContext(u, v, context) ==
  {c \in ConversationsOf(u, v) : conversation[c].context = context}

(* createConversation, up to its search for the same conversation.         *)
OpenConversation(x, u, v, context) ==
  /\ Idle(x) /\ RoomIn(conversation)
  /\ u # v
  /\ FALSE \in Reported(InContext(u, v, context) # {})
  /\ Start(x, [NewCall("isRevealed", u, v) EXCEPT !.context = context])
  /\ UNCHANGED <<reveal, conversation, connection, counters, history>>

ReadRevealed(x) ==
  /\ At(x, "isRevealed")
  /\ \E revealed \in Reported(IsRevealed(call[x].by, call[x].with)) :
       Start(x, [call[x] EXCEPT !.at = "insertConversation", !.what = revealed])
  /\ UNCHANGED <<reveal, conversation, connection, counters, history>>

(* startMentorshipChat, up to its search for the chat.  The accepted       *)
(* request it wants, and the relationship it makes sure of, are taken as   *)
(* given, one relationship for the pair.                                   *)
StartChat(x, u, v) ==
  /\ Idle(x) /\ RoomIn(conversation)
  /\ u # v
  /\ Start(x, [NewCall("findChat", u, v) EXCEPT !.context = "mentorship"])
  /\ UNCHANGED <<reveal, conversation, connection, counters, history>>

(* The chat is opened without a look at the reveals of the pair.           *)
FindChat(x) ==
  /\ At(x, "findChat")
  /\ \E found \in Reported(InContext(call[x].by, call[x].with, "mentorship") # {}) :
       IF found THEN Return(x) ELSE Goto(x, "insertConversation")
  /\ UNCHANGED <<reveal, conversation, connection, counters, history>>

(* UNIQUE (user1_id, user2_id, context_type, context_id), and without the  *)
(* last where it is null; the order of the users matters.                  *)
ConversationUnique(u, v, context) ==
  \A c \in InContext(u, v, context) : conversation[c].user1 # u

InsertConversation(x, c) ==
  /\ At(x, "insertConversation")
  /\ conversation[c] = None
  /\ ConversationUnique(call[x].by, call[x].with, call[x].context)
  /\ conversation' = [conversation EXCEPT ![c] =
                        [user1 |-> call[x].by, user2 |-> call[x].with,
                         context |-> call[x].context, shown |-> call[x].what]]
  /\ Return(x)
  /\ UNCHANGED <<reveal, connection, counters, history>>

----------------------------------------------------------------------------
(* Referral connections.                                                   *)

SendRequestCountsFirst(x, u, p) ==
  /\ Idle(x) /\ RoomIn(connection)
  /\ u # PostOwner[p]
  /\ FALSE \in Reported(\E k \in Connections : /\ connection[k] # None
                                              /\ connection[k].post = p
                                              /\ connection[k].sender = u)
  /\ requests' = [requests EXCEPT ![p] = @ + 1]
  /\ Start(x, [NewCall("insertConnection", u, PostOwner[p]) EXCEPT !.post = p])
  /\ UNCHANGED <<reveal, conversation, connection, slots, history>>

(* sendConnectionRequest, up to its search for the same request.           *)
SendRequest(x, u, p) ==
  /\ Idle(x) /\ RoomIn(connection)
  /\ u # PostOwner[p]
  /\ FALSE \in Reported(\E k \in Connections : /\ connection[k] # None
                                              /\ connection[k].post = p
                                              /\ connection[k].sender = u)
  /\ Start(x, [NewCall("insertConnection", u, PostOwner[p]) EXCEPT !.post = p])
  /\ UNCHANGED <<reveal, conversation, connection, counters, history>>

(* UNIQUE (referral_post_id, sender_id, receiver_id)                       *)
ConnectionUnique(p, u, v) ==
  \A k \in Connections : connection[k] # None =>
     ~(/\ connection[k].post = p
       /\ connection[k].sender = u
       /\ connection[k].receiver = v)

InsertConnection(x, k) ==
  /\ At(x, "insertConnection")
  /\ connection[k] = None
  /\ ConnectionUnique(call[x].post, call[x].by, call[x].with)
  /\ connection' = [connection EXCEPT ![k] =
                      [post |-> call[x].post, sender |-> call[x].by,
                       receiver |-> call[x].with, status |-> "pending",
                       shown |-> FALSE]]
  /\ Goto(x, "countRequest")
  /\ UNCHANGED <<reveal, conversation, counters, history>>

CountRequest(x) ==
  /\ At(x, "countRequest")
  /\ requests' = [requests EXCEPT ![call[x].post] = @ + 1]
  /\ Return(x)
  /\ UNCHANGED <<reveal, conversation, connection, slots, history>>

(* acceptConnection and rejectConnection read the connection and its post. *)
ReadRequest(x, u, k) ==
  /\ Idle(x)
  /\ connection[k] # None
  /\ connection[k].receiver = u
  /\ connection[k].status = "pending"
  /\ \E yes \in BOOLEAN :
       Start(x, [NewCall("decide", u, connection[k].sender) EXCEPT
                  !.on = k, !.post = connection[k].post, !.what = yes,
                  !.takes = yes /\ slots[connection[k].post] > 0])
  /\ UNCHANGED <<reveal, conversation, connection, counters, history>>

WriteDecision(x) ==
  /\ At(x, "decide")
  /\ connection' = [connection EXCEPT ![call[x].on].status =
                      IF call[x].what THEN "accepted" ELSE "rejected"]
  /\ IF call[x].takes THEN Goto(x, "takeSlot") ELSE Return(x)
  /\ UNCHANGED <<reveal, conversation, counters, history>>

(* decrement_available_slots tests and writes in one statement.            *)
TakeSlot(x) ==
  /\ At(x, "takeSlot")
  /\ slots' = [slots EXCEPT ![call[x].post] = IF @ > 0 THEN @ - 1 ELSE 0]
  /\ Return(x)
  /\ UNCHANGED <<reveal, conversation, connection, requests, history>>

----------------------------------------------------------------------------
(* An insert a unique index refuses is an error, which the caller is told. *)
Refused(x) ==
  /\ \/ /\ At(x, "insertReveal")
        /\ ~RevealUnique(call[x].on, call[x].by, call[x].with)
     \/ /\ At(x, "insertConversation")
        /\ ~ConversationUnique(call[x].by, call[x].with, call[x].context)
     \/ /\ At(x, "insertConnection")
        /\ ~ConnectionUnique(call[x].post, call[x].by, call[x].with)
  /\ Return(x)
  /\ UNCHANGED <<reveal, conversation, connection, counters, history>>

(* A statement fails or the process dies: nothing more of the call is      *)
(* done.                                                                   *)
Abort(x) ==
  /\ CallsMayEnd
  /\ call[x] # None
  /\ Return(x)
  /\ UNCHANGED <<reveal, conversation, connection, counters, history>>

Request(x, u) ==
  \/ \E c \in Conversations : AskInChat(x, u, c)
  \/ \E k \in Connections : AskOnConnection(x, u, k) \/ ReadRequest(x, u, k)
  \/ \E r \in Reveals : \/ AnswerInChat(x, u, r)
                        \/ AnswerOnConnection(x, u, r)
                        \/ CancelAsk(x, u, r)
  \/ \E v \in Users : \/ \E context \in Contexts : OpenConversation(x, u, v, context)
                      \/ StartChat(x, u, v)
  \/ \E p \in Posts : SendRequest(x, u, p)

Continue(x) ==
  \/ FindPending(x) \/ FindExisting(x)
  \/ \E r \in Reveals : InsertReveal(x, r)
  \/ WriteAnswer(x) \/ WriteCancel(x)
  \/ FindConversations(x) \/ FlagConversations(x) \/ FlagConnection(x)
  \/ ReadRevealed(x) \/ FindChat(x)
  \/ \E c \in Conversations : InsertConversation(x, c)
  \/ \E k \in Connections : InsertConnection(x, k)
  \/ CountRequest(x) \/ WriteDecision(x) \/ TakeSlot(x)

Next == \E x \in Calls : \/ \E u \in Users : Request(x, u)
                        \/ Continue(x)
                        \/ Refused(x) \/ Abort(x)

Spec == Init /\ [][Next]_vars

----------------------------------------------------------------------------
(* Properties.                                                             *)

TypeOK ==
  /\ reveal \in [Reveals -> RevealRow \cup {None}]
  /\ conversation \in [Conversations -> ConversationRow \cup {None}]
  /\ connection \in [Connections -> ConnectionRow \cup {None}]
  /\ slots \in [Posts -> Nat]
  /\ requests \in [Posts -> Nat]
  /\ call \in [Calls -> Call \cup {None}]
  /\ asked \subseteq Users \X Users
  /\ agreed \subseteq Users \X Users

(* Where u and v see each other's name: in a conversation or a connection  *)
(* with its flag set, and wherever isRevealed is asked.                    *)
Shown(u, v) ==
  \/ IsRevealed(u, v)
  \/ \E c \in ConversationsOf(u, v) : conversation[c].shown
  \/ \E k \in Connections : /\ connection[k] # None
                            /\ SamePair(connection[k].sender,
                                        connection[k].receiver, u, v)
                            /\ connection[k].shown

Consent(u, v) == \/ <<u, v>> \in asked /\ <<v, u>> \in agreed
                 \/ <<v, u>> \in asked /\ <<u, v>> \in agreed

(* A request that named connection k was made, and its two users consented. *)
Vouched(k) == \E r \in Reveals : /\ reveal[r] # None
                                /\ reveal[r].on = k
                                /\ Consent(reveal[r].from, reveal[r].to)

(* No interleaving of the two reveal services, of requests in both         *)
(* directions, of answers, cancellations and new conversations, shows two  *)
(* users each other's name, in a conversation or wherever isRevealed is    *)
(* asked, unless one of them asked and the other, and not somebody else,   *)
(* accepted.  A connection shows the names of its parties only when a      *)
(* request that named it had that consent of its own two users, who need   *)
(* not be the parties: the connection_id of a request made in a            *)
(* conversation is not compared with its pair.                             *)
DisclosureNeedsConsent ==
  /\ \A u, v \in Users :
       IsRevealed(u, v) \/ (\E c \in ConversationsOf(u, v) : conversation[c].shown)
       => Consent(u, v)
  /\ \A k \in Connections : connection[k] # None /\ connection[k].shown => Vouched(k)

(* When respondToReveal is done with the conversations, because it updated *)
(* those it found or because it found none, every conversation the pair    *)
(* had when the acceptance was recorded shows the names, whoever of the    *)
(* two had opened it and whatever happened in between.                     *)
AcceptanceReachesConversations ==
  [][\A x \in Calls :
       \/ FlagConversations(x)
       \/ FindConversations(x) /\ ~At(x, "flagConversations")'
       => \A c \in call[x].owed : conversation'[c].shown]_vars

(* connection_requests_count lags behind the connections of a post while a *)
(* request is being counted, and stays behind if that fails, but a request *)
(* refused or sent twice at the same time is never counted.                *)
CountNeverLeads ==
  \A p \in Posts :
    requests[p] <= Cardinality({k \in Connections : /\ connection[k] # None
                                                    /\ connection[k].post = p})

Disclosed == {p \in Users \X Users : Shown(p[1], p[2])}

PartiesOf(k) == {<<connection[k].sender, connection[k].receiver>>,
                 <<connection[k].receiver, connection[k].sender>>}

(* <<p, q>>: a request from p[1] to p[2] named a connection of q.          *)
Named ==
  UNION {{<<reveal[r].from, reveal[r].to>>} \X PartiesOf(reveal[r].on) :
           r \in {r \in Reveals : reveal[r] # None /\ reveal[r].on # None}}

Consenting == INSTANCE MutualConsent WITH disclosed <- Disclosed, named <- Named

(* The two services together keep the promise of MutualConsent: nobody     *)
(* agrees to what was not asked, and consent comes before disclosure, that *)
(* of the pair or that of a request which named a connection of the pair.  *)
ImplementsMutualConsent == Consenting!Spec

(* "Only pending requests can be cancelled" (messaging                     *)
(* identity-reveal.service.ts:392): a reveal that becomes cancelled was    *)
(* pending until then.                                                     *)
OnlyPendingIsCancelled ==
  [][\A r \in Reveals :
       /\ reveal'[r] # reveal[r]
       /\ reveal'[r].status = "cancelled"
       => reveal[r].status = "pending"]_vars
=============================================================================
