-------------------------------- MODULE Chat --------------------------------
(***************************************************************************)
(* One conversation as its two users see it: each may delete it, clear it  *)
(* and open it again, delete single messages, and send.  A hidden          *)
(* conversation is listed again when last_message_at is later than the     *)
(* time at which it was hidden; the service computes both before it writes *)
(* them.  The conversation has just been inserted by createConversation,   *)
(* whose other half is the creation of conversations in IdentityReveal.    *)
(*                                                                         *)
(* The history variable sendsApart says that no two messages were sent at  *)
(* once and that no update of last_message_at was lost.                    *)
(***************************************************************************)
EXTENDS Handlers, Integers

CONSTANTS
  ChatMessages,  \* ids of messages
  MaxTime        \* bound: the clock

Sides == {"user1", "user2"}   \* user1 has created the conversation

VARIABLES
  clock,         \* the time, in milliseconds of no particular length
  deletedAt,     \* conversations.user1_deleted_at, user2_deleted_at; 0 is null
  clearedAt,     \* conversations.user1_cleared_at, user2_cleared_at; 0 is null
  lastAt,        \* conversations.last_message_at
  chat,          \* messages: [ChatMessages -> None or a row]
  ccalls,        \* [Calls -> None or the handler in progress]
  posted,        \* history: the messages whose sendMessage has ended well
  sendsApart     \* history, see above

chatVars == <<clock, deletedAt, clearedAt, lastAt, chat, ccalls, posted, sendsApart>>
hiding   == <<deletedAt, clearedAt>>

ChatRow  == [sender : Sides, created : Nat, delivered : BOOLEAN, read : BOOLEAN,
             gone : SUBSET Sides]

ChatCall == [at : {"insertFirst", "insert", "stamp", "touch", "delete", "clear", "reopen"},
             side : Sides, time : Nat, message : ChatMessages \cup {None}]

ASSUME ChatAssumption ==
  /\ MaxTime \in Nat
  /\ None \notin ChatRow \cup ChatCall

(* createConversation has inserted the row and may have an initial message *)
(* to insert, for which last_message_at is not written again.              *)
ChatInit ==
  /\ clock = 1
  /\ deletedAt = [s \in Sides |-> 0]
  /\ clearedAt = [s \in Sides |-> 0]
  /\ lastAt = 1
  /\ chat = [m \in ChatMessages |-> None]
  /\ \E first \in BOOLEAN : \E c \in Calls :
       ccalls = [d \in Calls |-> IF first /\ d = c
                  THEN [at |-> "insertFirst", side |-> "user1", time |-> 1, message |-> None]
                  ELSE None]
  /\ posted = {}
  /\ sendsApart = TRUE

TimePasses == /\ clock < MaxTime
              /\ clock' = clock + 1
              /\ UNCHANGED <<hiding, lastAt, chat, ccalls, posted, sendsApart>>

----------------------------------------------------------------------------
(* What a user is shown.  getConversationMessages leaves out what he has   *)
(* deleted, and all that is not newer than his deletion of the whole.      *)
Shown(m, side) ==
  /\ chat[m] # None
  /\ side \notin chat[m].gone
  /\ deletedAt[side] = 0 \/ chat[m].created > deletedAt[side]

HiddenAt(side) == IF deletedAt[side] > clearedAt[side] THEN deletedAt[side] ELSE clearedAt[side]

(* getConversations.                                                       *)
Listed(side) == HiddenAt(side) = 0 \/ lastAt > HiddenAt(side)

----------------------------------------------------------------------------
CCalls(c, at, side) ==
  /\ ccalls[c] = None
  /\ ccalls' = [ccalls EXCEPT ![c] = [at |-> at, side |-> side, time |-> clock, message |-> None]]
CGoes(c, at) == ccalls' = [ccalls EXCEPT ![c].at = at]
CEnds(c)     == ccalls' = [ccalls EXCEPT ![c] = None]

InsertsChat(c, m) ==
  chat' = [chat EXCEPT ![m] = [sender |-> ccalls[c].side, created |-> clock,
                               delivered |-> FALSE, read |-> FALSE, gone |-> {}]]

InsertFirst(c) ==
  /\ Waits(ccalls[c], "insertFirst")
  /\ \E m \in FreeIds(chat) : InsertsChat(c, m)
  /\ CEnds(c)
  /\ UNCHANGED <<clock, hiding, lastAt, posted, sendsApart>>

(* sendMessage: the conversation exists, is active and of the right type.  *)
SendMessage(c, side) ==
  /\ CCalls(c, "insert", side)
  /\ sendsApart' = (sendsApart /\ \A d \in RowIds(ccalls) : ccalls[d].at \notin {"insert", "stamp", "touch"})
  /\ UNCHANGED <<clock, hiding, lastAt, chat, posted>>

InsertChat(c) ==
  /\ Waits(ccalls[c], "insert")
  /\ \E m \in FreeIds(chat) :
       /\ InsertsChat(c, m)
       /\ ccalls' = [ccalls EXCEPT ![c].at = "stamp", ![c].message = m]
  /\ UNCHANGED <<clock, hiding, lastAt, posted, sendsApart>>

StampAtStart(c) ==
  /\ Waits(ccalls[c], "stamp")
  /\ CGoes(c, "touch")
  /\ UNCHANGED <<clock, hiding, lastAt, chat, posted, sendsApart>>

(* The time of the update is computed once the row is inserted.            *)
Stamp(c) ==
  /\ Waits(ccalls[c], "stamp")
  /\ ccalls' = [ccalls EXCEPT ![c].at = "touch", ![c].time = clock]
  /\ UNCHANGED <<clock, hiding, lastAt, chat, posted, sendsApart>>

(* The result of the update is not looked at.                              *)
TouchConversation(c) ==
  /\ Waits(ccalls[c], "touch")
  /\ \/ lastAt' = ccalls[c].time /\ UNCHANGED sendsApart
     \/ sendsApart' = FALSE /\ UNCHANGED lastAt
  /\ posted' = posted \cup {ccalls[c].message}
  /\ CEnds(c)
  /\ UNCHANGED <<clock, hiding, chat>>

----------------------------------------------------------------------------
(* deleteConversation and clearConversation: the time, then the write.     *)
HideConversation(c, side) ==
  /\ CCalls(c, "delete", side) \/ CCalls(c, "clear", side)
  /\ UNCHANGED <<clock, hiding, lastAt, chat, posted, sendsApart>>

WriteDeleted(c) ==
  /\ Waits(ccalls[c], "delete")
  /\ deletedAt' = [deletedAt EXCEPT ![ccalls[c].side] = ccalls[c].time]
  /\ CEnds(c)
  /\ UNCHANGED <<clock, clearedAt, lastAt, chat, posted, sendsApart>>

WriteCleared(c) ==
  /\ Waits(ccalls[c], "clear")
  /\ clearedAt' = [clearedAt EXCEPT ![ccalls[c].side] = ccalls[c].time]
  /\ CEnds(c)
  /\ UNCHANGED <<clock, deletedAt, lastAt, chat, posted, sendsApart>>

(* createConversation finds the conversation, hidden from the caller, and  *)
(* opens it again.                                                         *)
ReopenConversation(c, side) ==
  /\ HiddenAt(side) # 0
  /\ CCalls(c, "reopen", side)
  /\ UNCHANGED <<clock, hiding, lastAt, chat, posted, sendsApart>>

WriteReopened(c) ==
  /\ Waits(ccalls[c], "reopen")
  /\ deletedAt' = [deletedAt EXCEPT ![ccalls[c].side] = 0]
  /\ clearedAt' = [clearedAt EXCEPT ![ccalls[c].side] = 0]
  /\ CEnds(c)
  /\ UNCHANGED <<clock, lastAt, chat, posted, sendsApart>>

(* deleteMessage: rows of messages stay, so one statement decides.         *)
DeleteChatMessage(side, m) ==
  /\ chat[m] # None
  /\ side \notin chat[m].gone
  /\ chat' = [chat EXCEPT ![m].gone = @ \cup {side}]
  /\ UNCHANGED <<clock, hiding, lastAt, ccalls, posted, sendsApart>>

(* markAsRead: all of the other's messages.                                *)
MarkAsRead(side) ==
  /\ chat' = [m \in ChatMessages |->
                IF chat[m] # None /\ chat[m].sender # side THEN [chat[m] EXCEPT !.read = TRUE]
                ELSE chat[m]]
  /\ UNCHANGED <<clock, hiding, lastAt, ccalls, posted, sendsApart>>

(* getConversationMessages marks what it shows of the other's messages.    *)
FetchMessages(side) ==
  /\ chat' = [m \in ChatMessages |->
                IF Shown(m, side) /\ chat[m].sender # side
                THEN [chat[m] EXCEPT !.delivered = TRUE] ELSE chat[m]]
  /\ UNCHANGED <<clock, hiding, lastAt, ccalls, posted, sendsApart>>

ChatAbort(c) ==
  /\ ccalls[c] # None
  /\ CEnds(c)
  /\ UNCHANGED <<clock, hiding, lastAt, chat, posted, sendsApart>>

ChatStep(c) ==
  \/ InsertFirst(c) \/ InsertChat(c) \/ Stamp(c) \/ TouchConversation(c)
  \/ WriteDeleted(c) \/ WriteCleared(c) \/ WriteReopened(c) \/ ChatAbort(c)
  \/ \E s \in Sides : SendMessage(c, s) \/ HideConversation(c, s) \/ ReopenConversation(c, s)

ChatNext ==
  \/ \E c \in Calls : ChatStep(c)
  \/ \E s \in Sides : MarkAsRead(s) \/ FetchMessages(s) \/ \E m \in ChatMessages : DeleteChatMessage(s, m)
  \/ TimePasses

ChatSpec == ChatInit /\ [][ChatNext]_chatVars

----------------------------------------------------------------------------
(* A message that was sent and that a user would be shown, newer than his  *)
(* last deletion and clearing, is in a conversation that is listed for     *)
(* him, however hiding, opening again and sending interleave (sendMessage  *)
(* in messaging.service.ts, getConversations in conversations.service.ts). *)
(* An initial message is not among them: last_message_at is older than it, *)
(* and a deletion between the two hides it.                                *)
NewMessageIsListed ==
  sendsApart =>
    \A m \in posted, side \in Sides :
      Shown(m, side) /\ chat[m].created > clearedAt[side] => Listed(side)
=============================================================================
