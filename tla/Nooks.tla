------------------------------- MODULE Nooks -------------------------------
(***************************************************************************)
(* Nooks, the rooms that live for a day: membership, threads of messages,  *)
(* reactions to a message, expiry, deletion by the creator and by an       *)
(* administrator, and the counters kept in the rows.                       *)
(*                                                                         *)
(* Every counter is read by one statement and written by a later one, so   *)
(* two handlers of the same counter that overlap can lose an update of     *)
(* each other.  The history variable nooksApart says that this has not     *)
(* happened, that no handler has failed half way, and that none has gone   *)
(* on over an error it does not look at and that spoils what it does next. *)
(* It is what the arithmetic is checked under.  Left out: texts,           *)
(* temperature, views, flags, reactions to the nook itself (rows without a *)
(* counter) and notifications.                                             *)
(***************************************************************************)
EXTENDS Handlers, Integers, FiniteSets

CONSTANTS
  NookIds,
  Members,      \* users
  MessageIds

VARIABLES
  nooks,         \* [NookIds -> None or a row]
  memberships,   \* nook_members: <<nook, user>>
  messages,      \* nook_messages: [MessageIds -> None or a row]
  hearts,        \* nook_message_reactions of one type: <<message, user>>
  ncalls,        \* [Calls -> None or the handler in progress]
  nooksApart     \* history: no clash and no failure yet

nookVars == <<nooks, memberships, messages, hearts, ncalls, nooksApart>>

NookRow    == [creator : Members, phase : {"open", "expired", "archived"}, locked : BOOLEAN,
               members_count : Nat, messages_count : Nat]
MessageRow == [nook : NookIds \cup {None}, author : Members, parent : MessageIds \cup {None},
               is_deleted : BOOLEAN, count : Nat]

(* The message called on is the parent, the root of a thread, or the one   *)
(* that is liked.                                                          *)
NookCall ==
  [at : {"autoJoin", "findMember", "insertMember", "countJoin", "leave", "countLeave",
         "insertMessage", "countMessage", "collect", "softDelete", "readCount", "uncount",
         "readHearts", "writeHeart", "countHeart", "deleteMessages", "deleteNook"},
   about : {"members", "messages", "hearts", "nook"}, nook : NookIds, user : Members,
   on : MessageIds \cup {None}, holds : SUBSET MessageIds, count : Nat, liked : BOOLEAN]

ASSUME NooksAssumption ==
  /\ \A S \in {Calls, NookIds, Members, MessageIds} : IsFiniteSet(S)
  /\ None \notin NookRow \cup MessageRow \cup NookCall \cup MessageIds \cup NookIds

NooksInit ==
  /\ nooks = [n \in NookIds |-> None]
  /\ memberships = {}
  /\ messages = [m \in MessageIds |-> None]
  /\ hearts = {}
  /\ ncalls = [c \in Calls |-> None]
  /\ nooksApart = TRUE

(* Handlers clash when they are about the same counter of a nook or of a   *)
(* message, or one of them is the deletion of the nook.                    *)
Clash(k, l) ==
  /\ k.nook = l.nook
  /\ \/ "nook" \in {k.about, l.about}
     \/ k.about = l.about /\ (k.about = "hearts" => k.on = l.on)

NStarts(c, call) ==
  /\ ncalls[c] = None
  /\ ncalls' = [ncalls EXCEPT ![c] = call]
  /\ nooksApart' = (nooksApart /\ \A d \in RowIds(ncalls) : ~Clash(ncalls[d], call))

NCall(at, about, n, u) ==
  [at |-> at, about |-> about, nook |-> n, user |-> u, on |-> None, holds |-> {}, count |-> 0,
   liked |-> FALSE]

NGoes(c, at) == ncalls' = [ncalls EXCEPT ![c].at = at] /\ UNCHANGED nooksApart
NEnds(c)     == ncalls' = [ncalls EXCEPT ![c] = None] /\ UNCHANGED nooksApart

(* An id is a uuid: it is not used again while a handler may hold it.      *)
UnusedNook(n)    == nooks[n] = None /\ \A k \in RowIds(ncalls) : ncalls[k].nook # n
UnusedMessage(m) == messages[m] = None /\ \A k \in RowIds(ncalls) : m \notin ncalls[k].holds

(* NookActiveGuard, and the same test in join and createMessage.           *)
AcceptsPosts(n) == nooks[n] # None /\ nooks[n].phase = "open" /\ ~nooks[n].locked

LiveMessages(n) ==
  {m \in RowIds(messages) : messages[m].nook = n /\ ~messages[m].is_deleted}

Written(n, field, value) ==
  nooks' = IF nooks[n] = None THEN nooks ELSE [nooks EXCEPT ![n][field] = value]

AtLeastZero(k) == IF k < 0 THEN 0 ELSE k

----------------------------------------------------------------------------
(* create: the row, then the creator's own membership, which members_count *)
(* does not include.                                                       *)
CreateNook(c, u) ==
  \E n \in NookIds :
    /\ UnusedNook(n)
    /\ nooks' = [nooks EXCEPT ![n] = [creator |-> u, phase |-> "open", locked |-> FALSE,
                                      members_count |-> 0, messages_count |-> 0]]
    /\ NStarts(c, NCall("autoJoin", "members", n, u))
    /\ UNCHANGED <<memberships, messages, hearts>>

AutoJoin(c) ==
  /\ Waits(ncalls[c], "autoJoin")
  /\ memberships' = IF nooks[ncalls[c].nook] = None THEN memberships
                    ELSE memberships \cup {<<ncalls[c].nook, ncalls[c].user>>}
  /\ NEnds(c)
  /\ UNCHANGED <<nooks, messages, hearts>>

JoinNook(c, n, u) ==
  /\ AcceptsPosts(n)
  /\ NStarts(c, [NCall("findMember", "members", n, u) EXCEPT !.count = nooks[n].members_count])
  /\ UNCHANGED <<nooks, memberships, messages, hearts>>

(* A look that fails is a look that finds nobody.                          *)
FindMember(c) ==
  /\ Waits(ncalls[c], "findMember")
  /\ \/ <<ncalls[c].nook, ncalls[c].user>> \in memberships /\ NEnds(c)
     \/ NGoes(c, "insertMember")
  /\ UNCHANGED <<nooks, memberships, messages, hearts>>

(* A pair is unique, and the nook has to exist.                            *)
InsertMember(c) ==
  /\ Waits(ncalls[c], "insertMember")
  /\ LET pair == <<ncalls[c].nook, ncalls[c].user>>
     IN IF pair \in memberships \/ nooks[ncalls[c].nook] = None
        THEN NEnds(c) /\ UNCHANGED memberships
        ELSE memberships' = memberships \cup {pair} /\ NGoes(c, "countJoin")
  /\ UNCHANGED <<nooks, messages, hearts>>

CountJoin(c) ==
  /\ Waits(ncalls[c], "countJoin")
  /\ Written(ncalls[c].nook, "members_count", ncalls[c].count + 1)
  /\ NEnds(c)
  /\ UNCHANGED <<memberships, messages, hearts>>

LeaveNook(c, n, u) ==
  /\ nooks[n] # None
  /\ nooks[n].creator # u
  /\ NStarts(c, [NCall("leave", "members", n, u) EXCEPT !.count = nooks[n].members_count])
  /\ UNCHANGED <<nooks, memberships, messages, hearts>>

(* The membership is looked up and deleted; the error is the same as none. *)
DeleteMember(c) ==
  /\ Waits(ncalls[c], "leave")
  /\ LET pair == <<ncalls[c].nook, ncalls[c].user>>
     IN IF pair \notin memberships
        THEN NEnds(c) /\ UNCHANGED memberships
        ELSE memberships' = memberships \ {pair} /\ NGoes(c, "countLeave")
  /\ UNCHANGED <<nooks, messages, hearts>>

CountLeave(c) ==
  /\ Waits(ncalls[c], "countLeave")
  /\ Written(ncalls[c].nook, "members_count", AtLeastZero(ncalls[c].count - 1))
  /\ NEnds(c)
  /\ UNCHANGED <<memberships, messages, hearts>>

(* An administrator removes a member and leaves the counter as it is.      *)
RemoveMember(n, u) ==
  /\ <<n, u>> \in memberships
  /\ memberships' = memberships \ {<<n, u>>}
  /\ nooksApart' = (nooksApart /\ \A d \in RowIds(ncalls) :
                       ncalls[d].about = "members" => ncalls[d].nook # n)
  /\ UNCHANGED <<nooks, messages, hearts, ncalls>>

----------------------------------------------------------------------------
(* createMessage: the counter is read with the nook, before the parent is  *)
(* looked up and the message inserted.                                     *)
CreateMessage(c, n, u, parent) ==
  /\ AcceptsPosts(n)
  /\ NStarts(c, [NCall("insertMessage", "messages", n, u) EXCEPT
                   !.on = parent, !.holds = {parent} \ {None}, !.count = nooks[n].messages_count])
  /\ UNCHANGED <<nooks, memberships, messages, hearts>>

InsertMessage(c) ==
  /\ Waits(ncalls[c], "insertMessage")
  /\ LET k == ncalls[c]
         found == k.on = None \/ (/\ messages[k.on] # None
                                  /\ messages[k.on].nook = k.nook)
     IN IF ~found \/ nooks[k.nook] = None
        THEN NEnds(c) /\ UNCHANGED messages
        ELSE \E m \in MessageIds :
               /\ UnusedMessage(m)
               /\ messages' = [messages EXCEPT ![m] =
                    [nook |-> k.nook, author |-> k.user, parent |-> k.on,
                     is_deleted |-> FALSE, count |-> 0]]
               /\ NGoes(c, "countMessage")
  /\ UNCHANGED <<nooks, memberships, hearts>>

CountMessage(c) ==
  /\ Waits(ncalls[c], "countMessage")
  /\ Written(ncalls[c].nook, "messages_count", ncalls[c].count + 1)
  /\ NEnds(c)
  /\ UNCHANGED <<memberships, messages, hearts>>

RepliesTo(ids) == {m \in RowIds(messages) : messages[m].parent \in ids /\ ~messages[m].is_deleted}

(* collectMessageDescendants: the message, and what hangs from it through  *)
(* replies that are not deleted.                                           *)
Thread(m) ==
  {x \in MessageIds : \A ids \in SUBSET MessageIds :
     m \in ids /\ RepliesTo(ids) \subseteq ids => x \in ids}

(* A read of the replies to one message that fails ends the walk there.    *)
Walks(m) ==
  {ids \in SUBSET Thread(m) :
     /\ m \in ids
     /\ \A x \in ids : RepliesTo({x}) \subseteq ids \/ RepliesTo({x}) \cap ids = {}
     /\ \A x \in ids \ {m} : messages[x].parent \in ids}

(* deleteMessage, by the author or by the creator of the nook.             *)
DeleteMessage(c, m, u) ==
  /\ messages[m] # None
  /\ messages[m].nook # None
  /\ ~messages[m].is_deleted
  /\ u \in {messages[m].author, nooks[messages[m].nook].creator}
  /\ NStarts(c, [NCall("collect", "messages", messages[m].nook, u) EXCEPT
                   !.on = m, !.holds = {m}])
  /\ UNCHANGED <<nooks, memberships, messages, hearts>>

CollectThread(c) ==
  /\ Waits(ncalls[c], "collect")
  /\ \E ids \in Walks(ncalls[c].on) :
       ncalls' = [ncalls EXCEPT ![c].at = "softDelete", ![c].holds = ids]
  /\ UNCHANGED <<nooks, memberships, messages, hearts, nooksApart>>

SoftDelete(c) ==
  /\ Waits(ncalls[c], "softDelete")
  /\ messages' = [m \in MessageIds |->
       IF m \in ncalls[c].holds \cap RowIds(messages)
       THEN [messages[m] EXCEPT !.is_deleted = TRUE] ELSE messages[m]]
  /\ NGoes(c, "readCount")
  /\ UNCHANGED <<nooks, memberships, hearts>>

ReadMessagesCount(c) ==
  /\ Waits(ncalls[c], "readCount")
  /\ LET n == ncalls[c].nook
     IN ncalls' = [ncalls EXCEPT ![c].at = "uncount",
                     ![c].count = IF nooks[n] = None THEN 0 ELSE nooks[n].messages_count]
  /\ UNCHANGED <<nooks, memberships, messages, hearts, nooksApart>>

(* The read fails, which nobody asks: what is written is zero.             *)
MissMessagesCount(c) ==
  /\ Waits(ncalls[c], "readCount")
  /\ ncalls' = [ncalls EXCEPT ![c].at = "uncount", ![c].count = 0]
  /\ nooksApart' = FALSE
  /\ UNCHANGED <<nooks, memberships, messages, hearts>>

UncountRoot(c) ==
  /\ Waits(ncalls[c], "uncount")
  /\ Written(ncalls[c].nook, "messages_count", AtLeastZero(ncalls[c].count - 1))
  /\ NEnds(c)
  /\ UNCHANGED <<memberships, messages, hearts>>

UncountThread(c) ==
  /\ Waits(ncalls[c], "uncount")
  /\ Written(ncalls[c].nook, "messages_count",
             AtLeastZero(ncalls[c].count - Cardinality(ncalls[c].holds)))
  /\ NEnds(c)
  /\ UNCHANGED <<memberships, messages, hearts>>

----------------------------------------------------------------------------
(* toggleMessageReaction: the row is looked up, the counter is read with   *)
(* the message, the row is written, then the counter.  A look that fails   *)
(* is a look that finds no row.                                            *)
ToggleMessageReaction(c, m, u) ==
  /\ messages[m] # None
  /\ messages[m].nook # None
  /\ \E seen \in {FALSE, <<m, u>> \in hearts} :
       NStarts(c, [NCall("readHearts", "hearts", messages[m].nook, u) EXCEPT
                     !.on = m, !.holds = {m}, !.liked = seen])
  /\ UNCHANGED <<nooks, memberships, messages, hearts>>

ReadHearts(c) ==
  /\ Waits(ncalls[c], "readHearts")
  /\ LET m == ncalls[c].on
     IN IF messages[m] = None THEN NEnds(c)
        ELSE /\ ncalls' = [ncalls EXCEPT ![c].at = "writeHeart", ![c].count = messages[m].count]
             /\ UNCHANGED nooksApart
  /\ UNCHANGED <<nooks, memberships, messages, hearts>>

WriteHeart(c) ==
  /\ Waits(ncalls[c], "writeHeart")
  /\ LET pair == <<ncalls[c].on, ncalls[c].user>>
         refused == ~ncalls[c].liked /\ (pair \in hearts \/ messages[ncalls[c].on] = None)
     IN IF refused THEN NEnds(c) /\ UNCHANGED hearts
        ELSE /\ hearts' = IF ncalls[c].liked THEN hearts \ {pair} ELSE hearts \cup {pair}
             /\ NGoes(c, "countHeart")
  /\ UNCHANGED <<nooks, memberships, messages>>

CountHeart(c) ==
  /\ Waits(ncalls[c], "countHeart")
  /\ LET m == ncalls[c].on
         count == ncalls[c].count + (IF ncalls[c].liked THEN -1 ELSE 1)
     IN messages' = IF messages[m] = None THEN messages
                    ELSE [messages EXCEPT ![m].count = AtLeastZero(count)]
  /\ NEnds(c)
  /\ UNCHANGED <<nooks, memberships, hearts>>

----------------------------------------------------------------------------
Expire(n) ==
  /\ nooks[n] # None
  /\ nooks[n].phase = "open"
  /\ nooks' = [nooks EXCEPT ![n].phase = "expired"]
  /\ UNCHANGED <<memberships, messages, hearts, ncalls, nooksApart>>

(* archiveExpiredNooks, one UPDATE.                                        *)
ArchiveExpiredNooks ==
  /\ \E n \in RowIds(nooks) : nooks[n].phase = "expired"
  /\ nooks' = [n \in NookIds |->
       IF nooks[n] # None /\ nooks[n].phase = "expired"
       THEN [nooks[n] EXCEPT !.phase = "archived"] ELSE nooks[n]]
  /\ UNCHANGED <<memberships, messages, hearts, ncalls, nooksApart>>

(* lock, and updateNook of an administrator, who also unlocks.             *)
LockNook(n) ==
  /\ nooks[n] # None
  /\ nooks' = [nooks EXCEPT ![n].locked = ~@]
  /\ UNCHANGED <<memberships, messages, hearts, ncalls, nooksApart>>

RemoveNook(c, n, u) ==
  /\ nooks[n] # None
  /\ nooks[n].creator = u
  /\ NStarts(c, NCall("deleteMessages", "nook", n, u))
  /\ UNCHANGED <<nooks, memberships, messages, hearts>>

(* Replies and reactions go with their message.                            *)
DeleteMessages(c) ==
  /\ Waits(ncalls[c], "deleteMessages")
  /\ LET gone == {m \in RowIds(messages) : messages[m].nook = ncalls[c].nook}
     IN /\ messages' = [m \in MessageIds |-> IF m \in gone THEN None ELSE messages[m]]
        /\ hearts' = {h \in hearts : h[1] \notin gone}
  /\ NGoes(c, "deleteNook")
  /\ UNCHANGED <<nooks, memberships>>

(* The delete fails and the nook goes all the same.                        *)
MissMessages(c) ==
  /\ Waits(ncalls[c], "deleteMessages")
  /\ ncalls' = [ncalls EXCEPT ![c].at = "deleteNook"]
  /\ nooksApart' = FALSE
  /\ UNCHANGED <<nooks, memberships, messages, hearts>>

(* A message that is still there loses its nook (ON DELETE SET NULL).      *)
DeleteNook(c) ==
  /\ Waits(ncalls[c], "deleteNook")
  /\ LET n == ncalls[c].nook
     IN /\ nooks' = [nooks EXCEPT ![n] = None]
        /\ memberships' = {p \in memberships : p[1] # n}
        /\ messages' = [m \in MessageIds |->
             IF messages[m] # None /\ messages[m].nook = n
             THEN [messages[m] EXCEPT !.nook = None] ELSE messages[m]]
  /\ NEnds(c)
  /\ UNCHANGED hearts

NookAbort(c) ==
  /\ ncalls[c] # None
  /\ ncalls' = [ncalls EXCEPT ![c] = None]
  /\ nooksApart' = FALSE
  /\ UNCHANGED <<nooks, memberships, messages, hearts>>

NookStarts(c, u) ==
  \/ CreateNook(c, u)
  \/ \E n \in NookIds :
       \/ JoinNook(c, n, u) \/ LeaveNook(c, n, u) \/ RemoveNook(c, n, u)
       \/ \E parent \in RowIds(messages) \cup {None} : CreateMessage(c, n, u, parent)
  \/ \E m \in MessageIds : DeleteMessage(c, m, u) \/ ToggleMessageReaction(c, m, u)

NookStep(c) ==
  \/ AutoJoin(c)
  \/ FindMember(c)
  \/ InsertMember(c)
  \/ CountJoin(c)
  \/ DeleteMember(c)
  \/ CountLeave(c)
  \/ InsertMessage(c)
  \/ CountMessage(c)
  \/ CollectThread(c)
  \/ SoftDelete(c)
  \/ ReadMessagesCount(c)
  \/ MissMessagesCount(c)
  \/ UncountThread(c)
  \/ ReadHearts(c)
  \/ WriteHeart(c)
  \/ CountHeart(c)
  \/ DeleteMessages(c)
  \/ MissMessages(c)
  \/ DeleteNook(c)

NooksNext ==
  \/ \E c \in Calls : NookStep(c) \/ NookAbort(c) \/ \E u \in Members : NookStarts(c, u)
  \/ \E n \in NookIds : Expire(n) \/ LockNook(n) \/ \E u \in Members : RemoveMember(n, u)
  \/ ArchiveExpiredNooks

NooksSpec == NooksInit /\ [][NooksNext]_nookVars

----------------------------------------------------------------------------
(* Between handlers that did not clash, did not fail and did not go on     *)
(* over a failed read of messages_count or a failed delete of messages,    *)
(* messages_count is the number of messages not deleted, through deletions *)
(* of threads with deleted parts, late replies and walks cut short by a    *)
(* failed read; a reaction counter is the number of its rows, whatever was *)
(* seen when it was looked up; members_count covers the members other than *)
(* the creator (an administrator's removal leaves it too high); and the    *)
(* deletion of a nook leaves no message behind, as nooks.service.ts:395    *)
(* asks: it does when its delete of the messages fails.                    *)
NookCountsAddUp ==
  nooksApart /\ RowIds(ncalls) = {} =>
    /\ \A n \in RowIds(nooks) :
         /\ nooks[n].messages_count = Cardinality(LiveMessages(n))
         /\ nooks[n].members_count >=
              Cardinality({p \in memberships : p[1] = n /\ p[2] # nooks[n].creator})
    /\ \A m \in RowIds(messages) :
         /\ messages[m].nook # None
         /\ messages[m].count = Cardinality({h \in hearts : h[1] = m})
=============================================================================
