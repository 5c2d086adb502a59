------------------------ MODULE IdentityRevealProofs ------------------------
(***************************************************************************)
(* For any users, rows and number of calls at a time, failing or not:      *)
(* IdentityReveal is type correct, shows no name without consent and       *)
(* implements MutualConsent.  While nothing failed and no calls overlapped *)
(* where that matters, an acceptance reaches the conversations of its pair *)
(* and requests are not counted ahead of the connections there are.        *)
(*                                                                         *)
(* Consent is not inductive by itself.  A call reads who asked whom, or    *)
(* that a pair is revealed, and writes a flag some steps later, so RowsInv *)
(* says what every stored row stands for and CallsInv what a call in       *)
(* progress may still rely on; both survive the steps of all other calls   *)
(* because rows never change parties and the history never shrinks.        *)
(***************************************************************************)
EXTENDS IdentityReveal, FiniteSetTheorems, TLAPS

(* Connection k, if any, exists.                                           *)
HasRow(k) == k # None => connection[k] # None

RevealOK(r) ==
  reveal[r] # None =>
    /\ <<reveal[r].from, reveal[r].to>> \in asked
    /\ reveal[r].status = "accepted" => <<reveal[r].to, reveal[r].from>> \in agreed
    /\ HasRow(reveal[r].on)

ConversationOK(c) ==
  conversation[c] # None =>
    (conversation[c].shown => Consent(conversation[c].user1, conversation[c].user2))

ConnectionOK(k) ==
  connection[k] # None =>
    (connection[k].shown => Vouched(k))

RowsInv == /\ \A r \in Reveals : RevealOK(r)
           /\ \A c \in Conversations : ConversationOK(c)
           /\ \A k \in Connections : ConnectionOK(k)

Asking == {"findPending", "findExisting", "insertReveal"}
Answering == {"answerInChat", "answerOnConnection"}
Disclosing == {"findConversations", "flagConversations", "flagConnection"}
OnPost == {"insertConnection", "countRequest", "takeSlot"}

CallOK(x) ==
  call[x] # None =>
    /\ call[x].at \in Asking \cup Disclosing =>
         HasRow(call[x].on)
    /\ call[x].at \in Answering \cup {"cancel"} =>
         call[x].row \in Reveals /\ reveal[call[x].row] # None
    /\ call[x].at \in Answering =>
         /\ reveal[call[x].row].from = call[x].with
         /\ reveal[call[x].row].to = call[x].by
         /\ reveal[call[x].row].on = call[x].on
    /\ call[x].at \in Disclosing => Consent(call[x].by, call[x].with)
    /\ call[x].at = "flagConnection" /\ call[x].on # None => Vouched(call[x].on)
    /\ call[x].at = "flagConversations" =>
         \A c \in call[x].found :
           /\ conversation[c] # None
           /\ SamePair(conversation[c].user1, conversation[c].user2,
                       call[x].by, call[x].with)
    /\ call[x].at = "findChat" => ~call[x].what
    /\ call[x].at = "insertConversation" =>
         (call[x].what => Consent(call[x].by, call[x].with))
    /\ call[x].at = "decide" =>
         call[x].on \in Connections /\ connection[call[x].on] # None
    /\ call[x].at \in OnPost \cup {"decide"} => call[x].post \in Posts

CallsInv == \A x \in Calls : CallOK(x)

IndInv == TypeOK /\ RowsInv /\ CallsInv

----------------------------------------------------------------------------
(* What survives a step in which rows keep their parties.                  *)

(* Nobody takes back what is on record.                                    *)
HistoryGrows == asked \subseteq asked' /\ agreed \subseteq agreed'

RowsKept ==
  /\ \A r \in Reveals : reveal[r] # None =>
       /\ reveal'[r] # None
       /\ reveal'[r].from = reveal[r].from
       /\ reveal'[r].to = reveal[r].to
       /\ reveal'[r].on = reveal[r].on
  /\ \A c \in Conversations : conversation[c] # None =>
       /\ conversation'[c] # None
       /\ conversation'[c].user1 = conversation[c].user1
       /\ conversation'[c].user2 = conversation[c].user2
  /\ \A k \in Connections : connection[k] # None =>
       /\ connection'[k] # None
       /\ connection'[k].sender = connection[k].sender
       /\ connection'[k].receiver = connection[k].receiver

Kept == HistoryGrows /\ RowsKept

(* Consent, once given, stands.                                            *)
LEMMA ConsentStands ==
  ASSUME HistoryGrows, NEW u, NEW v, Consent(u, v)
  PROVE  Consent(u, v)'
BY DEF HistoryGrows, Consent

(* The request that vouches for a connection stands, and so does its       *)
(* users' consent.                                                         *)
LEMMA VouchedStands ==
  ASSUME Kept, NEW k, Vouched(k)
  PROVE  Vouched(k)'
<1>1. PICK r \in Reveals : /\ reveal[r] # None /\ reveal[r].on = k
                          /\ Consent(reveal[r].from, reveal[r].to)
  BY DEF Vouched
<1>2. /\ reveal'[r] # None /\ reveal'[r].on = k
      /\ reveal'[r].from = reveal[r].from /\ reveal'[r].to = reveal[r].to
  BY <1>1 DEF Kept, RowsKept
<1>3. Consent(reveal[r].from, reveal[r].to)'
  BY <1>1, <1>2 DEF Kept, HistoryGrows, Consent
<1> QED
  BY <1>2, <1>3 DEF Vouched

(* A connection never disappears.                                          *)
LEMMA ConnectionStands ==
  ASSUME RowsKept, NEW k \in Connections \cup {None}, HasRow(k)
  PROVE  HasRow(k)'
BY DEF RowsKept, HasRow

(* A call keeps what it may rely on through the steps of the other calls.  *)
LEMMA OtherCalls ==
  ASSUME TypeOK, Kept, NEW y \in Calls, CallOK(y), call'[y] = call[y]
  PROVE  CallOK(y)'
<1> SUFFICES ASSUME call[y] # None
             PROVE  CallOK(y)'
  BY DEF CallOK
<1> USE DEF Kept
<1>1. call[y] \in Call
  BY DEF TypeOK
<1>2. call[y].on \in Connections \cup {None} /\ call[y].found \subseteq Conversations
  BY <1>1 DEF Call
<1>3. HasRow(call[y].on)
        => HasRow(call[y].on)'
  BY <1>2, ConnectionStands
<1>4. Consent(call[y].by, call[y].with) => Consent(call[y].by, call[y].with)'
  BY ConsentStands
<1>5. call[y].at \in Answering \cup {"cancel"} =>
        call[y].row \in Reveals /\ reveal'[call[y].row] # None
  BY DEF CallOK, RowsKept
<1>6. call[y].at \in Answering =>
        /\ reveal'[call[y].row].from = call[y].with
        /\ reveal'[call[y].row].to = call[y].by
        /\ reveal'[call[y].row].on = call[y].on
  BY DEF CallOK, RowsKept
<1>7. call[y].at = "flagConversations" =>
        \A c \in call[y].found :
          /\ conversation'[c] # None
          /\ SamePair(conversation'[c].user1, conversation'[c].user2,
                      call[y].by, call[y].with)
  BY <1>2 DEF CallOK, RowsKept
<1>8. call[y].at = "decide" =>
        call[y].on \in Connections /\ connection'[call[y].on] # None
  BY DEF CallOK, RowsKept
<1>9. ASSUME call[y].at = "flagConnection", call[y].on # None
      PROVE  Vouched(call[y].on)'
  <2>1. PICK k : k = call[y].on
    OBVIOUS
  <2>2. Vouched(k)
    BY <1>9, <2>1 DEF CallOK
  <2>3. Vouched(k)'
    BY <2>2, VouchedStands
  <2> QED
    BY <2>1, <2>3 DEF Vouched
<1> QED
  BY <1>3, <1>4, <1>5, <1>6, <1>7, <1>8, <1>9 DEF CallOK, HasRow, Consent, Vouched

(* A step of call x is right when the tables are, and what x remembers is. *)
LEMMA StepOfCall ==
  ASSUME IndInv, Kept, TypeOK', RowsInv',
         NEW x \in Calls, NEW c, call' = [call EXCEPT ![x] = c],
         CallOK(x)'
  PROVE  IndInv'
<1>1. \A y \in Calls : y # x => call'[y] = call[y]
  BY DEF IndInv, TypeOK
<1>2. \A y \in Calls : y # x => CallOK(y)'
  BY <1>1, OtherCalls DEF IndInv, CallsInv
<1> QED
  BY <1>2 DEF IndInv, CallsInv

tables == <<reveal, conversation, connection, slots, requests, asked, agreed>>

(* A step that only reads the tables needs no more than its own call       *)
(* right.                                                                  *)
LEMMA ReadingStep ==
  ASSUME IndInv, UNCHANGED tables,
         NEW x \in Calls, NEW c \in Call \cup {None},
         call' = [call EXCEPT ![x] = c], CallOK(x)'
  PROVE  IndInv'
<1>1. Kept
  BY DEF tables, Kept, HistoryGrows, RowsKept
<1>2. TypeOK'
  BY DEF IndInv, TypeOK, tables
<1>3. RowsInv'
  BY DEF IndInv, RowsInv, RevealOK, ConversationOK, ConnectionOK, HasRow,
         Vouched, Consent, tables
<1> QED
  BY <1>1, <1>2, <1>3, StepOfCall

(* A call that ends leaves nothing to be right about.                      *)
LEMMA NothingLeft ==
  ASSUME IndInv, NEW x \in Calls, Return(x)
  PROVE  CallOK(x)'
BY DEF IndInv, TypeOK, Return, CallOK

(* A call that goes on to another stage forgets nothing.                   *)
LEMMA GoingOn ==
  ASSUME IndInv, NEW x \in Calls, call[x] # None, NEW stage \in Stages,
         Goto(x, stage)
  PROVE  \E d \in Call : /\ d = [call[x] EXCEPT !.at = stage]
                         /\ call' = [call EXCEPT ![x] = d]
                         /\ call'[x] = d
<1>1. call[x] \in Call
  BY DEF IndInv, TypeOK
<1>2. [call[x] EXCEPT !.at = stage] \in Call
  BY <1>1 DEF Call
<1>3. call' = [call EXCEPT ![x] = [call[x] EXCEPT !.at = stage]]
  BY DEF Goto
<1>4. call'[x] = [call[x] EXCEPT !.at = stage]
  BY <1>3 DEF IndInv, TypeOK
<1> QED
  BY <1>2, <1>3, <1>4

(* What a new call remembers is well formed.                               *)
LEMMA NewCallType ==
  ASSUME NEW stage \in Stages, NEW u \in Users, NEW v \in Users
  PROVE  NewCall(stage, u, v) \in Call
BY DEF NewCall, Call, Contexts

----------------------------------------------------------------------------
(* Asking                                                                  *)

(* A call that starts to ask about a connection, or none.                  *)
LEMMA AskingCall ==
  ASSUME IndInv, UNCHANGED tables,
         NEW x \in Calls, NEW u \in Users, NEW v \in Users,
         NEW k \in Connections \cup {None}, HasRow(k),
         NEW stage \in {"findPending", "findExisting"},
         Start(x, [NewCall(stage, u, v) EXCEPT !.on = k])
  PROVE  IndInv'
<1>1. PICK d \in Call : d = [NewCall(stage, u, v) EXCEPT !.on = k]
  BY DEF NewCall, Call, Contexts, Stages
<1>2. call' = [call EXCEPT ![x] = d]
  BY <1>1 DEF Start
<1>3. call'[x] = d
  BY <1>2 DEF IndInv, TypeOK
<1>4. d.at = stage /\ d.on = k /\ d.by = u /\ d.with = v
  BY <1>1 DEF NewCall
<1>5. CallOK(x)'
  BY <1>3, <1>4
     DEF CallOK, HasRow, tables, Asking, Answering, Disclosing, OnPost
<1> QED
  BY <1>2, <1>5, ReadingStep DEF IndInv, TypeOK

LEMMA AskInChatInd ==
  ASSUME IndInv, NEW x \in Calls, NEW u \in Users, NEW c \in Conversations,
         AskInChat(x, u, c)
  PROVE  IndInv'
<1>1. conversation[c] \in ConversationRow
  BY DEF AskInChat, IndInv, TypeOK
<1>2. PICK v \in Users :
        v = OtherParty(conversation[c].user1, conversation[c].user2, u)
  BY <1>1 DEF ConversationRow, OtherParty
<1>3. PICK k \in ClientConnections \cup {None} :
        Start(x, [NewCall("findPending", u, v) EXCEPT !.on = k])
  BY <1>2 DEF AskInChat
<1>4. HasRow(k)
  BY <1>3 DEF ClientConnections, HasRow
<1>5. k \in Connections \cup {None}
  BY <1>3 DEF ClientConnections
<1>6. UNCHANGED tables
  BY DEF AskInChat, tables, counters, history
<1> QED
  BY <1>3, <1>4, <1>5, <1>6, AskingCall

LEMMA AskOnConnectionInd ==
  ASSUME IndInv, NEW x \in Calls, NEW u \in Users, NEW k \in Connections,
         AskOnConnection(x, u, k)
  PROVE  IndInv'
<1>1. connection[k] \in ConnectionRow
  BY DEF AskOnConnection, IndInv, TypeOK
<1>2. PICK v \in Users :
        v = OtherParty(connection[k].sender, connection[k].receiver, u)
  BY <1>1 DEF ConnectionRow, OtherParty
<1>3. Start(x, [NewCall("findExisting", u, v) EXCEPT !.on = k])
  BY <1>2 DEF AskOnConnection
<1>4. HasRow(k)
  BY DEF AskOnConnection, HasRow
<1>5. UNCHANGED tables
  BY DEF AskOnConnection, tables, counters, history
<1> QED
  BY <1>3, <1>4, <1>5, AskingCall

(* A lookup ends the call or lets it go on to the insert.                  *)
LEMMA LookupInd ==
  ASSUME IndInv, NEW x \in Calls, UNCHANGED tables,
         At(x, "findPending") \/ At(x, "findExisting"),
         Return(x) \/ Goto(x, "insertReveal")
  PROVE  IndInv'
<1>1. CASE Return(x)
  BY <1>1, NothingLeft, ReadingStep DEF Return, IndInv, TypeOK
<1>2. CASE Goto(x, "insertReveal")
  <2>1. PICK d \in Call : /\ d = [call[x] EXCEPT !.at = "insertReveal"]
                         /\ call' = [call EXCEPT ![x] = d]
                         /\ call'[x] = d
    BY <1>2, GoingOn DEF At, Stages
  <2>4. call[x] \in Call
    BY DEF At, IndInv, TypeOK
  <2>5. /\ d.at = "insertReveal" /\ d.on = call[x].on
        /\ d.by = call[x].by /\ d.with = call[x].with
    BY <2>1, <2>4 DEF Call
  <2>6. HasRow(d.on)
    BY <2>5 DEF At, IndInv, CallsInv, CallOK, Asking
  <2>7. CallOK(x)'
    BY <2>1, <2>5, <2>6
       DEF CallOK, HasRow, tables, Asking, Answering, Disclosing, OnPost
  <2> QED
    BY <2>1, <2>7, ReadingStep DEF IndInv, TypeOK
<1> QED
  BY <1>1, <1>2

LEMMA InsertRevealInd ==
  ASSUME IndInv, NEW x \in Calls, NEW r \in Reveals, InsertReveal(x, r)
  PROVE  IndInv'
<1> DEFINE row == [from |-> call[x].by, to |-> call[x].with,
                   on |-> call[x].on, status |-> "pending"]
<1>1. call[x] \in Call
  BY DEF InsertReveal, At, IndInv, TypeOK
<1>2. row \in RevealRow
  BY <1>1 DEF Call, RevealRow, RevealStatus
<1>3. reveal' = [reveal EXCEPT ![r] = row] /\ reveal[r] = None
  BY DEF InsertReveal
<1>4. HasRow(row.on)
  BY DEF InsertReveal, At, IndInv, CallsInv, CallOK, Asking
<1>5. Kept
  BY <1>3 DEF InsertReveal, Kept, HistoryGrows, RowsKept, IndInv, TypeOK
<1>6. TypeOK'
  BY <1>1, <1>2, <1>3
     DEF InsertReveal, Return, Call, IndInv, TypeOK, counters
<1>7. RowsInv'
  <2>1. RevealOK(r)'
    <3>1. reveal'[r] = row
      BY <1>3 DEF IndInv, TypeOK
    <3> QED
      BY <1>4, <3>1 DEF InsertReveal, RevealOK, HasRow
  <2>2. \A s \in Reveals : s # r => RevealOK(s)'
    BY <1>3 DEF InsertReveal, IndInv, TypeOK, RowsInv, RevealOK, HasRow
  <2>3. \A c \in Conversations : ConversationOK(c)'
    BY DEF InsertReveal, IndInv, RowsInv, ConversationOK, Consent
  <2>4. \A k \in Connections : ConnectionOK(k)'
    BY <1>5, VouchedStands DEF InsertReveal, IndInv, RowsInv, ConnectionOK
  <2> QED
    BY <2>1, <2>2, <2>3, <2>4 DEF RowsInv
<1>8. CallOK(x)'
  BY NothingLeft DEF InsertReveal
<1> QED
  BY <1>5, <1>6, <1>7, <1>8, StepOfCall DEF InsertReveal, Return

----------------------------------------------------------------------------
(* Answering                                                               *)

LEMMA AnswerInd ==
  ASSUME IndInv, NEW x \in Calls, NEW u \in Users, NEW r \in Reveals,
         NEW stage \in Answering, NEW yes \in BOOLEAN,
         Answer(x, u, r, stage, yes)
  PROVE  IndInv'
<1>1. reveal[r] \in RevealRow
  BY DEF Answer, IndInv, TypeOK
<1>2. PICK d \in Call : d = [NewCall(stage, u, reveal[r].from) EXCEPT
                              !.row = r, !.on = reveal[r].on, !.what = yes]
  BY <1>1 DEF NewCall, Call, RevealRow, Answering, Contexts, Stages
<1>3. call' = [call EXCEPT ![x] = d] /\ UNCHANGED tables
  BY <1>2 DEF Answer, Start, tables, counters, history
<1>4. call'[x] = d
  BY <1>3 DEF IndInv, TypeOK
<1>5. /\ d.at = stage /\ d.row = r /\ d.by = u /\ d.with = reveal[r].from
      /\ d.on = reveal[r].on
  BY <1>2 DEF NewCall
<1>6. CallOK(x)'
  BY <1>3, <1>4, <1>5
     DEF Answer, CallOK, tables, Asking, Answering, Disclosing, OnPost
<1> QED
  BY <1>3, <1>6, ReadingStep DEF IndInv, TypeOK

LEMMA CancelAskInd ==
  ASSUME IndInv, NEW x \in Calls, NEW u \in Users, NEW r \in Reveals,
         CancelAsk(x, u, r)
  PROVE  IndInv'
<1>1. reveal[r] \in RevealRow
  BY DEF CancelAsk, IndInv, TypeOK
<1>2. PICK d \in Call : d = [NewCall("cancel", u, reveal[r].to) EXCEPT !.row = r]
  BY <1>1 DEF NewCall, Call, RevealRow, Contexts, Stages
<1>3. call' = [call EXCEPT ![x] = d] /\ UNCHANGED tables
  BY <1>2 DEF CancelAsk, Start, tables, counters, history
<1>4. call'[x] = d
  BY <1>3 DEF IndInv, TypeOK
<1>5. d.at = "cancel" /\ d.row = r
  BY <1>2 DEF NewCall
<1>6. CallOK(x)'
  BY <1>3, <1>4, <1>5
     DEF CancelAsk, CallOK, tables, Asking, Answering, Disclosing, OnPost
<1> QED
  BY <1>3, <1>6, ReadingStep DEF IndInv, TypeOK

(* Overwriting the status of a reveal, whatever it was, keeps every row    *)
(* right as long as an acceptance is on record.                            *)
LEMMA StatusWritten ==
  ASSUME IndInv, NEW r \in Reveals, reveal[r] # None,
         NEW status \in RevealStatus,
         reveal' = [reveal EXCEPT ![r].status = status],
         UNCHANGED <<conversation, connection>>, HistoryGrows,
         status = "accepted" => <<reveal[r].to, reveal[r].from>> \in agreed'
  PROVE  /\ reveal' \in [Reveals -> RevealRow \cup {None}]
         /\ Kept
         /\ RowsInv'
<1>1. reveal[r] \in RevealRow
  BY DEF IndInv, TypeOK
<1> DEFINE w == [reveal[r] EXCEPT !.status = status]
<1>a. /\ w \in RevealRow
      /\ w.from = reveal[r].from /\ w.to = reveal[r].to
      /\ w.on = reveal[r].on /\ w.status = status
  BY <1>1 DEF RevealRow
<1>2. PICK row \in RevealRow : /\ row = w
                               /\ row.from = reveal[r].from
                               /\ row.to = reveal[r].to
                               /\ row.on = reveal[r].on
                               /\ row.status = status
  <2> HIDE DEF w
  <2> QED BY <1>a
<1>3. reveal' = [reveal EXCEPT ![r] = row]
  <2>1. reveal' = [reveal EXCEPT ![r] = [reveal[r] EXCEPT !.status = status]]
    BY SMT
  <2> QED
    BY <1>2, <2>1
<1>4. reveal'[r] = row /\ \A s \in Reveals : s # r => reveal'[s] = reveal[s]
  BY <1>3 DEF IndInv, TypeOK
<1>5. reveal' \in [Reveals -> RevealRow \cup {None}]
  BY <1>3 DEF IndInv, TypeOK
<1>6. Kept
  BY <1>2, <1>4, NoneAssumption DEF Kept, RowsKept
<1>7. ASSUME NEW s \in Reveals PROVE RevealOK(s)'
  <2>1. RevealOK(s)
    BY DEF IndInv, RowsInv
  <2>2. CASE s = r
    BY <1>2, <1>4, <2>1, <2>2 DEF RevealOK, HasRow, HistoryGrows
  <2>3. CASE s # r
    BY <1>4, <2>1, <2>3 DEF RevealOK, HasRow, HistoryGrows
  <2> QED
    BY <2>2, <2>3
<1>8. \A c \in Conversations : ConversationOK(c)'
  BY DEF IndInv, RowsInv, ConversationOK, Consent, HistoryGrows
<1>9. \A k \in Connections : ConnectionOK(k)'
  BY <1>6, VouchedStands DEF IndInv, RowsInv, ConnectionOK
<1> QED
  BY <1>5, <1>6, <1>7, <1>8, <1>9 DEF RowsInv

(* What an answering call knows of its reveal.                             *)
LEMMA AnsweringCall ==
  ASSUME IndInv, NEW x \in Calls, call[x] # None, call[x].at \in Answering
  PROVE  /\ call[x] \in Call
         /\ call[x].row \in Reveals
         /\ reveal[call[x].row] # None
         /\ reveal[call[x].row].from = call[x].with
         /\ reveal[call[x].row].to = call[x].by
         /\ reveal[call[x].row].on = call[x].on
         /\ <<call[x].with, call[x].by>> \in asked
         /\ HasRow(call[x].on)
<1>1. call[x] \in Call
  BY DEF IndInv, TypeOK
<1>2. CallOK(x)
  BY DEF IndInv, CallsInv
<1>3. /\ call[x].row \in Reveals
      /\ reveal[call[x].row] # None
      /\ reveal[call[x].row].from = call[x].with
      /\ reveal[call[x].row].to = call[x].by
      /\ reveal[call[x].row].on = call[x].on
  BY <1>2 DEF CallOK
<1>4. RevealOK(call[x].row)
  BY <1>3 DEF IndInv, RowsInv
<1> QED
  BY <1>1, <1>3, <1>4 DEF RevealOK

LEMMA WriteAnswerInd ==
  ASSUME IndInv, NEW x \in Calls, WriteAnswer(x)
  PROVE  IndInv'
<1>1. call[x] # None /\ call[x].at \in Answering
  BY DEF WriteAnswer, At, Answering
<1>2. /\ call[x] \in Call
      /\ call[x].row \in Reveals
      /\ reveal[call[x].row] # None
      /\ reveal[call[x].row].from = call[x].with
      /\ reveal[call[x].row].to = call[x].by
      /\ reveal[call[x].row].on = call[x].on
      /\ <<call[x].with, call[x].by>> \in asked
      /\ HasRow(call[x].on)
  BY <1>1, AnsweringCall
<1>3. CASE ~call[x].what
  <2>1. /\ reveal' = [reveal EXCEPT ![call[x].row].status = "rejected"]
        /\ UNCHANGED <<conversation, connection, slots, requests, asked, agreed>>
        /\ Return(x)
    BY <1>3 DEF WriteAnswer, counters
  <2>2. HistoryGrows
    BY <2>1 DEF HistoryGrows
  <2>3. /\ reveal' \in [Reveals -> RevealRow \cup {None}]
        /\ Kept
        /\ RowsInv'
    BY <1>2, <2>1, <2>2, StatusWritten DEF RevealStatus, Answers
  <2>4. TypeOK'
    BY <2>1, <2>3 DEF Return, IndInv, TypeOK
  <2> QED
    BY <2>1, <2>3, <2>4, NothingLeft, StepOfCall DEF Return
<1>4. CASE call[x].what
  <2>1. /\ reveal' = [reveal EXCEPT ![call[x].row].status = "accepted"]
        /\ agreed' = agreed \cup {<<call[x].by, call[x].with>>}
        /\ UNCHANGED <<conversation, connection, slots, requests, asked>>
    BY <1>4 DEF WriteAnswer, counters
  <2>2. HistoryGrows
    BY <2>1 DEF HistoryGrows
  <2>3. /\ reveal' \in [Reveals -> RevealRow \cup {None}]
        /\ Kept
        /\ RowsInv'
    BY <1>2, <2>1, <2>2, StatusWritten DEF RevealStatus, Answers
  <2>4. PICK d \in Call : /\ call' = [call EXCEPT ![x] = d]
                         /\ d.at \in {"findConversations", "flagConnection"}
                         /\ d.by = call[x].by /\ d.with = call[x].with
                         /\ d.on = call[x].on
    <3>1. CASE At(x, "answerInChat")
      <4>1. ConversationsOf(call[x].by, call[x].with) \subseteq Conversations
        BY DEF ConversationsOf
      <4>2. PICK d \in Call :
              d = [call[x] EXCEPT
                     !.at = "findConversations",
                     !.owed = ConversationsOf(call[x].by, call[x].with)]
        BY <1>2, <4>1 DEF Call, Stages
      <4> QED
        BY <1>2, <1>4, <3>1, <4>2 DEF WriteAnswer, Start, Call
    <3>2. CASE ~At(x, "answerInChat")
      <4>1. Goto(x, "flagConnection")
        BY <1>4, <3>2 DEF WriteAnswer
      <4>2. PICK d \in Call : /\ d = [call[x] EXCEPT !.at = "flagConnection"]
                             /\ call' = [call EXCEPT ![x] = d]
        BY <1>1, <4>1, GoingOn DEF Stages
      <4> QED
        BY <1>2, <4>2 DEF Call
    <3> QED
      BY <3>1, <3>2
  <2>5. call'[x] = d
    BY <2>4 DEF IndInv, TypeOK
  <2>6. TypeOK'
    BY <1>2, <2>1, <2>3, <2>4 DEF IndInv, TypeOK, Call
  <2>7. Consent(d.by, d.with)'
    BY <1>2, <2>1, <2>4 DEF Consent
  <2>8. HasRow(d.on)'
    BY <1>2, <2>1, <2>4 DEF HasRow
  <2>10. Vouched(d.on)'
    <3>1. PICK r \in Reveals : r = call[x].row
      BY <1>2
    <3>2. /\ reveal'[r] # None /\ reveal'[r].on = d.on
          /\ reveal'[r].from = call[x].with /\ reveal'[r].to = call[x].by
      BY <1>2, <2>3, <2>4, <3>1 DEF Kept, RowsKept
    <3>3. Consent(reveal[r].from, reveal[r].to)'
      BY <1>2, <2>1, <3>2 DEF Consent
    <3> QED
      BY <3>2, <3>3 DEF Vouched
  <2>9. CallOK(x)'
    BY <2>4, <2>5, <2>7, <2>8, <2>10
       DEF CallOK, HasRow, Consent, Vouched, Asking, Answering, Disclosing, OnPost
  <2> QED
    BY <2>3, <2>4, <2>6, <2>9, StepOfCall
<1> QED
  BY <1>3, <1>4

LEMMA WriteCancelInd ==
  ASSUME IndInv, NEW x \in Calls, WriteCancel(x)
  PROVE  IndInv'
<1>1. call[x].row \in Reveals /\ reveal[call[x].row] # None
  BY DEF WriteCancel, At, IndInv, CallsInv, CallOK
<1>2. /\ reveal' = [reveal EXCEPT ![call[x].row].status = "cancelled"]
      /\ UNCHANGED <<conversation, connection, slots, requests, asked, agreed>>
      /\ Return(x)
  BY DEF WriteCancel, counters, history
<1>3. HistoryGrows
  BY <1>2 DEF HistoryGrows
<1>4. /\ reveal' \in [Reveals -> RevealRow \cup {None}]
      /\ Kept
      /\ RowsInv'
  BY <1>1, <1>2, <1>3, StatusWritten DEF RevealStatus
<1>5. TypeOK'
  BY <1>2, <1>4 DEF Return, IndInv, TypeOK
<1> QED
  BY <1>2, <1>4, <1>5, NothingLeft, StepOfCall DEF Return

----------------------------------------------------------------------------
(* Disclosing                                                              *)

LEMMA FindConversationsInd ==
  ASSUME IndInv, NEW x \in Calls, FindConversations(x)
  PROVE  IndInv'
<1> DEFINE found == ConversationsOf(call[x].by, call[x].with)
<1>1. call[x] \in Call
  BY DEF FindConversations, At, IndInv, TypeOK
<1>2. UNCHANGED tables
  BY DEF FindConversations, tables, counters, history
<1>3. found \subseteq Conversations
  BY DEF ConversationsOf
<1>4. CASE found = {}
  <2>1. Return(x)
    BY <1>4 DEF FindConversations
  <2> QED
    BY <1>2, <2>1, NothingLeft, ReadingStep DEF Return, IndInv, TypeOK
<1>5. CASE found # {}
  <2>1. PICK d \in Call : d = [call[x] EXCEPT !.at = "flagConversations",
                                              !.found = found]
    <3> HIDE DEF found
    <3> QED BY <1>1, <1>3 DEF Call, Stages
  <2>2. call' = [call EXCEPT ![x] = d]
    BY <1>5, <2>1 DEF FindConversations, Start
  <2>3. call'[x] = d
    BY <2>2 DEF IndInv, TypeOK
  <2>4. /\ d.at = "flagConversations" /\ d.by = call[x].by
        /\ d.with = call[x].with /\ d.on = call[x].on
    BY <1>1, <2>1 DEF Call
  <2>5. \A c \in d.found : /\ conversation[c] # None
                          /\ SamePair(conversation[c].user1,
                                      conversation[c].user2, d.by, d.with)
    BY <1>1, <2>1, <2>4 DEF Call, ConversationsOf
  <2>6. /\ Consent(d.by, d.with)
        /\ HasRow(d.on)
    BY <2>4 DEF FindConversations, At, IndInv, CallsInv, CallOK, Disclosing
  <2>7. CallOK(x)'
    BY <1>2, <2>3, <2>4, <2>5, <2>6
       DEF CallOK, HasRow, Consent, tables, Asking, Answering,
           Disclosing, OnPost
  <2> QED
    BY <1>2, <2>2, <2>7, ReadingStep DEF IndInv, TypeOK
<1> QED
  BY <1>4, <1>5

LEMMA FlagConversationsInd ==
  ASSUME IndInv, NEW x \in Calls, FlagConversations(x)
  PROVE  IndInv'
<1>1. /\ Consent(call[x].by, call[x].with)
      /\ \A c \in call[x].found :
           /\ conversation[c] # None
           /\ SamePair(conversation[c].user1, conversation[c].user2,
                       call[x].by, call[x].with)
  BY DEF FlagConversations, At, IndInv, CallsInv, CallOK, Disclosing
<1>2. UNCHANGED <<reveal, connection, slots, requests, asked, agreed>>
  BY DEF FlagConversations, counters, history
<1>3. ASSUME NEW c \in Conversations
      PROVE  /\ conversation'[c] \in ConversationRow \cup {None}
             /\ conversation[c] # None =>
                  /\ conversation'[c] \in ConversationRow
                  /\ conversation'[c].user1 = conversation[c].user1
                  /\ conversation'[c].user2 = conversation[c].user2
             /\ ConversationOK(c)'
  <2>1. CASE c \in call[x].found
    <3>1. conversation[c] \in ConversationRow
      BY <1>1, <2>1 DEF IndInv, TypeOK
    <3>2. conversation'[c] = [conversation[c] EXCEPT !.shown = TRUE]
      BY <2>1 DEF FlagConversations
    <3>3. /\ conversation'[c] \in ConversationRow
          /\ conversation'[c].user1 = conversation[c].user1
          /\ conversation'[c].user2 = conversation[c].user2
      BY <3>1, <3>2 DEF ConversationRow
    <3>4. Consent(conversation[c].user1, conversation[c].user2)
      BY <1>1, <2>1 DEF SamePair, Consent
    <3> QED
      BY <1>2, <3>3, <3>4 DEF ConversationOK, Consent
  <2>2. CASE c \notin call[x].found
    <3>1. conversation'[c] = conversation[c]
      BY <2>2 DEF FlagConversations
    <3> QED
      BY <1>2, <3>1
         DEF IndInv, TypeOK, RowsInv, ConversationOK, Consent
  <2> QED
    BY <2>1, <2>2
<1>4. conversation' \in [Conversations -> ConversationRow \cup {None}]
  BY <1>3 DEF FlagConversations
<1>5. Kept
  BY <1>2, <1>3, NoneAssumption DEF Kept, HistoryGrows, RowsKept
<1>6. TypeOK'
  BY <1>2, <1>4 DEF FlagConversations, Return, IndInv, TypeOK
<1>7. RowsInv'
  BY <1>2, <1>3
     DEF IndInv, RowsInv, RevealOK, ConnectionOK, HasRow, Vouched, Consent
<1>8. CallOK(x)'
  BY NothingLeft DEF FlagConversations
<1> QED
  BY <1>5, <1>6, <1>7, <1>8, StepOfCall DEF FlagConversations, Return

(* Rewriting connection k as one of the same two users keeps every row     *)
(* right as long as it shows no name without a request that vouches for it.*)
LEMMA ConnectionWritten ==
  ASSUME IndInv, NEW k \in Connections, NEW row \in ConnectionRow,
         connection' = [connection EXCEPT ![k] = row],
         connection[k] # None => /\ row.sender = connection[k].sender
                                 /\ row.receiver = connection[k].receiver,
         row.shown => Vouched(k),
         UNCHANGED <<reveal, conversation, asked, agreed>>
  PROVE  /\ connection' \in [Connections -> ConnectionRow \cup {None}]
         /\ connection'[k] # None
         /\ Kept
         /\ RowsInv'
<1>1. connection'[k] = row /\ \A j \in Connections : j # k => connection'[j] = connection[j]
  BY DEF IndInv, TypeOK
<1>2. connection' \in [Connections -> ConnectionRow \cup {None}]
  BY DEF IndInv, TypeOK
<1>3. connection'[k] # None
  BY <1>1, NoneAssumption
<1>4. Kept
  BY <1>1, NoneAssumption DEF Kept, HistoryGrows, RowsKept
<1>5. ASSUME NEW r \in Reveals PROVE RevealOK(r)'
  <2>1. RevealOK(r)
    BY DEF IndInv, RowsInv
  <2>2. CASE reveal[r] = None
    BY <2>2 DEF RevealOK
  <2>3. CASE reveal[r] # None
    <3>1. reveal[r].on \in Connections \cup {None}
      BY <2>3 DEF IndInv, TypeOK, RevealRow
    <3>2. HasRow(reveal[r].on)'
      BY <1>4, <2>1, <2>3, <3>1 DEF RevealOK, Kept, RowsKept, HasRow
    <3> QED
      BY <2>1, <2>3, <3>2 DEF RevealOK, HasRow
  <2> QED
    BY <2>2, <2>3
<1>6. \A c \in Conversations : ConversationOK(c)'
  BY DEF IndInv, RowsInv, ConversationOK, Consent
<1>7. \A j \in Connections : ConnectionOK(j)'
  BY <1>1, <1>4, VouchedStands DEF IndInv, RowsInv, ConnectionOK
<1> QED
  BY <1>2, <1>3, <1>4, <1>5, <1>6, <1>7 DEF RowsInv

LEMMA FlagConnectionInd ==
  ASSUME IndInv, NEW x \in Calls, FlagConnection(x)
  PROVE  IndInv'
<1> DEFINE k == call[x].on
<1>1. /\ call[x] \in Call
      /\ HasRow(call[x].on)
      /\ call[x].on # None => Vouched(call[x].on)
  BY DEF FlagConnection, At, IndInv, TypeOK, CallsInv, CallOK, Disclosing
<1>2. UNCHANGED <<reveal, conversation, slots, requests, asked, agreed>>
  BY DEF FlagConnection, counters, history
<1>3. CASE call[x].on = None
  <2>1. connection' = connection
    BY <1>3, NoneAssumption DEF FlagConnection, IndInv, TypeOK
  <2> QED
    BY <1>2, <2>1, NothingLeft, ReadingStep
       DEF FlagConnection, Return, IndInv, TypeOK, tables
<1>4. CASE call[x].on # None
  <2>1. k \in Connections /\ connection[k] # None
    BY <1>1, <1>4 DEF Call, HasRow
  <2>2. connection[k] \in ConnectionRow
    BY <2>1 DEF IndInv, TypeOK
  <2> DEFINE w == [connection[k] EXCEPT !.shown = TRUE]
  <2>3. /\ w \in ConnectionRow
        /\ w.sender = connection[k].sender /\ w.receiver = connection[k].receiver
    BY <2>2 DEF ConnectionRow
  <2>4. connection' = [connection EXCEPT ![k] = w]
    BY <2>1 DEF FlagConnection, IndInv, TypeOK
  <2>5. Vouched(k)
    BY <1>1, <1>4
  <2> HIDE DEF w
  <2>6. /\ connection' \in [Connections -> ConnectionRow \cup {None}]
        /\ Kept /\ RowsInv'
    BY <1>2, <2>1, <2>3, <2>4, <2>5, ConnectionWritten
  <2>7. TypeOK'
    BY <1>2, <2>6 DEF FlagConnection, Return, IndInv, TypeOK
  <2>8. CallOK(x)'
    BY NothingLeft DEF FlagConnection
  <2> QED
    BY <2>6, <2>7, <2>8, StepOfCall DEF FlagConnection, Return
<1> QED
  BY <1>3, <1>4

----------------------------------------------------------------------------
(* Conversations                                                           *)

(* A call at a stage that relies on nothing but its own flag.              *)
LEMMA OpeningCall ==
  ASSUME IndInv, UNCHANGED tables,
         NEW x \in Calls, NEW d \in Call, call' = [call EXCEPT ![x] = d],
         d.at \in {"isRevealed", "findChat", "insertConversation"},
         d.at = "findChat" => ~d.what,
         d.at = "insertConversation" => (d.what => Consent(d.by, d.with))
  PROVE  IndInv'
<1>1. call'[x] = d
  BY DEF IndInv, TypeOK
<1>2. CallOK(x)'
  BY <1>1
     DEF CallOK, Consent, tables, Asking, Answering, Disclosing, OnPost
<1> QED
  BY <1>2, ReadingStep

LEMMA OpenConversationInd ==
  ASSUME IndInv, NEW x \in Calls, NEW u \in Users, NEW v \in Users,
         NEW context \in Contexts, OpenConversation(x, u, v, context)
  PROVE  IndInv'
<1> DEFINE w == [NewCall("isRevealed", u, v) EXCEPT !.context = context]
<1>a. w \in Call /\ w.at = "isRevealed"
  BY DEF NewCall, Call, Stages, Contexts
<1>1. PICK d \in Call : d = w /\ d.at = "isRevealed"
  <2> HIDE DEF w
  <2> QED BY <1>a
<1>2. call' = [call EXCEPT ![x] = d]
  BY <1>1 DEF OpenConversation, Start
<1>3. UNCHANGED tables
  BY DEF OpenConversation, tables, counters, history, IndInv, TypeOK
<1> QED
  BY <1>1, <1>2, <1>3, OpeningCall

LEMMA StartChatInd ==
  ASSUME IndInv, NEW x \in Calls, NEW u \in Users, NEW v \in Users,
         StartChat(x, u, v)
  PROVE  IndInv'
<1> DEFINE w == [NewCall("findChat", u, v) EXCEPT !.context = "mentorship"]
<1>a. w \in Call /\ w.at = "findChat" /\ ~w.what
  BY DEF NewCall, Call, Stages, Contexts
<1>1. PICK d \in Call : d = w /\ d.at = "findChat" /\ ~d.what
  <2> HIDE DEF w
  <2> QED BY <1>a
<1>2. call' = [call EXCEPT ![x] = d]
  BY <1>1 DEF StartChat, Start
<1>3. UNCHANGED tables
  BY DEF StartChat, tables, counters, history, IndInv, TypeOK
<1> QED
  BY <1>1, <1>2, <1>3, OpeningCall

(* isRevealed answers yes only for a pair with consent.                    *)
LEMMA RevealedConsents ==
  ASSUME IndInv, NEW u, NEW v, IsRevealed(u, v)
  PROVE  Consent(u, v)
<1>1. PICK r \in Reveals : /\ reveal[r] # None
                          /\ reveal[r].status = "accepted"
                          /\ SamePair(reveal[r].from, reveal[r].to, u, v)
  BY DEF IsRevealed, RevealsOf
<1>2. RevealOK(r)
  BY DEF IndInv, RowsInv
<1> QED
  BY <1>1, <1>2 DEF RevealOK, SamePair, Consent

LEMMA ReadRevealedInd ==
  ASSUME IndInv, NEW x \in Calls, ReadRevealed(x)
  PROVE  IndInv'
<1>1. call[x] \in Call
  BY DEF ReadRevealed, At, IndInv, TypeOK
<1>2. PICK revealed \in BOOLEAN :
        /\ Start(x, [call[x] EXCEPT !.at = "insertConversation", !.what = revealed])
        /\ revealed => IsRevealed(call[x].by, call[x].with)
  BY DEF ReadRevealed, Reported, IsRevealed
<1> DEFINE w == [call[x] EXCEPT !.at = "insertConversation", !.what = revealed]
<1>a. /\ w \in Call /\ w.at = "insertConversation" /\ w.what = revealed
      /\ w.by = call[x].by /\ w.with = call[x].with
  BY <1>1 DEF Call, Stages
<1>3. PICK d \in Call : /\ d = w /\ d.at = "insertConversation" /\ d.what = revealed
                       /\ d.by = call[x].by /\ d.with = call[x].with
  <2> HIDE DEF w
  <2> QED BY <1>a
<1>4. d.what => Consent(d.by, d.with)
  BY <1>2, <1>3, RevealedConsents
<1>5. call' = [call EXCEPT ![x] = d]
  BY <1>2, <1>3 DEF Start
<1>6. UNCHANGED tables
  BY DEF ReadRevealed, tables, counters, history, IndInv, TypeOK
<1> QED
  BY <1>3, <1>4, <1>5, <1>6, OpeningCall

LEMMA FindChatInd ==
  ASSUME IndInv, NEW x \in Calls, FindChat(x)
  PROVE  IndInv'
<1>1. call[x] \in Call /\ call[x].at = "findChat" /\ ~call[x].what
  BY DEF FindChat, At, IndInv, TypeOK, CallsInv, CallOK
<1>2. UNCHANGED tables
  BY DEF FindChat, tables, counters, history, IndInv, TypeOK
<1>3. Return(x) \/ Goto(x, "insertConversation")
  BY DEF FindChat
<1>4. CASE Return(x)
  BY <1>2, <1>4, NothingLeft, ReadingStep DEF Return
<1>5. CASE Goto(x, "insertConversation")
  <2>1. PICK d \in Call : /\ d = [call[x] EXCEPT !.at = "insertConversation"]
                         /\ call' = [call EXCEPT ![x] = d]
    BY <1>5, GoingOn DEF FindChat, At, Stages
  <2>2. d.at = "insertConversation" /\ ~d.what
    BY <1>1, <2>1 DEF Call
  <2> QED
    BY <1>2, <2>1, <2>2, OpeningCall
<1> QED
  BY <1>3, <1>4, <1>5

LEMMA InsertConversationInd ==
  ASSUME IndInv, NEW x \in Calls, NEW c \in Conversations,
         InsertConversation(x, c)
  PROVE  IndInv'
<1> DEFINE row == [user1 |-> call[x].by, user2 |-> call[x].with,
                   context |-> call[x].context, shown |-> call[x].what]
<1>1. /\ call[x] \in Call
      /\ call[x].what => Consent(call[x].by, call[x].with)
  BY DEF InsertConversation, At, IndInv, TypeOK, CallsInv, CallOK
<1>2. row \in ConversationRow
  BY <1>1 DEF Call, ConversationRow
<1>3. /\ conversation' = [conversation EXCEPT ![c] = row]
      /\ conversation[c] = None
      /\ UNCHANGED <<reveal, connection, slots, requests, asked, agreed>>
  BY DEF InsertConversation, counters, history
<1>4. conversation'[c] = row
      /\ \A b \in Conversations : b # c => conversation'[b] = conversation[b]
  BY <1>3 DEF IndInv, TypeOK
<1>5. Kept
  BY <1>3, <1>4 DEF Kept, HistoryGrows, RowsKept
<1>6. TypeOK'
  BY <1>2, <1>3 DEF InsertConversation, Return, IndInv, TypeOK
<1>7. RowsInv'
  <2>1. ConversationOK(c)'
    BY <1>1, <1>3, <1>4 DEF ConversationOK, Consent
  <2>2. \A b \in Conversations : b # c => ConversationOK(b)'
    BY <1>3, <1>4 DEF IndInv, RowsInv, ConversationOK, Consent
  <2>3. \A r \in Reveals : RevealOK(r)'
    BY <1>3 DEF IndInv, RowsInv, RevealOK, HasRow
  <2>4. \A k \in Connections : ConnectionOK(k)'
    BY <1>3 DEF IndInv, RowsInv, ConnectionOK, Vouched, Consent
  <2> QED
    BY <2>1, <2>2, <2>3, <2>4 DEF RowsInv
<1>8. CallOK(x)'
  BY NothingLeft DEF InsertConversation
<1> QED
  BY <1>5, <1>6, <1>7, <1>8, StepOfCall DEF InsertConversation, Return

----------------------------------------------------------------------------
(* Referral connections                                                    *)

(* A call at a stage that relies on its post, and on its connection if it  *)
(* is to decide.                                                           *)
LEMMA PostCall ==
  ASSUME IndInv, UNCHANGED tables,
         NEW x \in Calls, NEW d \in Call, call' = [call EXCEPT ![x] = d],
         d.at \in {"insertConnection", "decide"}, d.post \in Posts,
         d.at = "decide" => d.on \in Connections /\ connection[d.on] # None
  PROVE  IndInv'
<1>1. call'[x] = d
  BY DEF IndInv, TypeOK
<1>2. CallOK(x)'
  BY <1>1 DEF CallOK, tables, Asking, Answering, Disclosing, OnPost
<1> QED
  BY <1>2, ReadingStep DEF IndInv, TypeOK

LEMMA SendRequestInd ==
  ASSUME IndInv, NEW x \in Calls, NEW u \in Users, NEW p \in Posts,
         SendRequest(x, u, p)
  PROVE  IndInv'
<1> DEFINE w == [NewCall("insertConnection", u, PostOwner[p]) EXCEPT !.post = p]
<1>1. w \in Call /\ w.at = "insertConnection" /\ w.post = p
  BY ConstantsAssumption DEF NewCall, Call, Stages, Contexts
<1>2. call' = [call EXCEPT ![x] = w] /\ UNCHANGED tables
  BY DEF SendRequest, Start, tables, counters, history
<1> HIDE DEF w
<1> QED
  BY <1>1, <1>2, PostCall

LEMMA ReadRequestInd ==
  ASSUME IndInv, NEW x \in Calls, NEW u \in Users, NEW k \in Connections,
         ReadRequest(x, u, k)
  PROVE  IndInv'
<1>1. connection[k] \in ConnectionRow
  BY DEF ReadRequest, IndInv, TypeOK
<1>2. PICK yes \in BOOLEAN :
        Start(x, [NewCall("decide", u, connection[k].sender) EXCEPT
                   !.on = k, !.post = connection[k].post, !.what = yes,
                   !.takes = yes /\ slots[connection[k].post] > 0])
  BY DEF ReadRequest
<1>3. PICK takes \in BOOLEAN : takes = (yes /\ slots[connection[k].post] > 0)
  OBVIOUS
<1> DEFINE w == [NewCall("decide", u, connection[k].sender) EXCEPT
                  !.on = k, !.post = connection[k].post, !.what = yes,
                  !.takes = takes]
<1>4. w \in Call /\ w.at = "decide" /\ w.post \in Posts /\ w.on = k
  BY <1>1 DEF NewCall, Call, Stages, Contexts, ConnectionRow
<1>5. call' = [call EXCEPT ![x] = w]
  BY <1>2, <1>3 DEF Start
<1>6. UNCHANGED tables /\ connection[k] # None
  BY DEF ReadRequest, tables, counters, history
<1> HIDE DEF w
<1> QED
  BY <1>4, <1>5, <1>6, PostCall

LEMMA InsertConnectionInd ==
  ASSUME IndInv, NEW x \in Calls, NEW k \in Connections,
         InsertConnection(x, k)
  PROVE  IndInv'
<1> DEFINE row == [post |-> call[x].post, sender |-> call[x].by,
                   receiver |-> call[x].with, status |-> "pending",
                   shown |-> FALSE]
<1>1. call[x] \in Call /\ call[x] # None /\ call[x].post \in Posts
  BY DEF InsertConnection, At, IndInv, TypeOK, CallsInv, CallOK, OnPost
<1>2. row \in ConnectionRow /\ ~row.shown
  BY <1>1 DEF Call, ConnectionRow, ConnectionStatus
<1>3. /\ connection' = [connection EXCEPT ![k] = row]
      /\ connection[k] = None
      /\ UNCHANGED <<reveal, conversation, slots, requests, asked, agreed>>
      /\ Goto(x, "countRequest")
  BY DEF InsertConnection, counters, history
<1>4. /\ connection' \in [Connections -> ConnectionRow \cup {None}]
      /\ Kept /\ RowsInv'
  <2> HIDE DEF row
  <2> QED BY <1>2, <1>3, ConnectionWritten
<1>5. PICK d \in Call : /\ d = [call[x] EXCEPT !.at = "countRequest"]
                       /\ call' = [call EXCEPT ![x] = d]
                       /\ call'[x] = d
  BY <1>1, <1>3, GoingOn DEF Stages
<1>6. d.at = "countRequest" /\ d.post \in Posts
  BY <1>1, <1>5 DEF Call
<1>7. CallOK(x)'
  BY <1>5, <1>6 DEF CallOK, Asking, Answering, Disclosing, OnPost
<1>8. TypeOK'
  BY <1>3, <1>4, <1>5 DEF IndInv, TypeOK
<1> QED
  BY <1>4, <1>5, <1>7, <1>8, StepOfCall

LEMMA WriteDecisionInd ==
  ASSUME IndInv, NEW x \in Calls, WriteDecision(x)
  PROVE  IndInv'
<1> DEFINE k == call[x].on
           status == IF call[x].what THEN "accepted" ELSE "rejected"
           w == [connection[k] EXCEPT !.status = status]
<1>1. /\ call[x] \in Call /\ call[x] # None
      /\ k \in Connections /\ connection[k] # None
      /\ call[x].post \in Posts
  BY DEF WriteDecision, At, IndInv, TypeOK, CallsInv, CallOK
<1>2. connection[k] \in ConnectionRow
  BY <1>1 DEF IndInv, TypeOK
<1>3. /\ w \in ConnectionRow
      /\ w.sender = connection[k].sender /\ w.receiver = connection[k].receiver
      /\ w.shown = connection[k].shown
  BY <1>2 DEF ConnectionRow, ConnectionStatus, Answers
<1>4. /\ connection' = [connection EXCEPT ![k] = w]
      /\ UNCHANGED <<reveal, conversation, slots, requests, asked, agreed>>
  BY DEF WriteDecision, counters, history
<1>5. w.shown => Vouched(k)
  BY <1>1, <1>3 DEF IndInv, RowsInv, ConnectionOK
<1>6. /\ connection' \in [Connections -> ConnectionRow \cup {None}]
      /\ Kept /\ RowsInv'
  <2> HIDE DEF w, k
  <2> QED BY <1>1, <1>3, <1>4, <1>5, ConnectionWritten
<1>7. CASE Return(x)
  <2>1. TypeOK'
    BY <1>4, <1>6, <1>7 DEF Return, IndInv, TypeOK
  <2> QED
    BY <1>6, <1>7, <2>1, NothingLeft, StepOfCall DEF Return
<1>8. CASE Goto(x, "takeSlot")
  <2>1. PICK d \in Call : /\ d = [call[x] EXCEPT !.at = "takeSlot"]
                         /\ call' = [call EXCEPT ![x] = d]
                         /\ call'[x] = d
    BY <1>1, <1>8, GoingOn DEF Stages
  <2>2. d.at = "takeSlot" /\ d.post \in Posts
    BY <1>1, <2>1 DEF Call
  <2>3. CallOK(x)'
    BY <2>1, <2>2 DEF CallOK, Asking, Answering, Disclosing, OnPost
  <2>4. TypeOK'
    BY <1>4, <1>6, <2>1 DEF IndInv, TypeOK
  <2> QED
    BY <1>6, <2>1, <2>3, <2>4, StepOfCall
<1> QED
  BY <1>7, <1>8 DEF WriteDecision

(* The counters of a post are nobody's concern but their own.              *)
LEMMA CounterStep ==
  ASSUME IndInv, NEW x \in Calls, Return(x),
         UNCHANGED <<reveal, conversation, connection, asked, agreed>>,
         slots' \in [Posts -> Nat], requests' \in [Posts -> Nat]
  PROVE  IndInv'
<1>1. Kept
  BY DEF Kept, HistoryGrows, RowsKept
<1>2. TypeOK'
  BY DEF Return, IndInv, TypeOK
<1>3. RowsInv'
  BY DEF IndInv, RowsInv, RevealOK, ConversationOK, ConnectionOK, HasRow,
         Vouched, Consent
<1> QED
  BY <1>1, <1>2, <1>3, NothingLeft, StepOfCall DEF Return

LEMMA CountRequestInd ==
  ASSUME IndInv, NEW x \in Calls, CountRequest(x)
  PROVE  IndInv'
<1>a. call[x].post \in Posts /\ requests \in [Posts -> Nat]
  BY DEF CountRequest, At, IndInv, TypeOK, CallsInv, CallOK, OnPost
<1>1. requests' \in [Posts -> Nat]
  BY <1>a DEF CountRequest
<1>2. slots' \in [Posts -> Nat]
  BY DEF CountRequest, IndInv, TypeOK
<1> QED
  BY <1>1, <1>2, CounterStep DEF CountRequest, history

LEMMA TakeSlotInd ==
  ASSUME IndInv, NEW x \in Calls, TakeSlot(x)
  PROVE  IndInv'
<1>a. call[x].post \in Posts /\ slots \in [Posts -> Nat]
  BY DEF TakeSlot, At, IndInv, TypeOK, CallsInv, CallOK, OnPost
<1>1. slots' \in [Posts -> Nat]
  BY <1>a DEF TakeSlot
<1>2. requests' \in [Posts -> Nat]
  BY DEF TakeSlot, IndInv, TypeOK
<1> QED
  BY <1>1, <1>2, CounterStep DEF TakeSlot, history

LEMMA EarlyEndInd ==
  ASSUME IndInv, NEW x \in Calls, Return(x),
         UNCHANGED <<reveal, conversation, connection, counters, history>>
  PROVE  IndInv'
<1>1. slots' \in [Posts -> Nat] /\ requests' \in [Posts -> Nat]
  BY DEF IndInv, TypeOK, counters
<1> QED
  BY <1>1, CounterStep DEF history

----------------------------------------------------------------------------
(* The invariant                                                           *)

LEMMA InitInd == Init => IndInv
<1> SUFFICES ASSUME Init PROVE IndInv
  OBVIOUS
<1>1. TypeOK
  BY ConstantsAssumption DEF Init, TypeOK
<1> QED
  BY <1>1 DEF Init, IndInv, RowsInv, RevealOK, ConversationOK, ConnectionOK,
              CallsInv, CallOK

LEMMA RequestInd ==
  ASSUME IndInv, NEW x \in Calls, NEW u \in Users, Request(x, u)
  PROVE  IndInv'
<1>1. CASE \E c \in Conversations : AskInChat(x, u, c)
  BY <1>1, AskInChatInd
<1>2. CASE \E k \in Connections : AskOnConnection(x, u, k) \/ ReadRequest(x, u, k)
  BY <1>2, AskOnConnectionInd, ReadRequestInd
<1>3. CASE \E r \in Reveals : AnswerInChat(x, u, r)
  BY <1>3, AnswerInd DEF AnswerInChat, Answering
<1>4. CASE \E r \in Reveals : AnswerOnConnection(x, u, r)
  BY <1>4, AnswerInd DEF AnswerOnConnection, Answering
<1>5. CASE \E r \in Reveals : CancelAsk(x, u, r)
  BY <1>5, CancelAskInd
<1>6. CASE \E v \in Users, context \in Contexts : OpenConversation(x, u, v, context)
  BY <1>6, OpenConversationInd
<1>7. CASE \E v \in Users : StartChat(x, u, v)
  BY <1>7, StartChatInd
<1>8. CASE \E p \in Posts : SendRequest(x, u, p)
  BY <1>8, SendRequestInd
<1> QED
  BY <1>1, <1>2, <1>3, <1>4, <1>5, <1>6, <1>7, <1>8 DEF Request

LEMMA ContinueInd ==
  ASSUME IndInv, NEW x \in Calls, Continue(x)
  PROVE  IndInv'
<1>1. CASE FindPending(x)
  <2>1. Return(x) \/ Goto(x, "insertReveal")
    BY <1>1 DEF FindPending, Reported
  <2> QED
    BY <1>1, <2>1, LookupInd DEF FindPending, tables, counters, history
<1>2. CASE FindExisting(x)
  <2>1. Return(x) \/ Goto(x, "insertReveal")
    BY <1>2 DEF FindExisting
  <2> QED
    BY <1>2, <2>1, LookupInd DEF FindExisting, tables, counters, history
<1>3. CASE \E r \in Reveals : InsertReveal(x, r)
  BY <1>3, InsertRevealInd
<1>4. CASE WriteAnswer(x) \/ WriteCancel(x)
  BY <1>4, WriteAnswerInd, WriteCancelInd
<1>5. CASE FindConversations(x) \/ FlagConversations(x) \/ FlagConnection(x)
  BY <1>5, FindConversationsInd, FlagConversationsInd, FlagConnectionInd
<1>6. CASE ReadRevealed(x) \/ FindChat(x)
  BY <1>6, ReadRevealedInd, FindChatInd
<1>7. CASE \E c \in Conversations : InsertConversation(x, c)
  BY <1>7, InsertConversationInd
<1>8. CASE \E k \in Connections : InsertConnection(x, k)
  BY <1>8, InsertConnectionInd
<1>9. CASE CountRequest(x) \/ WriteDecision(x) \/ TakeSlot(x)
  BY <1>9, CountRequestInd, WriteDecisionInd, TakeSlotInd
<1> QED
  BY <1>1, <1>2, <1>3, <1>4, <1>5, <1>6, <1>7, <1>8, <1>9 DEF Continue

LEMMA NextInd == IndInv /\ [Next]_vars => IndInv'
<1> SUFFICES ASSUME IndInv, [Next]_vars PROVE IndInv'
  OBVIOUS
<1>1. CASE UNCHANGED vars
  <2>1. UNCHANGED vars
    BY <1>1
  <2>2. TypeOK'
    BY <2>1 DEF vars, IndInv, TypeOK
  <2>3. RowsInv'
    BY <2>1 DEF vars, IndInv, RowsInv, RevealOK, ConversationOK, ConnectionOK,
                HasRow, Vouched, Consent
  <2>4. \A x \in Calls : CallOK(x)'
    <3> SUFFICES ASSUME NEW x \in Calls PROVE CallOK(x)'
      OBVIOUS
    <3>1. CallOK(x)
      BY DEF IndInv, CallsInv
    <3>2. Kept /\ TypeOK /\ call'[x] = call[x]
      BY <2>1 DEF vars, Kept, HistoryGrows, RowsKept, IndInv
    <3> QED
      BY <3>1, <3>2, OtherCalls
  <2> QED
    BY <2>2, <2>3, <2>4 DEF IndInv, CallsInv
<1>2. ASSUME NEW x \in Calls, NEW u \in Users, Request(x, u) PROVE IndInv'
  BY <1>2, RequestInd
<1>3. ASSUME NEW x \in Calls, Continue(x) PROVE IndInv'
  BY <1>3, ContinueInd
<1>4. ASSUME NEW x \in Calls, Refused(x) \/ Abort(x) PROVE IndInv'
  BY <1>4, EarlyEndInd DEF Refused, Abort
<1> QED
  BY <1>1, <1>2, <1>3, <1>4 DEF Next

(* Every reachable state keeps the rows and calls right.                   *)
THEOREM Invariance == Spec => []IndInv
<1> QED
  BY InitInd, NextInd, PTL DEF Spec

(* The tables and the calls in progress always hold values of their types. *)
THEOREM TypeCorrect == Spec => []TypeOK
<1>1. IndInv => TypeOK
  BY DEF IndInv
<1> QED
  BY <1>1, Invariance, PTL

LEMMA InvConsents == IndInv => DisclosureNeedsConsent
<1> SUFFICES ASSUME IndInv PROVE DisclosureNeedsConsent
  OBVIOUS
<1>1. ASSUME NEW u \in Users, NEW v \in Users,
             NEW c \in ConversationsOf(u, v), conversation[c].shown
      PROVE  Consent(u, v)
  BY <1>1 DEF ConversationsOf, IndInv, RowsInv, ConversationOK, SamePair, Consent
<1>2. ASSUME NEW k \in Connections, connection[k] # None, connection[k].shown
      PROVE  Vouched(k)
  BY <1>2 DEF IndInv, RowsInv, ConnectionOK
<1> QED
  BY <1>1, <1>2, RevealedConsents DEF DisclosureNeedsConsent

(* Whatever the two reveal services, the conversations and the connections *)
(* do at the same time, a conversation or isRevealed shows two users each  *)
(* other's name only after one of them asked and the other accepted, and a *)
(* connection only after two users did so with a request that named it.    *)
THEOREM ConsentCorrect == Spec => []DisclosureNeedsConsent
BY InvConsents, Invariance, PTL

----------------------------------------------------------------------------
(* The refinement                                                          *)

(* What a request named it goes on naming, as long as no request is added  *)
(* and no connection changes its parties.                                  *)
SameRequests ==
  /\ \A r \in Reveals :
       /\ (reveal'[r] = None) <=> (reveal[r] = None)
       /\ reveal[r] # None => /\ reveal'[r].from = reveal[r].from
                              /\ reveal'[r].to = reveal[r].to
                              /\ reveal'[r].on = reveal[r].on
  /\ \A k \in Connections : connection[k] # None =>
       /\ connection'[k].sender = connection[k].sender
       /\ connection'[k].receiver = connection[k].receiver

(* A request that named a connection names an existing one.                *)
LEMMA NamesARow ==
  ASSUME IndInv, NEW r \in Reveals, reveal[r] # None, reveal[r].on # None
  PROVE  reveal[r].on \in Connections /\ connection[reveal[r].on] # None
<1>1. reveal[r] \in RevealRow /\ RevealOK(r)
  BY DEF IndInv, TypeOK, RowsInv
<1> QED
  BY <1>1 DEF RevealRow, RevealOK, HasRow

LEMMA NamedStays ==
  ASSUME IndInv, SameRequests
  PROVE  Named' = Named
<1>1. ASSUME NEW r \in Reveals, reveal[r] # None, reveal[r].on # None
      PROVE  PartiesOf(reveal[r].on)' = PartiesOf(reveal[r].on)
  <2>1. PICK k \in Connections : k = reveal[r].on /\ connection[k] # None
    BY <1>1, NamesARow
  <2>2. /\ reveal'[r].on = k
        /\ connection'[k].sender = connection[k].sender
        /\ connection'[k].receiver = connection[k].receiver
    BY <1>1, <2>1 DEF SameRequests
  <2> QED
    BY <2>1, <2>2 DEF PartiesOf
<1> DEFINE rows == {r \in Reveals : reveal[r] # None /\ reveal[r].on # None}
           Of(r) == {<<reveal[r].from, reveal[r].to>>} \X PartiesOf(reveal[r].on)
<1>2. rows' = rows
  <2>1. ASSUME NEW r \in Reveals
        PROVE  (reveal'[r] # None /\ reveal'[r].on # None)
                 <=> (reveal[r] # None /\ reveal[r].on # None)
    BY DEF SameRequests
  <2> QED
    BY <2>1
<1>3. ASSUME NEW r \in rows PROVE Of(r)' = Of(r)
  <2>1. reveal'[r].from = reveal[r].from /\ reveal'[r].to = reveal[r].to
    BY DEF SameRequests
  <2>2. PICK parties : parties = PartiesOf(reveal[r].on)
    OBVIOUS
  <2>3. PartiesOf(reveal[r].on)' = parties
    BY <1>1, <2>2
  <2> QED
    BY <2>1, <2>2, <2>3
<1>4. Named = UNION {Of(r) : r \in rows} /\ Named' = UNION {Of(r)' : r \in rows'}
  BY DEF Named
<1> HIDE DEF rows, Of
<1> QED
  BY <1>2, <1>3, <1>4

(* A step that takes no accepted reveal and no set flag away discloses     *)
(* whatever was disclosed.                                                 *)
LEMMA DisclosedGrows ==
  ASSUME \A r \in Reveals : reveal[r] # None /\ reveal[r].status = "accepted" =>
           /\ reveal'[r] # None /\ reveal'[r].status = "accepted"
           /\ reveal'[r].from = reveal[r].from /\ reveal'[r].to = reveal[r].to,
         \A c \in Conversations : conversation[c] # None /\ conversation[c].shown =>
           /\ conversation'[c] # None /\ conversation'[c].shown
           /\ conversation'[c].user1 = conversation[c].user1
           /\ conversation'[c].user2 = conversation[c].user2,
         \A k \in Connections : connection[k] # None /\ connection[k].shown =>
           /\ connection'[k] # None /\ connection'[k].shown
           /\ connection'[k].sender = connection[k].sender
           /\ connection'[k].receiver = connection[k].receiver
  PROVE  Disclosed \subseteq Disclosed'
<1> SUFFICES ASSUME NEW u \in Users, NEW v \in Users, Shown(u, v)
             PROVE  Shown(u, v)'
  BY DEF Disclosed
<1>1. CASE IsRevealed(u, v)
  <2>1. PICK r \in Reveals : /\ reveal[r] # None /\ reveal[r].status = "accepted"
                            /\ SamePair(reveal[r].from, reveal[r].to, u, v)
    BY <1>1 DEF IsRevealed, RevealsOf
  <2> QED
    BY <2>1 DEF Shown, IsRevealed, RevealsOf, SamePair
<1>2. CASE \E c \in ConversationsOf(u, v) : conversation[c].shown
  <2>1. PICK c \in Conversations :
          /\ conversation[c] # None /\ conversation[c].shown
          /\ SamePair(conversation[c].user1, conversation[c].user2, u, v)
    BY <1>2 DEF ConversationsOf
  <2> QED
    BY <2>1 DEF Shown, ConversationsOf, SamePair
<1>3. CASE \E k \in Connections : /\ connection[k] # None
                                  /\ SamePair(connection[k].sender,
                                              connection[k].receiver, u, v)
                                  /\ connection[k].shown
  BY <1>3 DEF Shown, SamePair
<1> QED
  BY <1>1, <1>2, <1>3 DEF Shown

(* A step after which no reveal is newly accepted, and which sets no flag, *)
(* discloses nothing new.                                                  *)
LEMMA DisclosedShrinks ==
  ASSUME \A r \in Reveals : reveal'[r] # None /\ reveal'[r].status = "accepted" =>
           /\ reveal[r] # None /\ reveal[r].status = "accepted"
           /\ reveal'[r].from = reveal[r].from /\ reveal'[r].to = reveal[r].to,
         UNCHANGED <<conversation, connection>>
  PROVE  Disclosed' \subseteq Disclosed
<1> SUFFICES ASSUME NEW u \in Users, NEW v \in Users, Shown(u, v)'
             PROVE  Shown(u, v)
  BY DEF Disclosed
<1>1. CASE IsRevealed(u, v)'
  <2>1. PICK r \in Reveals : /\ reveal'[r] # None /\ reveal'[r].status = "accepted"
                            /\ SamePair(reveal'[r].from, reveal'[r].to, u, v)
    BY <1>1 DEF IsRevealed, RevealsOf
  <2> QED
    BY <2>1 DEF Shown, IsRevealed, RevealsOf, SamePair
<1>2. CASE ~IsRevealed(u, v)'
  BY <1>2 DEF Shown, ConversationsOf
<1> QED
  BY <1>1, <1>2

(* Steps that leave the history alone map to Disclose or TakeBack.         *)
LEMMA DiscloseStep ==
  ASSUME IndInv, IndInv', SameRequests, UNCHANGED <<asked, agreed>>,
         Disclosed \subseteq Disclosed'
  PROVE  Consenting!Disclose
<1>1. Disclosed' \in SUBSET (Users \X Users)
  BY DEF Disclosed
<1>3. DisclosureNeedsConsent'
  BY InvConsents, PTL
<1>2. ASSUME NEW p \in Disclosed'
      PROVE  Consenting!CoveredIn(asked, agreed, Named, p)
  <2>1. PICK u \in Users, v \in Users : p = <<u, v>> /\ Shown(u, v)'
    BY <1>2 DEF Disclosed
  <2>2. CASE \/ IsRevealed(u, v)'
             \/ (\E c \in ConversationsOf(u, v) : conversation[c].shown)'
    <3>1. Consent(u, v)'
      BY <1>3, <2>2 DEF DisclosureNeedsConsent
    <3> QED
      BY <2>1, <3>1 DEF Consent, Consenting!ConsentIn, Consenting!CoveredIn
  <2>3. ASSUME NEW k \in Connections, connection'[k] # None, connection'[k].shown,
               SamePair(connection'[k].sender, connection'[k].receiver, u, v)
        PROVE  Consenting!CoveredIn(asked, agreed, Named, p)
    <3>1. PICK r \in Reveals : /\ reveal'[r] # None /\ reveal'[r].on = k
                              /\ Consent(reveal[r].from, reveal[r].to)'
      BY <1>3, <2>3 DEF DisclosureNeedsConsent, Vouched
    <3>2. PICK q : q = <<reveal'[r].from, reveal'[r].to>>
      OBVIOUS
    <3>3. q \in Users \X Users
      BY <3>1, <3>2 DEF IndInv, TypeOK, RevealRow
    <3>4. p \in PartiesOf(k)'
      BY <2>1, <2>3 DEF PartiesOf, SamePair
    <3>5. <<q, p>> \in Named'
      BY <3>1, <3>2, <3>4, NoneAssumption DEF Named
    <3>6. Consenting!ConsentIn(asked, agreed, q[1], q[2])
      BY <3>1, <3>2 DEF Consent, Consenting!ConsentIn
    <3> QED
      BY <3>3, <3>5, <3>6, NamedStays DEF Consenting!CoveredIn, Consenting!Pairs
  <2> QED
    BY <2>1, <2>2, <2>3 DEF Shown
<1> QED
  BY <1>1, <1>2, NamedStays DEF Consenting!Disclose, Consenting!Pairs

LEMMA TakeBackStep ==
  ASSUME IndInv, SameRequests, UNCHANGED <<asked, agreed>>,
         Disclosed' \subseteq Disclosed
  PROVE  Consenting!TakeBack
BY NamedStays DEF Consenting!TakeBack

(* Recording a request is Ask: the new row is pending, so it shows nothing,*)
(* and it names the parties of its connection, if it has one.              *)
LEMMA InsertRevealAsks ==
  ASSUME IndInv, NEW x \in Calls, NEW r \in Reveals, InsertReveal(x, r)
  PROVE  Consenting!Ask(call[x].by, call[x].with)
<1>1. \A s \in Reveals : s # r => reveal'[s] = reveal[s]
  BY DEF InsertReveal, IndInv, TypeOK
<1>2. reveal[r] = None /\ reveal'[r].status = "pending"
  BY DEF InsertReveal, IndInv, TypeOK
<1>3. Disclosed \subseteq Disclosed'
  BY <1>1, <1>2, DisclosedGrows DEF InsertReveal
<1>4. Disclosed' \subseteq Disclosed
  BY <1>1, <1>2, DisclosedShrinks DEF InsertReveal
<1>5. PICK row \in Call : row = call[x] /\ HasRow(row.on)
  BY DEF InsertReveal, At, IndInv, TypeOK, CallsInv, CallOK, Asking
<1>6. /\ reveal'[r] # None /\ reveal'[r].on = row.on
      /\ reveal'[r].from = row.by /\ reveal'[r].to = row.with
  <2>1. reveal'[r] = [from |-> row.by, to |-> row.with, on |-> row.on,
                      status |-> "pending"]
    BY <1>5 DEF InsertReveal, IndInv, TypeOK
  <2>2. reveal'[r] \in RevealRow
    BY <1>5, <2>1 DEF Call, RevealRow, RevealStatus
  <2> QED
    BY <2>1, <2>2, NoneAssumption
<1>7. \A k : PartiesOf(k)' = PartiesOf(k)
  BY DEF InsertReveal, PartiesOf
<1>8. Named \subseteq Named'
  BY <1>1, <1>2, <1>7 DEF Named
<1>9. \A z \in Named' : \/ z \in Named
                         \/ /\ row.on # None
                            /\ z \in {<<row.by, row.with>>} \X PartiesOf(row.on)
  <2> SUFFICES ASSUME NEW z \in Named'
               PROVE  \/ z \in Named
                      \/ /\ row.on # None
                         /\ z \in {<<row.by, row.with>>} \X PartiesOf(row.on)
    OBVIOUS
  <2>1. PICK s \in Reveals :
          /\ reveal'[s] # None /\ reveal'[s].on # None
          /\ z \in {<<reveal'[s].from, reveal'[s].to>>} \X PartiesOf(reveal'[s].on)
    BY <1>7 DEF Named, InsertReveal, PartiesOf
  <2>2. CASE s = r
    BY <1>6, <2>1, <2>2
  <2>3. CASE s # r
    <3>1. reveal'[s] = reveal[s]
      BY <1>1, <2>3
    <3>2. /\ reveal[s] # None /\ reveal[s].on # None
          /\ z \in {<<reveal[s].from, reveal[s].to>>} \X PartiesOf(reveal[s].on)
      BY <2>1, <3>1
    <3> DEFINE rows == {q \in Reveals : reveal[q] # None /\ reveal[q].on # None}
               Of(q) == {<<reveal[q].from, reveal[q].to>>} \X PartiesOf(reveal[q].on)
    <3>3. s \in rows /\ z \in Of(s)
      BY <3>2
    <3>4. Named = UNION {Of(q) : q \in rows}
      BY DEF Named
    <3>5. z \in UNION {Of(q) : q \in rows}
      <4> HIDE DEF rows, Of
      <4> QED BY <3>3
    <3> QED
      BY <3>4, <3>5
  <2> QED
    BY <2>2, <2>3
<1>10. row.on # None => PartiesOf(row.on) \subseteq Users \X Users
  <2> SUFFICES ASSUME row.on # None PROVE PartiesOf(row.on) \subseteq Users \X Users
    OBVIOUS
  <2>1. connection[row.on] \in ConnectionRow
    BY <1>5 DEF HasRow, Call, IndInv, TypeOK
  <2> QED
    BY <2>1 DEF ConnectionRow, PartiesOf
<1>11. Named' \ Named \subseteq {<<call[x].by, call[x].with>>} \X (Users \X Users)
  BY <1>5, <1>9, <1>10
<1> QED
  BY <1>3, <1>4, <1>8, <1>11 DEF InsertReveal, Consenting!Ask, Consenting!Pairs

(* Recording an acceptance is Agree: the answering user is the one who was *)
(* asked, and the pair shows from now on.                                  *)
LEMMA AcceptanceAgrees ==
  ASSUME IndInv, NEW x \in Calls, WriteAnswer(x), call[x].what
  PROVE  Consenting!Agree(call[x].by, call[x].with)
<1> DEFINE r == call[x].row
           pair == {<<call[x].with, call[x].by>>, <<call[x].by, call[x].with>>}
<1>1. call[x] # None /\ call[x].at \in Answering
  BY DEF WriteAnswer, At, Answering
<1>2. /\ call[x] \in Call
      /\ r \in Reveals
      /\ reveal[r] # None
      /\ reveal[r].from = call[x].with
      /\ reveal[r].to = call[x].by
      /\ <<call[x].with, call[x].by>> \in asked
  BY <1>1, AnsweringCall
<1>3. reveal[r] \in RevealRow
  BY <1>2 DEF IndInv, TypeOK
<1>4. /\ reveal'[r] = [reveal[r] EXCEPT !.status = "accepted"]
      /\ \A s \in Reveals : s # r => reveal'[s] = reveal[s]
  BY <1>2 DEF WriteAnswer, IndInv, TypeOK
<1>5. /\ reveal'[r] \in RevealRow /\ reveal'[r].status = "accepted"
      /\ reveal'[r].from = call[x].with /\ reveal'[r].to = call[x].by
  BY <1>2, <1>3, <1>4 DEF RevealRow, RevealStatus, Answers
<1>6. /\ UNCHANGED <<conversation, connection, asked>>
      /\ agreed' = agreed \cup {<<call[x].by, call[x].with>>}
  BY DEF WriteAnswer
<1>7. Disclosed \subseteq Disclosed'
  <2> HIDE DEF r
  <2> QED BY <1>2, <1>4, <1>5, <1>6, NoneAssumption, DisclosedGrows
<1>8. pair \subseteq Disclosed'
  <2>1. call[x].by \in Users /\ call[x].with \in Users
    BY <1>2 DEF Call
  <2>2. \A u, v : SamePair(call[x].with, call[x].by, u, v) => IsRevealed(u, v)'
    BY <1>2, <1>5, NoneAssumption DEF IsRevealed, RevealsOf, SamePair
  <2> QED
    BY <2>1, <2>2 DEF Disclosed, Shown, SamePair
<1>9. ASSUME NEW u \in Users, NEW v \in Users, Shown(u, v)',
             ~SamePair(call[x].with, call[x].by, u, v)
      PROVE  Shown(u, v)
  <2>1. CASE IsRevealed(u, v)'
    <3>1. PICK s \in Reveals : /\ reveal'[s] # None /\ reveal'[s].status = "accepted"
                              /\ SamePair(reveal'[s].from, reveal'[s].to, u, v)
      BY <2>1 DEF IsRevealed, RevealsOf
    <3>2. s # r
      BY <1>5, <1>9, <3>1 DEF SamePair
    <3> QED
      BY <1>4, <3>1, <3>2 DEF Shown, IsRevealed, RevealsOf
  <2>2. CASE ~IsRevealed(u, v)'
    BY <1>6, <1>9, <2>2 DEF Shown, ConversationsOf
  <2> QED
    BY <2>1, <2>2
<1>10. Disclosed' \subseteq Disclosed \cup pair
  BY <1>9 DEF Disclosed, SamePair
<1>11. Disclosed' = Disclosed \cup pair
  BY <1>7, <1>8, <1>10
<1>12. SameRequests
  <2>1. reveal'[r].on = reveal[r].on /\ reveal'[r] # None
    BY <1>3, <1>4, <1>5, NoneAssumption DEF RevealRow
  <2> QED
    BY <1>2, <1>4, <1>5, <1>6, <2>1 DEF SameRequests
<1> QED
  BY <1>2, <1>6, <1>11, <1>12, NamedStays DEF Consenting!Agree

(* Writing any other status discloses nothing.                             *)
LEMMA OtherStatusTakesBack ==
  ASSUME IndInv, NEW r \in Reveals, reveal[r] # None,
         NEW status \in {"rejected", "cancelled"},
         reveal' = [reveal EXCEPT ![r].status = status],
         UNCHANGED <<conversation, connection, asked, agreed>>
  PROVE  Consenting!TakeBack
<1>1. reveal[r] \in RevealRow
  BY DEF IndInv, TypeOK
<1>2. /\ reveal'[r] = [reveal[r] EXCEPT !.status = status]
      /\ \A s \in Reveals : s # r => reveal'[s] = reveal[s]
  BY DEF IndInv, TypeOK
<1>3. reveal'[r].status # "accepted"
  BY <1>1, <1>2 DEF RevealRow
<1>4. Disclosed' \subseteq Disclosed
  BY <1>2, <1>3, DisclosedShrinks
<1>5. /\ reveal'[r] # None
      /\ reveal'[r].from = reveal[r].from
      /\ reveal'[r].to = reveal[r].to
      /\ reveal'[r].on = reveal[r].on
  <2>1. reveal'[r] \in RevealRow
    BY <1>1, <1>2 DEF RevealRow, RevealStatus, Answers
  <2> QED
    BY <1>1, <1>2, <2>1, NoneAssumption DEF RevealRow
<1>6. SameRequests
  BY <1>2, <1>5 DEF SameRequests
<1> QED
  BY <1>4, <1>6, TakeBackStep

(* A step that reads maps to a step that changes nothing.                  *)
LEMMA ReadingStutters ==
  ASSUME UNCHANGED <<reveal, conversation, connection, asked, agreed>>
  PROVE  UNCHANGED Consenting!vars
<1>1. Disclosed' = Disclosed
  BY DEF Disclosed, Shown, IsRevealed, RevealsOf, ConversationsOf
<1>2. Named' = Named
  BY DEF Named, PartiesOf
<1> QED
  BY <1>1, <1>2 DEF Consenting!vars

LEMMA RequestRefines ==
  ASSUME NEW x \in Calls, NEW u \in Users, Request(x, u)
  PROVE  UNCHANGED Consenting!vars
<1>1. UNCHANGED <<reveal, conversation, connection, asked, agreed>>
  BY DEF Request, AskInChat, AskOnConnection, ReadRequest, AnswerInChat,
         AnswerOnConnection, Answer, CancelAsk, OpenConversation, StartChat,
         SendRequest, history
<1> QED
  BY <1>1, ReadingStutters

LEMMA ContinueRefines ==
  ASSUME IndInv, IndInv', NEW x \in Calls, Continue(x)
  PROVE  [Consenting!Next]_Consenting!vars
<1>1. CASE \/ FindPending(x) \/ FindExisting(x) \/ FindConversations(x)
           \/ ReadRevealed(x) \/ FindChat(x) \/ CountRequest(x) \/ TakeSlot(x)
  <2>1. UNCHANGED <<reveal, conversation, connection, asked, agreed>>
    BY <1>1 DEF FindPending, FindExisting, FindConversations, ReadRevealed,
                FindChat, CountRequest, TakeSlot, history
  <2> QED
    BY <2>1, ReadingStutters
<1>2. ASSUME NEW r \in Reveals, InsertReveal(x, r)
      PROVE  Consenting!Next
  <2>1. call[x].by \in Users /\ call[x].with \in Users
    BY <1>2 DEF InsertReveal, At, IndInv, TypeOK, Call
  <2> QED
    BY <1>2, <2>1, InsertRevealAsks DEF Consenting!Next
<1>3. CASE WriteAnswer(x)
  <2>1. call[x] # None /\ call[x].at \in Answering
    BY <1>3 DEF WriteAnswer, At, Answering
  <2>2. /\ call[x] \in Call /\ call[x].row \in Reveals
        /\ reveal[call[x].row] # None
    BY <2>1, AnsweringCall
  <2>3. CASE call[x].what
    BY <1>3, <2>2, <2>3, AcceptanceAgrees DEF Call, Consenting!Next
  <2>4. CASE ~call[x].what
    <3>1. /\ reveal' = [reveal EXCEPT ![call[x].row].status = "rejected"]
          /\ UNCHANGED <<conversation, connection, asked, agreed>>
      BY <1>3, <2>4 DEF WriteAnswer
    <3> QED
      BY <2>2, <3>1, OtherStatusTakesBack DEF Consenting!Next
  <2> QED
    BY <2>3, <2>4
<1>4. CASE WriteCancel(x)
  <2>1. call[x].row \in Reveals /\ reveal[call[x].row] # None
    BY <1>4 DEF WriteCancel, At, IndInv, CallsInv, CallOK
  <2>2. /\ reveal' = [reveal EXCEPT ![call[x].row].status = "cancelled"]
        /\ UNCHANGED <<conversation, connection, asked, agreed>>
    BY <1>4 DEF WriteCancel, history
  <2> QED
    BY <2>1, <2>2, OtherStatusTakesBack DEF Consenting!Next
<1>5. CASE FlagConversations(x)
  <2>1. \A c \in Conversations : conversation[c] # None /\ conversation[c].shown =>
          /\ conversation'[c] # None /\ conversation'[c].shown
          /\ conversation'[c].user1 = conversation[c].user1
          /\ conversation'[c].user2 = conversation[c].user2
    <3> SUFFICES ASSUME NEW c \in Conversations, conversation[c] # None,
                        conversation[c].shown
                 PROVE  /\ conversation'[c] # None /\ conversation'[c].shown
                        /\ conversation'[c].user1 = conversation[c].user1
                        /\ conversation'[c].user2 = conversation[c].user2
      OBVIOUS
    <3>1. conversation[c] \in ConversationRow
      BY DEF IndInv, TypeOK
    <3>2. \/ conversation'[c] = conversation[c]
          \/ conversation'[c] = [conversation[c] EXCEPT !.shown = TRUE]
      BY <1>5 DEF FlagConversations
    <3> QED
      BY <3>1, <3>2, NoneAssumption DEF ConversationRow
  <2>2. UNCHANGED <<reveal, connection, asked, agreed>>
    BY <1>5 DEF FlagConversations, history
  <2>3. SameRequests
    BY <2>2 DEF SameRequests
  <2> QED
    BY <2>1, <2>2, <2>3, DisclosedGrows, DiscloseStep DEF Consenting!Next
<1>6. CASE FlagConnection(x) \/ WriteDecision(x)
  <2>1. \A k \in Connections : connection[k] # None =>
          /\ connection'[k] # None
          /\ connection[k].shown => connection'[k].shown
          /\ connection'[k].sender = connection[k].sender
          /\ connection'[k].receiver = connection[k].receiver
    <3> SUFFICES ASSUME NEW k \in Connections, connection[k] # None
                 PROVE  /\ connection'[k] # None
                        /\ connection[k].shown => connection'[k].shown
                        /\ connection'[k].sender = connection[k].sender
                        /\ connection'[k].receiver = connection[k].receiver
      OBVIOUS
    <3>1. /\ connection[k] \in ConnectionRow
          /\ connection \in [Connections -> ConnectionRow \cup {None}]
      BY DEF IndInv, TypeOK
    <3>2. CASE FlagConnection(x)
      <4>1. \/ connection'[k] = connection[k]
            \/ connection'[k] = [connection[k] EXCEPT !.shown = TRUE]
        BY <3>2 DEF FlagConnection
      <4> QED
        BY ZenonT(60), <3>1, <4>1, NoneAssumption DEF ConnectionRow
    <3>3. CASE WriteDecision(x)
      <4>1. PICK status \in ConnectionStatus :
              connection' = [connection EXCEPT ![call[x].on].status = status]
        BY <3>3 DEF WriteDecision, ConnectionStatus, Answers
      <4>2. \/ connection'[k] = connection[k]
            \/ connection'[k] = [connection[k] EXCEPT !.status = status]
        BY <3>1, <4>1
      <4>3. connection'[k] \in ConnectionRow
        BY <3>1, <4>2 DEF ConnectionRow
      <4>4. /\ connection'[k].shown = connection[k].shown
            /\ connection'[k].sender = connection[k].sender
            /\ connection'[k].receiver = connection[k].receiver
        BY <3>1, <4>2 DEF ConnectionRow
      <4> QED
        BY <4>3, <4>4, NoneAssumption
    <3> QED
      BY <1>6, <3>2, <3>3
  <2>2. UNCHANGED <<reveal, conversation, asked, agreed>>
    BY <1>6 DEF FlagConnection, WriteDecision, history
  <2>3. SameRequests
    BY <2>1, <2>2 DEF SameRequests
  <2>4. Disclosed \subseteq Disclosed'
    BY <2>1, <2>2, DisclosedGrows
  <2> QED
    BY <2>2, <2>3, <2>4, DiscloseStep DEF Consenting!Next
<1>7. ASSUME NEW c \in Conversations, InsertConversation(x, c)
      PROVE  Consenting!Next
  <2>1. \A b \in Conversations : conversation[b] # None => conversation'[b] = conversation[b]
    BY <1>7 DEF InsertConversation, IndInv, TypeOK
  <2>2. UNCHANGED <<reveal, connection, asked, agreed>>
    BY <1>7 DEF InsertConversation, history
  <2>3. Disclosed \subseteq Disclosed'
    BY <2>1, <2>2, DisclosedGrows
  <2>4. SameRequests
    BY <2>2 DEF SameRequests
  <2> QED
    BY <2>2, <2>3, <2>4, DiscloseStep DEF Consenting!Next
<1>8. ASSUME NEW k \in Connections, InsertConnection(x, k)
      PROVE  Consenting!Next
  <2>1. \A j \in Connections : connection[j] # None => connection'[j] = connection[j]
    BY <1>8 DEF InsertConnection, IndInv, TypeOK
  <2>2. UNCHANGED <<reveal, conversation, asked, agreed>>
    BY <1>8 DEF InsertConnection, history
  <2>3. Disclosed \subseteq Disclosed'
    BY <2>1, <2>2, DisclosedGrows
  <2>4. SameRequests
    BY <2>1, <2>2 DEF SameRequests
  <2> QED
    BY <2>2, <2>3, <2>4, DiscloseStep DEF Consenting!Next
<1> QED
  BY <1>1, <1>2, <1>3, <1>4, <1>5, <1>6, <1>7, <1>8 DEF Continue

LEMMA NextRefines ==
  IndInv /\ IndInv' /\ [Next]_vars => [Consenting!Next]_Consenting!vars
<1> SUFFICES ASSUME IndInv, IndInv', [Next]_vars
             PROVE  [Consenting!Next]_Consenting!vars
  OBVIOUS
<1>1. CASE UNCHANGED vars
  BY <1>1, ReadingStutters DEF vars
<1>2. ASSUME NEW x \in Calls, NEW u \in Users, Request(x, u)
      PROVE  [Consenting!Next]_Consenting!vars
  BY <1>2, RequestRefines
<1>3. ASSUME NEW x \in Calls, Continue(x)
      PROVE  [Consenting!Next]_Consenting!vars
  BY <1>3, ContinueRefines
<1>4. ASSUME NEW x \in Calls, Refused(x) \/ Abort(x)
      PROVE  [Consenting!Next]_Consenting!vars
  BY <1>4, ReadingStutters DEF Refused, Abort, history
<1> QED
  BY <1>1, <1>2, <1>3, <1>4 DEF Next

LEMMA InitRefines == Init => Consenting!Init
<1> SUFFICES ASSUME Init PROVE Consenting!Init
  OBVIOUS
<1>1. Disclosed = {}
  BY DEF Init, Disclosed, Shown, IsRevealed, RevealsOf, ConversationsOf
<1>2. Named = {}
  BY DEF Init, Named
<1> QED
  BY <1>1, <1>2 DEF Init, Consenting!Init

(* The two reveal services, with the conversations and connections they    *)
(* write, implement mutual consent: what is shown was asked for first and  *)
(* agreed to by the other side.                                            *)
THEOREM ConsentRefinement == Spec => ImplementsMutualConsent
BY InitRefines, NextRefines, Invariance, PTL
   DEF Spec, ImplementsMutualConsent, Consenting!Spec

----------------------------------------------------------------------------
(* Where an acceptance reaches and what counts a request.                  *)

(* The stages at which a call is owed something by the steps before it.    *)
Late == {"findConversations", "flagConversations", "countRequest"}

CallAlone(x) ==
  /\ \A y \in Calls : y # x => call'[y] = call[y]
  /\ call'[x] \in Call \cup {None}

(* A step of call x does not bring it to a late stage.                     *)
NotLate(x) == CallAlone(x) /\ (call'[x] # None => call'[x].at \notin Late)

(* A call set to what is not late touches no other call.                   *)
LEMMA SetNotLate ==
  ASSUME TypeOK, NEW x \in Calls, NEW d \in Call \cup {None},
         call' = [call EXCEPT ![x] = d], d # None => d.at \notin Late
  PROVE  NotLate(x)
<1>1. call'[x] = d /\ \A y \in Calls : y # x => call'[y] = call[y]
  BY DEF TypeOK
<1> QED
  BY <1>1 DEF NotLate, CallAlone

LEMMA ReturnNotLate ==
  ASSUME TypeOK, NEW x \in Calls, Return(x)
  PROVE  NotLate(x)
BY SetNotLate DEF Return

LEMMA GotoNotLate ==
  ASSUME TypeOK, NEW x \in Calls, call[x] # None,
         NEW stage \in Stages \ Late, Goto(x, stage)
  PROVE  NotLate(x)
<1>1. call[x] \in Call
  BY DEF TypeOK
<1>2. PICK d \in Call : d = [call[x] EXCEPT !.at = stage]
  BY <1>1 DEF Call
<1>3. call' = [call EXCEPT ![x] = d] /\ d.at = stage
  BY <1>1, <1>2 DEF Goto, Call
<1> QED
  BY <1>3, SetNotLate

(* A new call begins at none of the late stages.                           *)
LEMMA RequestNotLate ==
  ASSUME TypeOK, NEW x \in Calls, NEW u \in Users, Request(x, u)
  PROVE  NotLate(x) /\ UNCHANGED tables
<1> USE DEF Late, Stages, Start
<1>t. UNCHANGED tables
  BY DEF Request, AskInChat, AskOnConnection, ReadRequest, AnswerInChat,
         AnswerOnConnection, Answer, CancelAsk, OpenConversation, StartChat,
         SendRequest, history, counters, tables
<1>1. ASSUME NEW c \in Conversations, AskInChat(x, u, c)
      PROVE  NotLate(x)
  <2>1. conversation[c] \in ConversationRow
    BY <1>1 DEF AskInChat, TypeOK
  <2>2. PICK v \in Users :
          v = OtherParty(conversation[c].user1, conversation[c].user2, u)
    BY <2>1 DEF ConversationRow, OtherParty
  <2>3. PICK k \in Connections \cup {None} :
          Start(x, [NewCall("findPending", u, v) EXCEPT !.on = k])
    BY <1>1, <2>2 DEF AskInChat, ClientConnections
  <2>4. PICK d \in Call : d = [NewCall("findPending", u, v) EXCEPT !.on = k]
    BY DEF NewCall, Call, Contexts
  <2>5. d.at = "findPending"
    BY <2>4 DEF NewCall
  <2> QED
    BY <2>3, <2>4, <2>5, SetNotLate
<1>2. ASSUME NEW k \in Connections, AskOnConnection(x, u, k)
      PROVE  NotLate(x)
  <2>1. connection[k] \in ConnectionRow
    BY <1>2 DEF AskOnConnection, TypeOK
  <2>2. PICK v \in Users :
          v = OtherParty(connection[k].sender, connection[k].receiver, u)
    BY <2>1 DEF ConnectionRow, OtherParty
  <2>4. PICK d \in Call : d = [NewCall("findExisting", u, v) EXCEPT !.on = k]
    BY DEF NewCall, Call, Contexts
  <2>5. d.at = "findExisting" /\ Start(x, d)
    BY <1>2, <2>2, <2>4 DEF NewCall, AskOnConnection
  <2> QED
    BY <2>5, SetNotLate
<1>3. ASSUME NEW k \in Connections, ReadRequest(x, u, k)
      PROVE  NotLate(x)
  <2>1. connection[k] \in ConnectionRow
    BY <1>3 DEF ReadRequest, TypeOK
  <2>2. PICK yes \in BOOLEAN :
          Start(x, [NewCall("decide", u, connection[k].sender) EXCEPT
                  !.on = k, !.post = connection[k].post, !.what = yes,
                  !.takes = yes /\ slots[connection[k].post] > 0])
    BY <1>3 DEF ReadRequest
  <2>3. PICK t \in BOOLEAN : t = (yes /\ slots[connection[k].post] > 0)
    OBVIOUS
  <2>4. PICK d \in Call :
          d = [NewCall("decide", u, connection[k].sender) EXCEPT
                  !.on = k, !.post = connection[k].post, !.what = yes,
                  !.takes = t]
    BY <2>1 DEF NewCall, Call, ConnectionRow, Contexts
  <2>5. d.at = "decide" /\ Start(x, d)
    BY <2>2, <2>3, <2>4 DEF NewCall
  <2> QED
    BY <2>5, SetNotLate
<1>4. ASSUME NEW r \in Reveals, AnswerInChat(x, u, r) \/ AnswerOnConnection(x, u, r)
      PROVE  NotLate(x)
  <2>1. PICK stage \in Answering, yes \in BOOLEAN : Answer(x, u, r, stage, yes)
    BY <1>4 DEF AnswerInChat, AnswerOnConnection, Answering
  <2>2. reveal[r] \in RevealRow
    BY <2>1 DEF Answer, TypeOK
  <2>3. PICK d \in Call : d = [NewCall(stage, u, reveal[r].from) EXCEPT
                 !.row = r, !.on = reveal[r].on, !.what = yes]
    BY <2>2 DEF NewCall, Call, RevealRow, Contexts, Answering
  <2>4. d.at = stage /\ Start(x, d)
    BY <2>1, <2>3 DEF NewCall, Answer
  <2> QED
    BY <2>4, SetNotLate DEF Answering
<1>5. ASSUME NEW r \in Reveals, CancelAsk(x, u, r)
      PROVE  NotLate(x)
  <2>1. reveal[r] \in RevealRow
    BY <1>5 DEF CancelAsk, TypeOK
  <2>2. PICK d \in Call : d = [NewCall("cancel", u, reveal[r].to) EXCEPT !.row = r]
    BY <2>1 DEF NewCall, Call, RevealRow, Contexts
  <2>3. d.at = "cancel" /\ Start(x, d)
    BY <1>5, <2>2 DEF NewCall, CancelAsk
  <2> QED
    BY <2>3, SetNotLate
<1>6. ASSUME NEW v \in Users, NEW context \in Contexts,
             OpenConversation(x, u, v, context)
      PROVE  NotLate(x)
  <2>1. PICK d \in Call : d = [NewCall("isRevealed", u, v) EXCEPT !.context = context]
    BY DEF NewCall, Call, Contexts
  <2>2. d.at = "isRevealed" /\ Start(x, d)
    BY <1>6, <2>1 DEF NewCall, OpenConversation
  <2> QED
    BY <2>2, SetNotLate
<1>7. ASSUME NEW v \in Users, StartChat(x, u, v)
      PROVE  NotLate(x)
  <2>1. PICK d \in Call : d = [NewCall("findChat", u, v) EXCEPT !.context = "mentorship"]
    BY DEF NewCall, Call, Contexts
  <2>2. d.at = "findChat" /\ Start(x, d)
    BY <1>7, <2>1 DEF NewCall, StartChat
  <2> QED
    BY <2>2, SetNotLate
<1>8. ASSUME NEW p \in Posts, SendRequest(x, u, p)
      PROVE  NotLate(x)
  <2>1. PostOwner[p] \in Users
    BY ConstantsAssumption
  <2>2. PICK d \in Call :
          d = [NewCall("insertConnection", u, PostOwner[p]) EXCEPT !.post = p]
    BY <2>1 DEF NewCall, Call, Contexts
  <2>3. d.at = "insertConnection" /\ Start(x, d)
    BY <1>8, <2>2 DEF NewCall, SendRequest
  <2> QED
    BY <2>3, SetNotLate
<1> QED
  BY <1>t, <1>1, <1>2, <1>3, <1>4, <1>5, <1>6, <1>7, <1>8 DEF Request

(* What no step of a call takes from the others.                           *)
PartiesStand ==
  /\ \A c \in Conversations : conversation[c] # None =>
       /\ conversation'[c] # None
       /\ conversation'[c].user1 = conversation[c].user1
       /\ conversation'[c].user2 = conversation[c].user2
  /\ \A k \in Connections : connection[k] # None =>
       /\ connection'[k] # None
       /\ connection'[k].post = connection[k].post

LEMMA PartiesStandStill ==
  ASSUME UNCHANGED <<conversation, connection>>
  PROVE  PartiesStand
BY DEF PartiesStand

LEMMA FlagKeepsParties ==
  ASSUME IndInv, NEW x \in Calls, FlagConversations(x) \/ FlagConnection(x)
  PROVE  PartiesStand
<1>1. ASSUME NEW c \in Conversations, conversation[c] # None
      PROVE  /\ conversation'[c] # None
             /\ conversation'[c].user1 = conversation[c].user1
             /\ conversation'[c].user2 = conversation[c].user2
  <2>1. conversation[c] \in ConversationRow
    BY <1>1 DEF IndInv, TypeOK
  <2>2. \/ conversation'[c] = conversation[c]
        \/ conversation'[c] = [conversation[c] EXCEPT !.shown = TRUE]
    BY DEF FlagConversations, FlagConnection
  <2>3. conversation'[c] \in ConversationRow
    BY <2>1, <2>2 DEF ConversationRow
  <2> QED
    BY <2>1, <2>2, <2>3, NoneAssumption DEF ConversationRow
<1>2. ASSUME NEW k \in Connections, connection[k] # None
      PROVE  connection'[k] # None /\ connection'[k].post = connection[k].post
  <2>1. connection[k] \in ConnectionRow
    BY <1>2 DEF IndInv, TypeOK
  <2>2. \/ connection'[k] = connection[k]
        \/ connection'[k] = [connection[k] EXCEPT !.shown = TRUE]
    BY DEF FlagConversations, FlagConnection
  <2>3. connection'[k] \in ConnectionRow
    BY <2>1, <2>2 DEF ConnectionRow
  <2> QED
    BY <2>1, <2>2, <2>3, NoneAssumption DEF ConnectionRow
<1> QED
  BY <1>1, <1>2 DEF PartiesStand

LEMMA DecisionKeepsParties ==
  ASSUME IndInv, NEW x \in Calls, WriteDecision(x)
  PROVE  PartiesStand
<1>1. PICK status \in ConnectionStatus :
        connection' = [connection EXCEPT ![call[x].on].status = status]
  BY DEF WriteDecision, ConnectionStatus, Answers
<1>2. ASSUME NEW k \in Connections, connection[k] # None
      PROVE  connection'[k] # None /\ connection'[k].post = connection[k].post
  <2>1. connection[k] \in ConnectionRow
    BY <1>2 DEF IndInv, TypeOK
  <2>2. \/ connection'[k] = connection[k]
        \/ connection'[k] = [connection[k] EXCEPT !.status = status]
    BY <1>1 DEF IndInv, TypeOK
  <2>3. connection'[k] \in ConnectionRow
    BY <2>1, <2>2 DEF ConnectionRow
  <2> QED
    BY <2>1, <2>2, <2>3, NoneAssumption DEF ConnectionRow
<1> QED
  BY <1>2 DEF PartiesStand, WriteDecision

LEMMA InsertKeepsParties ==
  ASSUME IndInv, NEW x \in Calls,
         \/ \E c \in Conversations : InsertConversation(x, c)
         \/ \E k \in Connections : InsertConnection(x, k)
  PROVE  PartiesStand
<1>1. \A c \in Conversations : conversation[c] # None => conversation'[c] = conversation[c]
  BY DEF InsertConversation, InsertConnection, IndInv, TypeOK
<1>2. \A k \in Connections : connection[k] # None => connection'[k] = connection[k]
  BY DEF InsertConversation, InsertConnection, IndInv, TypeOK
<1> QED
  BY <1>1, <1>2 DEF PartiesStand

(* The steps after which a call may be at a late stage, or which count.    *)
TellingStep(x) ==
  \/ WriteAnswer(x) \/ FindConversations(x)
  \/ \E k \in Connections : InsertConnection(x, k)
  \/ CountRequest(x)

LEMMA ContinueIsTelling ==
  ASSUME IndInv, NEW x \in Calls, Continue(x)
  PROVE  PartiesStand /\ (TellingStep(x) \/ (NotLate(x) /\ UNCHANGED requests))
<1>0. TypeOK
  BY DEF IndInv
<1>1. CASE FindPending(x) \/ FindExisting(x)
  <2>1. Return(x) \/ (Goto(x, "insertReveal") /\ call[x] # None)
    BY <1>1 DEF FindPending, FindExisting, At
  <2>2. NotLate(x)
    BY <1>0, <2>1, ReturnNotLate, GotoNotLate DEF Stages, Late
  <2> QED
    BY <1>1, <2>2, PartiesStandStill DEF FindPending, FindExisting, counters
<1>2. ASSUME NEW r \in Reveals, InsertReveal(x, r)
      PROVE  PartiesStand /\ NotLate(x) /\ UNCHANGED requests
  BY <1>0, <1>2, ReturnNotLate, PartiesStandStill DEF InsertReveal, counters
<1>3. CASE WriteAnswer(x) \/ FindConversations(x) \/ CountRequest(x)
  BY <1>3, PartiesStandStill
     DEF TellingStep, WriteAnswer, FindConversations, CountRequest
<1>4. CASE WriteCancel(x)
  BY <1>0, <1>4, ReturnNotLate, PartiesStandStill DEF WriteCancel, counters
<1>5. CASE FlagConversations(x) \/ FlagConnection(x)
  BY <1>0, <1>5, ReturnNotLate, FlagKeepsParties
     DEF FlagConversations, FlagConnection, counters
<1>6. CASE ReadRevealed(x)
  <2>1. PICK b \in BOOLEAN :
          Start(x, [call[x] EXCEPT !.at = "insertConversation", !.what = b])
    BY <1>6 DEF ReadRevealed, Reported, IsRevealed
  <2>2. call[x] \in Call
    BY <1>0, <1>6 DEF ReadRevealed, At, TypeOK
  <2>3. PICK d \in Call : d = [call[x] EXCEPT !.at = "insertConversation", !.what = b]
    BY <2>2 DEF Call, Stages
  <2>4. d.at = "insertConversation" /\ call' = [call EXCEPT ![x] = d]
    BY <2>1, <2>2, <2>3 DEF Start, Call
  <2>5. NotLate(x)
    BY <1>0, <2>4, SetNotLate DEF Late
  <2> QED
    BY <1>6, <2>5, PartiesStandStill DEF ReadRevealed, counters
<1>7. CASE FindChat(x)
  <2>1. Return(x) \/ (Goto(x, "insertConversation") /\ call[x] # None)
    BY <1>7 DEF FindChat, At
  <2>2. NotLate(x)
    BY <1>0, <2>1, ReturnNotLate, GotoNotLate DEF Stages, Late
  <2> QED
    BY <1>7, <2>2, PartiesStandStill DEF FindChat, counters
<1>8. ASSUME NEW c \in Conversations, InsertConversation(x, c)
      PROVE  PartiesStand /\ NotLate(x) /\ UNCHANGED requests
  BY <1>0, <1>8, ReturnNotLate, InsertKeepsParties DEF InsertConversation, counters
<1>9. CASE \E k \in Connections : InsertConnection(x, k)
  BY <1>9, InsertKeepsParties DEF TellingStep
<1>10. CASE WriteDecision(x)
  <2>1. Return(x) \/ (Goto(x, "takeSlot") /\ call[x] # None)
    BY <1>10 DEF WriteDecision, At
  <2>2. NotLate(x)
    BY <1>0, <2>1, ReturnNotLate, GotoNotLate DEF Stages, Late
  <2> QED
    BY <1>10, <2>2, DecisionKeepsParties DEF WriteDecision, counters
<1>11. CASE TakeSlot(x)
  BY <1>0, <1>11, ReturnNotLate, PartiesStandStill DEF TakeSlot
<1> QED
  BY <1>1, <1>2, <1>3, <1>4, <1>5, <1>6, <1>7, <1>8, <1>9, <1>10, <1>11
     DEF Continue

(* Every step of the system is one of the telling steps or leaves the late *)
(* stages and the counts alone.                                            *)
LEMMA NextIsTelling ==
  ASSUME IndInv, Next
  PROVE  \E x \in Calls :
           PartiesStand /\ (TellingStep(x) \/ (NotLate(x) /\ UNCHANGED requests))
<1>1. ASSUME NEW x \in Calls, NEW u \in Users, Request(x, u)
      PROVE  PartiesStand /\ NotLate(x) /\ UNCHANGED requests
  BY <1>1, RequestNotLate, PartiesStandStill DEF IndInv, tables
<1>2. ASSUME NEW x \in Calls, Refused(x) \/ Abort(x)
      PROVE  PartiesStand /\ NotLate(x) /\ UNCHANGED requests
  BY <1>2, ReturnNotLate, PartiesStandStill DEF IndInv, Refused, Abort, counters
<1> QED
  BY <1>1, <1>2, ContinueIsTelling DEF Next

----------------------------------------------------------------------------
(* What an acceptance owes                                                 *)

OwedOK(x) ==
  call[x] # None =>
    /\ call[x].at = "findConversations" =>
         call[x].owed \subseteq ConversationsOf(call[x].by, call[x].with)
    /\ call[x].at = "flagConversations" => call[x].owed \subseteq call[x].found

OwedInv == \A x \in Calls : OwedOK(x)

(* The conversations of a pair stay theirs.                                *)
LEMMA ConversationsStand ==
  ASSUME PartiesStand, NEW u, NEW v
  PROVE  ConversationsOf(u, v) \subseteq ConversationsOf(u, v)'
BY DEF PartiesStand, ConversationsOf

LEMMA OthersOwed ==
  ASSUME PartiesStand, NEW y \in Calls, OwedOK(y), call'[y] = call[y]
  PROVE  OwedOK(y)'
<1>1. \A u, v : ConversationsOf(u, v) \subseteq ConversationsOf(u, v)'
  BY ConversationsStand
<1> QED
  BY <1>1 DEF OwedOK, ConversationsOf

LEMMA AnswerOwes ==
  ASSUME IndInv, NEW x \in Calls, WriteAnswer(x)
  PROVE  OwedOK(x)' /\ (\A y \in Calls : y # x => call'[y] = call[y])
<1>1. call[x] \in Call /\ call[x] # None /\ call \in [Calls -> Call \cup {None}]
  BY DEF WriteAnswer, At, IndInv, TypeOK
<1>2. \A y \in Calls : y # x => call'[y] = call[y]
  BY <1>1 DEF WriteAnswer, Start, Goto, Return
<1>3. CASE call'[x] = [call[x] EXCEPT
             !.at = "findConversations",
             !.owed = ConversationsOf(call[x].by, call[x].with)]
  <2>1. /\ call'[x].at = "findConversations"
        /\ call'[x].owed = ConversationsOf(call[x].by, call[x].with)
        /\ call'[x].by = call[x].by /\ call'[x].with = call[x].with
    BY <1>1, <1>3 DEF Call
  <2> QED
    BY <1>2, <2>1 DEF OwedOK, WriteAnswer, ConversationsOf
<1>4. CASE call'[x] = [call[x] EXCEPT !.at = "flagConnection"]
  BY <1>1, <1>2, <1>4 DEF OwedOK, Call
<1>5. CASE call'[x] = None
  BY <1>2, <1>5 DEF OwedOK
<1> QED
  BY <1>1, <1>3, <1>4, <1>5 DEF WriteAnswer, Start, Goto, Return

LEMMA FoundOwes ==
  ASSUME IndInv, NEW x \in Calls, FindConversations(x), OwedOK(x)
  PROVE  OwedOK(x)' /\ (\A y \in Calls : y # x => call'[y] = call[y])
<1>1. call[x] \in Call /\ call[x] # None /\ call \in [Calls -> Call \cup {None}]
  BY DEF FindConversations, At, IndInv, TypeOK
<1>2. PICK found : found = ConversationsOf(call[x].by, call[x].with)
  OBVIOUS
<1>3. \/ Return(x)
      \/ Start(x, [call[x] EXCEPT !.at = "flagConversations", !.found = found])
  BY <1>2 DEF FindConversations
<1>4. \A y \in Calls : y # x => call'[y] = call[y]
  BY <1>1, <1>3 DEF Start, Return
<1>5. CASE Return(x)
  BY <1>1, <1>4, <1>5 DEF OwedOK, Return
<1>6. CASE Start(x, [call[x] EXCEPT !.at = "flagConversations", !.found = found])
  <2>1. /\ call'[x].at = "flagConversations" /\ call'[x].found = found
        /\ call'[x].owed = call[x].owed
    BY <1>1, <1>6 DEF Start, Call
  <2>2. call[x].owed \subseteq found
    BY <1>1, <1>2 DEF OwedOK, FindConversations, At
  <2> QED
    BY <1>4, <2>1, <2>2 DEF OwedOK
<1> QED
  BY <1>3, <1>5, <1>6

LEMMA OwedNext == IndInv /\ OwedInv /\ [Next]_vars => OwedInv'
<1> SUFFICES ASSUME IndInv, OwedInv, [Next]_vars PROVE OwedInv'
  OBVIOUS
<1>1. CASE UNCHANGED vars
  BY <1>1 DEF vars, OwedInv, OwedOK, ConversationsOf
<1>2. CASE Next
  <2>1. PICK x \in Calls :
          PartiesStand /\ (TellingStep(x) \/ (NotLate(x) /\ UNCHANGED requests))
    BY <1>2, NextIsTelling
  <2>2. OwedOK(x)' /\ (\A y \in Calls : y # x => call'[y] = call[y])
    <3>1. CASE NotLate(x)
      BY <3>1 DEF NotLate, CallAlone, OwedOK, Late
    <3>2. CASE WriteAnswer(x)
      BY <3>2, AnswerOwes
    <3>3. CASE FindConversations(x)
      BY <3>3, FoundOwes DEF OwedInv
    <3>4. ASSUME NEW k \in Connections, InsertConnection(x, k)
          PROVE  OwedOK(x)' /\ (\A y \in Calls : y # x => call'[y] = call[y])
      <4>1. PICK d \in Call : /\ d = [call[x] EXCEPT !.at = "countRequest"]
                              /\ call' = [call EXCEPT ![x] = d]
                              /\ call'[x] = d
        BY <3>4, GoingOn DEF InsertConnection, At, Stages
      <4>2. d.at = "countRequest"
        BY <3>4, <4>1 DEF InsertConnection, At, IndInv, TypeOK, Call
      <4> QED
        BY <4>1, <4>2 DEF OwedOK, IndInv, TypeOK
    <3>5. CASE CountRequest(x)
      BY <3>5 DEF CountRequest, Return, OwedOK, IndInv, TypeOK
    <3> QED
      BY <2>1, <3>1, <3>2, <3>3, <3>4, <3>5 DEF TellingStep
  <2> QED
    BY <2>1, <2>2, OthersOwed DEF OwedInv
<1> QED
  BY <1>1, <1>2

LEMMA OwedIsShown ==
  ASSUME IndInv, OwedInv, NEW x \in Calls
  PROVE  \/ FlagConversations(x)
         \/ FindConversations(x) /\ ~At(x, "flagConversations")'
         => \A c \in call[x].owed : conversation'[c].shown
<1>1. ASSUME FlagConversations(x), NEW c \in call[x].owed
      PROVE  conversation'[c].shown
  <2>1. call[x] \in Call /\ call[x] # None /\ call[x].at = "flagConversations"
    BY <1>1 DEF FlagConversations, At, IndInv, TypeOK
  <2>2. c \in call[x].found /\ c \in Conversations
    BY <2>1 DEF OwedInv, OwedOK, Call
  <2>3. conversation[c] # None
    BY <2>1, <2>2 DEF IndInv, CallsInv, CallOK
  <2>4. conversation[c] \in ConversationRow
    BY <2>2, <2>3 DEF IndInv, TypeOK
  <2>5. conversation'[c] = [conversation[c] EXCEPT !.shown = TRUE]
    BY <1>1, <2>2 DEF FlagConversations
  <2> QED
    BY <2>4, <2>5 DEF ConversationRow
<1>2. ASSUME FindConversations(x), ~At(x, "flagConversations")'
      PROVE  call[x].owed = {}
  <2>1. /\ call[x] \in Call /\ call[x] # None /\ call[x].at = "findConversations"
        /\ call \in [Calls -> Call \cup {None}]
    BY <1>2 DEF FindConversations, At, IndInv, TypeOK
  <2>2. PICK found : found = ConversationsOf(call[x].by, call[x].with)
    OBVIOUS
  <2>3. IF found = {} THEN Return(x)
        ELSE Start(x, [call[x] EXCEPT !.at = "flagConversations", !.found = found])
    BY <1>2, <2>2 DEF FindConversations
  <2>4. found \subseteq Conversations
    BY <2>2 DEF ConversationsOf
  <2>5. CASE found # {}
    <3>1. PICK d \in Call :
            d = [call[x] EXCEPT !.at = "flagConversations", !.found = found]
      BY <2>1, <2>4 DEF Call, Stages
    <3>2. call'[x] = d /\ d.at = "flagConversations"
      BY <2>1, <2>3, <2>5, <3>1 DEF Start, Call
    <3> QED
      BY <1>2, <3>2, NoneAssumption DEF At
  <2>6. CASE found = {}
    BY <2>1, <2>2, <2>6 DEF OwedInv, OwedOK
  <2> QED
    BY <2>5, <2>6
<1> QED
  BY <1>1, <1>2

LEMMA OwedAlways == Spec => []OwedInv
<1>1. Init => OwedInv
  BY DEF Init, OwedInv, OwedOK
<1> QED
  BY <1>1, OwedNext, Invariance, PTL DEF Spec

(* When the answer to a request in a chat is done with the conversations,  *)
(* every conversation the two had when it was recorded shows the names.    *)
THEOREM AcceptanceReaches == Spec => AcceptanceReachesConversations
<1>1. IndInv /\ OwedInv /\ [Next]_vars =>
        [\A x \in Calls :
           \/ FlagConversations(x)
           \/ FindConversations(x) /\ ~At(x, "flagConversations")'
           => \A c \in call[x].owed : conversation'[c].shown]_vars
  BY OwedIsShown
<1> QED
  BY <1>1, OwedAlways, Invariance, PTL DEF Spec, AcceptanceReachesConversations


----------------------------------------------------------------------------
(* What is counted                                                         *)

(* The connections of a post, and the calls about to count one of them.    *)
ConnectionsOf(p) == {k \in Connections : /\ connection[k] # None
                                         /\ connection[k].post = p}
Counting(p) == {x \in Calls : At(x, "countRequest") /\ call[x].post = p}

(* Every request counted, or about to be, has a connection of its own.     *)
CountInv ==
  \A p \in Posts :
    requests[p] + Cardinality(Counting(p)) <= Cardinality(ConnectionsOf(p))

LEMMA CountsFinite ==
  ASSUME NEW p
  PROVE  /\ IsFiniteSet(Counting(p)) /\ IsFiniteSet(Counting(p)')
         /\ IsFiniteSet(ConnectionsOf(p)) /\ IsFiniteSet(ConnectionsOf(p)')
         /\ Cardinality(Counting(p)) \in Nat /\ Cardinality(Counting(p)') \in Nat
         /\ Cardinality(ConnectionsOf(p)) \in Nat
         /\ Cardinality(ConnectionsOf(p)') \in Nat
<1>1. /\ Counting(p) \in SUBSET Calls /\ Counting(p)' \in SUBSET Calls
      /\ ConnectionsOf(p) \in SUBSET Connections
      /\ ConnectionsOf(p)' \in SUBSET Connections
  BY DEF Counting, ConnectionsOf
<1>2. IsFiniteSet(Calls) /\ IsFiniteSet(Connections)
  BY ConstantsAssumption
<1>3. /\ IsFiniteSet(Counting(p)) /\ IsFiniteSet(Counting(p)')
      /\ IsFiniteSet(ConnectionsOf(p)) /\ IsFiniteSet(ConnectionsOf(p)')
  BY <1>1, <1>2, FS_Subset
<1> QED
  BY <1>3, FS_CardinalityType

(* Fewer calls about to count, and no fewer connections: the bound stands. *)
LEMMA QuietCount ==
  ASSUME PartiesStand, NEW p, Counting(p)' \subseteq Counting(p)
  PROVE  /\ Cardinality(Counting(p)') <= Cardinality(Counting(p))
         /\ Cardinality(ConnectionsOf(p)) <= Cardinality(ConnectionsOf(p)')
<1>1. ConnectionsOf(p) \subseteq ConnectionsOf(p)'
  BY DEF PartiesStand, ConnectionsOf
<1> QED
  BY <1>1, CountsFinite, FS_Subset

(* A step that does not bring its call to the counting leaves no more of   *)
(* them about to.                                                          *)
LEMMA NoMoreCounting ==
  ASSUME NEW x \in Calls, \A y \in Calls : y # x => call'[y] = call[y],
         call'[x] # None => call'[x].at # "countRequest", NEW p
  PROVE  Counting(p)' \subseteq Counting(p)
BY DEF Counting, At

LEMMA InsertCounts ==
  ASSUME IndInv, CountInv, NEW x \in Calls, NEW k \in Connections,
         InsertConnection(x, k)
  PROVE  CountInv'
<1> SUFFICES ASSUME NEW p \in Posts
             PROVE  requests'[p] + Cardinality(Counting(p)')
                      <= Cardinality(ConnectionsOf(p)')
  BY DEF CountInv
<1>1. /\ call[x] \in Call /\ call[x] # None /\ call[x].at = "insertConnection"
      /\ call \in [Calls -> Call \cup {None}]
      /\ connection \in [Connections -> ConnectionRow \cup {None}]
      /\ requests[p] \in Nat
  BY DEF InsertConnection, At, IndInv, TypeOK
<1>2. PICK d \in Call : /\ d = [call[x] EXCEPT !.at = "countRequest"]
                       /\ call' = [call EXCEPT ![x] = d]
                       /\ call'[x] = d
  BY <1>1, GoingOn DEF InsertConnection, Stages
<1>3. d.at = "countRequest" /\ d.post = call[x].post
  BY <1>1, <1>2 DEF Call
<1>4. \A y \in Calls : y # x => call'[y] = call[y]
  BY <1>1, <1>2
<1>5. /\ connection[k] = None
      /\ connection'[k].post = call[x].post
      /\ \A j \in Connections : j # k => connection'[j] = connection[j]
  BY <1>1 DEF InsertConnection
<1>6. connection'[k] # None
  <2>1. call[x].post \in Posts
    BY <1>1 DEF IndInv, CallsInv, CallOK, OnPost
  <2>2. connection'[k] = [post |-> call[x].post, sender |-> call[x].by,
                          receiver |-> call[x].with, status |-> "pending",
                          shown |-> FALSE]
    BY <1>1 DEF InsertConnection
  <2>3. connection'[k] \in ConnectionRow
    BY <1>1, <2>1, <2>2 DEF ConnectionRow, Call, ConnectionStatus
  <2> QED
    BY <2>3, NoneAssumption
<1>7. requests' = requests
  BY DEF InsertConnection, counters
<1>8. requests[p] + Cardinality(Counting(p)) <= Cardinality(ConnectionsOf(p))
  BY DEF CountInv
<1>9. CASE call[x].post = p
  <2>1. Counting(p)' = Counting(p) \cup {x} /\ x \notin Counting(p)
    BY <1>1, <1>2, <1>3, <1>4, <1>9, NoneAssumption DEF Counting, At
  <2>2. ConnectionsOf(p)' = ConnectionsOf(p) \cup {k} /\ k \notin ConnectionsOf(p)
    BY <1>5, <1>6, <1>9 DEF ConnectionsOf
  <2>3. Cardinality(Counting(p)') = Cardinality(Counting(p)) + 1
    BY <2>1, CountsFinite, FS_AddElement
  <2>4. Cardinality(ConnectionsOf(p)') = Cardinality(ConnectionsOf(p)) + 1
    BY <2>2, CountsFinite, FS_AddElement
  <2> QED
    BY <1>1, <1>7, <1>8, <2>3, <2>4, CountsFinite
<1>10. CASE call[x].post # p
  <2>1. Counting(p)' \subseteq Counting(p)
    BY <1>2, <1>3, <1>4, <1>10 DEF Counting, At
  <2> QED
    BY <1>1, <1>7, <1>8, <2>1, QuietCount, InsertKeepsParties, CountsFinite
<1> QED
  BY <1>9, <1>10

LEMMA CountCounts ==
  ASSUME IndInv, CountInv, NEW x \in Calls, CountRequest(x)
  PROVE  CountInv'
<1> SUFFICES ASSUME NEW p \in Posts
             PROVE  requests'[p] + Cardinality(Counting(p)')
                      <= Cardinality(ConnectionsOf(p)')
  BY DEF CountInv
<1>1. /\ call[x] \in Call /\ call[x] # None /\ call[x].at = "countRequest"
      /\ call \in [Calls -> Call \cup {None}]
      /\ call[x].post \in Posts
      /\ requests \in [Posts -> Nat]
  BY DEF CountRequest, At, IndInv, TypeOK, CallsInv, CallOK, OnPost
<1>2. /\ requests' = [requests EXCEPT ![call[x].post] = @ + 1]
      /\ call'[x] = None /\ \A y \in Calls : y # x => call'[y] = call[y]
  BY <1>1 DEF CountRequest, Return
<1>3. requests[p] + Cardinality(Counting(p)) <= Cardinality(ConnectionsOf(p))
  BY DEF CountInv
<1>4. ConnectionsOf(p)' = ConnectionsOf(p)
  BY DEF CountRequest, ConnectionsOf
<1>5. CASE call[x].post = p
  <2>1. Counting(p)' = Counting(p) \ {x} /\ x \in Counting(p)
    BY <1>1, <1>2, <1>5 DEF Counting, At
  <2>2. Cardinality(Counting(p)') = Cardinality(Counting(p)) - 1
    BY <2>1, CountsFinite, FS_RemoveElement
  <2>3. requests'[p] = requests[p] + 1
    BY <1>1, <1>2, <1>5
  <2> QED
    BY <1>1, <1>3, <1>4, <2>2, <2>3, CountsFinite
<1>6. CASE call[x].post # p
  <2>1. Counting(p)' = Counting(p)
    BY <1>1, <1>2, <1>6 DEF Counting, At
  <2>2. requests'[p] = requests[p]
    BY <1>1, <1>2, <1>6
  <2> QED
    BY <1>3, <1>4, <2>1, <2>2
<1> QED
  BY <1>5, <1>6

(* A step that neither counts nor inserts a connection.                    *)
LEMMA OtherCounts ==
  ASSUME IndInv, CountInv, PartiesStand, UNCHANGED requests, NEW x \in Calls,
         \A y \in Calls : y # x => call'[y] = call[y],
         call'[x] # None => call'[x].at # "countRequest"
  PROVE  CountInv'
<1> SUFFICES ASSUME NEW p \in Posts
             PROVE  requests'[p] + Cardinality(Counting(p)')
                      <= Cardinality(ConnectionsOf(p)')
  BY DEF CountInv
<1>1. Counting(p)' \subseteq Counting(p)
  BY NoMoreCounting
<1>2. /\ Cardinality(Counting(p)') <= Cardinality(Counting(p))
      /\ Cardinality(ConnectionsOf(p)) <= Cardinality(ConnectionsOf(p)')
  BY <1>1, QuietCount
<1>3. requests[p] + Cardinality(Counting(p)) <= Cardinality(ConnectionsOf(p))
  BY DEF CountInv
<1>4. requests[p] \in Nat
  BY DEF IndInv, TypeOK
<1> QED
  BY <1>2, <1>3, <1>4, CountsFinite

LEMMA AnswerDoesNotCount ==
  ASSUME IndInv, NEW x \in Calls, WriteAnswer(x) \/ FindConversations(x)
  PROVE  /\ \A y \in Calls : y # x => call'[y] = call[y]
         /\ call'[x] # None => call'[x].at # "countRequest"
         /\ UNCHANGED requests
<1>1. call[x] \in Call /\ call \in [Calls -> Call \cup {None}]
  BY DEF WriteAnswer, FindConversations, At, IndInv, TypeOK
<1>2. PICK d : call' = [call EXCEPT ![x] = d] /\ (d # None => d.at # "countRequest")
  <2>1. PICK own : own = ConversationsOf(call[x].by, call[x].with)
    OBVIOUS
  <2>2. \/ Return(x) \/ Goto(x, "flagConnection")
        \/ Start(x, [call[x] EXCEPT !.at = "findConversations", !.owed = own])
        \/ Start(x, [call[x] EXCEPT !.at = "flagConversations", !.found = own])
    BY <2>1 DEF WriteAnswer, FindConversations
  <2>3. CASE Return(x)
    BY <2>3 DEF Return
  <2>4. CASE Goto(x, "flagConnection")
    <3>1. [call[x] EXCEPT !.at = "flagConnection"].at = "flagConnection"
      BY <1>1 DEF Call
    <3> QED
      BY <2>4, <3>1 DEF Goto
  <2>5. CASE Start(x, [call[x] EXCEPT !.at = "findConversations", !.owed = own])
    <3>1. [call[x] EXCEPT !.at = "findConversations", !.owed = own].at
            = "findConversations"
      BY <1>1 DEF Call
    <3> QED
      BY <2>5, <3>1 DEF Start
  <2>6. CASE Start(x, [call[x] EXCEPT !.at = "flagConversations", !.found = own])
    <3>1. [call[x] EXCEPT !.at = "flagConversations", !.found = own].at
            = "flagConversations"
      BY <1>1 DEF Call
    <3> QED
      BY <2>6, <3>1 DEF Start
  <2> QED
    BY <2>2, <2>3, <2>4, <2>5, <2>6
<1> QED
  BY <1>1, <1>2 DEF WriteAnswer, FindConversations, counters

LEMMA CountNext == IndInv /\ CountInv /\ [Next]_vars => CountInv'
<1> SUFFICES ASSUME IndInv, CountInv, [Next]_vars PROVE CountInv'
  OBVIOUS
<1>1. CASE UNCHANGED vars
  BY <1>1 DEF vars, CountInv, Counting, At, ConnectionsOf
<1>2. CASE Next
  <2>1. PICK x \in Calls :
          PartiesStand /\ (TellingStep(x) \/ (NotLate(x) /\ UNCHANGED requests))
    BY <1>2, NextIsTelling
  <2>2. CASE NotLate(x) /\ UNCHANGED requests
    BY <2>1, <2>2, OtherCounts DEF NotLate, CallAlone, Late
  <2>3. CASE WriteAnswer(x) \/ FindConversations(x)
    BY <2>1, <2>3, AnswerDoesNotCount, OtherCounts
  <2>4. CASE \E k \in Connections : InsertConnection(x, k)
    BY <2>4, InsertCounts
  <2>5. CASE CountRequest(x)
    BY <2>5, CountCounts
  <2> QED
    BY <2>1, <2>2, <2>3, <2>4, <2>5 DEF TellingStep
<1> QED
  BY <1>1, <1>2

LEMMA CountInit == Init => CountInv
<1> SUFFICES ASSUME Init, NEW p \in Posts
             PROVE  requests[p] + Cardinality(Counting(p))
                      <= Cardinality(ConnectionsOf(p))
  BY DEF CountInv
<1>1. Counting(p) = {} /\ ConnectionsOf(p) = {} /\ requests[p] = 0
  BY DEF Init, Counting, At, ConnectionsOf
<1> QED
  BY <1>1, FS_EmptySet

(* A request refused, or sent twice at once, is never counted: no post     *)
(* claims more requests than it has connections.                           *)
THEOREM RequestsCounted == Spec => []CountNeverLeads
<1>1. IndInv /\ CountInv => CountNeverLeads
  <2> SUFFICES ASSUME IndInv, CountInv, NEW p \in Posts
               PROVE  requests[p] <= Cardinality(ConnectionsOf(p))
    BY DEF CountNeverLeads, ConnectionsOf
  <2>1. requests[p] + Cardinality(Counting(p)) <= Cardinality(ConnectionsOf(p))
    BY DEF CountInv
  <2>2. requests[p] \in Nat
    BY DEF IndInv, TypeOK
  <2> QED
    BY <2>1, <2>2, CountsFinite
<1> QED
  BY <1>1, CountInit, CountNext, Invariance, PTL DEF Spec
=============================================================================
