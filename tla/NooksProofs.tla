---------------------------- MODULE NooksProofs -----------------------------
(***************************************************************************)
(* The counters of nooks and of their messages, for any members, nooks,    *)
(* threads and handlers.                                                   *)
(*                                                                         *)
(* While handlers keep apart, a counter of a nook or of a message is right *)
(* unless the one handler that is about it is between its row and its      *)
(* count, and that handler knows by how much.                              *)
(***************************************************************************)
EXTENDS Nooks, FiniteSetTheorems, TLAPS

NookTypeInv ==
  /\ nooks \in [NookIds -> NookRow \cup {None}]
  /\ memberships \subseteq NookIds \X Members
  /\ messages \in [MessageIds -> MessageRow \cup {None}]
  /\ hearts \subseteq MessageIds \X Members
  /\ ncalls \in [Calls -> NookCall \cup {None}]
  /\ nooksApart \in BOOLEAN

(* The foreign keys; a reply is in the nook of what it answers.            *)
NookRefsInv ==
  /\ \A p \in memberships : nooks[p[1]] # None
  /\ \A m \in MessageIds : messages[m] # None =>
       /\ messages[m].nook # None => nooks[messages[m].nook] # None
       /\ messages[m].parent # None =>
            /\ messages[messages[m].parent] # None
            /\ messages[messages[m].parent].nook = messages[m].nook
  /\ \A h \in hearts : messages[h[1]] # None

Joining  == {"autoJoin", "findMember", "insertMember", "countJoin", "leave", "countLeave"}
Writing  == {"insertMessage", "countMessage", "collect", "softDelete", "readCount", "uncount"}
Liking   == {"readHearts", "writeHeart", "countHeart"}
Removing == {"deleteMessages", "deleteNook"}

NookCallOK(k) ==
  /\ k.at \in Joining => k.about = "members"
  /\ k.at \in Writing => k.about = "messages"
  /\ k.at \in Liking => k.about = "hearts"
  /\ k.at \in Removing => k.about = "nook"
  /\ k.about = "hearts" \/ k.at = "collect" => k.on \in MessageIds

(* Those who count, and what is counted.                                   *)
Guests(n)   == {p \in memberships : p[1] = n /\ p[2] # nooks[n].creator}
HeartsOf(m) == {h \in hearts : h[1] = m}

(* What a handler may rely on while handlers keep apart.                   *)
JoiningHolds(k) ==
  /\ k.at \in Joining \ {"autoJoin"} => k.count = nooks[k.nook].members_count
  /\ k.at = "autoJoin" => k.user = nooks[k.nook].creator
  /\ k.at = "leave" => k.user # nooks[k.nook].creator
  /\ k.at = "countJoin" => k.count + 1 >= Cardinality(Guests(k.nook))
  /\ k.at = "countLeave" => k.count >= Cardinality(Guests(k.nook)) + 1

WritingHolds(k) ==
  /\ k.at \in {"insertMessage", "countMessage", "uncount"} =>
       k.count = nooks[k.nook].messages_count
  /\ k.at = "countMessage" => Cardinality(LiveMessages(k.nook)) = k.count + 1
  /\ k.at = "collect" => k.on \in LiveMessages(k.nook)
  /\ k.at = "softDelete" => k.holds \subseteq LiveMessages(k.nook)
  /\ k.at \in {"readCount", "uncount"} =>
       nooks[k.nook].messages_count = Cardinality(LiveMessages(k.nook)) + Cardinality(k.holds)

LikingHolds(k) ==
  /\ messages[k.on] # None
  /\ messages[k.on].nook = k.nook
  /\ k.at \in {"readHearts", "writeHeart"} => (k.liked => <<k.on, k.user>> \in hearts)
  /\ k.at \in {"writeHeart", "countHeart"} => k.count = messages[k.on].count
  /\ k.at = "countHeart" =>
       IF k.liked THEN k.count = Cardinality(HeartsOf(k.on)) + 1
       ELSE k.count + 1 = Cardinality(HeartsOf(k.on))

RemovingHolds(k) ==
  k.at = "deleteNook" => \A m \in MessageIds : messages[m] # None => messages[m].nook # k.nook

NookCallHolds(k) ==
  /\ nooks[k.nook] # None
  /\ k.about = "members" => JoiningHolds(k)
  /\ k.about = "messages" => WritingHolds(k)
  /\ k.about = "hearts" => LikingHolds(k)
  /\ k.about = "nook" => RemovingHolds(k)

(* A handler has yet to count.                                             *)
InNook(n, stages) ==
  \E c \in Calls : ncalls[c] # None /\ ncalls[c].nook = n /\ ncalls[c].at \in stages
OnMessage(m) ==
  \E c \in Calls : ncalls[c] # None /\ ncalls[c].on = m /\ ncalls[c].at = "countHeart"

MessagesRight(n) ==
  \/ nooks[n].messages_count = Cardinality(LiveMessages(n))
  \/ InNook(n, {"countMessage", "readCount", "uncount", "deleteNook"})
MembersRight(n) ==
  \/ nooks[n].members_count >= Cardinality(Guests(n))
  \/ InNook(n, {"countJoin"})
HeartsRight(m) ==
  /\ messages[m].nook # None
  /\ (messages[m].count = Cardinality(HeartsOf(m)) \/ OnMessage(m))

NooksApartInv ==
  /\ \A c, d \in Calls : c # d /\ ncalls[c] # None /\ ncalls[d] # None => ~Clash(ncalls[c], ncalls[d])
  /\ \A c \in Calls : ncalls[c] # None => NookCallHolds(ncalls[c])
  /\ \A n \in NookIds : nooks[n] # None => MessagesRight(n) /\ MembersRight(n)
  /\ \A m \in MessageIds : messages[m] # None => HeartsRight(m)

NooksInv ==
  /\ NookTypeInv
  /\ NookRefsInv
  /\ \A c \in Calls : ncalls[c] # None => NookCallOK(ncalls[c])
  /\ nooksApart => NooksApartInv

(* What a step leaves as it is.                                            *)
MembersKept(n) ==
  /\ nooks'[n].members_count = nooks[n].members_count
  /\ Guests(n)' = Guests(n)
MessagesKept(n) ==
  /\ nooks'[n].messages_count = nooks[n].messages_count
  /\ LiveMessages(n)' = LiveMessages(n)
HeartsKept(m) ==
  /\ messages'[m] # None
  /\ messages'[m].nook = messages[m].nook
  /\ messages'[m].count = messages[m].count
  /\ HeartsOf(m)' = HeartsOf(m)

(* What a step of handler k leaves as it is.                               *)
NooksKept(k) ==
  /\ \A n \in NookIds : n # k.nook => (nooks'[n] # None <=> nooks[n] # None)
  /\ k.about # "nook" /\ nooks[k.nook] # None => nooks'[k.nook] # None
  /\ \A n \in NookIds : nooks[n] # None /\ nooks'[n] # None => nooks'[n].creator = nooks[n].creator
  /\ \A n \in NookIds :
       nooks[n] # None /\ (n # k.nook \/ k.about \notin {"members", "nook"}) => MembersKept(n)
  /\ \A n \in NookIds :
       nooks[n] # None /\ (n # k.nook \/ k.about \notin {"messages", "nook"}) => MessagesKept(n)
  /\ \A m \in MessageIds :
       /\ messages[m] # None
       /\ k.about = "hearts" => m # k.on
       /\ k.about = "nook" => messages[m].nook # k.nook
       => HeartsKept(m)
  /\ \A m \in MessageIds : messages[m] = None /\ messages'[m] # None =>
       /\ k.about # "nook"
       /\ messages'[m].nook = k.nook
       /\ messages'[m].count = 0
       /\ HeartsOf(m)' = {}
  /\ \A m \in MessageIds : messages[m] # None /\ messages'[m] # None =>
       messages'[m].nook = messages[m].nook
  /\ k.about = "nook" =>
       \A m \in MessageIds : messages[m] # None /\ messages[m].nook = k.nook => messages'[m] = None

LEMMA NookSets ==
  ASSUME NookTypeInv, NEW n, NEW m
  PROVE  /\ LiveMessages(n) \subseteq MessageIds /\ IsFiniteSet(LiveMessages(n))
         /\ Cardinality(LiveMessages(n)) \in Nat
         /\ IsFiniteSet(Guests(n)) /\ Cardinality(Guests(n)) \in Nat
         /\ IsFiniteSet(HeartsOf(m)) /\ Cardinality(HeartsOf(m)) \in Nat
<1>1. LiveMessages(n) \subseteq MessageIds
  BY DEF NookTypeInv, LiveMessages, RowIds
<1>2. IsFiniteSet(NookIds \X Members) /\ IsFiniteSet(MessageIds \X Members)
  BY FS_Product, NooksAssumption
<1>3. Guests(n) \subseteq NookIds \X Members /\ HeartsOf(m) \subseteq MessageIds \X Members
  BY DEF NookTypeInv, Guests, HeartsOf
<1> QED
  BY <1>1, <1>2, <1>3, FS_Subset, FS_CardinalityType, NooksAssumption

(* A handler goes on relying on what nobody has touched.                   *)
LEMMA StageKept ==
  ASSUME NEW l \in NookCall, NookCallHolds(l), nooks'[l.nook] # None,
         nooks'[l.nook].creator = nooks[l.nook].creator,
         l.about = "members" => MembersKept(l.nook),
         l.about = "messages" => MessagesKept(l.nook),
         l.about = "hearts" => HeartsKept(l.on),
         l.about = "nook" => \A m \in MessageIds : messages'[m] # None =>
           \/ messages[m] # None /\ messages'[m].nook = messages[m].nook
           \/ messages'[m].nook # l.nook
  PROVE  NookCallHolds(l)'
<1>1. l.about = "members" => JoiningHolds(l)'
  BY DEF NookCallHolds, JoiningHolds, MembersKept
<1>2. l.about = "messages" => WritingHolds(l)'
  BY DEF NookCallHolds, WritingHolds, MessagesKept
<1>3. l.about = "hearts" => LikingHolds(l)'
  <2> SUFFICES ASSUME l.about = "hearts" PROVE LikingHolds(l)'
    OBVIOUS
  <2>1. HeartsKept(l.on) /\ LikingHolds(l)
    BY DEF NookCallHolds
  <2>2. <<l.on, l.user>> \in hearts' <=> <<l.on, l.user>> \in hearts
    <3>1. \A h : h[1] = l.on => (h \in hearts' <=> h \in HeartsOf(l.on)')
      BY DEF HeartsOf
    <3>2. \A h : h[1] = l.on => (h \in hearts <=> h \in HeartsOf(l.on))
      BY DEF HeartsOf
    <3> QED
      BY <2>1, <3>1, <3>2 DEF HeartsKept
  <2> QED
    BY <2>1, <2>2 DEF LikingHolds, HeartsKept
<1>4. l.about = "nook" => RemovingHolds(l)'
  BY DEF NookCallHolds, RemovingHolds
<1> QED
  BY <1>1, <1>2, <1>3, <1>4 DEF NookCallHolds

LEMMA NookGoesOn ==
  ASSUME NooksInv, NEW c \in Calls, NEW k \in NookCall, NEW b \in NookCall \cup {None},
         ncalls' = [ncalls EXCEPT ![c] = b],
         b # None => NookCallOK(b) /\ b.about = k.about /\ b.nook = k.nook /\ b.on = k.on,
         ncalls[c] # None =>
           ncalls[c].about = k.about /\ ncalls[c].nook = k.nook /\ ncalls[c].on = k.on,
         nooks' \in [NookIds -> NookRow \cup {None}],
         memberships' \subseteq NookIds \X Members,
         messages' \in [MessageIds -> MessageRow \cup {None}],
         hearts' \subseteq MessageIds \X Members,
         nooksApart' \in BOOLEAN,
         NookRefsInv',
         nooksApart' => nooksApart,
         nooksApart' => NooksKept(k),
         nooksApart' => \A d \in Calls \ {c} : ncalls[d] # None => ~Clash(ncalls[d], k),
         nooksApart' /\ k.about = "hearts" => messages[k.on] # None /\ messages[k.on].nook = k.nook,
         nooksApart' /\ b # None => NookCallHolds(b)',
         nooksApart' /\ nooks'[k.nook] # None =>
           (k.about \in {"messages", "nook"} \/ nooks[k.nook] = None => MessagesRight(k.nook)'),
         nooksApart' /\ nooks'[k.nook] # None =>
           (k.about \in {"members", "nook"} \/ nooks[k.nook] = None => MembersRight(k.nook)'),
         nooksApart' /\ k.about = "hearts" => HeartsRight(k.on)'
  PROVE  NooksInv'
<1>1. /\ ncalls \in [Calls -> NookCall \cup {None}] /\ ncalls' \in [Calls -> NookCall \cup {None}]
      /\ ncalls'[c] = b /\ \A d \in Calls \ {c} : ncalls'[d] = ncalls[d]
      /\ k.nook \in NookIds
  BY DEF NooksInv, NookTypeInv, NookCall
<1>2. NookTypeInv'
  BY <1>1 DEF NookTypeInv
<1>3. ASSUME NEW d \in Calls, ncalls'[d] # None PROVE NookCallOK(ncalls'[d])
  BY <1>1, <1>3 DEF NooksInv
<1>4. ASSUME nooksApart' PROVE NooksApartInv'
  <2>0. nooksApart /\ NooksApartInv /\ NooksKept(k) /\ NookTypeInv
    BY <1>4 DEF NooksInv
  <2>1. ASSUME NEW d \in Calls, NEW e \in Calls, d # e, ncalls'[d] # None, ncalls'[e] # None
        PROVE  ~Clash(ncalls'[d], ncalls'[e])
    <3>1. CASE d # c /\ e # c
      BY <1>1, <2>0, <2>1, <3>1 DEF NooksApartInv
    <3>2. CASE d = c
      <4>1. ~Clash(ncalls[e], k)
        BY <1>1, <1>4, <2>1, <3>2
      <4> QED
        BY <1>1, <2>1, <3>2, <4>1 DEF Clash
    <3>3. CASE e = c
      <4>1. ~Clash(ncalls[d], k)
        BY <1>1, <1>4, <2>1, <3>3
      <4> QED
        BY <1>1, <2>1, <3>3, <4>1 DEF Clash
    <3> QED
      BY <3>1, <3>2, <3>3
  <2>2. ASSUME NEW d \in Calls, ncalls'[d] # None
        PROVE  NookCallHolds(ncalls[d])'
    <3>1. CASE d = c
      <4>1. NookCallHolds(b)' /\ ncalls'[d] = b
        BY <1>1, <1>4, <2>2, <3>1
      <4> QED
        BY <4>1 DEF NookCallHolds, JoiningHolds, WritingHolds, LikingHolds, RemovingHolds
    <3>2. CASE d # c
      <4>1. PICK l \in NookCall : l = ncalls[d] /\ ncalls'[d] = l
        BY <1>1, <2>2, <3>2
      <4>2. NookCallHolds(l) /\ ~Clash(l, k) /\ NookCallOK(l) /\ l.nook \in NookIds
        BY <1>1, <1>4, <2>0, <2>2, <3>2, <4>1 DEF NooksApartInv, NooksInv, NookCall
      <4>3. l.nook = k.nook => l.about # "nook" /\ k.about # "nook" /\ (l.about = k.about => k.about = "hearts" /\ l.on # k.on)
        BY <4>2 DEF Clash
      <4>4. nooks[l.nook] # None /\ nooks'[l.nook] # None /\ nooks'[l.nook].creator = nooks[l.nook].creator
        BY <2>0, <4>2, <4>3 DEF NookCallHolds, NooksKept
      <4>5. l.about = "members" => MembersKept(l.nook)
        BY <2>0, <4>2, <4>3, <4>4 DEF NooksKept
      <4>6. l.about = "messages" => MessagesKept(l.nook)
        BY <2>0, <4>2, <4>3, <4>4 DEF NooksKept
      <4>7. l.about = "hearts" => HeartsKept(l.on)
        <5> SUFFICES ASSUME l.about = "hearts" PROVE HeartsKept(l.on)
          OBVIOUS
        <5>1. l.on \in MessageIds /\ messages[l.on] # None /\ messages[l.on].nook = l.nook
          BY <4>2 DEF NookCallOK, NookCallHolds, LikingHolds
        <5>2. k.about = "hearts" => l.on # k.on
          BY <1>4, <4>3, <5>1
        <5>3. k.about = "nook" => messages[l.on].nook # k.nook
          BY <4>3, <5>1
        <5> QED
          BY <2>0, <5>1, <5>2, <5>3 DEF NooksKept
      <4>8. l.about = "nook" => \A m \in MessageIds : messages'[m] # None =>
               \/ messages[m] # None /\ messages'[m].nook = messages[m].nook
               \/ messages'[m].nook # l.nook
        BY <2>0, <4>3 DEF NooksKept
      <4>9. NookCallHolds(l)'
        BY <4>2, <4>4, <4>5, <4>6, <4>7, <4>8, StageKept
      <4> QED
        BY <4>1, <4>9 DEF NookCallHolds, JoiningHolds, WritingHolds, LikingHolds, RemovingHolds
    <3> QED
      BY <3>1, <3>2
  <2>3. ASSUME NEW n \in NookIds, NEW s \in {"countMessage", "readCount", "uncount", "deleteNook", "countJoin"},
               NEW d \in Calls, ncalls[d] # None, ncalls[d].nook = n, ncalls[d].at = s,
               n = k.nook => /\ s = "deleteNook" => k.about # "nook"
                             /\ s = "countJoin" => k.about # "members"
                             /\ s \notin {"deleteNook", "countJoin"} => k.about # "messages"
        PROVE  ncalls'[d] # None /\ ncalls'[d].nook = n /\ ncalls'[d].at = s
    <3>1. NookCallOK(ncalls[d])
      BY <2>3 DEF NooksInv
    <3>2. d # c
      BY <2>3, <3>1 DEF NookCallOK, Joining, Writing, Liking, Removing
    <3> QED
      BY <1>1, <2>3, <3>2
  <2>4. ASSUME NEW n \in NookIds, nooks'[n] # None PROVE MessagesRight(n)'
    <3>1. CASE n = k.nook /\ (k.about \in {"messages", "nook"} \/ nooks[n] = None)
      <4>1. MessagesRight(k.nook)'
        BY <1>4, <2>4, <3>1
      <4> QED
        BY <3>1, <4>1
    <3>2. CASE ~(n = k.nook /\ (k.about \in {"messages", "nook"} \/ nooks[n] = None))
      <4>1. nooks[n] # None
        BY <2>0, <2>4, <3>2 DEF NooksKept
      <4>2. MessagesRight(n) /\ MessagesKept(n)
        BY <2>0, <3>2, <4>1 DEF NooksKept, NooksApartInv
      <4>3. InNook(n, {"countMessage", "readCount", "uncount", "deleteNook"})
              => InNook(n, {"countMessage", "readCount", "uncount", "deleteNook"})'
        BY <2>3, <3>2, <4>1 DEF InNook
      <4> QED
        BY <4>2, <4>3 DEF MessagesRight, MessagesKept
    <3> QED
      BY <3>1, <3>2
  <2>5. ASSUME NEW n \in NookIds, nooks'[n] # None PROVE MembersRight(n)'
    <3>1. CASE n = k.nook /\ (k.about \in {"members", "nook"} \/ nooks[n] = None)
      <4>1. MembersRight(k.nook)'
        BY <1>4, <2>5, <3>1
      <4> QED
        BY <3>1, <4>1
    <3>2. CASE ~(n = k.nook /\ (k.about \in {"members", "nook"} \/ nooks[n] = None))
      <4>1. nooks[n] # None
        BY <2>0, <2>5, <3>2 DEF NooksKept
      <4>2. MembersRight(n) /\ MembersKept(n)
        BY <2>0, <3>2, <4>1 DEF NooksKept, NooksApartInv
      <4>3. InNook(n, {"countJoin"}) => InNook(n, {"countJoin"})'
        BY <2>3, <3>2, <4>1 DEF InNook
      <4> QED
        BY <4>2, <4>3 DEF MembersRight, MembersKept
    <3> QED
      BY <3>1, <3>2
  <2>6. ASSUME NEW m \in MessageIds, messages'[m] # None PROVE HeartsRight(m)'
    <3>1. CASE k.about = "hearts" /\ m = k.on
      BY <1>4, <3>1
    <3>2. CASE messages[m] = None
      <4>1. messages'[m].nook = k.nook /\ messages'[m].count = 0 /\ HeartsOf(m)' = {}
        BY <2>0, <2>6, <3>2 DEF NooksKept
      <4> QED
        BY <1>1, <4>1, FS_EmptySet, NooksAssumption DEF HeartsRight
    <3>3. CASE messages[m] # None /\ ~(k.about = "hearts" /\ m = k.on)
      <4>1. k.about = "nook" => messages[m].nook # k.nook
        BY <2>0, <2>6, <3>3 DEF NooksKept
      <4>2. HeartsKept(m) /\ HeartsRight(m)
        BY <2>0, <3>3, <4>1 DEF NooksKept, NooksApartInv
      <4>3. OnMessage(m) => OnMessage(m)'
        <5> SUFFICES ASSUME NEW d \in Calls, ncalls[d] # None, ncalls[d].on = m,
                            ncalls[d].at = "countHeart"
                     PROVE  OnMessage(m)'
          BY DEF OnMessage
        <5>1. ncalls[d].about = "hearts"
          BY DEF NooksInv, NookCallOK, Liking
        <5>2. d # c
          BY <3>3, <5>1
        <5> QED
          BY <1>1, <5>2 DEF OnMessage
      <4> QED
        BY <4>2, <4>3 DEF HeartsRight, HeartsKept
    <3> QED
      BY <3>1, <3>2, <3>3
  <2> QED
    BY <2>1, <2>2, <2>4, <2>5, <2>6 DEF NooksApartInv
<1> QED
  BY <1>2, <1>3, <1>4 DEF NooksInv

(* Steps that leave counters and rows alone, and begin handlers at most.   *)
LEMMA NooksStay ==
  ASSUME NooksInv, UNCHANGED <<memberships, messages, hearts>>,
         nooks' \in [NookIds -> NookRow \cup {None}],
         \A n \in NookIds : nooks'[n] # None <=> nooks[n] # None,
         \A n \in NookIds : nooks[n] # None =>
           /\ nooks'[n].creator = nooks[n].creator
           /\ nooks'[n].members_count = nooks[n].members_count
           /\ nooks'[n].messages_count = nooks[n].messages_count,
         ncalls' \in [Calls -> NookCall \cup {None}],
         nooksApart' \in BOOLEAN, nooksApart' => nooksApart,
         \A d \in Calls : ncalls'[d] # None =>
           ncalls'[d] = ncalls[d] \/ (NookCallOK(ncalls'[d]) /\ (nooksApart' => NookCallHolds(ncalls'[d]))),
         \A d \in Calls : ncalls[d] # None => ncalls'[d] = ncalls[d],
         nooksApart' => \A d, e \in Calls :
           d # e /\ ncalls'[d] # None /\ ncalls'[e] # None => ~Clash(ncalls'[d], ncalls'[e])
  PROVE  NooksInv'
<1>1. NookTypeInv' /\ NookTypeInv
  BY DEF NooksInv, NookTypeInv
<1>2. NookRefsInv'
  <2>1. NookRefsInv
    BY DEF NooksInv
  <2>2. \A p \in memberships : p[1] \in NookIds
    BY <1>1 DEF NookTypeInv
  <2>3. \A m \in MessageIds : messages[m] # None => messages[m].nook \in NookIds \cup {None}
    BY <1>1 DEF NookTypeInv, MessageRow
  <2> QED
    BY <2>1, <2>2, <2>3 DEF NookRefsInv
<1>3. \A d \in Calls : ncalls'[d] # None => NookCallOK(ncalls'[d])
  BY DEF NooksInv
<1>4. ASSUME nooksApart' PROVE NooksApartInv'
  <2>0. nooksApart /\ NooksApartInv
    BY <1>4 DEF NooksInv
  <2>1. /\ \A n : LiveMessages(n)' = LiveMessages(n)
        /\ \A m : HeartsOf(m)' = HeartsOf(m)
        /\ \A n \in NookIds : nooks[n] # None => Guests(n)' = Guests(n)
    BY DEF LiveMessages, HeartsOf, Guests, RowIds
  <2>2. ASSUME NEW d \in Calls, ncalls'[d] # None
        PROVE  NookCallHolds(ncalls[d])'
    <3>1. PICK l \in NookCall : l = ncalls'[d]
      BY <1>1, <2>2 DEF NookTypeInv
    <3>2. NookCallHolds(l) /\ l.nook \in NookIds
      BY <1>4, <2>0, <2>2, <3>1 DEF NooksApartInv, NookCall
    <3>3. nooks[l.nook] # None
      BY <3>2 DEF NookCallHolds
    <3>4. /\ nooks'[l.nook] # None
          /\ nooks'[l.nook].creator = nooks[l.nook].creator
          /\ MembersKept(l.nook) /\ MessagesKept(l.nook)
      BY <2>1, <3>2, <3>3 DEF MembersKept, MessagesKept
    <3>5. l.about = "hearts" => HeartsKept(l.on)
      BY <2>1, <3>2 DEF HeartsKept, NookCallHolds, LikingHolds
    <3>6. l.about = "nook" => \A m \in MessageIds : messages'[m] # None =>
             \/ messages[m] # None /\ messages'[m].nook = messages[m].nook
             \/ messages'[m].nook # l.nook
      OBVIOUS
    <3>7. NookCallHolds(l)'
      BY <3>2, <3>4, <3>5, <3>6, StageKept
    <3> QED
      BY <3>1, <3>7 DEF NookCallHolds, JoiningHolds, WritingHolds, LikingHolds, RemovingHolds
  <2>3. ASSUME NEW n \in NookIds, nooks'[n] # None PROVE MessagesRight(n)' /\ MembersRight(n)'
    <3>1. MessagesRight(n) /\ MembersRight(n) /\ nooks[n] # None
      BY <2>0, <2>3 DEF NooksApartInv
    <3>2. \A S : InNook(n, S) => InNook(n, S)'
      BY DEF InNook
    <3> QED
      BY <2>1, <3>1, <3>2 DEF MessagesRight, MembersRight
  <2>4. ASSUME NEW m \in MessageIds, messages'[m] # None PROVE HeartsRight(m)'
    <3>1. HeartsRight(m)
      BY <2>0, <2>4 DEF NooksApartInv
    <3>2. OnMessage(m) => OnMessage(m)'
      BY DEF OnMessage
    <3> QED
      BY <2>1, <3>1, <3>2 DEF HeartsRight
  <2> QED
    BY <1>4, <2>2, <2>3, <2>4 DEF NooksApartInv
<1> QED
  BY <1>1, <1>2, <1>3, <1>4 DEF NooksInv

LEMMA NookBegins ==
  ASSUME NooksInv, NEW c \in Calls, NEW call \in NookCall, NStarts(c, call),
         UNCHANGED <<nooks, memberships, messages, hearts>>,
         NookCallOK(call), nooksApart => NookCallHolds(call)
  PROVE  NooksInv'
<1>1. /\ ncalls[c] = None /\ ncalls' = [ncalls EXCEPT ![c] = call]
      /\ nooksApart' = (nooksApart /\ \A d \in RowIds(ncalls) : ~Clash(ncalls[d], call))
  BY DEF NStarts
<1>2. NookTypeInv
  BY DEF NooksInv
<1>3. ncalls \in [Calls -> NookCall \cup {None}] /\ ncalls' \in [Calls -> NookCall \cup {None}]
      /\ ncalls'[c] = call /\ \A d \in Calls \ {c} : ncalls'[d] = ncalls[d]
  BY <1>1, <1>2 DEF NookTypeInv
<1>4. nooksApart' => \A d, e \in Calls :
        d # e /\ ncalls'[d] # None /\ ncalls'[e] # None => ~Clash(ncalls'[d], ncalls'[e])
  <2> SUFFICES ASSUME nooksApart', NEW d \in Calls, NEW e \in Calls, d # e,
                      ncalls'[d] # None, ncalls'[e] # None
               PROVE  ~Clash(ncalls'[d], ncalls'[e])
    OBVIOUS
  <2>1. nooksApart /\ NooksApartInv /\ \A x \in Calls : ncalls[x] # None => ~Clash(ncalls[x], call)
    BY <1>1, <1>3 DEF NooksInv, RowIds
  <2>2. CASE d # c /\ e # c
    BY <1>3, <2>1, <2>2 DEF NooksApartInv
  <2>3. CASE d = c
    <3>1. ~Clash(ncalls[e], call)
      BY <1>3, <2>1, <2>3
    <3> QED
      BY <1>3, <2>3, <3>1 DEF Clash
  <2>4. CASE e = c
    BY <1>3, <2>1, <2>4
  <2> QED
    BY <2>2, <2>3, <2>4
<1>5. nooks' \in [NookIds -> NookRow \cup {None}] /\ nooksApart' \in BOOLEAN /\ (nooksApart' => nooksApart)
  BY <1>1, <1>2 DEF NookTypeInv
<1>6. \A d \in Calls : ncalls'[d] # None =>
        ncalls'[d] = ncalls[d] \/ (NookCallOK(ncalls'[d]) /\ (nooksApart' => NookCallHolds(ncalls'[d])))
  BY <1>3, <1>5
<1>7. \A d \in Calls : ncalls[d] # None => ncalls'[d] = ncalls[d]
  BY <1>1, <1>3
<1> QED
  BY <1>3, <1>4, <1>5, <1>6, <1>7, NooksStay

LEMMA NookCallFields ==
  ASSUME NEW at \in Joining \cup Writing \cup Liking \cup Removing,
         NEW about \in {"members", "messages", "hearts", "nook"},
         NEW n \in NookIds, NEW u \in Members, NEW k, k = NCall(at, about, n, u)
  PROVE  /\ k \in NookCall /\ k.at = at /\ k.about = about /\ k.nook = n /\ k.user = u
         /\ k.on = None /\ k.holds = {} /\ k.count = 0 /\ ~k.liked
  BY DEF NCall, NookCall, Joining, Writing, Liking, Removing

LEMMA NookBeginsOK ==
  ASSUME NooksInv, NEW c \in Calls, NEW u \in Members,
         \/ \E n \in NookIds :
              \/ JoinNook(c, n, u) \/ LeaveNook(c, n, u) \/ RemoveNook(c, n, u)
              \/ \E parent \in RowIds(messages) \cup {None} : CreateMessage(c, n, u, parent)
         \/ \E m \in MessageIds : DeleteMessage(c, m, u) \/ ToggleMessageReaction(c, m, u)
  PROVE  NooksInv'
<1>0. NookTypeInv /\ NookRefsInv
  BY DEF NooksInv
<1>1. ASSUME NEW n \in NookIds, JoinNook(c, n, u) \/ LeaveNook(c, n, u) PROVE NooksInv'
  <2>1. nooks[n] # None /\ nooks[n].members_count \in Nat
    BY <1>0, <1>1 DEF JoinNook, LeaveNook, AcceptsPosts, NookTypeInv, NookRow
  <2>2. PICK at \in {"findMember", "leave"} :
          /\ NStarts(c, [NCall(at, "members", n, u) EXCEPT !.count = nooks[n].members_count])
          /\ UNCHANGED <<nooks, memberships, messages, hearts>>
          /\ at = "leave" => nooks[n].creator # u
    BY <1>1 DEF JoinNook, LeaveNook
  <2>k. PICK k : k = NCall(at, "members", n, u)
    OBVIOUS
  <2>3. /\ k \in NookCall
        /\ k.at = at /\ k.about = "members"
        /\ k.nook = n /\ k.user = u
    <3>1. at \in Joining \cup Writing \cup Liking \cup Removing
      BY DEF Joining, Writing, Liking, Removing
    <3> QED
      BY <2>k, <3>1, NookCallFields
  <2>b. PICK b : b = [k EXCEPT !.count = nooks[n].members_count]
    OBVIOUS
  <2>4. /\ b \in NookCall /\ b = [k EXCEPT !.count = nooks[n].members_count]
        /\ b.at = at /\ b.about = "members" /\ b.nook = n /\ b.user = u
        /\ b.count = nooks[n].members_count
    BY <2>b, <2>1, <2>3 DEF NookCall
  <2>5. NookCallOK(b) /\ NookCallHolds(b)
    BY <2>1, <2>2, <2>4 DEF NookCallOK, NookCallHolds, JoiningHolds, Joining, Writing, Liking, Removing
  <2>6. NStarts(c, b)
    BY <2>2, <2>k, <2>4
  <2> QED
    BY <2>2, <2>6, <2>4, <2>5, NookBegins
<1>2. ASSUME NEW n \in NookIds, RemoveNook(c, n, u) PROVE NooksInv'
  <2>k. PICK k : k = NCall("deleteMessages", "nook", n, u)
    OBVIOUS
  <2>3. /\ k \in NookCall
        /\ k.at = "deleteMessages"
        /\ k.about = "nook" /\ k.nook = n
    <3>1. "deleteMessages" \in Joining \cup Writing \cup Liking \cup Removing
      BY DEF Joining, Writing, Liking, Removing
    <3> QED
      BY <2>k, <3>1, NookCallFields
  <2>5. NookCallOK(k) /\ NookCallHolds(k)
    BY <1>2, <2>3 DEF RemoveNook, NookCallOK, NookCallHolds, RemovingHolds, Joining, Writing, Liking, Removing
  <2>6. NStarts(c, k) /\ UNCHANGED <<nooks, memberships, messages, hearts>>
    BY <1>2, <2>k DEF RemoveNook
  <2> QED
    BY <2>3, <2>5, <2>6, NookBegins
<1>3. ASSUME NEW n \in NookIds, NEW p \in RowIds(messages) \cup {None}, CreateMessage(c, n, u, p)
      PROVE  NooksInv'
  <2>1. nooks[n] # None /\ nooks[n].messages_count \in Nat /\ p \in MessageIds \cup {None}
        /\ {p} \ {None} \in SUBSET MessageIds
    BY <1>0, <1>3 DEF CreateMessage, AcceptsPosts, NookTypeInv, NookRow, RowIds
  <2>k. PICK k : k = NCall("insertMessage", "messages", n, u)
    OBVIOUS
  <2>3. /\ k \in NookCall
        /\ k.at = "insertMessage"
        /\ k.about = "messages" /\ k.nook = n /\ k.user = u
    <3>1. "insertMessage" \in Joining \cup Writing \cup Liking \cup Removing
      BY DEF Joining, Writing, Liking, Removing
    <3> QED
      BY <2>k, <3>1, NookCallFields
  <2>b. PICK b : b = [k EXCEPT !.on = p, !.holds = {p} \ {None}, !.count = nooks[n].messages_count]
    OBVIOUS
  <2>4. /\ b \in NookCall /\ b = [k EXCEPT !.on = p, !.holds = {p} \ {None}, !.count = nooks[n].messages_count]
        /\ b.at = "insertMessage" /\ b.about = "messages" /\ b.nook = n
        /\ b.count = nooks[n].messages_count
    BY <2>b, <2>1, <2>3 DEF NookCall
  <2>5. NookCallOK(b) /\ NookCallHolds(b)
    BY <2>1, <2>4 DEF NookCallOK, NookCallHolds, WritingHolds, Joining, Writing, Liking, Removing
  <2>6. NStarts(c, b) /\ UNCHANGED <<nooks, memberships, messages, hearts>>
    BY <1>3, <2>k, <2>4 DEF CreateMessage
  <2> QED
    BY <2>4, <2>5, <2>6, NookBegins
<1>4. ASSUME NEW m \in MessageIds, DeleteMessage(c, m, u) PROVE NooksInv'
  <2>1. messages[m] # None /\ messages[m].nook # None /\ ~messages[m].is_deleted /\ {m} \in SUBSET MessageIds
    BY <1>4 DEF DeleteMessage
  <2>2. PICK n \in NookIds : n = messages[m].nook
    BY <1>0, <2>1 DEF NookTypeInv, MessageRow
  <2>k. PICK k : k = NCall("collect", "messages", n, u)
    OBVIOUS
  <2>3. /\ k \in NookCall
        /\ k.at = "collect"
        /\ k.about = "messages" /\ k.nook = n /\ k.user = u
    <3>1. "collect" \in Joining \cup Writing \cup Liking \cup Removing
      BY DEF Joining, Writing, Liking, Removing
    <3> QED
      BY <2>k, <3>1, NookCallFields
  <2>b. PICK b : b = [k EXCEPT !.on = m, !.holds = {m}]
    OBVIOUS
  <2>4. /\ b \in NookCall /\ b = [k EXCEPT !.on = m, !.holds = {m}]
        /\ b.at = "collect" /\ b.about = "messages" /\ b.nook = n /\ b.on = m
    BY <2>b, <2>1, <2>3 DEF NookCall
  <2>6. nooks[n] # None /\ m \in LiveMessages(n)
    BY <1>0, <2>1, <2>2 DEF NookRefsInv, LiveMessages, RowIds, NookTypeInv
  <2>5. NookCallOK(b) /\ NookCallHolds(b)
    BY <2>4, <2>6 DEF NookCallOK, NookCallHolds, WritingHolds, Joining, Writing, Liking, Removing
  <2>7. NStarts(c, b) /\ UNCHANGED <<nooks, memberships, messages, hearts>>
    BY <1>4, <2>2, <2>k, <2>4 DEF DeleteMessage
  <2> QED
    BY <2>4, <2>5, <2>7, NookBegins
<1>5. ASSUME NEW m \in MessageIds, ToggleMessageReaction(c, m, u) PROVE NooksInv'
  <2>1. messages[m] # None /\ messages[m].nook # None /\ {m} \in SUBSET MessageIds
    BY <1>5 DEF ToggleMessageReaction
  <2>2. PICK n \in NookIds : n = messages[m].nook
    BY <1>0, <2>1 DEF NookTypeInv, MessageRow
  <2>k. PICK k : k = NCall("readHearts", "hearts", n, u)
    OBVIOUS
  <2>3. /\ k \in NookCall
        /\ k.at = "readHearts"
        /\ k.about = "hearts" /\ k.nook = n /\ k.user = u
    <3>1. "readHearts" \in Joining \cup Writing \cup Liking \cup Removing
      BY DEF Joining, Writing, Liking, Removing
    <3> QED
      BY <2>k, <3>1, NookCallFields
  <2>7. PICK l \in {FALSE, <<m, u>> \in hearts} :
          NStarts(c, [k EXCEPT !.on = m, !.holds = {m}, !.liked = l])
    BY <1>5, <2>2, <2>k, Zenon DEF ToggleMessageReaction
  <2>9. l \in BOOLEAN /\ (l => <<m, u>> \in hearts)
    <3>1. CASE <<m, u>> \in hearts
      <4>1. (<<m, u>> \in hearts) = TRUE
        BY <3>1
      <4>2. l \in {FALSE, TRUE}
        BY <2>7, <4>1, Zenon
      <4> QED
        BY <3>1, <4>2
    <3>2. CASE <<m, u>> \notin hearts
      <4>1. (<<m, u>> \in hearts) = FALSE
        BY <3>2
      <4>2. l = FALSE
        BY <2>7, <4>1, Zenon
      <4> QED
        BY <3>2, <4>2
    <3> QED
      BY <3>1, <3>2
  <2>b. PICK b : b = [k EXCEPT !.on = m, !.holds = {m}, !.liked = l]
    OBVIOUS
  <2>4. /\ b \in NookCall /\ b = [k EXCEPT !.on = m, !.holds = {m}, !.liked = l]
        /\ b.at = "readHearts" /\ b.about = "hearts" /\ b.nook = n /\ b.on = m
        /\ b.user = u /\ b.liked = l
    BY <2>b, <2>1, <2>3, <2>9 DEF NookCall
  <2>6. nooks[n] # None
    BY <1>0, <2>1, <2>2 DEF NookRefsInv
  <2>5. NookCallOK(b) /\ NookCallHolds(b)
    BY <2>1, <2>2, <2>4, <2>6, <2>9 DEF NookCallOK, NookCallHolds, LikingHolds, Joining, Writing, Liking, Removing
  <2>8. NStarts(c, b) /\ UNCHANGED <<nooks, memberships, messages, hearts>>
    BY <1>5, <2>4, <2>7 DEF ToggleMessageReaction
  <2> QED
    BY <2>4, <2>5, <2>8, NookBegins
<1> QED
  BY <1>1, <1>2, <1>3, <1>4, <1>5

(* An update of the row of a nook that is not about its counters.          *)
LEMMA NookWordsOK ==
  ASSUME NooksInv, (\E n \in NookIds : Expire(n) \/ LockNook(n)) \/ ArchiveExpiredNooks
  PROVE  NooksInv'
<1>0. NookTypeInv
  BY DEF NooksInv
<1>1. UNCHANGED <<memberships, messages, hearts, ncalls, nooksApart>>
  BY DEF Expire, LockNook, ArchiveExpiredNooks
<1>2. /\ nooks' \in [NookIds -> NookRow \cup {None}]
      /\ \A n \in NookIds : nooks'[n] # None <=> nooks[n] # None
      /\ \A n \in NookIds : nooks[n] # None =>
           /\ nooks'[n].creator = nooks[n].creator
           /\ nooks'[n].members_count = nooks[n].members_count
           /\ nooks'[n].messages_count = nooks[n].messages_count
  <2>0. None \notin NookRow
    BY NooksAssumption
  <2>1. ASSUME NEW n \in NookIds, Expire(n) \/ LockNook(n)
        PROVE  <1>2!1 /\ <1>2!2 /\ <1>2!3
    <3>1. PICK q \in NookRow : q = nooks[n]
      BY <1>0, <2>1 DEF Expire, LockNook, NookTypeInv
    <3>2. PICK p \in {"open", "expired", "archived"}, l \in BOOLEAN :
            nooks' = [nooks EXCEPT ![n] = [q EXCEPT !.phase = p, !.locked = l]]
      <4>1. CASE Expire(n)
        <5>1. [q EXCEPT !.phase = "expired"] = [q EXCEPT !.phase = "expired", !.locked = q.locked] /\ q.locked \in BOOLEAN
          BY <3>1 DEF NookRow
        <5> QED
          BY <3>1, <4>1, <5>1 DEF Expire
      <4>2. CASE LockNook(n)
        <5>1. [q EXCEPT !.locked = ~@] = [q EXCEPT !.phase = q.phase, !.locked = ~q.locked] /\ q.phase \in {"open", "expired", "archived"}
          BY <3>1 DEF NookRow
        <5> QED
          BY <3>1, <4>2, <5>1 DEF LockNook
      <4> QED
        BY <2>1, <4>1, <4>2
    <3>r. PICK r : r = [q EXCEPT !.phase = p, !.locked = l]
      OBVIOUS
    <3>3. /\ r \in NookRow /\ r = [q EXCEPT !.phase = p, !.locked = l]
        /\ r.creator = q.creator /\ r.members_count = q.members_count
        /\ r.messages_count = q.messages_count
      BY <3>r DEF NookRow
    <3> QED
      BY <1>0, <2>0, <3>1, <3>2, <3>3 DEF NookTypeInv
  <2>2. CASE ArchiveExpiredNooks
    <3>1. ASSUME NEW n \in NookIds, nooks[n] # None
          PROVE  /\ nooks'[n] \in NookRow
                 /\ nooks'[n].creator = nooks[n].creator
                 /\ nooks'[n].members_count = nooks[n].members_count
                 /\ nooks'[n].messages_count = nooks[n].messages_count
      <4>1. PICK q \in NookRow : q = nooks[n]
        BY <1>0, <3>1 DEF NookTypeInv
      <4>r. PICK r : r = [q EXCEPT !.phase = "archived"]
        OBVIOUS
      <4>2. /\ r \in NookRow /\ r = [q EXCEPT !.phase = "archived"]
        /\ r.creator = q.creator /\ r.members_count = q.members_count
        /\ r.messages_count = q.messages_count
        BY <4>r DEF NookRow
      <4>3. nooks'[n] = IF q.phase = "expired" THEN r ELSE q
        BY <2>2, <3>1, <4>1, <4>2 DEF ArchiveExpiredNooks
      <4> QED
        BY <4>1, <4>2, <4>3
    <3>2. \A n \in NookIds : nooks[n] = None => nooks'[n] = None
      BY <2>2 DEF ArchiveExpiredNooks
    <3>3. DOMAIN nooks' = NookIds /\ nooks' = [n \in NookIds |-> nooks'[n]]
      BY <2>2 DEF ArchiveExpiredNooks
    <3> QED
      BY <2>0, <3>1, <3>2, <3>3
  <2> QED
    BY <2>1, <2>2
<1>3. /\ ncalls' \in [Calls -> NookCall \cup {None}]
      /\ nooksApart' \in BOOLEAN /\ (nooksApart' => nooksApart)
      /\ \A d \in Calls : ncalls'[d] # None =>
           ncalls'[d] = ncalls[d] \/ (NookCallOK(ncalls'[d]) /\ (nooksApart' => NookCallHolds(ncalls'[d])))
      /\ \A d \in Calls : ncalls[d] # None => ncalls'[d] = ncalls[d]
  BY <1>0, <1>1 DEF NookTypeInv
<1>4. nooksApart' => \A d, e \in Calls :
        d # e /\ ncalls'[d] # None /\ ncalls'[e] # None => ~Clash(ncalls'[d], ncalls'[e])
  BY <1>1 DEF NooksInv, NooksApartInv
<1> QED
  BY <1>1, <1>2, <1>3, <1>4, NooksStay

----------------------------------------------------------------------------
(* One lemma for each kind of step of a handler.                           *)

LEMMA NookStage ==
  ASSUME NEW k \in NookCall, NEW at \in Joining \cup Writing \cup Liking \cup Removing,
         NEW b, b = [k EXCEPT !.at = at]
  PROVE  /\ b \in NookCall /\ b # None /\ b.at = at /\ b.about = k.about /\ b.nook = k.nook
         /\ b.user = k.user /\ b.on = k.on /\ b.holds = k.holds /\ b.count = k.count
         /\ b.liked = k.liked
<1>1. /\ b \in NookCall /\ b.at = at /\ b.about = k.about /\ b.nook = k.nook
      /\ b.user = k.user /\ b.on = k.on /\ b.holds = k.holds /\ b.count = k.count
      /\ b.liked = k.liked
  BY DEF NookCall, Joining, Writing, Liking, Removing
<1> QED
  BY <1>1, NooksAssumption

LEMMA NookCaller ==
  ASSUME NooksInv, NEW c \in Calls, ncalls[c] # None
  PROVE  /\ ncalls[c] \in NookCall /\ NookCallOK(ncalls[c])
         /\ ncalls[c].nook \in NookIds /\ ncalls[c].user \in Members
         /\ ncalls[c].on \in MessageIds \cup {None} /\ ncalls[c].holds \subseteq MessageIds
         /\ ncalls[c].count \in Nat /\ ncalls[c].liked \in BOOLEAN
         /\ nooksApart => NookCallHolds(ncalls[c])
         /\ nooksApart => \A d \in Calls \ {c} : ncalls[d] # None => ~Clash(ncalls[d], ncalls[c])
BY DEF NooksInv, NooksApartInv, NookTypeInv, NookCall

(* The handler looks something up, or finds that it has nothing to do.     *)
LEMMA NookRests ==
  ASSUME NooksInv, NEW c \in Calls, NEW k \in NookCall, k = ncalls[c], k # None,
         NEW b \in NookCall \cup {None}, ncalls' = [ncalls EXCEPT ![c] = b],
         UNCHANGED <<nooks, memberships, messages, hearts, nooksApart>>,
         b # None => NookCallOK(b) /\ b.about = k.about /\ b.nook = k.nook /\ b.on = k.on,
         nooksApart /\ b # None => NookCallHolds(b),
         k.at \notin {"countMessage", "uncount", "countJoin", "countHeart"} \cup Removing,
         k.at = "readCount" => b # None /\ b.at = "uncount"
  PROVE  NooksInv'
<1>0. NookTypeInv /\ NookRefsInv
  BY DEF NooksInv
<1>1. /\ ncalls'[c] = b /\ \A d \in Calls \ {c} : ncalls'[d] = ncalls[d]
      /\ k.nook \in NookIds /\ NookCallOK(k) /\ k.about # "nook"
      /\ nooksApart => NookCallHolds(k)
      /\ nooksApart => \A d \in Calls \ {c} : ncalls[d] # None => ~Clash(ncalls[d], k)
  <2>1. k.about # "nook"
    BY NookCaller DEF NookCallOK, Joining, Writing, Liking, Removing, NookCall
  <2> QED
    BY <1>0, <2>1, NookCaller DEF NookTypeInv
<1>2. /\ \A n : LiveMessages(n)' = LiveMessages(n)
      /\ \A m : HeartsOf(m)' = HeartsOf(m)
      /\ \A n : Guests(n)' = Guests(n)
  BY DEF LiveMessages, HeartsOf, Guests, RowIds
<1>3. NooksKept(k)
  BY <1>1, <1>2 DEF NooksKept, MembersKept, MessagesKept, HeartsKept
<1>4. NookRefsInv'
  BY <1>0 DEF NookRefsInv
<1>5. /\ nooks' \in [NookIds -> NookRow \cup {None}]
      /\ memberships' \subseteq NookIds \X Members
      /\ messages' \in [MessageIds -> MessageRow \cup {None}]
      /\ hearts' \subseteq MessageIds \X Members
      /\ nooksApart' \in BOOLEAN
  BY <1>0 DEF NookTypeInv
<1>6. nooksApart' /\ b # None => NookCallHolds(b)'
  BY <1>2 DEF NookCallHolds, JoiningHolds, WritingHolds, LikingHolds, RemovingHolds
<1>7. ASSUME nooksApart'
      PROVE  /\ nooks'[k.nook] # None => MessagesRight(k.nook)' /\ MembersRight(k.nook)'
             /\ k.about = "hearts" => HeartsRight(k.on)' /\ messages[k.on] # None /\ messages[k.on].nook = k.nook
  <2>0. NooksApartInv
    BY <1>7 DEF NooksInv
  <2>1. \A n : InNook(n, {"countMessage", "readCount", "uncount", "deleteNook"})
                 => InNook(n, {"countMessage", "readCount", "uncount", "deleteNook"})'
    <3> SUFFICES ASSUME NEW n, NEW d \in Calls, ncalls[d] # None, ncalls[d].nook = n,
                        ncalls[d].at \in {"countMessage", "readCount", "uncount", "deleteNook"}
                 PROVE  InNook(n, {"countMessage", "readCount", "uncount", "deleteNook"})'
      BY DEF InNook
    <3>1. ncalls'[d] # None /\ ncalls'[d].nook = n
          /\ ncalls'[d].at \in {"countMessage", "readCount", "uncount", "deleteNook"}
      BY <1>1 DEF Removing
    <3> QED
      BY <3>1 DEF InNook
  <2>2. \A n : InNook(n, {"countJoin"}) => InNook(n, {"countJoin"})'
    <3> SUFFICES ASSUME NEW n, NEW d \in Calls, ncalls[d] # None, ncalls[d].nook = n,
                        ncalls[d].at = "countJoin"
                 PROVE  InNook(n, {"countJoin"})'
      BY DEF InNook
    <3> QED
      BY <1>1 DEF InNook
  <2>3. \A m : OnMessage(m) => OnMessage(m)'
    <3> SUFFICES ASSUME NEW m, NEW d \in Calls, ncalls[d] # None, ncalls[d].on = m,
                        ncalls[d].at = "countHeart"
                 PROVE  OnMessage(m)'
      BY DEF OnMessage
    <3> QED
      BY <1>1 DEF OnMessage
  <2>4. nooks'[k.nook] # None => MessagesRight(k.nook) /\ MembersRight(k.nook)
    BY <1>1, <2>0 DEF NooksApartInv
  <2>5. k.about = "hearts" => HeartsRight(k.on) /\ messages[k.on] # None /\ messages[k.on].nook = k.nook
    <3> SUFFICES ASSUME k.about = "hearts"
                 PROVE  HeartsRight(k.on) /\ messages[k.on] # None /\ messages[k.on].nook = k.nook
      OBVIOUS
    <3>1. k.on \in MessageIds /\ messages[k.on] # None /\ messages[k.on].nook = k.nook
      BY <1>1, <1>7 DEF NookCallOK, NookCallHolds, LikingHolds
    <3> QED
      BY <2>0, <3>1 DEF NooksApartInv
  <2> QED
    BY <1>2, <2>1, <2>2, <2>3, <2>4, <2>5 DEF MessagesRight, MembersRight, HeartsRight
<1>8. ncalls[c] # None =>
        ncalls[c].about = k.about /\ ncalls[c].nook = k.nook /\ ncalls[c].on = k.on
  OBVIOUS
<1> QED
  BY <1>1, <1>3, <1>4, <1>5, <1>6, <1>7, <1>8, NookGoesOn

(* A count is written.                                                     *)
LEMMA WrittenOK ==
  ASSUME NooksInv, NEW c \in Calls, NEW k \in NookCall, k = ncalls[c], k # None,
         NEW field \in {"members_count", "messages_count"}, NEW v \in Nat,
         field = "members_count" => k.about = "members",
         field = "messages_count" => k.about = "messages",
         Written(k.nook, field, v), NEnds(c), UNCHANGED <<memberships, messages, hearts>>,
         nooksApart /\ field = "members_count" => v >= Cardinality(Guests(k.nook)),
         nooksApart /\ field = "messages_count" => v = Cardinality(LiveMessages(k.nook))
  PROVE  NooksInv'
<1>0. NookTypeInv /\ NookRefsInv
  BY DEF NooksInv
<1>1. /\ k.nook \in NookIds /\ NookCallOK(k) /\ k.about \in {"members", "messages"}
      /\ nooksApart => NookCallHolds(k)
      /\ nooksApart => \A d \in Calls \ {c} : ncalls[d] # None => ~Clash(ncalls[d], k)
  BY NookCaller
<1>2. PICK b \in NookCall \cup {None} : b = None
  OBVIOUS
<1>3. ncalls' = [ncalls EXCEPT ![c] = b] /\ nooksApart' = nooksApart
  BY <1>2 DEF NEnds
<1>4. /\ nooks' \in [NookIds -> NookRow \cup {None}]
      /\ \A n \in NookIds : nooks'[n] # None <=> nooks[n] # None
      /\ \A n \in NookIds : n # k.nook => nooks'[n] = nooks[n]
      /\ nooks[k.nook] # None =>
           /\ nooks'[k.nook].creator = nooks[k.nook].creator
           /\ field = "members_count" =>
                /\ nooks'[k.nook].members_count = v
                /\ nooks'[k.nook].messages_count = nooks[k.nook].messages_count
           /\ field = "messages_count" =>
                /\ nooks'[k.nook].messages_count = v
                /\ nooks'[k.nook].members_count = nooks[k.nook].members_count
  <2>1. CASE nooks[k.nook] = None
    BY <1>0, <2>1 DEF Written, NookTypeInv
  <2>2. CASE nooks[k.nook] # None
    <3>1. PICK q \in NookRow : q = nooks[k.nook]
      BY <1>0, <1>1, <2>2 DEF NookTypeInv
    <3>2. PICK r : r = [q EXCEPT ![field] = v]
      OBVIOUS
    <3>3. /\ r \in NookRow /\ r.creator = q.creator
          /\ field = "members_count" => r.members_count = v /\ r.messages_count = q.messages_count
          /\ field = "messages_count" => r.messages_count = v /\ r.members_count = q.members_count
      BY <3>2 DEF NookRow
    <3>4. nooks' = [nooks EXCEPT ![k.nook] = r] /\ r # None
      BY <2>2, <3>1, <3>2, <3>3, NooksAssumption DEF Written
    <3> QED
      BY <1>0, <1>1, <2>2, <3>1, <3>3, <3>4 DEF NookTypeInv
  <2> QED
    BY <2>1, <2>2
<1>5. /\ \A n : LiveMessages(n)' = LiveMessages(n)
      /\ \A m : HeartsOf(m)' = HeartsOf(m)
      /\ \A n \in NookIds : nooks[n] # None => Guests(n)' = Guests(n)
  BY <1>1, <1>4 DEF LiveMessages, HeartsOf, Guests, RowIds
<1>6. NooksKept(k)
  BY <1>1, <1>4, <1>5 DEF NooksKept, MembersKept, MessagesKept, HeartsKept
<1>7. NookRefsInv'
  <2>1. \A p \in memberships : p[1] \in NookIds
    BY <1>0 DEF NookTypeInv
  <2>2. \A m \in MessageIds : messages[m] # None => messages[m].nook \in NookIds \cup {None}
    BY <1>0 DEF NookTypeInv, MessageRow
  <2> QED
    BY <1>0, <1>4, <2>1, <2>2 DEF NookRefsInv
<1>8. /\ memberships' \subseteq NookIds \X Members
      /\ messages' \in [MessageIds -> MessageRow \cup {None}]
      /\ hearts' \subseteq MessageIds \X Members
      /\ nooksApart' \in BOOLEAN
  BY <1>0, <1>3 DEF NookTypeInv
<1>9. ASSUME nooksApart', nooks'[k.nook] # None
      PROVE  /\ k.about \in {"messages", "nook"} \/ nooks[k.nook] = None => MessagesRight(k.nook)'
             /\ k.about \in {"members", "nook"} \/ nooks[k.nook] = None => MembersRight(k.nook)'
  BY <1>1, <1>3, <1>4, <1>5, <1>9 DEF MessagesRight, MembersRight
<1>a. nooksApart' => \A d \in Calls \ {c} : ncalls[d] # None => ~Clash(ncalls[d], k)
  BY <1>1, <1>3
<1>b. k.about # "hearts"
  BY <1>1
<1> QED
  BY <1>2, <1>3, <1>4, <1>6, <1>7, <1>8, <1>9, <1>a, <1>b, NookGoesOn

(* What hangs from a message that is not deleted is not deleted.           *)
LEMMA ThreadIsLive ==
  ASSUME NookTypeInv, NookRefsInv, NEW n \in NookIds, NEW m \in LiveMessages(n)
  PROVE  Thread(m) \subseteq LiveMessages(n)
<1>1. LiveMessages(n) \in SUBSET MessageIds
  BY NookSets
<1>2. RepliesTo(LiveMessages(n)) \subseteq LiveMessages(n)
  <2> SUFFICES ASSUME NEW x \in RepliesTo(LiveMessages(n)) PROVE x \in LiveMessages(n)
    OBVIOUS
  <2>1. /\ x \in MessageIds /\ messages[x] # None /\ ~messages[x].is_deleted
        /\ messages[x].parent \in LiveMessages(n)
    BY DEF RepliesTo, RowIds, NookTypeInv
  <2>2. messages[x].parent # None /\ messages[messages[x].parent].nook = n
    BY <1>1, <2>1, NooksAssumption DEF LiveMessages
  <2>3. messages[x].nook = n
    BY <2>1, <2>2 DEF NookRefsInv
  <2> QED
    BY <2>1, <2>3 DEF LiveMessages, RowIds, NookTypeInv
<1> QED
  BY <1>1, <1>2 DEF Thread

LEMMA NookReadsOK ==
  ASSUME NooksInv, NEW c \in Calls,
         FindMember(c) \/ CollectThread(c) \/ ReadMessagesCount(c) \/ ReadHearts(c)
  PROVE  NooksInv'
<1>0. NookTypeInv /\ NookRefsInv
  BY DEF NooksInv
<1>1. PICK k \in NookCall : k = ncalls[c] /\ k # None
  BY NookCaller DEF FindMember, CollectThread, ReadMessagesCount, ReadHearts, Waits
<1>2. /\ NookCallOK(k) /\ k.nook \in NookIds /\ k.count \in Nat /\ k.on \in MessageIds \cup {None}
      /\ nooksApart => NookCallHolds(k)
  BY <1>1, NookCaller
<1>3. UNCHANGED <<nooks, memberships, messages, hearts, nooksApart>>
  BY DEF FindMember, CollectThread, ReadMessagesCount, ReadHearts, NEnds, NGoes
<1>4. k.at \in {"findMember", "collect", "readCount", "readHearts"}
  BY <1>1 DEF FindMember, CollectThread, ReadMessagesCount, ReadHearts, Waits
<1>5. k.at \notin {"countMessage", "uncount", "countJoin", "countHeart"} \cup Removing
  BY <1>4 DEF Removing
<1>6. CASE ncalls' = [ncalls EXCEPT ![c] = None] /\ k.at # "readCount"
  <2>1. PICK b \in NookCall \cup {None} : b = None
    OBVIOUS
  <2> QED
    BY <1>1, <1>3, <1>5, <1>6, <2>1, NookRests
<1>7. CASE FindMember(c) /\ ncalls' # [ncalls EXCEPT ![c] = None]
  <2>1. PICK b : b = [k EXCEPT !.at = "insertMember"]
    OBVIOUS
  <2>2. /\ b \in NookCall /\ b # None /\ b.at = "insertMember" /\ b.about = k.about /\ b.nook = k.nook
        /\ b.on = k.on /\ b.count = k.count
    <3>1. "insertMember" \in Joining \cup Writing \cup Liking \cup Removing
      BY DEF Joining
    <3> QED
      BY <2>1, <3>1, NookStage
  <2>3. k.at = "findMember" /\ k.about = "members" /\ ncalls' = [ncalls EXCEPT ![c] = b]
    BY <1>1, <1>2, <1>7, <2>1 DEF FindMember, Waits, NEnds, NGoes, NookCallOK, Joining
  <2>4. NookCallOK(b) /\ (nooksApart => NookCallHolds(b))
    BY <1>2, <2>2, <2>3 DEF NookCallOK, NookCallHolds, JoiningHolds, Joining, Writing, Liking, Removing
  <2> QED
    BY <1>1, <1>3, <1>5, <2>2, <2>3, <2>4, NookRests
<1>8. CASE CollectThread(c)
  <2>0. k.at = "collect" /\ k.about = "messages" /\ k.on \in MessageIds
    BY <1>1, <1>2, <1>8 DEF CollectThread, Waits, NookCallOK, Writing
  <2>a. PICK ids \in Walks(k.on) :
          ncalls' = [ncalls EXCEPT ![c].at = "softDelete", ![c].holds = ids]
    BY <1>1, <1>8 DEF CollectThread
  <2>c. ids \subseteq Thread(k.on)
    BY DEF Walks
  <2>1. PICK b : b = [k EXCEPT !.at = "softDelete", !.holds = ids]
    OBVIOUS
  <2>2. /\ b \in NookCall /\ b.at = "softDelete" /\ b.about = k.about /\ b.nook = k.nook
        /\ b.on = k.on /\ b.holds = ids
    <3>1. ids \in SUBSET MessageIds
      BY <2>c DEF Thread
    <3> QED
      BY <2>1, <3>1 DEF NookCall
  <2>3. ncalls' = [ncalls EXCEPT ![c] = b]
    BY <1>1, <2>1, <2>a
  <2>4. NookCallOK(b)
    BY <1>2, <2>0, <2>2 DEF NookCallOK, Joining, Writing, Liking, Removing
  <2>5. nooksApart => NookCallHolds(b)
    <3> SUFFICES ASSUME nooksApart PROVE NookCallHolds(b)
      OBVIOUS
    <3>1. nooks[k.nook] # None /\ k.on \in LiveMessages(k.nook)
      BY <1>2, <2>0 DEF NookCallHolds, WritingHolds
    <3>2. Thread(k.on) \subseteq LiveMessages(k.nook)
      BY <1>0, <1>2, <3>1, ThreadIsLive
    <3> QED
      BY <2>0, <2>2, <2>c, <3>1, <3>2 DEF NookCallHolds, WritingHolds
  <2> QED
    BY <1>1, <1>3, <1>5, <2>0, <2>2, <2>3, <2>4, <2>5, NookRests
<1>9. CASE ReadMessagesCount(c)
  <2>0. k.at = "readCount" /\ k.about = "messages"
    BY <1>1, <1>2, <1>9 DEF ReadMessagesCount, Waits, NookCallOK, Writing
  <2>1. PICK v : v = IF nooks[k.nook] = None THEN 0 ELSE nooks[k.nook].messages_count
    OBVIOUS
  <2>2. v \in Nat
    BY <1>0, <1>2, <2>1 DEF NookTypeInv, NookRow
  <2>3. PICK b : b = [k EXCEPT !.at = "uncount", !.count = v]
    OBVIOUS
  <2>4. /\ b \in NookCall /\ b.at = "uncount" /\ b.about = k.about /\ b.nook = k.nook
        /\ b.on = k.on /\ b.holds = k.holds /\ b.count = v
    BY <2>2, <2>3 DEF NookCall
  <2>5. ncalls' = [ncalls EXCEPT ![c] = b]
    BY <1>1, <1>9, <2>1, <2>3 DEF ReadMessagesCount
  <2>6. NookCallOK(b)
    BY <1>2, <2>0, <2>4 DEF NookCallOK, Joining, Writing, Liking, Removing
  <2>7. nooksApart => NookCallHolds(b)
    BY <1>2, <2>0, <2>1, <2>4 DEF NookCallHolds, WritingHolds
  <2>8. b # None
    BY <2>4, NooksAssumption
  <2> QED
    BY <1>1, <1>3, <1>5, <2>0, <2>4, <2>5, <2>6, <2>7, <2>8, NookRests
<1>a. CASE ReadHearts(c) /\ ncalls' # [ncalls EXCEPT ![c] = None]
  <2>0. k.at = "readHearts" /\ k.about = "hearts" /\ k.on \in MessageIds /\ messages[k.on] # None
    BY <1>1, <1>2, <1>a DEF ReadHearts, Waits, NookCallOK, Liking, NEnds
  <2>1. PICK v : v = messages[k.on].count
    OBVIOUS
  <2>2. v \in Nat
    BY <1>0, <2>0, <2>1 DEF NookTypeInv, MessageRow
  <2>3. PICK b : b = [k EXCEPT !.at = "writeHeart", !.count = v]
    OBVIOUS
  <2>4. /\ b \in NookCall /\ b.at = "writeHeart" /\ b.about = k.about /\ b.nook = k.nook /\ b.user = k.user
        /\ b.on = k.on /\ b.holds = k.holds /\ b.count = v /\ b.liked = k.liked
    BY <2>2, <2>3 DEF NookCall
  <2>5. ncalls' = [ncalls EXCEPT ![c] = b]
    BY <1>1, <1>a, <2>0, <2>1, <2>3 DEF ReadHearts, NEnds
  <2>6. NookCallOK(b)
    BY <1>2, <2>0, <2>4 DEF NookCallOK, Joining, Writing, Liking, Removing
  <2>7. nooksApart => NookCallHolds(b)
    BY <1>2, <2>0, <2>1, <2>4 DEF NookCallHolds, LikingHolds
  <2> QED
    BY <1>1, <1>3, <1>5, <2>0, <2>4, <2>5, <2>6, <2>7, NookRests
<1>b. ~ReadMessagesCount(c) => k.at # "readCount"
  BY <1>1 DEF FindMember, CollectThread, ReadMessagesCount, ReadHearts, Waits
<1> QED
  BY <1>6, <1>7, <1>8, <1>9, <1>a, <1>b

LEMMA NookCountsOK ==
  ASSUME NooksInv, NEW c \in Calls,
         CountJoin(c) \/ CountLeave(c) \/ CountMessage(c) \/ UncountThread(c)
  PROVE  NooksInv'
<1>0. NookTypeInv /\ NookRefsInv
  BY DEF NooksInv
<1>1. PICK k \in NookCall : k = ncalls[c] /\ k # None
  BY NookCaller DEF CountJoin, CountLeave, CountMessage, UncountThread, Waits
<1>2. /\ NookCallOK(k) /\ k.nook \in NookIds /\ k.count \in Nat /\ k.holds \subseteq MessageIds
      /\ nooksApart => NookCallHolds(k)
  BY <1>1, NookCaller
<1>3. NEnds(c) /\ UNCHANGED <<memberships, messages, hearts>>
  BY DEF CountJoin, CountLeave, CountMessage, UncountThread
<1>4. /\ Cardinality(Guests(k.nook)) \in Nat /\ Cardinality(LiveMessages(k.nook)) \in Nat
      /\ Cardinality(k.holds) \in Nat
  BY <1>0, <1>2, NookSets, FS_Subset, FS_CardinalityType, NooksAssumption
<1>5. CASE CountJoin(c)
  <2>0. k.at = "countJoin" /\ k.about = "members"
    BY <1>1, <1>2, <1>5 DEF CountJoin, Waits, NookCallOK, Joining
  <2>1. PICK v \in Nat : v = k.count + 1
    BY <1>2
  <2>2. Written(k.nook, "members_count", v)
    BY <1>1, <1>5, <2>1 DEF CountJoin
  <2>3. nooksApart => v >= Cardinality(Guests(k.nook))
    BY <1>2, <2>0, <2>1 DEF NookCallHolds, JoiningHolds
  <2> QED
    BY <1>1, <1>3, <2>0, <2>2, <2>3, WrittenOK
<1>6. CASE CountLeave(c)
  <2>0. k.at = "countLeave" /\ k.about = "members"
    BY <1>1, <1>2, <1>6 DEF CountLeave, Waits, NookCallOK, Joining
  <2>1. PICK v \in Nat : v = AtLeastZero(k.count - 1)
    BY <1>2 DEF AtLeastZero
  <2>2. Written(k.nook, "members_count", v)
    BY <1>1, <1>6, <2>1 DEF CountLeave
  <2>3. nooksApart => k.count >= Cardinality(Guests(k.nook)) + 1
    BY <1>2, <2>0 DEF NookCallHolds, JoiningHolds
  <2>4. nooksApart => v >= Cardinality(Guests(k.nook))
    BY <1>2, <1>4, <2>1, <2>3 DEF AtLeastZero
  <2> QED
    BY <1>1, <1>3, <2>0, <2>2, <2>4, WrittenOK
<1>7. CASE CountMessage(c)
  <2>0. k.at = "countMessage" /\ k.about = "messages"
    BY <1>1, <1>2, <1>7 DEF CountMessage, Waits, NookCallOK, Writing
  <2>1. PICK v \in Nat : v = k.count + 1
    BY <1>2
  <2>2. Written(k.nook, "messages_count", v)
    BY <1>1, <1>7, <2>1 DEF CountMessage
  <2>3. nooksApart => v = Cardinality(LiveMessages(k.nook))
    BY <1>2, <2>0, <2>1 DEF NookCallHolds, WritingHolds
  <2> QED
    BY <1>1, <1>3, <2>0, <2>2, <2>3, WrittenOK
<1>8. CASE UncountThread(c)
  <2>0. k.at = "uncount" /\ k.about = "messages"
    BY <1>1, <1>2, <1>8 DEF UncountThread, Waits, NookCallOK, Writing
  <2>1. PICK v \in Nat : v = AtLeastZero(k.count - Cardinality(k.holds))
    BY <1>2, <1>4 DEF AtLeastZero
  <2>2. Written(k.nook, "messages_count", v)
    BY <1>1, <1>8, <2>1 DEF UncountThread
  <2>3. nooksApart => k.count = Cardinality(LiveMessages(k.nook)) + Cardinality(k.holds)
    BY <1>2, <2>0 DEF NookCallHolds, WritingHolds
  <2>4. nooksApart => v = Cardinality(LiveMessages(k.nook))
    BY <1>2, <1>4, <2>1, <2>3 DEF AtLeastZero
  <2> QED
    BY <1>1, <1>3, <2>0, <2>2, <2>4, WrittenOK
<1> QED
  BY <1>5, <1>6, <1>7, <1>8

(* Memberships of one nook change.                                         *)
LEMMA MembershipOK ==
  ASSUME NooksInv, NEW c \in Calls, NEW k \in NookCall, k = ncalls[c], k # None,
         k.about = "members",
         NEW b \in NookCall \cup {None}, ncalls' = [ncalls EXCEPT ![c] = b],
         UNCHANGED <<nooks, messages, hearts, nooksApart>>,
         b # None => NookCallOK(b) /\ b.about = k.about /\ b.nook = k.nook /\ b.on = k.on,
         nooksApart /\ b # None => NookCallHolds(b)',
         memberships' \subseteq NookIds \X Members,
         nooks[k.nook] # None,
         \A p \in memberships' : p \in memberships \/ p[1] = k.nook,
         \A p \in memberships : p \in memberships' \/ p[1] = k.nook,
         nooksApart => \/ nooks[k.nook].members_count >= Cardinality(Guests(k.nook)')
                       \/ (b # None /\ b.at = "countJoin")
  PROVE  NooksInv'
<1>0. NookTypeInv /\ NookRefsInv
  BY DEF NooksInv
<1>1. /\ ncalls'[c] = b
      /\ k.nook \in NookIds /\ NookCallOK(k)
      /\ nooksApart => \A d \in Calls \ {c} : ncalls[d] # None => ~Clash(ncalls[d], k)
  BY <1>0, NookCaller DEF NookTypeInv
<1>2. /\ \A n : LiveMessages(n)' = LiveMessages(n)
      /\ \A m : HeartsOf(m)' = HeartsOf(m)
  BY DEF LiveMessages, HeartsOf, RowIds
<1>3. \A n : n # k.nook => Guests(n)' = Guests(n)
  BY DEF Guests
<1>4. NooksKept(k)
  BY <1>1, <1>2, <1>3 DEF NooksKept, MembersKept, MessagesKept, HeartsKept
<1>5. NookRefsInv'
  BY <1>0 DEF NookRefsInv
<1>6. /\ nooks' \in [NookIds -> NookRow \cup {None}]
      /\ messages' \in [MessageIds -> MessageRow \cup {None}]
      /\ hearts' \subseteq MessageIds \X Members
      /\ nooksApart' \in BOOLEAN
  BY <1>0 DEF NookTypeInv
<1>7. nooksApart' => MembersRight(k.nook)'
  <2>1. b # None /\ b.at = "countJoin" => InNook(k.nook, {"countJoin"})'
    BY <1>1 DEF InNook
  <2> QED
    BY <2>1 DEF MembersRight
<1>8. nooksApart' => \A d \in Calls \ {c} : ncalls[d] # None => ~Clash(ncalls[d], k)
  BY <1>1
<1> QED
  BY <1>4, <1>5, <1>6, <1>7, <1>8, NookGoesOn

LEMMA MemberStepsOK ==
  ASSUME NooksInv, NEW c \in Calls, AutoJoin(c) \/ InsertMember(c) \/ DeleteMember(c)
  PROVE  NooksInv'
<1>0. NookTypeInv /\ NookRefsInv
  BY DEF NooksInv
<1>1. PICK k \in NookCall : k = ncalls[c] /\ k # None
  BY NookCaller DEF AutoJoin, InsertMember, DeleteMember, Waits
<1>2. /\ NookCallOK(k) /\ k.nook \in NookIds /\ k.count \in Nat /\ k.user \in Members
      /\ nooksApart => NookCallHolds(k)
  BY <1>1, NookCaller
<1>3. UNCHANGED <<nooks, messages, hearts, nooksApart>>
  BY DEF AutoJoin, InsertMember, DeleteMember, NEnds, NGoes
<1>4. k.at \in {"autoJoin", "insertMember", "leave"} /\ k.about = "members"
      /\ k.at \notin {"countMessage", "uncount", "countJoin", "countHeart", "readCount"} \cup Removing
  BY <1>1, <1>2 DEF AutoJoin, InsertMember, DeleteMember, Waits, NookCallOK, Joining, Removing
<1>5. PICK z \in NookCall \cup {None} : z = None
  OBVIOUS
<1>6. PICK e : e = <<k.nook, k.user>>
  OBVIOUS
<1>7. e \in NookIds \X Members /\ e[1] = k.nook /\ e[2] = k.user
  BY <1>2, <1>6
<1>8. PICK G : G = Guests(k.nook)
  OBVIOUS
<1>9. IsFiniteSet(G) /\ Cardinality(G) \in Nat
  BY <1>0, <1>8, NookSets
<1>a. nooksApart => nooks[k.nook].members_count >= Cardinality(G)
  <2> SUFFICES ASSUME nooksApart PROVE nooks[k.nook].members_count >= Cardinality(G)
    OBVIOUS
  <2>1. nooks[k.nook] # None /\ NooksApartInv
    BY <1>2 DEF NookCallHolds, NooksInv
  <2>2. ~InNook(k.nook, {"countJoin"})
    <3> SUFFICES ASSUME NEW d \in Calls, ncalls[d] # None, ncalls[d].nook = k.nook, ncalls[d].at = "countJoin"
                 PROVE  FALSE
      BY DEF InNook
    <3>1. ncalls[d].about = "members" /\ d # c
      BY <1>1, <1>4 DEF NooksInv, NookCallOK, Joining
    <3>2. ~Clash(ncalls[d], k)
      BY <1>1, <2>1, <3>1 DEF NooksApartInv
    <3> QED
      BY <1>4, <3>1, <3>2 DEF Clash
  <2> QED
    BY <1>2, <1>8, <2>1, <2>2 DEF NooksApartInv, MembersRight
<1>b. CASE ncalls' = [ncalls EXCEPT ![c] = None] /\ memberships' = memberships
  BY <1>1, <1>3, <1>4, <1>5, <1>b, NookRests
<1>c. CASE AutoJoin(c) /\ nooks[k.nook] # None
  <2>0. k.at = "autoJoin" /\ memberships' = memberships \cup {e} /\ ncalls' = [ncalls EXCEPT ![c] = z]
    BY <1>1, <1>5, <1>6, <1>c DEF AutoJoin, Waits, NEnds
  <2>1. memberships' \subseteq NookIds \X Members
    BY <1>0, <1>7, <2>0 DEF NookTypeInv
  <2>2. nooksApart => nooks[k.nook].members_count >= Cardinality(Guests(k.nook)')
    <3> SUFFICES ASSUME nooksApart PROVE nooks[k.nook].members_count >= Cardinality(Guests(k.nook)')
      OBVIOUS
    <3>1. k.user = nooks[k.nook].creator
      BY <1>2, <1>4, <2>0 DEF NookCallHolds, JoiningHolds
    <3>2. Guests(k.nook)' = G
      BY <1>3, <1>7, <1>8, <2>0, <3>1 DEF Guests
    <3> QED
      BY <1>a, <3>2
  <2> QED
    BY <1>1, <1>3, <1>4, <1>5, <1>7, <1>c, <2>0, <2>1, <2>2, MembershipOK
<1>d. CASE InsertMember(c) /\ memberships' # memberships
  <2>0. /\ k.at = "insertMember" /\ nooks[k.nook] # None /\ memberships' = memberships \cup {e}
        /\ NGoes(c, "countJoin")
    BY <1>1, <1>6, <1>d DEF InsertMember, Waits
  <2>1. memberships' \subseteq NookIds \X Members
    BY <1>0, <1>7, <2>0 DEF NookTypeInv
  <2>2. PICK b : b = [k EXCEPT !.at = "countJoin"]
    OBVIOUS
  <2>3. /\ b \in NookCall /\ b # None /\ b.at = "countJoin" /\ b.about = k.about /\ b.nook = k.nook
        /\ b.on = k.on /\ b.count = k.count
    <3>1. "countJoin" \in Joining \cup Writing \cup Liking \cup Removing
      BY DEF Joining
    <3> QED
      BY <2>2, <3>1, NookStage
  <2>4. ncalls' = [ncalls EXCEPT ![c] = b]
    BY <1>1, <2>0, <2>2 DEF NGoes
  <2>5. NookCallOK(b)
    BY <1>4, <2>3 DEF NookCallOK, Joining, Writing, Liking, Removing
  <2>6. nooksApart => NookCallHolds(b)'
    <3> SUFFICES ASSUME nooksApart PROVE NookCallHolds(b)'
      OBVIOUS
    <3>1. Guests(k.nook)' = G \cup {e} \/ Guests(k.nook)' = G
      BY <1>3, <1>7, <1>8, <2>0 DEF Guests
    <3>2. Cardinality(Guests(k.nook)') <= Cardinality(G) + 1
      BY <1>9, <3>1, FS_AddElement
    <3>3. Cardinality(Guests(k.nook)') \in Nat
      BY <1>9, <3>1, FS_AddElement
    <3>4. k.count = nooks[k.nook].members_count
      BY <1>2, <1>4, <2>0 DEF NookCallHolds, JoiningHolds, Joining
    <3>5. b.count + 1 >= Cardinality(Guests(b.nook)')
      BY <1>2, <1>9, <1>a, <2>3, <3>2, <3>3, <3>4
    <3> QED
      BY <1>3, <1>4, <2>0, <2>3, <3>4, <3>5 DEF NookCallHolds, JoiningHolds
  <2> QED
    BY <1>1, <1>3, <1>4, <1>7, <2>0, <2>1, <2>3, <2>4, <2>5, <2>6, MembershipOK
<1>e. CASE DeleteMember(c) /\ memberships' # memberships
  <2>0. /\ k.at = "leave" /\ e \in memberships /\ memberships' = memberships \ {e}
        /\ NGoes(c, "countLeave")
    BY <1>1, <1>6, <1>e DEF DeleteMember, Waits
  <2>1. memberships' \subseteq NookIds \X Members /\ nooks[k.nook] # None
    BY <1>0, <1>7, <2>0 DEF NookTypeInv, NookRefsInv
  <2>2. PICK b : b = [k EXCEPT !.at = "countLeave"]
    OBVIOUS
  <2>3. /\ b \in NookCall /\ b # None /\ b.at = "countLeave" /\ b.about = k.about /\ b.nook = k.nook
        /\ b.on = k.on /\ b.count = k.count
    <3>1. "countLeave" \in Joining \cup Writing \cup Liking \cup Removing
      BY DEF Joining
    <3> QED
      BY <2>2, <3>1, NookStage
  <2>4. ncalls' = [ncalls EXCEPT ![c] = b]
    BY <1>1, <2>0, <2>2 DEF NGoes
  <2>5. NookCallOK(b)
    BY <1>4, <2>3 DEF NookCallOK, Joining, Writing, Liking, Removing
  <2>6. ASSUME nooksApart PROVE NookCallHolds(b)' /\ nooks[k.nook].members_count >= Cardinality(Guests(k.nook)')
    <3>0. k.count = nooks[k.nook].members_count /\ k.user # nooks[k.nook].creator
      BY <1>2, <1>4, <2>0, <2>6 DEF NookCallHolds, JoiningHolds, Joining
    <3>1. Guests(k.nook)' = G \ {e} /\ e \in G
      BY <1>3, <1>7, <1>8, <2>0, <3>0 DEF Guests
    <3>2. Cardinality(Guests(k.nook)') = Cardinality(G) - 1
      BY <1>9, <3>1, FS_RemoveElement
    <3>5. b.count >= Cardinality(Guests(b.nook)') + 1 /\ nooks[k.nook].members_count >= Cardinality(Guests(k.nook)')
      BY <1>2, <1>9, <1>a, <2>3, <2>6, <3>0, <3>2
    <3> QED
      BY <1>3, <1>4, <2>1, <2>3, <3>0, <3>5 DEF NookCallHolds, JoiningHolds
  <2> QED
    BY <1>1, <1>3, <1>4, <1>7, <2>0, <2>1, <2>3, <2>4, <2>5, <2>6, MembershipOK
<1>f. \/ AutoJoin(c) /\ nooks[k.nook] = None
      \/ InsertMember(c) /\ memberships' = memberships
      \/ DeleteMember(c) /\ memberships' = memberships
      => ncalls' = [ncalls EXCEPT ![c] = None] /\ memberships' = memberships
  BY <1>1, <1>6 DEF AutoJoin, InsertMember, DeleteMember, NEnds
<1> QED
  BY <1>b, <1>c, <1>d, <1>e, <1>f

(* Messages of one nook change, and no reaction.                           *)
LEMMA MessagesChange ==
  ASSUME NooksInv, NEW c \in Calls, NEW k \in NookCall, k = ncalls[c], k # None,
         k.about = "messages",
         NEW b \in NookCall, ncalls' = [ncalls EXCEPT ![c] = b],
         UNCHANGED <<nooks, memberships, hearts, nooksApart>>,
         NookCallOK(b) /\ b.about = k.about /\ b.nook = k.nook /\ b.on = k.on,
         b.at \in {"countMessage", "readCount"},
         nooksApart => NookCallHolds(b)',
         messages' \in [MessageIds -> MessageRow \cup {None}],
         NookRefsInv',
         \A m \in MessageIds : messages[m] # None =>
           /\ messages'[m] # None
           /\ messages'[m].nook = messages[m].nook
           /\ messages'[m].count = messages[m].count,
         \A m \in MessageIds : messages[m] = None /\ messages'[m] # None =>
           messages'[m].nook = k.nook /\ messages'[m].count = 0,
         nooksApart => \A n \in NookIds : n # k.nook => LiveMessages(n)' = LiveMessages(n)
  PROVE  NooksInv'
<1>0. NookTypeInv /\ NookRefsInv /\ b # None
  BY NooksAssumption DEF NooksInv
<1>1. /\ ncalls'[c] = b /\ k.nook \in NookIds
      /\ nooksApart => \A d \in Calls \ {c} : ncalls[d] # None => ~Clash(ncalls[d], k)
      /\ nooksApart => nooks[k.nook] # None
  BY <1>0, NookCaller DEF NookTypeInv, NookCallHolds
<1>2. /\ \A m : HeartsOf(m)' = HeartsOf(m)
      /\ \A n : Guests(n)' = Guests(n)
  BY DEF HeartsOf, Guests
<1>3. \A m \in MessageIds : messages[m] = None => HeartsOf(m) = {}
  BY <1>0 DEF NookRefsInv, HeartsOf
<1>4. nooksApart => NooksKept(k)
  BY <1>1, <1>2, <1>3 DEF NooksKept, MembersKept, MessagesKept, HeartsKept
<1>5. /\ nooks' \in [NookIds -> NookRow \cup {None}]
      /\ memberships' \subseteq NookIds \X Members
      /\ hearts' \subseteq MessageIds \X Members
      /\ nooksApart' \in BOOLEAN
  BY <1>0 DEF NookTypeInv
<1>6. MessagesRight(k.nook)'
  <2>1. InNook(k.nook, {"countMessage", "readCount", "uncount", "deleteNook"})'
    BY <1>0, <1>1 DEF InNook
  <2> QED
    BY <2>1 DEF MessagesRight
<1>7. nooksApart' => \A d \in Calls \ {c} : ncalls[d] # None => ~Clash(ncalls[d], k)
  BY <1>1
<1>8. nooksApart' => NooksKept(k)
  BY <1>4
<1>9. nooksApart' /\ nooks'[k.nook] # None =>
        (k.about \in {"members", "nook"} \/ nooks[k.nook] = None => MembersRight(k.nook)')
  BY <1>1
<1> QED
  BY <1>0, <1>5, <1>6, <1>7, <1>8, <1>9, NookGoesOn

LEMMA InsertMessageOK ==
  ASSUME NooksInv, NEW c \in Calls, InsertMessage(c)
  PROVE  NooksInv'
<1>0. NookTypeInv /\ NookRefsInv
  BY DEF NooksInv
<1>1. PICK k \in NookCall : k = ncalls[c] /\ k # None /\ k.at = "insertMessage"
  BY NookCaller DEF InsertMessage, Waits
<1>2. /\ NookCallOK(k) /\ k.nook \in NookIds /\ k.count \in Nat /\ k.user \in Members
      /\ k.on \in MessageIds \cup {None} /\ k.about = "messages"
      /\ nooksApart => NookCallHolds(k)
  BY <1>1, NookCaller DEF NookCallOK, Writing
<1>3. UNCHANGED <<nooks, memberships, hearts, nooksApart>>
  BY DEF InsertMessage, NEnds, NGoes
<1>4. CASE NEnds(c) /\ UNCHANGED messages
  <2>1. PICK b \in NookCall \cup {None} : b = None
    OBVIOUS
  <2>2. ncalls' = [ncalls EXCEPT ![c] = b]
    BY <1>4, <2>1 DEF NEnds
  <2>3. k.at \notin {"countMessage", "uncount", "countJoin", "countHeart", "readCount"} \cup Removing
    BY <1>1 DEF Removing
  <2> QED
    BY <1>1, <1>3, <1>4, <2>1, <2>2, <2>3, NookRests
<1>5. CASE ~(NEnds(c) /\ UNCHANGED messages)
  <2>1. PICK m \in MessageIds :
          /\ UnusedMessage(m)
          /\ messages' = [messages EXCEPT ![m] =
               [nook |-> k.nook, author |-> k.user, parent |-> k.on, is_deleted |-> FALSE, count |-> 0]]
          /\ NGoes(c, "countMessage")
    BY <1>1, <1>5 DEF InsertMessage
  <2>2. /\ nooks[k.nook] # None
        /\ k.on # None => messages[k.on] # None /\ messages[k.on].nook = k.nook
    BY <1>1, <1>5 DEF InsertMessage
  <2>3. PICK r : r = [nook |-> k.nook, author |-> k.user, parent |-> k.on, is_deleted |-> FALSE, count |-> 0]
    OBVIOUS
  <2>4. /\ r \in MessageRow /\ r.nook = k.nook /\ r.parent = k.on /\ ~r.is_deleted /\ r.count = 0
    BY <1>2, <2>3 DEF MessageRow
  <2>5. /\ r # None /\ messages[m] = None /\ messages' = [messages EXCEPT ![m] = r]
    BY <2>1, <2>3, <2>4, NooksAssumption DEF UnusedMessage
  <2>6. /\ messages' \in [MessageIds -> MessageRow \cup {None}] /\ messages'[m] = r
        /\ \A x \in MessageIds : x # m => messages'[x] = messages[x]
    BY <1>0, <2>4, <2>5 DEF NookTypeInv
  <2>7. NookRefsInv'
    <3>1. \A x \in MessageIds : messages[x] # None =>
             messages[x].parent \in MessageIds \cup {None}
      BY <1>0 DEF NookTypeInv, MessageRow
    <3>2. \A h \in hearts : h[1] \in MessageIds
      BY <1>0 DEF NookTypeInv
    <3>3. \A x \in MessageIds : messages[x] # None /\ messages[x].parent # None => messages[x].parent # m
      BY <1>0, <2>5 DEF NookRefsInv
    <3>4. k.on # None => k.on \in MessageIds /\ k.on # m
      BY <1>2, <2>2, <2>5
    <3> QED
      BY <1>0, <1>3, <2>2, <2>4, <2>5, <2>6, <3>1, <3>2, <3>3, <3>4, NooksAssumption DEF NookRefsInv
  <2>8. PICK b : b = [k EXCEPT !.at = "countMessage"]
    OBVIOUS
  <2>9. /\ b \in NookCall /\ b # None /\ b.at = "countMessage" /\ b.about = k.about /\ b.nook = k.nook
        /\ b.on = k.on /\ b.count = k.count
    <3>1. "countMessage" \in Joining \cup Writing \cup Liking \cup Removing
      BY DEF Writing
    <3> QED
      BY <2>8, <3>1, NookStage
  <2>a. ncalls' = [ncalls EXCEPT ![c] = b]
    BY <1>1, <2>1, <2>8 DEF NGoes
  <2>b. NookCallOK(b)
    BY <1>2, <2>9 DEF NookCallOK, Joining, Writing, Liking, Removing
  <2>c. /\ LiveMessages(k.nook)' = LiveMessages(k.nook) \cup {m}
        /\ m \notin LiveMessages(k.nook)
        /\ \A n : n # k.nook => LiveMessages(n)' = LiveMessages(n)
    BY <1>0, <2>4, <2>5, <2>6 DEF LiveMessages, RowIds, NookTypeInv
  <2>d. nooksApart => NookCallHolds(b)'
    <3> SUFFICES ASSUME nooksApart PROVE NookCallHolds(b)'
      OBVIOUS
    <3>0. IsFiniteSet(LiveMessages(k.nook)) /\ Cardinality(LiveMessages(k.nook)) \in Nat
      BY <1>0, NookSets
    <3>1. Cardinality(LiveMessages(k.nook)') = Cardinality(LiveMessages(k.nook)) + 1
      BY <2>c, <3>0, FS_AddElement
    <3>2. k.count = nooks[k.nook].messages_count
      BY <1>1, <1>2 DEF NookCallHolds, WritingHolds
    <3>3. nooks[k.nook].messages_count = Cardinality(LiveMessages(k.nook))
      <4>1. NooksApartInv
        BY DEF NooksInv
      <4>2. ~InNook(k.nook, {"countMessage", "readCount", "uncount", "deleteNook"})
        <5> SUFFICES ASSUME NEW d \in Calls, ncalls[d] # None, ncalls[d].nook = k.nook,
                            ncalls[d].at \in {"countMessage", "readCount", "uncount", "deleteNook"}
                     PROVE  FALSE
          BY DEF InNook
        <5>1. ncalls[d].about \in {"messages", "nook"} /\ d # c
          BY <1>1 DEF NooksInv, NookCallOK, Writing, Removing
        <5>2. ~Clash(ncalls[d], k)
          BY <1>1, <4>1, <5>1 DEF NooksApartInv
        <5> QED
          BY <1>2, <5>1, <5>2 DEF Clash
      <4> QED
        BY <1>2, <2>2, <4>1, <4>2 DEF NooksApartInv, MessagesRight
    <3>4. Cardinality(LiveMessages(b.nook)') = b.count + 1
      BY <2>9, <3>1, <3>2, <3>3
    <3> QED
      BY <1>2, <1>3, <2>2, <2>9, <3>2, <3>4 DEF NookCallHolds, WritingHolds
  <2>e. b.at \in {"countMessage", "readCount"}
    BY <2>9
  <2>f. /\ \A x \in MessageIds : messages[x] # None =>
             /\ messages'[x] # None
             /\ messages'[x].nook = messages[x].nook
             /\ messages'[x].count = messages[x].count
        /\ \A x \in MessageIds : messages[x] = None /\ messages'[x] # None =>
             messages'[x].nook = k.nook /\ messages'[x].count = 0
    BY <2>4, <2>5, <2>6
  <2>g. /\ nooksApart => \A n \in NookIds : n # k.nook => LiveMessages(n)' = LiveMessages(n)
        /\ NookCallOK(b) /\ b.about = k.about /\ b.nook = k.nook /\ b.on = k.on
    BY <2>9, <2>b, <2>c
  <2> QED
    BY <1>1, <1>2, <1>3, <2>6, <2>7, <2>9, <2>a, <2>d, <2>e, <2>f, <2>g, MessagesChange
<1> QED
  BY <1>4, <1>5

LEMMA NookSoftDeleteOK ==
  ASSUME NooksInv, NEW c \in Calls, SoftDelete(c)
  PROVE  NooksInv'
<1>0. NookTypeInv /\ NookRefsInv
  BY DEF NooksInv
<1>1. PICK k \in NookCall : k = ncalls[c] /\ k # None /\ k.at = "softDelete"
  BY NookCaller DEF SoftDelete, Waits
<1>2. /\ NookCallOK(k) /\ k.nook \in NookIds /\ k.holds \subseteq MessageIds /\ k.about = "messages"
      /\ nooksApart => NookCallHolds(k)
  BY <1>1, NookCaller DEF NookCallOK, Writing
<1>3. UNCHANGED <<nooks, memberships, hearts, nooksApart>>
  BY DEF SoftDelete, NGoes
<1>4. ASSUME NEW m \in MessageIds
      PROVE  /\ messages'[m] \in MessageRow \cup {None}
             /\ messages'[m] # None <=> messages[m] # None
             /\ messages[m] # None =>
                  /\ messages'[m].nook = messages[m].nook
                  /\ messages'[m].count = messages[m].count
                  /\ messages'[m].parent = messages[m].parent
                  /\ messages'[m].is_deleted <=> messages[m].is_deleted \/ m \in k.holds
  <2>1. CASE messages[m] = None
    BY <1>1, <2>1 DEF SoftDelete, RowIds
  <2>2. CASE messages[m] # None
    <3>1. PICK q \in MessageRow : q = messages[m]
      BY <1>0, <2>2 DEF NookTypeInv
    <3>2. PICK r : r = [q EXCEPT !.is_deleted = TRUE]
      OBVIOUS
    <3>3. /\ r \in MessageRow /\ r.nook = q.nook /\ r.count = q.count /\ r.parent = q.parent /\ r.is_deleted
      BY <3>2 DEF MessageRow
    <3>4. messages'[m] = IF m \in k.holds THEN r ELSE q
      BY <1>0, <1>1, <2>2, <3>1, <3>2 DEF SoftDelete, RowIds, NookTypeInv
    <3>5. r # None /\ q # None
      BY <3>1, <3>3, NooksAssumption
    <3> QED
      BY <3>1, <3>3, <3>4, <3>5
  <2> QED
    BY <2>1, <2>2
<1>5. messages' \in [MessageIds -> MessageRow \cup {None}]
  <2>1. messages' = [m \in MessageIds |-> messages'[m]]
    BY DEF SoftDelete
  <2> QED
    BY <1>4, <2>1
<1>6. NookRefsInv'
  <2>1. \A x \in MessageIds : messages[x] # None =>
           messages[x].parent \in MessageIds \cup {None}
    BY <1>0 DEF NookTypeInv, MessageRow
  <2>2. \A h \in hearts : h[1] \in MessageIds
    BY <1>0 DEF NookTypeInv
  <2> QED
    BY <1>0, <1>3, <1>4, <2>1, <2>2 DEF NookRefsInv
<1>7. PICK b : b = [k EXCEPT !.at = "readCount"]
  OBVIOUS
<1>8. /\ b \in NookCall /\ b # None /\ b.at = "readCount" /\ b.about = k.about /\ b.nook = k.nook
      /\ b.on = k.on /\ b.holds = k.holds
  <2>1. "readCount" \in Joining \cup Writing \cup Liking \cup Removing
    BY DEF Writing
  <2> QED
    BY <1>7, <2>1, NookStage
<1>9. ncalls' = [ncalls EXCEPT ![c] = b]
  BY <1>1, <1>7 DEF SoftDelete, NGoes
<1>a. NookCallOK(b)
  BY <1>2, <1>8 DEF NookCallOK, Joining, Writing, Liking, Removing
<1>b. \A n : LiveMessages(n)' = LiveMessages(n) \ k.holds
  BY <1>0, <1>4, <1>5 DEF LiveMessages, RowIds, NookTypeInv
<1>c. ASSUME nooksApart
      PROVE  /\ NookCallHolds(b)'
             /\ \A n \in NookIds : n # k.nook => LiveMessages(n)' = LiveMessages(n)
  <2>1. k.holds \subseteq LiveMessages(k.nook) /\ nooks[k.nook] # None
    BY <1>1, <1>2, <1>c DEF NookCallHolds, WritingHolds
  <2>2. \A n : n # k.nook => LiveMessages(n) \cap k.holds = {}
    BY <2>1 DEF LiveMessages
  <2>3. NooksApartInv
    BY <1>c DEF NooksInv
  <2>4. ~InNook(k.nook, {"countMessage", "readCount", "uncount", "deleteNook"})
    <3> SUFFICES ASSUME NEW d \in Calls, ncalls[d] # None, ncalls[d].nook = k.nook,
                        ncalls[d].at \in {"countMessage", "readCount", "uncount", "deleteNook"}
                 PROVE  FALSE
      BY DEF InNook
    <3>1. ncalls[d].about \in {"messages", "nook"} /\ d # c
      BY <1>1 DEF NooksInv, NookCallOK, Writing, Removing
    <3>2. ~Clash(ncalls[d], k)
      BY <1>1, <2>3, <3>1 DEF NooksApartInv
    <3> QED
      BY <1>2, <3>1, <3>2 DEF Clash
  <2>5. nooks[k.nook].messages_count = Cardinality(LiveMessages(k.nook))
    BY <1>2, <2>1, <2>3, <2>4 DEF NooksApartInv, MessagesRight
  <2>6. PICK L : L = LiveMessages(k.nook)
    OBVIOUS
  <2>7. IsFiniteSet(L) /\ Cardinality(L) \in Nat /\ k.holds \subseteq L
    BY <1>0, <2>1, <2>6, NookSets
  <2>8. L = (L \ k.holds) \cup k.holds /\ (L \ k.holds) \cap k.holds = {}
    BY <2>7
  <2>9. IsFiniteSet(k.holds) /\ IsFiniteSet(L \ k.holds)
        /\ Cardinality(k.holds) \in Nat /\ Cardinality(L \ k.holds) \in Nat
    BY <2>7, FS_Subset, FS_CardinalityType
  <2>a. Cardinality(L) = Cardinality(L \ k.holds) + Cardinality(k.holds)
    <3>1. PICK M : M = L \ k.holds
      OBVIOUS
    <3>2. Cardinality(M \cup k.holds) = Cardinality(M) + Cardinality(k.holds) - Cardinality(M \cap k.holds)
      BY <2>9, <3>1, FS_Union
    <3>3. Cardinality(M \cap k.holds) = 0
      BY <2>8, <3>1, FS_EmptySet
    <3>4. M \cup k.holds = L
      BY <2>8, <3>1
    <3>5. Cardinality(M) \in Nat
      BY <2>9, <3>1
    <3>6. Cardinality(L) = Cardinality(M) + Cardinality(k.holds)
      <4>1. Cardinality(L) = Cardinality(M) + Cardinality(k.holds) - 0
        BY <3>2, <3>3, <3>4, Zenon
      <4>2. PICK x \in Nat, y \in Nat : x = Cardinality(M) /\ y = Cardinality(k.holds)
        BY <2>9, <3>5
      <4> QED
        BY <4>1, <4>2
    <3> QED
      BY <3>1, <3>6
  <2>b. nooks[b.nook].messages_count = Cardinality(LiveMessages(b.nook)') + Cardinality(b.holds)
    BY <1>8, <1>b, <2>5, <2>6, <2>a
  <2> QED
    BY <1>2, <1>3, <1>8, <1>b, <2>1, <2>2, <2>b DEF NookCallHolds, WritingHolds
<1>d. b.at \in {"countMessage", "readCount"}
  BY <1>8
<1>e. /\ \A m \in MessageIds : messages[m] # None =>
           /\ messages'[m] # None
           /\ messages'[m].nook = messages[m].nook
           /\ messages'[m].count = messages[m].count
      /\ \A m \in MessageIds : messages[m] = None /\ messages'[m] # None =>
           messages'[m].nook = k.nook /\ messages'[m].count = 0
  BY <1>4
<1> QED
  BY <1>1, <1>2, <1>3, <1>5, <1>6, <1>8, <1>9, <1>a, <1>c, <1>d, <1>e, MessagesChange

(* A reaction is counted, or about to be.                                  *)
LEMMA HeartsAddUp ==
  ASSUME NooksInv, NEW c \in Calls, NEW k \in NookCall, k = ncalls[c], k # None,
         k.at = "writeHeart", nooksApart
  PROVE  messages[k.on].count = Cardinality(HeartsOf(k.on))
<1>1. /\ k.about = "hearts" /\ k.on \in MessageIds /\ messages[k.on] # None
      /\ messages[k.on].nook = k.nook /\ NooksApartInv
  BY NookCaller DEF NookCallOK, Liking, NookCallHolds, LikingHolds, NooksInv
<1>2. ~OnMessage(k.on)
  <2> SUFFICES ASSUME NEW d \in Calls, ncalls[d] # None, ncalls[d].on = k.on, ncalls[d].at = "countHeart"
               PROVE  FALSE
    BY DEF OnMessage
  <2>1. ncalls[d].about = "hearts" /\ d # c
    BY DEF NooksInv, NookCallOK, Liking
  <2>2. ncalls[d].nook = k.nook
    BY <1>1, <2>1 DEF NooksApartInv, NookCallHolds, LikingHolds
  <2>3. ~Clash(ncalls[d], k)
    BY <1>1, <2>1 DEF NooksApartInv
  <2> QED
    BY <1>1, <2>1, <2>2, <2>3 DEF Clash
<1> QED
  BY <1>1, <1>2 DEF NooksApartInv, HeartsRight

LEMMA WriteHeartOK ==
  ASSUME NooksInv, NEW c \in Calls, WriteHeart(c)
  PROVE  NooksInv'
<1>0. NookTypeInv /\ NookRefsInv
  BY DEF NooksInv
<1>1. PICK k \in NookCall : k = ncalls[c] /\ k # None /\ k.at = "writeHeart"
  BY NookCaller DEF WriteHeart, Waits
<1>2. /\ NookCallOK(k) /\ k.nook \in NookIds /\ k.count \in Nat /\ k.user \in Members
      /\ k.on \in MessageIds /\ k.about = "hearts" /\ k.liked \in BOOLEAN
      /\ nooksApart => NookCallHolds(k)
      /\ nooksApart => \A d \in Calls \ {c} : ncalls[d] # None => ~Clash(ncalls[d], k)
  BY <1>1, NookCaller DEF NookCallOK, Liking
<1>3. UNCHANGED <<nooks, memberships, messages, nooksApart>>
  BY DEF WriteHeart, NEnds, NGoes
<1>4. CASE NEnds(c) /\ UNCHANGED hearts
  <2>1. PICK b \in NookCall \cup {None} : b = None
    OBVIOUS
  <2>2. ncalls' = [ncalls EXCEPT ![c] = b]
    BY <1>4, <2>1 DEF NEnds
  <2>3. k.at \notin {"countMessage", "uncount", "countJoin", "countHeart", "readCount"} \cup Removing
    BY <1>1 DEF Removing
  <2> QED
    BY <1>1, <1>3, <1>4, <2>1, <2>2, <2>3, NookRests
<1>5. CASE ~(NEnds(c) /\ UNCHANGED hearts)
  <2>1. PICK e : e = <<k.on, k.user>>
    OBVIOUS
  <2>2. e \in MessageIds \X Members /\ e[1] = k.on
    BY <1>2, <2>1
  <2>3. /\ NGoes(c, "countHeart")
        /\ k.liked => hearts' = hearts \ {e}
        /\ ~k.liked => hearts' = hearts \cup {e} /\ e \notin hearts /\ messages[k.on] # None
    BY <1>1, <1>5, <2>1 DEF WriteHeart
  <2>4. PICK b : b = [k EXCEPT !.at = "countHeart"]
    OBVIOUS
  <2>5. /\ b \in NookCall /\ b # None /\ b.at = "countHeart" /\ b.about = k.about /\ b.nook = k.nook
        /\ b.on = k.on /\ b.count = k.count /\ b.liked = k.liked
    <3>1. "countHeart" \in Joining \cup Writing \cup Liking \cup Removing
      BY DEF Liking
    <3> QED
      BY <2>4, <3>1, NookStage
  <2>6. ncalls' = [ncalls EXCEPT ![c] = b] /\ ncalls'[c] = b
    BY <1>0, <1>1, <2>3, <2>4 DEF NGoes, NookTypeInv
  <2>7. NookCallOK(b)
    BY <1>2, <2>5 DEF NookCallOK, Joining, Writing, Liking, Removing
  <2>8. hearts' \subseteq MessageIds \X Members
    BY <1>0, <1>2, <2>2, <2>3 DEF NookTypeInv
  <2>9. NookRefsInv'
    BY <1>0, <1>3, <2>2, <2>3 DEF NookRefsInv
  <2>a. /\ \A n : LiveMessages(n)' = LiveMessages(n)
        /\ \A n : Guests(n)' = Guests(n)
        /\ \A m : m # k.on => HeartsOf(m)' = HeartsOf(m)
    BY <1>2, <1>3, <2>2, <2>3 DEF LiveMessages, Guests, HeartsOf, RowIds
  <2>b. NooksKept(k)
    BY <1>2, <1>3, <2>a DEF NooksKept, MembersKept, MessagesKept, HeartsKept
  <2>c. ASSUME nooksApart PROVE NookCallHolds(b)' /\ HeartsRight(k.on)'
    <3>1. LikingHolds(k) /\ nooks[k.nook] # None
      BY <1>2, <2>c DEF NookCallHolds
    <3>2. PICK H : H = HeartsOf(k.on)
      OBVIOUS
    <3>3. /\ IsFiniteSet(H) /\ Cardinality(H) \in Nat /\ k.count = Cardinality(H)
      BY <1>0, <1>1, <2>c, <3>1, <3>2, NookSets, HeartsAddUp DEF LikingHolds
    <3>4. /\ k.liked => HeartsOf(k.on)' = H \ {e} /\ e \in H
          /\ ~k.liked => HeartsOf(k.on)' = H \cup {e} /\ e \notin H
      BY <1>1, <1>2, <2>1, <2>2, <2>3, <3>1, <3>2 DEF HeartsOf, LikingHolds
    <3>5. /\ k.liked => Cardinality(HeartsOf(k.on)') = Cardinality(H) - 1
          /\ ~k.liked => Cardinality(HeartsOf(k.on)') = Cardinality(H) + 1
      BY <3>3, <3>4, FS_AddElement, FS_RemoveElement
    <3>6. LikingHolds(b)'
      <4>1. /\ k.liked => b.count = Cardinality(HeartsOf(b.on)') + 1
            /\ ~k.liked => b.count + 1 = Cardinality(HeartsOf(b.on)')
        BY <2>5, <3>3, <3>5
      <4> QED
        BY <1>1, <1>3, <2>5, <3>1, <4>1 DEF LikingHolds
    <3>7. OnMessage(k.on)'
      BY <2>5, <2>6 DEF OnMessage
    <3>8. messages'[k.on].nook # None
      BY <1>2, <1>3, <3>1, NooksAssumption DEF LikingHolds
    <3> QED
      BY <1>2, <1>3, <2>5, <3>1, <3>6, <3>7, <3>8 DEF NookCallHolds, HeartsRight
  <2>d. nooksApart => messages[k.on] # None /\ messages[k.on].nook = k.nook /\ nooks[k.nook] # None
    BY <1>2 DEF NookCallHolds, LikingHolds
  <2>e. /\ nooks' \in [NookIds -> NookRow \cup {None}]
        /\ memberships' \subseteq NookIds \X Members
        /\ messages' \in [MessageIds -> MessageRow \cup {None}]
        /\ nooksApart' \in BOOLEAN
    BY <1>0, <1>3 DEF NookTypeInv
  <2>f. /\ nooksApart' => \A d \in Calls \ {c} : ncalls[d] # None => ~Clash(ncalls[d], k)
        /\ nooksApart' => nooksApart
        /\ nooksApart' => nooks[k.nook] # None /\ k.about \notin {"members", "messages", "nook"}
    BY <1>2, <1>3, <2>d
  <2>g. NookCallOK(b) /\ b.about = k.about /\ b.nook = k.nook /\ b.on = k.on
    BY <2>5, <2>7
  <2> QED
    BY <1>1, <1>3, <2>5, <2>6, <2>8, <2>9, <2>b, <2>c, <2>d, <2>e, <2>f, <2>g, NookGoesOn
<1> QED
  BY <1>4, <1>5

LEMMA CountHeartOK ==
  ASSUME NooksInv, NEW c \in Calls, CountHeart(c)
  PROVE  NooksInv'
<1>0. NookTypeInv /\ NookRefsInv
  BY DEF NooksInv
<1>1. PICK k \in NookCall : k = ncalls[c] /\ k # None /\ k.at = "countHeart"
  BY NookCaller DEF CountHeart, Waits
<1>2. /\ NookCallOK(k) /\ k.nook \in NookIds /\ k.count \in Nat
      /\ k.on \in MessageIds /\ k.about = "hearts" /\ k.liked \in BOOLEAN
      /\ nooksApart => NookCallHolds(k)
      /\ nooksApart => \A d \in Calls \ {c} : ncalls[d] # None => ~Clash(ncalls[d], k)
  BY <1>1, NookCaller DEF NookCallOK, Liking
<1>3. UNCHANGED <<nooks, memberships, hearts, nooksApart>>
  BY DEF CountHeart, NEnds
<1>4. PICK b \in NookCall \cup {None} : b = None
  OBVIOUS
<1>5. ncalls' = [ncalls EXCEPT ![c] = b]
  BY <1>4 DEF CountHeart, NEnds
<1>6. PICK v \in Nat : v = AtLeastZero(k.count + (IF k.liked THEN -1 ELSE 1))
  <2>1. PICK x \in Int : x = k.count + (IF k.liked THEN -1 ELSE 1)
    BY <1>2
  <2> QED
    BY <2>1 DEF AtLeastZero
<1>7. /\ messages' \in [MessageIds -> MessageRow \cup {None}]
      /\ \A m \in MessageIds : m # k.on => messages'[m] = messages[m]
      /\ messages'[k.on] # None <=> messages[k.on] # None
      /\ messages[k.on] # None =>
           /\ messages'[k.on].nook = messages[k.on].nook
           /\ messages'[k.on].parent = messages[k.on].parent
           /\ messages'[k.on].is_deleted = messages[k.on].is_deleted
           /\ messages'[k.on].count = v
  <2>1. CASE messages[k.on] = None
    BY <1>0, <1>1, <2>1 DEF CountHeart, NookTypeInv
  <2>2. CASE messages[k.on] # None
    <3>1. PICK q \in MessageRow : q = messages[k.on]
      BY <1>0, <1>2, <2>2 DEF NookTypeInv
    <3>2. PICK r : r = [q EXCEPT !.count = v]
      OBVIOUS
    <3>3. /\ r \in MessageRow /\ r.nook = q.nook /\ r.parent = q.parent /\ r.is_deleted = q.is_deleted
          /\ r.count = v
      BY <3>2 DEF MessageRow
    <3>4. messages' = [messages EXCEPT ![k.on] = r] /\ r # None
      BY <1>1, <1>6, <2>2, <3>1, <3>2, <3>3, NooksAssumption DEF CountHeart
    <3> QED
      BY <1>0, <1>2, <2>2, <3>1, <3>3, <3>4 DEF NookTypeInv
  <2> QED
    BY <2>1, <2>2
<1>8. /\ \A n : LiveMessages(n)' = LiveMessages(n)
      /\ \A n : Guests(n)' = Guests(n)
      /\ \A m : HeartsOf(m)' = HeartsOf(m)
  <2>1. \A n : LiveMessages(n)' = LiveMessages(n)
    BY <1>0, <1>2, <1>7 DEF LiveMessages, RowIds, NookTypeInv
  <2> QED
    BY <1>3, <2>1 DEF Guests, HeartsOf
<1>9. NooksKept(k)
  BY <1>2, <1>3, <1>7, <1>8 DEF NooksKept, MembersKept, MessagesKept, HeartsKept
<1>a. NookRefsInv'
  <2>1. \A x \in MessageIds : messages[x] # None => messages[x].parent \in MessageIds \cup {None}
    BY <1>0 DEF NookTypeInv, MessageRow
  <2>2. \A h \in hearts : h[1] \in MessageIds
    BY <1>0 DEF NookTypeInv
  <2>3. \A x \in MessageIds : /\ messages'[x] # None <=> messages[x] # None
                              /\ messages[x] # None => /\ messages'[x].nook = messages[x].nook
                                                       /\ messages'[x].parent = messages[x].parent
    BY <1>7
  <2> QED
    BY <1>0, <1>3, <2>1, <2>2, <2>3 DEF NookRefsInv
<1>b. ASSUME nooksApart
      PROVE  /\ HeartsRight(k.on)' /\ messages[k.on] # None /\ messages[k.on].nook = k.nook
             /\ nooks[k.nook] # None
  <2>1. LikingHolds(k) /\ nooks[k.nook] # None
    BY <1>2, <1>b DEF NookCallHolds
  <2>2. PICK x \in Nat : x = Cardinality(HeartsOf(k.on))
    BY <1>0, NookSets
  <2>3. v = x
    <3>1. CASE k.liked
      <4>1. k.count = x + 1
        BY <1>1, <2>1, <2>2, <3>1 DEF LikingHolds
      <4> QED
        BY <1>6, <3>1, <4>1 DEF AtLeastZero
    <3>2. CASE ~k.liked
      <4>1. k.count + 1 = x
        BY <1>1, <2>1, <2>2, <3>2 DEF LikingHolds
      <4> QED
        BY <1>2, <1>6, <3>2, <4>1 DEF AtLeastZero
    <3> QED
      BY <3>1, <3>2
  <2> QED
    BY <1>2, <1>7, <1>8, <2>1, <2>2, <2>3, NooksAssumption DEF HeartsRight, LikingHolds
<1>c. /\ nooks' \in [NookIds -> NookRow \cup {None}]
      /\ memberships' \subseteq NookIds \X Members
      /\ hearts' \subseteq MessageIds \X Members
      /\ nooksApart' \in BOOLEAN
  BY <1>0, <1>3 DEF NookTypeInv
<1>d. /\ nooksApart' => \A d \in Calls \ {c} : ncalls[d] # None => ~Clash(ncalls[d], k)
      /\ nooksApart' => nooksApart
      /\ nooksApart' => nooks[k.nook] # None /\ k.about \notin {"members", "messages", "nook"}
      /\ nooksApart' => messages[k.on] # None /\ messages[k.on].nook = k.nook /\ HeartsRight(k.on)'
  BY <1>2, <1>3, <1>b
<1> QED
  BY <1>1, <1>4, <1>5, <1>7, <1>9, <1>a, <1>c, <1>d, NookGoesOn

----------------------------------------------------------------------------
(* The deletion of a nook, its creation, and what is done to it at once.   *)

LEMMA DeleteMessagesOK ==
  ASSUME NooksInv, NEW c \in Calls, DeleteMessages(c)
  PROVE  NooksInv'
<1>0. NookTypeInv /\ NookRefsInv
  BY DEF NooksInv
<1>1. PICK k \in NookCall : k = ncalls[c] /\ k # None /\ k.at = "deleteMessages"
  BY NookCaller DEF DeleteMessages, Waits
<1>2. /\ NookCallOK(k) /\ k.nook \in NookIds /\ k.about = "nook"
      /\ nooksApart => NookCallHolds(k)
      /\ nooksApart => \A d \in Calls \ {c} : ncalls[d] # None => ~Clash(ncalls[d], k)
  BY <1>1, NookCaller DEF NookCallOK, Removing
<1>3. UNCHANGED <<nooks, memberships, nooksApart>>
  BY DEF DeleteMessages, NGoes
<1>4. PICK b : b = [k EXCEPT !.at = "deleteNook"]
  OBVIOUS
<1>5. /\ b \in NookCall /\ b # None /\ b.at = "deleteNook" /\ b.about = k.about /\ b.nook = k.nook
      /\ b.on = k.on
  <2>1. "deleteNook" \in Joining \cup Writing \cup Liking \cup Removing
    BY DEF Removing
  <2> QED
    BY <1>4, <2>1, NookStage
<1>6. ncalls' = [ncalls EXCEPT ![c] = b] /\ ncalls'[c] = b /\ \A d \in Calls \ {c} : ncalls'[d] = ncalls[d]
  BY <1>0, <1>1, <1>4 DEF DeleteMessages, NGoes, NookTypeInv
<1>7. NookCallOK(b)
  BY <1>2, <1>5 DEF NookCallOK, Joining, Writing, Liking, Removing
<1>8. /\ messages' \in [MessageIds -> MessageRow \cup {None}]
      /\ \A m \in MessageIds :
           messages'[m] = IF messages[m] # None /\ messages[m].nook = k.nook THEN None ELSE messages[m]
      /\ \A h \in hearts : h \in hearts' <=> messages[h[1]].nook # k.nook
      /\ hearts' \subseteq hearts
  <2>1. PICK gone : gone = {m \in RowIds(messages) : messages[m].nook = k.nook}
    OBVIOUS
  <2>2. /\ messages' = [m \in MessageIds |-> IF m \in gone THEN None ELSE messages[m]]
        /\ hearts' = {h \in hearts : h[1] \notin gone}
    BY <1>1, <2>1 DEF DeleteMessages
  <2>3. \A m \in MessageIds : m \in gone <=> messages[m] # None /\ messages[m].nook = k.nook
    BY <1>0, <2>1 DEF RowIds, NookTypeInv
  <2>4. \A h \in hearts : h[1] \in MessageIds /\ messages[h[1]] # None
    BY <1>0 DEF NookTypeInv, NookRefsInv
  <2> QED
    BY <1>0, <2>2, <2>3, <2>4 DEF NookTypeInv
<1>9. hearts' \subseteq MessageIds \X Members
  BY <1>0, <1>8 DEF NookTypeInv
<1>a. NookRefsInv'
  <2>1. \A x \in MessageIds : messages[x] # None => messages[x].parent \in MessageIds \cup {None}
    BY <1>0 DEF NookTypeInv, MessageRow
  <2>2. \A h \in hearts : h[1] \in MessageIds /\ messages[h[1]] # None
    BY <1>0 DEF NookTypeInv, NookRefsInv
  <2>3. \A x \in MessageIds : messages'[x] # None =>
           messages[x] # None /\ messages'[x] = messages[x] /\ messages[x].nook # k.nook
    BY <1>8
  <2>4. \A x \in MessageIds : messages[x] # None /\ messages[x].nook # k.nook => messages'[x] = messages[x]
    BY <1>8
  <2>5. ASSUME NEW m \in MessageIds, messages'[m] # None
        PROVE  /\ messages'[m].nook # None => nooks'[messages'[m].nook] # None
               /\ messages'[m].parent # None =>
                    /\ messages'[messages'[m].parent] # None
                    /\ messages'[messages'[m].parent].nook = messages'[m].nook
    <3>1. messages'[m] = messages[m] /\ messages[m] # None /\ messages[m].nook # k.nook
      BY <2>3, <2>5
    <3>2. /\ messages[m].nook # None => nooks[messages[m].nook] # None
          /\ messages[m].parent # None =>
               /\ messages[m].parent \in MessageIds
               /\ messages[messages[m].parent] # None
               /\ messages[messages[m].parent].nook = messages[m].nook
      BY <1>0, <2>1, <3>1 DEF NookRefsInv
    <3> QED
      BY <1>3, <2>4, <3>1, <3>2
  <2>6. \A h \in hearts' : messages'[h[1]] # None
    BY <1>8, <2>2, <2>4
  <2>7. \A p \in memberships' : nooks'[p[1]] # None
    BY <1>0, <1>3 DEF NookRefsInv
  <2> QED
    BY <2>5, <2>6, <2>7 DEF NookRefsInv
<1>b. /\ \A n : n # k.nook => LiveMessages(n)' = LiveMessages(n)
      /\ \A n : Guests(n)' = Guests(n)
      /\ \A m \in MessageIds : messages[m].nook # k.nook => HeartsOf(m)' = HeartsOf(m)
  <2>1. \A n : n # k.nook => LiveMessages(n)' = LiveMessages(n)
    BY <1>0, <1>8 DEF LiveMessages, RowIds, NookTypeInv
  <2> QED
    BY <1>3, <1>8, <2>1 DEF Guests, HeartsOf
<1>c. NooksKept(k)
  BY <1>2, <1>3, <1>8, <1>b DEF NooksKept, MembersKept, MessagesKept, HeartsKept
<1>d. nooksApart => NookCallHolds(b)'
  BY <1>2, <1>3, <1>5, <1>8 DEF NookCallHolds, RemovingHolds
<1>e. ASSUME nooksApart, nooks'[k.nook] # None
      PROVE  MessagesRight(k.nook)' /\ MembersRight(k.nook)'
  <2>1. InNook(k.nook, {"countMessage", "readCount", "uncount", "deleteNook"})'
    BY <1>5, <1>6 DEF InNook
  <2>2. MembersRight(k.nook)
    BY <1>2, <1>3, <1>e DEF NooksInv, NooksApartInv
  <2>3. InNook(k.nook, {"countJoin"}) => InNook(k.nook, {"countJoin"})'
    <3> SUFFICES ASSUME NEW d \in Calls, ncalls[d] # None, ncalls[d].nook = k.nook, ncalls[d].at = "countJoin"
                 PROVE  InNook(k.nook, {"countJoin"})'
      BY DEF InNook
    <3> QED
      BY <1>1, <1>6 DEF InNook
  <2> QED
    BY <1>3, <1>b, <2>1, <2>2, <2>3 DEF MessagesRight, MembersRight
<1>f. /\ nooks' \in [NookIds -> NookRow \cup {None}]
      /\ memberships' \subseteq NookIds \X Members
      /\ nooksApart' \in BOOLEAN
  BY <1>0, <1>3 DEF NookTypeInv
<1>g. /\ nooksApart' => \A d \in Calls \ {c} : ncalls[d] # None => ~Clash(ncalls[d], k)
      /\ nooksApart' => nooksApart
      /\ NookCallOK(b) /\ b.about = k.about /\ b.nook = k.nook /\ b.on = k.on
      /\ k.about # "hearts"
  BY <1>2, <1>3, <1>5, <1>7
<1> QED
  BY <1>1, <1>5, <1>6, <1>8, <1>9, <1>a, <1>c, <1>d, <1>e, <1>f, <1>g, NookGoesOn

LEMMA DeleteNookOK ==
  ASSUME NooksInv, NEW c \in Calls, DeleteNook(c)
  PROVE  NooksInv'
<1>0. NookTypeInv /\ NookRefsInv
  BY DEF NooksInv
<1>1. PICK k \in NookCall : k = ncalls[c] /\ k # None /\ k.at = "deleteNook"
  BY NookCaller DEF DeleteNook, Waits
<1>2. /\ NookCallOK(k) /\ k.nook \in NookIds /\ k.about = "nook"
      /\ nooksApart => NookCallHolds(k)
      /\ nooksApart => \A d \in Calls \ {c} : ncalls[d] # None => ~Clash(ncalls[d], k)
  BY <1>1, NookCaller DEF NookCallOK, Removing
<1>3. UNCHANGED <<hearts, nooksApart>>
  BY DEF DeleteNook, NEnds
<1>4. PICK b \in NookCall \cup {None} : b = None
  OBVIOUS
<1>5. ncalls' = [ncalls EXCEPT ![c] = b]
  BY <1>4 DEF DeleteNook, NEnds
<1>6. /\ nooks' \in [NookIds -> NookRow \cup {None}] /\ nooks'[k.nook] = None
      /\ \A n \in NookIds : n # k.nook => nooks'[n] = nooks[n]
      /\ memberships' = {p \in memberships : p[1] # k.nook}
      /\ memberships' \subseteq NookIds \X Members
  BY <1>0, <1>1, <1>2 DEF DeleteNook, NookTypeInv
<1>7. ASSUME NEW m \in MessageIds
      PROVE  /\ messages'[m] \in MessageRow \cup {None}
             /\ messages'[m] # None <=> messages[m] # None
             /\ messages[m] # None =>
                  /\ messages'[m].parent = messages[m].parent
                  /\ messages'[m].nook = IF messages[m].nook = k.nook THEN None ELSE messages[m].nook
             /\ messages[m] # None /\ messages[m].nook # k.nook => messages'[m] = messages[m]
  <2>1. CASE messages[m] = None
    BY <1>1, <2>1 DEF DeleteNook
  <2>2. CASE messages[m] # None
    <3>1. PICK q \in MessageRow : q = messages[m]
      BY <1>0, <2>2 DEF NookTypeInv
    <3>2. PICK r : r = [q EXCEPT !.nook = None]
      OBVIOUS
    <3>3. r \in MessageRow /\ r.nook = None /\ r.parent = q.parent
      BY <3>2 DEF MessageRow
    <3>4. messages'[m] = IF q.nook = k.nook THEN r ELSE q
      BY <1>1, <2>2, <3>1, <3>2 DEF DeleteNook
    <3>5. r # None /\ q # None
      BY <3>1, <3>3, NooksAssumption
    <3> QED
      BY <3>1, <3>3, <3>4, <3>5
  <2> QED
    BY <2>1, <2>2
<1>8. messages' \in [MessageIds -> MessageRow \cup {None}]
  <2>1. messages' = [m \in MessageIds |-> messages'[m]]
    BY DEF DeleteNook
  <2> QED
    BY <1>7, <2>1
<1>9. NookRefsInv'
  <2>1. \A x \in MessageIds : messages[x] # None =>
           messages[x].parent \in MessageIds \cup {None} /\ messages[x].nook \in NookIds \cup {None}
    BY <1>0 DEF NookTypeInv, MessageRow
  <2>2. ASSUME NEW m \in MessageIds, messages'[m] # None
        PROVE  /\ messages'[m].nook # None => nooks'[messages'[m].nook] # None
               /\ messages'[m].parent # None =>
                    /\ messages'[messages'[m].parent] # None
                    /\ messages'[messages'[m].parent].nook = messages'[m].nook
    <3>1. messages[m] # None /\ messages'[m].parent = messages[m].parent
          /\ messages'[m].nook = IF messages[m].nook = k.nook THEN None ELSE messages[m].nook
      BY <1>7, <2>2
    <3>2. /\ messages[m].nook # None => nooks[messages[m].nook] # None /\ messages[m].nook \in NookIds
          /\ messages[m].parent # None =>
               /\ messages[m].parent \in MessageIds
               /\ messages[messages[m].parent] # None
               /\ messages[messages[m].parent].nook = messages[m].nook
      BY <1>0, <2>1, <3>1 DEF NookRefsInv
    <3>3. messages'[m].nook # None => nooks'[messages'[m].nook] # None
      BY <1>6, <3>1, <3>2
    <3>4. messages'[m].parent # None =>
             /\ messages'[messages'[m].parent] # None
             /\ messages'[messages'[m].parent].nook = messages'[m].nook
      BY <1>7, <3>1, <3>2
    <3> QED
      BY <3>3, <3>4
  <2>3. \A h \in hearts' : messages'[h[1]] # None
    BY <1>0, <1>3, <1>7 DEF NookTypeInv, NookRefsInv
  <2>4. \A p \in memberships' : nooks'[p[1]] # None
    BY <1>0, <1>6 DEF NookTypeInv, NookRefsInv
  <2> QED
    BY <2>2, <2>3, <2>4 DEF NookRefsInv
<1>a. nooksApart => NooksKept(k)
  <2> SUFFICES ASSUME nooksApart PROVE NooksKept(k)
    OBVIOUS
  <2>1. \A m \in MessageIds : messages[m] # None => messages[m].nook # k.nook
    BY <1>1, <1>2 DEF NookCallHolds, RemovingHolds
  <2>2. \A m \in MessageIds : messages'[m] = messages[m]
    BY <1>7, <2>1
  <2>3. /\ \A n : LiveMessages(n)' = LiveMessages(n)
        /\ \A m : HeartsOf(m)' = HeartsOf(m)
    BY <1>0, <1>3, <1>8, <2>2 DEF LiveMessages, HeartsOf, RowIds, NookTypeInv
  <2>4. \A n \in NookIds : n # k.nook => Guests(n)' = Guests(n)
    BY <1>6 DEF Guests
  <2> QED
    BY <1>2, <1>6, <2>1, <2>2, <2>3, <2>4 DEF NooksKept, MembersKept, MessagesKept, HeartsKept
<1>b. /\ hearts' \subseteq MessageIds \X Members
      /\ nooksApart' \in BOOLEAN
      /\ nooksApart' => \A d \in Calls \ {c} : ncalls[d] # None => ~Clash(ncalls[d], k)
      /\ nooksApart' => nooksApart
      /\ nooksApart' => NooksKept(k)
      /\ k.about # "hearts"
  BY <1>0, <1>2, <1>3, <1>a DEF NookTypeInv
<1> QED
  BY <1>1, <1>4, <1>5, <1>6, <1>8, <1>9, <1>b, NookGoesOn

LEMMA CreateNookOK ==
  ASSUME NooksInv, NEW c \in Calls, NEW u \in Members, CreateNook(c, u)
  PROVE  NooksInv'
<1>0. NookTypeInv /\ NookRefsInv
  BY DEF NooksInv
<1>1. PICK n \in NookIds :
        /\ UnusedNook(n)
        /\ nooks' = [nooks EXCEPT ![n] = [creator |-> u, phase |-> "open", locked |-> FALSE,
                                          members_count |-> 0, messages_count |-> 0]]
        /\ NStarts(c, NCall("autoJoin", "members", n, u))
  BY DEF CreateNook
<1>2. UNCHANGED <<memberships, messages, hearts>>
  BY DEF CreateNook
<1>3. PICK k : k = NCall("autoJoin", "members", n, u)
  OBVIOUS
<1>4. k \in NookCall /\ k.at = "autoJoin" /\ k.about = "members" /\ k.nook = n /\ k.user = u /\ k # None
  <2>1. "autoJoin" \in Joining \cup Writing \cup Liking \cup Removing
    BY DEF Joining
  <2>2. k \in NookCall /\ k.at = "autoJoin" /\ k.about = "members" /\ k.nook = n /\ k.user = u
    BY <1>3, <2>1, NookCallFields
  <2> QED
    BY <2>2, NooksAssumption
<1>5. PICK r : r = [creator |-> u, phase |-> "open", locked |-> FALSE,
                    members_count |-> 0, messages_count |-> 0]
  OBVIOUS
<1>6. r \in NookRow /\ r.creator = u /\ r.members_count = 0 /\ r.messages_count = 0
  BY <1>5 DEF NookRow
<1>7. /\ nooks[n] = None /\ r # None
      /\ nooks' \in [NookIds -> NookRow \cup {None}] /\ nooks'[n] = r
      /\ \A x \in NookIds : x # n => nooks'[x] = nooks[x]
  BY <1>0, <1>1, <1>5, <1>6, NooksAssumption DEF UnusedNook, NookTypeInv
<1>8. /\ ncalls[c] = None /\ ncalls' = [ncalls EXCEPT ![c] = k]
      /\ nooksApart' => nooksApart
      /\ nooksApart' => \A d \in Calls \ {c} : ncalls[d] # None => ~Clash(ncalls[d], k)
      /\ nooksApart' \in BOOLEAN
  BY <1>0, <1>1, <1>3 DEF NStarts, RowIds, NookTypeInv
<1>9. NookCallOK(k) /\ NookCallHolds(k)'
  BY <1>4, <1>6, <1>7 DEF NookCallOK, NookCallHolds, JoiningHolds, Joining, Writing, Liking, Removing
<1>a. NookRefsInv'
  <2>1. \A p \in memberships : p[1] \in NookIds
    BY <1>0 DEF NookTypeInv
  <2>2. \A m \in MessageIds : messages[m] # None => messages[m].nook \in NookIds \cup {None}
    BY <1>0 DEF NookTypeInv, MessageRow
  <2> QED
    BY <1>0, <1>2, <1>7, <2>1, <2>2 DEF NookRefsInv
<1>b. /\ \A x : LiveMessages(x)' = LiveMessages(x)
      /\ \A m : HeartsOf(m)' = HeartsOf(m)
      /\ \A x \in NookIds : x # n => Guests(x)' = Guests(x)
  BY <1>2, <1>7 DEF LiveMessages, HeartsOf, Guests, RowIds
<1>c. NooksKept(k)
  BY <1>2, <1>4, <1>7, <1>b DEF NooksKept, MembersKept, MessagesKept, HeartsKept
<1>d. LiveMessages(n) = {} /\ Guests(n)' = {}
  <2>1. \A m \in MessageIds : messages[m] # None => messages[m].nook # n
    BY <1>0, <1>7, NooksAssumption DEF NookRefsInv
  <2>2. \A p \in memberships : p[1] # n
    BY <1>0, <1>7 DEF NookRefsInv
  <2> QED
    BY <1>0, <1>2, <2>1, <2>2 DEF LiveMessages, Guests, RowIds, NookTypeInv
<1>e. MessagesRight(n)' /\ MembersRight(n)'
  <2>1. Cardinality(LiveMessages(n)') = 0 /\ Cardinality(Guests(n)') = 0
    BY <1>b, <1>d, FS_EmptySet
  <2> QED
    BY <1>6, <1>7, <2>1 DEF MessagesRight, MembersRight
<1>f. /\ memberships' \subseteq NookIds \X Members
      /\ messages' \in [MessageIds -> MessageRow \cup {None}]
      /\ hearts' \subseteq MessageIds \X Members
  BY <1>0, <1>2 DEF NookTypeInv
<1>g. PICK b \in NookCall \cup {None} : b = k
  BY <1>4
<1>h. /\ ncalls' = [ncalls EXCEPT ![c] = b]
      /\ b # None => NookCallOK(b) /\ b.about = k.about /\ b.nook = k.nook /\ b.on = k.on
      /\ nooksApart' /\ b # None => NookCallHolds(b)'
  <2>1. NookCallHolds(b)'
    BY <1>9, <1>g DEF NookCallHolds, JoiningHolds, WritingHolds, LikingHolds, RemovingHolds
  <2> QED
    BY <1>8, <1>9, <1>g, <2>1
<1> QED
  BY <1>4, <1>7, <1>8, <1>a, <1>c, <1>e, <1>f, <1>h, NookGoesOn

LEMMA RemoveMemberOK ==
  ASSUME NooksInv, NEW n \in NookIds, NEW u \in Members, RemoveMember(n, u)
  PROVE  NooksInv'
<1>0. NookTypeInv /\ NookRefsInv
  BY DEF NooksInv
<1>1. /\ UNCHANGED <<nooks, messages, hearts, ncalls>>
      /\ memberships' = memberships \ {<<n, u>>}
      /\ nooksApart' \in BOOLEAN
      /\ nooksApart' => nooksApart /\ \A d \in Calls : ncalls[d] # None /\ ncalls[d].about = "members" => ncalls[d].nook # n
  BY <1>0 DEF RemoveMember, RowIds, NookTypeInv
<1>2. NookTypeInv'
  BY <1>0, <1>1 DEF NookTypeInv
<1>3. NookRefsInv'
  BY <1>0, <1>1 DEF NookRefsInv
<1>4. /\ \A x : LiveMessages(x)' = LiveMessages(x)
      /\ \A m : HeartsOf(m)' = HeartsOf(m)
      /\ \A x : x # n => Guests(x)' = Guests(x)
      /\ Guests(n)' \subseteq Guests(n)
  BY <1>1 DEF LiveMessages, HeartsOf, Guests, RowIds
<1>5. ASSUME nooksApart' PROVE NooksApartInv'
  <2>0. NooksApartInv
    BY <1>1, <1>5 DEF NooksInv
  <2>1. ASSUME NEW d \in Calls, ncalls[d] # None PROVE NookCallHolds(ncalls[d])'
    <3>1. PICK l \in NookCall : l = ncalls[d]
      BY <1>0, <2>1 DEF NookTypeInv
    <3>2. NookCallHolds(l) /\ (l.about = "members" => l.nook # n)
      BY <1>1, <1>5, <2>0, <2>1, <3>1 DEF NooksApartInv
    <3>3. nooks'[l.nook] # None /\ nooks'[l.nook].creator = nooks[l.nook].creator
      BY <1>1, <3>2 DEF NookCallHolds
    <3>4. l.about = "members" => MembersKept(l.nook)
      BY <1>1, <1>4, <3>2 DEF MembersKept
    <3>5. MessagesKept(l.nook)
      BY <1>1, <1>4 DEF MessagesKept
    <3>6. l.about = "hearts" => HeartsKept(l.on)
      BY <1>1, <1>4, <3>2 DEF HeartsKept, NookCallHolds, LikingHolds
    <3>7. l.about = "nook" => \A m \in MessageIds : messages'[m] # None =>
             \/ messages[m] # None /\ messages'[m].nook = messages[m].nook
             \/ messages'[m].nook # l.nook
      BY <1>1
    <3>8. NookCallHolds(l)'
      BY <3>2, <3>3, <3>4, <3>5, <3>6, <3>7, StageKept
    <3> QED
      BY <1>1, <3>1, <3>8 DEF NookCallHolds, JoiningHolds, WritingHolds, LikingHolds, RemovingHolds
  <2>2. ASSUME NEW x \in NookIds, nooks[x] # None PROVE MessagesRight(x)' /\ MembersRight(x)'
    <3>1. MessagesRight(x) /\ MembersRight(x) /\ nooks[x].members_count \in Nat
      BY <1>0, <2>0, <2>2 DEF NooksApartInv, NookTypeInv, NookRow
    <3>2. \A S : InNook(x, S)' <=> InNook(x, S)
      BY <1>1 DEF InNook
    <3>3. Cardinality(Guests(x)') <= Cardinality(Guests(x)) /\ Cardinality(Guests(x)) \in Nat
          /\ Cardinality(Guests(x)') \in Nat
      BY <1>0, <1>2, <1>4, NookSets, FS_Subset, FS_CardinalityType
    <3>4. MembersRight(x)'
      <4>1. CASE nooks[x].members_count >= Cardinality(Guests(x))
        <5>1. nooks[x].members_count >= Cardinality(Guests(x)')
          BY <3>1, <3>3, <4>1
        <5> QED
          BY <1>1, <5>1 DEF MembersRight
      <4>2. CASE InNook(x, {"countJoin"})
        BY <3>2, <4>2 DEF MembersRight
      <4> QED
        BY <3>1, <4>1, <4>2 DEF MembersRight
    <3>5. MessagesRight(x)'
      BY <1>1, <1>4, <3>1, <3>2 DEF MessagesRight
    <3> QED
      BY <3>4, <3>5
  <2>3. ASSUME NEW m \in MessageIds, messages[m] # None PROVE HeartsRight(m)'
    BY <1>1, <1>4, <2>0, <2>3 DEF HeartsRight, OnMessage, NooksApartInv
  <2> QED
    BY <1>1, <2>0, <2>1, <2>2, <2>3 DEF NooksApartInv
<1> QED
  BY <1>1, <1>2, <1>3, <1>5 DEF NooksInv

LEMMA NookAbortOK ==
  ASSUME NooksInv, NEW c \in Calls, NookAbort(c)
  PROVE  NooksInv'
<1>1. ~nooksApart' /\ UNCHANGED <<nooks, memberships, messages, hearts>>
  BY DEF NookAbort
<1>2. ncalls' \in [Calls -> NookCall \cup {None}]
      /\ \A d \in Calls : ncalls'[d] # None => ncalls'[d] = ncalls[d]
  BY DEF NookAbort, NooksInv, NookTypeInv
<1>3. nooksApart' \in BOOLEAN
  BY DEF NookAbort
<1>4. NookTypeInv' /\ NookRefsInv'
  BY <1>1, <1>2, <1>3 DEF NooksInv, NookTypeInv, NookRefsInv
<1> QED
  BY <1>1, <1>2, <1>4 DEF NooksInv

(* A handler that goes on over an error: nothing is claimed any more.      *)
LEMMA NookMissesOK ==
  ASSUME NooksInv, NEW c \in Calls, MissMessagesCount(c) \/ MissMessages(c)
  PROVE  NooksInv'
<1>0. NookTypeInv /\ NookRefsInv
  BY DEF NooksInv
<1>1. PICK k \in NookCall : k = ncalls[c] /\ k # None
  BY NookCaller DEF MissMessagesCount, MissMessages, Waits
<1>2. NookCallOK(k)
  BY <1>1, NookCaller
<1>3. ~nooksApart' /\ nooksApart' \in BOOLEAN /\ UNCHANGED <<nooks, memberships, messages, hearts>>
  BY DEF MissMessagesCount, MissMessages
<1>4. PICK b \in NookCall : NookCallOK(b) /\ ncalls' = [ncalls EXCEPT ![c] = b]
  <2>1. CASE MissMessagesCount(c)
    <3>1. PICK b : b = [k EXCEPT !.at = "uncount", !.count = 0]
      OBVIOUS
    <3>2. /\ b \in NookCall /\ b.at = "uncount" /\ b.about = k.about /\ b.on = k.on
      BY <3>1 DEF NookCall
    <3>3. k.at = "readCount" /\ ncalls' = [ncalls EXCEPT ![c] = b]
      BY <1>1, <2>1, <3>1 DEF MissMessagesCount, Waits
    <3>4. NookCallOK(b)
      BY <1>2, <3>2, <3>3 DEF NookCallOK, Joining, Writing, Liking, Removing
    <3> QED
      BY <3>2, <3>3, <3>4
  <2>2. CASE MissMessages(c)
    <3>1. PICK b : b = [k EXCEPT !.at = "deleteNook"]
      OBVIOUS
    <3>2. /\ b \in NookCall /\ b.at = "deleteNook" /\ b.about = k.about /\ b.on = k.on
      BY <3>1 DEF NookCall
    <3>3. k.at = "deleteMessages" /\ ncalls' = [ncalls EXCEPT ![c] = b]
      BY <1>1, <2>2, <3>1 DEF MissMessages, Waits
    <3>4. NookCallOK(b)
      BY <1>2, <3>2, <3>3 DEF NookCallOK, Joining, Writing, Liking, Removing
    <3> QED
      BY <3>2, <3>3, <3>4
  <2> QED
    BY <2>1, <2>2
<1>5. ncalls' \in [Calls -> NookCall \cup {None}]
      /\ \A d \in Calls : ncalls'[d] # None => ncalls'[d] = ncalls[d] \/ ncalls'[d] = b
  BY <1>0, <1>4 DEF NookTypeInv
<1>6. NookTypeInv' /\ NookRefsInv'
  BY <1>0, <1>3, <1>5 DEF NookTypeInv, NookRefsInv
<1>7. \A d \in Calls : ncalls'[d] # None => NookCallOK(ncalls'[d])
  BY <1>4, <1>5 DEF NooksInv
<1> QED
  BY <1>3, <1>6, <1>7 DEF NooksInv

LEMMA NooksInitOK == NooksInit => NooksInv
<1> SUFFICES ASSUME NooksInit PROVE NooksInv
  OBVIOUS
<1>1. NookTypeInv /\ NookRefsInv
  BY DEF NooksInit, NookTypeInv, NookRefsInv
<1>2. NooksApartInv
  BY DEF NooksInit, NooksApartInv
<1> QED
  BY <1>1, <1>2 DEF NooksInv, NooksInit

LEMMA NooksNextOK == NooksInv /\ [NooksNext]_nookVars => NooksInv'
<1> SUFFICES ASSUME NooksInv, [NooksNext]_nookVars PROVE NooksInv'
  OBVIOUS
<1>1. CASE UNCHANGED nookVars
  <2>0. NookTypeInv
    BY DEF NooksInv
  <2>1. UNCHANGED <<nooks, memberships, messages, hearts, ncalls, nooksApart>>
    BY <1>1 DEF nookVars
  <2>2. /\ nooks' \in [NookIds -> NookRow \cup {None}]
        /\ \A n \in NookIds : nooks'[n] # None <=> nooks[n] # None
        /\ \A n \in NookIds : nooks[n] # None =>
             /\ nooks'[n].creator = nooks[n].creator
             /\ nooks'[n].members_count = nooks[n].members_count
             /\ nooks'[n].messages_count = nooks[n].messages_count
    BY <2>0, <2>1 DEF NookTypeInv
  <2>3. /\ ncalls' \in [Calls -> NookCall \cup {None}]
        /\ nooksApart' \in BOOLEAN /\ (nooksApart' => nooksApart)
        /\ \A d \in Calls : ncalls'[d] # None =>
             ncalls'[d] = ncalls[d] \/ (NookCallOK(ncalls'[d]) /\ (nooksApart' => NookCallHolds(ncalls'[d])))
        /\ \A d \in Calls : ncalls[d] # None => ncalls'[d] = ncalls[d]
    BY <2>0, <2>1 DEF NookTypeInv
  <2>4. nooksApart' => \A d, e \in Calls :
          d # e /\ ncalls'[d] # None /\ ncalls'[e] # None => ~Clash(ncalls'[d], ncalls'[e])
    BY <2>1 DEF NooksInv, NooksApartInv
  <2> QED
    BY <2>1, <2>2, <2>3, <2>4, NooksStay
<1>2. ASSUME NEW c \in Calls, NookStep(c) PROVE NooksInv'
  BY <1>2, NookReadsOK, NookCountsOK, MemberStepsOK, InsertMessageOK, NookSoftDeleteOK, WriteHeartOK,
     CountHeartOK, DeleteMessagesOK, DeleteNookOK, NookMissesOK DEF NookStep
<1>3. ASSUME NEW c \in Calls, NookAbort(c) PROVE NooksInv'
  BY <1>3, NookAbortOK
<1>4. ASSUME NEW c \in Calls, NEW u \in Members, NookStarts(c, u) PROVE NooksInv'
  BY <1>4, CreateNookOK, NookBeginsOK DEF NookStarts
<1>5. CASE (\E n \in NookIds : Expire(n) \/ LockNook(n)) \/ ArchiveExpiredNooks
  BY <1>5, NookWordsOK
<1>6. ASSUME NEW n \in NookIds, NEW u \in Members, RemoveMember(n, u) PROVE NooksInv'
  BY <1>6, RemoveMemberOK
<1> QED
  BY <1>1, <1>2, <1>3, <1>4, <1>5, <1>6 DEF NooksNext

(* For any users, nooks, messages and handlers: between handlers that kept *)
(* apart, of which none broke off or went on over an error that leaves its *)
(* trace, messages_count is the number of messages that are not deleted, a *)
(* reaction counter the number of its rows, members_count covers the       *)
(* guests, and no message has lost its nook.                               *)
THEOREM NookCountersExact == NooksSpec => []NookCountsAddUp
<1>1. NooksInv => NookCountsAddUp
  <2> SUFFICES ASSUME NooksInv, nooksApart, RowIds(ncalls) = {} PROVE
         /\ \A n \in RowIds(nooks) :
              /\ nooks[n].messages_count = Cardinality(LiveMessages(n))
              /\ nooks[n].members_count >=
                   Cardinality({p \in memberships : p[1] = n /\ p[2] # nooks[n].creator})
         /\ \A m \in RowIds(messages) :
              /\ messages[m].nook # None
              /\ messages[m].count = Cardinality({h \in hearts : h[1] = m})
    BY DEF NookCountsAddUp
  <2>1. NooksApartInv /\ NookTypeInv
    BY DEF NooksInv
  <2>2. \A c \in Calls : ncalls[c] = None
    BY <2>1 DEF RowIds, NookTypeInv
  <2>3. \A n, S : ~InNook(n, S)
    BY <2>2 DEF InNook
  <2>4. \A m : ~OnMessage(m)
    BY <2>2 DEF OnMessage
  <2>5. \A n \in RowIds(nooks) : n \in NookIds /\ nooks[n] # None
    BY <2>1 DEF RowIds, NookTypeInv
  <2>6. \A m \in RowIds(messages) : m \in MessageIds /\ messages[m] # None
    BY <2>1 DEF RowIds, NookTypeInv
  <2> QED
    BY <2>1, <2>3, <2>4, <2>5, <2>6 DEF NooksApartInv, MessagesRight, MembersRight, HeartsRight, Guests, HeartsOf
<1> QED
  BY <1>1, NooksInitOK, NooksNextOK, PTL DEF NooksSpec

=============================================================================
